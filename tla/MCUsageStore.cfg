CONSTANTS
    p1 = p1
    p2 = p2
    Tasks = {t1, t2}
    Providers <- MCProviders
    price <- MCPrice
    Counters <- MCCounters
    Usages <- MCUsages
    Times <- MCTimes
    Half = 8
    NoRecord = NoRecord
    MaxRecords = 2

SPECIFICATION Spec

SYMMETRY Interchangeable

INVARIANTS
    TypeOK
    QueriesFaithful
    StatsAddUp
