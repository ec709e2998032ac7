CONSTANTS
    Names = {p1, p2}
    Adapters <- QuotaAdapters
    NoAdapter = NoAdapter
    NoInfo = NoInfo
    Pending = Pending
    MaxEdits = 2

SPECIFICATION FairSpec

PROPERTY RefreshedPeriodically

CHECK_DEADLOCK FALSE
