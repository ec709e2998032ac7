CONSTANTS
    Admins = {a1, a2}
    Names = {p1, p2}
    Models = {m1}
    Versions = {v1, v2}
    NoRow = NoRow
    Unknown = Unknown
    MaxCalls = 3
    MaxRestarts = 1

SPECIFICATION Spec

SYMMETRY Interchangeable

INVARIANTS
    TypeOK
    AckedIsDurable
    RoutesMatchAtRest

PROPERTIES
    ImplementsCatalog

CHECK_DEADLOCK FALSE
