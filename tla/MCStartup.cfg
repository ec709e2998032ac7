CONSTANTS
    b1 = b1
    b2 = b2
    own = own
    encoded = encoded
    Names <- MCNames
    Builtins <- MCBuiltins
    Segment <- MCSegment
    Admins = {a1, a2}
    Bodies = {original, edited}
    Original = original
    NoPreset = NoPreset
    Unknown = Unknown
    MaxCalls = 4
    Providers = {p1, p2}
    Seeds = {s1, s2}
    Secrets = {t1, t2}
    NoToken = NoToken
    MaxStarts = 3

SPECIFICATION Spec

SYMMETRY Interchangeable

INVARIANTS
    TypeOK
    KnownPresetsStay
    OneSeedReadsAll
    ServesGivenTokens

CHECK_DEADLOCK FALSE
