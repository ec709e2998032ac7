CONSTANTS
    Keys = {p1, p2}
    Callers = {c1, c2, c3}
    Threshold = 2
    Cooldown = 2
    MaxFailures = 4

SPECIFICATION FairSpec

INVARIANT OpenedByFailures

PROPERTIES
    NeverShutForever
    StragglersRunOut
    ImplementsContract
