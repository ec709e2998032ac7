CONSTANTS
    Keys = {p1, p2}
    Providers = {p1, p2}
    Requests = {r1, r2}
    NoProvider = NoProvider
    NoModel = NoModel
    Models <- MCModels
    StripSuffix <- MCStripSuffix
    Configs <- MCConfigs
    MaxRetries = 1
    MaxEdits = 0
    Threshold = 2
    Cooldown = 2
    MaxFailures = 2

SPECIFICATION Spec

INVARIANTS
    AnswersAccounted

PROPERTIES
    CircuitsFollowCalls
    KeepsBreakerContract
