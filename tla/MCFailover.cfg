CONSTANTS
    Keys = {p1, p2}
    Providers = {p1, p2}
    Requests = {r1}
    NoProvider = NoProvider
    NoModel = NoModel
    Models <- MCModels
    StripSuffix <- MCStripSuffix
    Configs <- OpenAiOnly
    MaxRetries = 2
    MaxEdits = 0
    Threshold = 2
    Cooldown = 1
    MaxFailures = 3

SPECIFICATION Spec

INVARIANTS
    FailoverMovesOn
