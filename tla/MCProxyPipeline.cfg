CONSTANTS
    Keys = {p1, p2}
    Providers = {p1, p2}
    Requests = {r1}
    NoProvider = NoProvider
    NoModel = NoModel
    Models <- MCModels
    StripSuffix <- MCStripSuffix
    Configs <- MCConfigs
    MaxRetries = 2
    MaxEdits = 2
    Threshold = 2
    Cooldown = 1
    MaxFailures = 3

SPECIFICATION FairSpec

INVARIANTS
    TypeOK
    CallsMatchTarget
    ReplyFromLastAttempt
    NoCallAfterAnswer
    CallsBounded
    AnswersInClientFormat

PROPERTIES
    EveryRequestEnds
    RequestsDescend
