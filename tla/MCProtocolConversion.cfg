CONSTANTS
    Texts <- MCTexts
    Absent = Absent
    Null = Null
    Models = {"opus", "gpt"}
    Requests <- MCRequests
    Documents <- MCDocuments
    Garbage = Garbage
    Streams <- MCStreams
    MaxRetries = 1

SPECIFICATION Spec

INVARIANTS
    TypeOK
    TextsKept
    StreamsAgree
    AnswerKept
    StreamUsageReported

CHECK_DEADLOCK FALSE
