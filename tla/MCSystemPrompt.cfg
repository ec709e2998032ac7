CONSTANTS
    Texts <- MCTexts
    Absent = Absent
    Null = Null
    Models = {"opus", "gpt"}
    Requests <- MCRequests
    Documents <- MCDocuments
    Garbage = Garbage
    Streams <- MCStreams
    MaxRetries = 1

SPECIFICATION Spec

INVARIANTS
    SystemPromptKept

CHECK_DEADLOCK FALSE
