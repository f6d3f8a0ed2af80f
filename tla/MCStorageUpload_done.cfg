SPECIFICATION Spec
CONSTANTS
    FullLength = 11
    ChunkSize = 5
    Granularity = 2
    Slack = 2
    MaxRetries = 2
    MaxStrays = 2
PROPERTIES AllReceivedIsDone
CHECK_DEADLOCK FALSE
