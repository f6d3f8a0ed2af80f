SPECIFICATION FairSpec
CONSTANTS
    FullLength = 11
    ChunkSize = 5
    Granularity = 2
    Slack = 2
    MaxRetries = 2
    MaxStrays = 2
INVARIANTS TypeOK PrefixIsIntact CompletionIsDue
PROPERTIES CallIsKept OneChunkAfterCancel ToldInTheEnd
CHECK_DEADLOCK FALSE
