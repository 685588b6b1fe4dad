SPECIFICATION Spec
CONSTANTS
    MaxIterations = 2
    MaxHistory = 4
    CompactThreshold = 4
    KeepRecent = 1
    EnableCompaction = TRUE
    MaxRetries = 2
    MaxTurns = 3
INVARIANT FailuresReported
