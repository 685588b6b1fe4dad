SPECIFICATION MCSpec
CONSTANTS
    MaxIterations = 2
    MaxHistory = 4
    CompactThreshold = 4
    KeepRecent = 1
    EnableCompaction = TRUE
    MaxRetries = 2
    MaxTurns = 3
    AbortTurn = {u1, u2, u3}
    Aborter = {x1, x2}
    NoTurn = NoTurn
    Loop = {l1, l2}
    MaxOccurrence = 3
    RateMsg = {q1, q2, q3, q4}
    OtherSender = {q4}
    MaxPerMinute = 1
    Minute = 2
    IdleTtl = 1
    Delay = 1
    MaxTime = 6
    NoWindow = NoWindow
    Card = {k1}
    Filler = {f1}
    Trip = {r1, r2}
    Taker = {z1}
    NoHandle = NoHandle
INVARIANTS
    ResumesLastBatch
    OneBatchAtRisk
    PersistedMeansSaved
    RateBound
    UndisturbedRuns
    LoopSentOnce
    RevokedIsNotFilled
    PaidAndGivenOnce
PROPERTIES
    TurnsEnd
CHECK_DEADLOCK FALSE
