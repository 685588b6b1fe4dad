SPECIFICATION FairCallSpec
CONSTANTS
    Caller = {c1, c2, c3}
    Cancellable = {c1, c2, c3}
    Streamer = {s1}
    FailureThreshold = 2
    BaseCooldown = 2
    MaxCooldown = 6
    IntMax = 15
    ProbeCap = 3
    RetryCount = 1
    Fallbacks = 1
INVARIANTS
    SingleProbe
    ProbeUnderWay
PROPERTIES
    ProbesAgain
    RequestsReturn
    ProbeDecides
