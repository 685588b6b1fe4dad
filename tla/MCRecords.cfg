SPECIFICATION MCSpec
VIEW MCView
CONSTANTS
    Turn = {t1, t2}
    Commander = {c1}
    Model = {m1}
    Goal = {g1}
    Budget = {0, 1}
    Hash = {Blank, h1}
    Limit = 1
    Repeats = 2
    MaxCount = 2
    MaxBegins = 1
    MaxTokens = 1
    NoGoal = NoGoal
    Blank = Blank
    s1 = s1
    b1 = b1
    Saver = {s1, b1}
    Background = {b1}
    MaxVersion = 2
    PersistRetries = 1
    Redacting = FALSE
INVARIANTS
    ContinuationsBounded
    HistoryKept
    WholeUnlessOverlap
    CacheNotBehind
    MemoryNotBehind
PROPERTIES
    CompleteIsFinal
CHECK_DEADLOCK FALSE
