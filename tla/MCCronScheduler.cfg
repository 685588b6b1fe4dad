SPECIFICATION MCSpec
CONSTANTS
    Job <- Jobs
    Name <- Markers
    Unnamed = "unnamed"
    NameOf <- Names
    Ticker = {t1}
    Starter = {b1}
    Consumer = {c1}
    Capacity = 1
    Completing = FALSE
    NoJob = NoJob
    Client = {a1}
    Conn = {n1, n2}
    Calling = {n1}
    NoConn = NoConn
    NoUser = NoUser
INVARIANTS
    ExclusiveDispatch
    NoConnForgotten
PROPERTIES
    MarkersClear
    DisconnectsReturn
