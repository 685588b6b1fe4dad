SPECIFICATION MCSpec
CONSTANTS
    Request = {r1, r2}
    Decider = {d1, d2, d3}
    Stranger = {d3}
    Listing = TRUE
    NoRequest = NoRequest
    MaxCalls = 3
    ToolKinds <- MCToolKinds
    RequireToolApproval = TRUE
    BridgeCaller = {p1, p2}
INVARIANTS
    OutcomeIsTheDecision
    NothingRunsOn
    OneReply
PROPERTIES
    PendingDrains
    StopsAtError
    BatchReturns
    CloseReleases
CHECK_DEADLOCK FALSE
