SPECIFICATION FairSpec
CONSTANTS
    Request = {r1}
    Decider = {d1, d3}
    Stranger = {d3}
    Listing = TRUE
    NoRequest = NoRequest
PROPERTY WaitEnds
CHECK_DEADLOCK FALSE
