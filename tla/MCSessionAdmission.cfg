SPECIFICATION FairSpec
CONSTANTS
    Key = {k1, k2}
    Admitter = {a1, a2}
    Sweeper = {s1}
    Remover = {r1}
    MaxSessions = 1
    MaxMisses = 1
    Nobody = Nobody
    NoKey = NoKey
INVARIANTS
    CountDrift
    LimitUpToMisses
PROPERTIES
    AdmissionReturns
