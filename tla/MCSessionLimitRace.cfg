SPECIFICATION Spec
CONSTANTS
    Key = {k1, k2, k3}
    Admitter = {a1}
    Sweeper = {s1}
    Remover = {r1}
    MaxSessions = 2
    MaxMisses = 1
    Nobody = Nobody
    NoKey = NoKey
SYMMETRY Symmetry
INVARIANT SessionLimit
