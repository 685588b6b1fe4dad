SPECIFICATION MCSpec
CONSTANTS
    Proc = {p1, p2, p3}
    Key = {k1, k2}
    Gate = {g1, g2, g3}
    NoGate = NoGate
    Reg = {n1, n2, n3}
    Permanent = {n1}
    Invoker = {i1, i2}
    NoReg = NoReg
INVARIANTS
    CountIsExact
    UnlockNeverBlocks
    QuietAfterClose
    EveryHandlerCalled
PROPERTIES
    ImplementsKeyedMutex
    WaitersServed
