CONSTANTS
    Ctxs = {c1, c2, c3, c4}
    NoCtx = NoCtx
SPECIFICATION FairSpec
INVARIANTS
    MutexInv
    NoLostWakeup
PROPERTY
    HandOff
