SPECIFICATION LiveSpec
CONSTANTS
    n1 = n1
    w1 = w1
    w2 = w2
    l1 = l1
    N = 2
    Nonces = {n1}
    Works = {w1, w2}
    Levels = {l1}
    ZeroWork = w1
    ZeroLevel = l1
    None = None
    MaxCalls = 3
INVARIANTS
    TypeOK
    NoThreadOutlivesItsRun
    RunEndsWithItsOwnHit
PROPERTIES
    ImplementsMiningRun
    FoundEndsRun
CHECK_DEADLOCK FALSE
