SPECIFICATION Spec
CONSTANTS
    c1 = c1
    c2 = c2
    d1 = d1
    None = None
    Calls <- TwoCalls
    Casts <- NoCasts
    Registered <- AllReqs
    MaxId = 3
    PoolSize = 2
    MaxWorkerLen = 1
    MaxGen = 0
INVARIANTS
    LateAnswerIsHarmless
