\* Two calls, one to a target the callee does not know, and a cast over two
\* connections, one after the other, and a queue of one task.
SPECIFICATION FairSpec
CONSTANTS
    c1 = c1
    c2 = c2
    d1 = d1
    None = None
    Calls <- TwoCalls
    Casts <- OneCast
    Registered <- KnownButC2
    MaxId = 1
    PoolSize = 2
    MaxWorkerLen = 1
    MaxGen = 1
INVARIANTS
    TypeOK
    OwnAnswer
    NoStrandedResult
    AnswerDeliverable
    ExecutionOrder
PROPERTIES
    KeepsPromise
    CallReturns
    RequestServed
