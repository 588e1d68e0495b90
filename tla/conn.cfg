\* Two clients of a server for one, an application goroutine that sends, stops and
\* drops at any moment, a queue of one, ids that start over.
SPECIFICATION FairSpec
CONSTANTS
    Conns = {c1, c2}
    Apps = {a1}
    MaxConn = 1
    MaxSid = 3
    SendCap = 1
    IsMaster = TRUE
    None = None
INVARIANTS
    TypeOK
    LostAtMostOnce
    NoChannelPanic
    
PROPERTIES
    StopReturns
    
CHECK_DEADLOCK FALSE
