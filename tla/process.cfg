SPECIFICATION FairSpec
CONSTANTS
    c1 = c1
    c2 = c2
    c3 = c3
    r1 = r1
    r2 = r2
    later = later
    loop = loop
    None = None
    Conns = {c1, c2, c3}
    Requests = {r1, r2}
    Laters = {later}
    Loops = {loop}
    SessionId <- Sids
    MaxMsgs = 2
    PoolSize = 2
    MaxWorkerLen = 1
    ReqCap = 1
    UdpCap = 1
    Setups <- All
INVARIANTS
    InOrder
    
PROPERTIES
    Served
    StopReached
