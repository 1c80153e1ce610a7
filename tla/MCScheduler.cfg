\* Two workers; fiber bodies yield READY, return or throw, never block.
CONSTANTS
    t1 = t1
    t2 = t2
    Any = Any
    NoTid = NoTid
    Caller = Caller
    Threads <- TwoWorkers
    FiberIds <- MCFiberIds
    Work <- WorkTwo
    Budget = 1
    Parking = FALSE
SPECIFICATION Spec
INVARIANT TypeOK
INVARIANT CbFiberReuseSafe
INVARIANT ThreadIdsKnown
PROPERTY QueuedTaskDispatched
PROPERTY ReadyFiberResumes
PROPERTY AllWorkersExit
