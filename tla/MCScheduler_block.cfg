\* use_caller = true with one thread, IOManager's default: no worker
\* threads, and the caller runs every task inside stop(); fiber bodies also
\* block in a hook and are woken by another running fiber or callback.
CONSTANTS
    t1 = t1
    t2 = t2
    Any = Any
    NoTid = NoTid
    Caller <- MCCaller
    Threads <- OneWorker
    FiberIds <- MCFiberIds
    Work <- WorkOne
    Budget = 1
    Parking = TRUE
SPECIFICATION Spec
INVARIANT CbFiberReuseSafe
PROPERTY QueuedTaskDispatched
PROPERTY AllWorkersExit
