\* Two workers; fiber bodies block in a hook and are woken by another
\* running fiber or callback.
CONSTANTS
    t1 = t1
    t2 = t2
    Any = Any
    NoTid = NoTid
    Caller = Caller
    Threads <- TwoWorkers
    FiberIds <- MCFiberIds
    Work <- WorkTwo
    Budget = 1
    Parking = TRUE
SPECIFICATION Spec
INVARIANT NoDoubleRun
