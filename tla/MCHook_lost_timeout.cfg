\* One fiber, 2 ms timeout, and a peer that may never send.
CONSTANTS
    f1 = f1
    f2 = f2
    iom = iom
    NoFiber = NoFiber
    Fibers <- OneFiber
    Calls = 2
    Tos <- MCTimed
    NoTimeout <- MCNoTimeout
    PeerSends = FALSE
    Closes = FALSE
    Kinds <- MCReads
    Connects = FALSE
    Timers <- MCTimers2
    Callers <- MCCallers
    Periods <- MCPeriods
    MaxTime <- MCMaxTime
    Hour <- MCHour
SPECIFICATION Spec
PROPERTY TimeoutReturns
