\* One fiber: connect() and then two do_io reads on the socket, each with a
\* timeout of 2 ms or none (setsockopt may change it between calls); the
\* peer accepts or refuses the connection and sends.
CONSTANTS
    f1 = f1
    f2 = f2
    iom = iom
    NoFiber = NoFiber
    Fibers <- OneFiber
    Calls = 3
    Tos <- MCTos
    NoTimeout <- MCNoTimeout
    PeerSends = TRUE
    Closes = FALSE
    Kinds <- MCKinds
    Connects = TRUE
    Timers <- MCTimers2
    Callers <- MCCallers
    Periods <- MCPeriods
    MaxTime <- MCMaxTime
    Hour <- MCHour
SPECIFICATION Spec
INVARIANT TimeoutOnlyAfterDeadline
PROPERTY DoIoReturns
