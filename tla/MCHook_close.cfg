\* One fiber, one do_io call on a socket with no timeout; the peer sends
\* and another fiber closes the socket.
CONSTANTS
    f1 = f1
    f2 = f2
    iom = iom
    NoFiber = NoFiber
    Fibers <- OneFiber
    Calls = 1
    Tos <- MCUntimed
    NoTimeout <- MCNoTimeout
    PeerSends = TRUE
    Closes = TRUE
    Kinds <- MCReads
    Connects = FALSE
    Timers <- MCTimers2
    Callers <- MCCallers
    Periods <- MCPeriods
    MaxTime <- MCMaxTime
    Hour <- MCHour
SPECIFICATION Spec
PROPERTY DoIoReturns
