\* Two fibers, one do_io call each on one socket, timeout 1 ms or none,
\* the clock bounded at 2; another fiber may close the socket meanwhile.
CONSTANTS
    f1 = f1
    f2 = f2
    iom = iom
    NoFiber = NoFiber
    Fibers <- TwoFibers
    Calls = 1
    Tos <- MCTos1
    NoTimeout <- MCNoTimeout
    PeerSends = TRUE
    Closes = TRUE
    Kinds <- MCKinds
    Connects = FALSE
    Timers <- MCTimers3
    Callers <- MCCallers
    Periods <- MCPeriods1
    MaxTime <- MCMaxTime2
    Hour <- MCHour
SPECIFICATION Spec
INVARIANT TimerReleased
SYMMETRY FiberSymmetry
