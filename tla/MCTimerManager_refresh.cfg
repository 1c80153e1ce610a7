\* Two threads use the manager; Timer::refresh runs without the lock.
CONSTANTS
    c1 = c1
    c2 = c2
    Timers <- MCTimers
    Callers <- TwoCallers
    Periods <- MCPeriods
    MaxTime <- MCMaxTime
    Hour <- MCHour
SPECIFICATION Spec
INVARIANT TimerSetIsLive
