\* One thread uses the manager (IOManager with one worker): every
\* operation, Timer::refresh included, runs to completion before the next.
CONSTANTS
    c1 = c1
    c2 = c2
    Timers <- MCTimers
    Callers <- OneCaller
    Periods <- MCPeriods
    MaxTime <- MCMaxTime
    Hour <- MCHour
SPECIFICATION Spec
INVARIANT TypeOK
INVARIANT TimerSetIsLive
PROPERTY DrainFiresDue
PROPERTY AbstractTimerSpec
