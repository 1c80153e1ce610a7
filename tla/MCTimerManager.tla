--------------------------- MODULE MCTimerManager ---------------------------
(* Model-checking instance of TimerManager: two timer objects at addresses *)
(* 1 and 2, intervals 1 and 2 ms, a wall clock up to 4 and a rollover      *)
(* threshold of 1, so that equal deadlines, recurring re-arming, resets    *)
(* and backward jumps both under and over the threshold all occur.         *)
EXTENDS TimerManager

CONSTANTS c1, c2

MCTimers == {1, 2}
MCPeriods == {1, 2}
MCMaxTime == 4
MCHour == 1
OneCaller == {c1}
TwoCallers == {c1, c2}
=============================================================================
