------------------------------- MODULE MCHook -------------------------------
(* Model-checking instances of Hook: one socket whose READ timeout is      *)
(* 2 ms or none (the clock is in ms, bounded at 5), or 1 ms with the clock *)
(* bounded at 2 when two fibers share the socket and a third may close it. *)
EXTENDS Hook, TLC

CONSTANTS f1, f2, iom

OneFiber == {f1}
TwoFibers == {f1, f2}
MCCallers == {iom}
MCNoTimeout == -1
MCTos == {MCNoTimeout, 2}
MCTimed == {2}
MCUntimed == {MCNoTimeout}
MCPeriods == {2}
MCMaxTime == 5
MCHour == 100
MCTimers2 == {1, 2}
MCTimers3 == {1, 2, 3}
MCTos1 == {MCNoTimeout, 1}
MCPeriods1 == {1}
MCMaxTime2 == 2
MCReads == {"read"}
MCKinds == {"read", "write"}
FiberSymmetry == Permutations(TwoFibers)
=============================================================================
