--------------------------- MODULE AbstractTimers ---------------------------
(***************************************************************************)
(* What the timer heap promises (spec.md, Data Model "Timer" and 4.3),     *)
(* with no ordered set, no keys and no sentinel: a map from the live       *)
(* timers to their deadline, period and recurring flag, and an expiry step *)
(* that hands back the due timers.                                         *)
(*                                                                         *)
(*   - addTimer makes a timer live with deadline now + delay;              *)
(*   - cancel makes a live timer dead;                                     *)
(*   - refresh moves a live timer's deadline to now + period;              *)
(*   - reset gives a live timer a new period and a deadline counted from   *)
(*     now or from its previous start;                                     *)
(*   - listExpiredCb returns exactly the live timers whose deadline is     *)
(*     <= now, or, after a clock rollback, every live timer; one-shot      *)
(*     timers it returns die, recurring ones get deadline now + period.    *)
(*                                                                         *)
(* The wall clock moves either way.  TimerManager implements this module   *)
(* under the mapping in TimerManager!AbstractTimers.                       *)
(***************************************************************************)
EXTENDS Integers

CONSTANTS Timers, Periods, MaxTime

VARIABLES
    clock,      \* the wall clock
    live,       \* the timers whose callback is present
    deadline,   \* deadline[t]: absolute time t is due
    period,     \* period[t]: its interval
    repeat,     \* repeat[t]: it is recurring
    fired       \* the timers the last expiry handed back

avars == <<clock, live, deadline, period, repeat, fired>>

Init ==
    /\ clock = 0
    /\ live = {}
    /\ fired = {}
    /\ deadline \in [Timers -> Int]
    /\ period \in [Timers -> Periods]
    /\ repeat \in [Timers -> BOOLEAN]

Add(t, p, r) ==
    /\ t \notin live
    /\ live' = live \cup {t}
    /\ deadline' = [deadline EXCEPT ![t] = clock + p]
    /\ period' = [period EXCEPT ![t] = p]
    /\ repeat' = [repeat EXCEPT ![t] = r]
    /\ UNCHANGED <<clock, fired>>

Cancel(t) ==
    /\ t \in live
    /\ live' = live \ {t}
    /\ UNCHANGED <<clock, deadline, period, repeat, fired>>

Refresh(t) ==
    /\ t \in live
    /\ deadline' = [deadline EXCEPT ![t] = clock + period[t]]
    /\ UNCHANGED <<clock, live, period, repeat, fired>>

Reset(t, p, fromNow) ==
    /\ t \in live
    /\ LET start == IF fromNow THEN clock ELSE deadline[t] - period[t] IN
       deadline' = [deadline EXCEPT ![t] = start + p]
    /\ period' = [period EXCEPT ![t] = p]
    /\ UNCHANGED <<clock, live, repeat, fired>>

Due == {t \in live : deadline[t] <= clock}

(* The timers handed back are the due ones, or all live ones when the     *)
(* clock was set back; which of the two is not visible at this level.      *)
Expire ==
    \E s \in {Due, live} :
        /\ fired' = s
        /\ live' = live \ {t \in s : ~repeat[t]}
        /\ deadline' = [t \in Timers |->
                          IF t \in s /\ repeat[t] THEN clock + period[t]
                          ELSE deadline[t]]
        /\ UNCHANGED <<clock, period, repeat>>

SetClock ==
    /\ clock' \in 0..MaxTime
    /\ UNCHANGED <<live, deadline, period, repeat, fired>>

Next ==
    \/ \E t \in Timers, p \in Periods, r \in BOOLEAN : Add(t, p, r)
    \/ \E t \in Timers : Cancel(t) \/ Refresh(t)
    \/ \E t \in Timers, p \in Periods, f \in BOOLEAN : Reset(t, p, f)
    \/ Expire
    \/ SetClock

Spec == Init /\ [][Next]_avars
=============================================================================
