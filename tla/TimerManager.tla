---------------------------- MODULE TimerManager ----------------------------
(***************************************************************************)
(* The timer heap of src/src/timer.cpp: TimerManager::m_timers, an ordered *)
(* set of Timer objects keyed by (m_next, address), and the operations     *)
(* addTimer, Timer::cancel, Timer::refresh, Timer::reset, listExpiredCb    *)
(* and getNextTimer, together with the wall clock GetCurrentMS() that can  *)
(* move forward or be set backward.                                        *)
(*                                                                         *)
(* Every operation except Timer::refresh runs under the manager's write    *)
(* lock and is one atomic step.  Timer::refresh takes no lock: it is split *)
(* into its erase step and its insert step, and the callers (threads)      *)
(* interleave between them.                                                *)
(***************************************************************************)
EXTENDS Integers, FiniteSets

CONSTANTS
    Timers,      \* timer objects; the integer is the object's address
    Callers,     \* threads calling into the manager
    Periods,     \* values of the m_ms interval a timer may be given
    MaxTime,     \* bound on the wall clock
    Hour         \* the rollover threshold 60 * 60 * 1000, scaled down

ASSUME /\ Timers \subseteq Nat \ {0}
       /\ Periods \subseteq Nat
       /\ MaxTime \in Nat /\ Hour \in Nat

VARIABLES
    now,            \* GetCurrentMS()
    created,        \* timers constructed so far
    timers,         \* m_timers: set of entries <<m_next at insertion, address>>
    next,           \* m_next
    ms,             \* m_ms
    recurring,      \* m_recurring
    cb,             \* m_cb is non-null
    previouseTime,  \* m_previouseTime
    cbs,            \* the timers whose callbacks the last listExpiredCb returned
    refreshing      \* refreshing[c]: timer whose refresh caller c is inside, or 0

vars == <<now, created, timers, next, ms, recurring, cb, previouseTime,
          cbs, refreshing>>

Deadlines == 0..(MaxTime + (IF Periods = {} THEN 0 ELSE
                             CHOOSE p \in Periods : \A q \in Periods : q <= p))
Entry(t) == <<next[t], t>>

\* std::set::find under Timer::Comparator: the entry must carry the
\* timer's current m_next, or the lookup misses it.
Found(t) == Entry(t) \in timers

InSet(t) == \E e \in timers : e[2] = t

\* Timer::Comparator: order by m_next, then by address.
Less(a, b) == a[1] < b[1] \/ (a[1] = b[1] /\ a[2] < b[2])

IsBegin(e) == e \in timers /\ \A f \in timers : f = e \/ Less(e, f)

Idle(c) == refreshing[c] = 0

TypeOK ==
    /\ now \in 0..MaxTime
    /\ created \subseteq Timers
    /\ timers \subseteq Deadlines \X Timers
    /\ next \in [Timers -> Deadlines]
    /\ ms \in [Timers -> Periods]
    /\ recurring \in [Timers -> BOOLEAN]
    /\ cb \in [Timers -> BOOLEAN]
    /\ previouseTime \in 0..MaxTime
    /\ cbs \subseteq Timers
    /\ refreshing \in [Callers -> Timers \cup {0}]

Init ==
    /\ now = 0
    /\ created = {}
    /\ timers = {}
    /\ next = [t \in Timers |-> 0]
    /\ ms = [t \in Timers |-> CHOOSE p \in Periods : TRUE]
    /\ recurring = [t \in Timers |-> FALSE]
    /\ cb = [t \in Timers |-> FALSE]
    /\ previouseTime = now          \* TimerManager::TimerManager()
    /\ cbs = {}
    /\ refreshing = [c \in Callers |-> 0]

-----------------------------------------------------------------------------
(* TimerManager::addTimer(ms, cb, recurring): the Timer constructor sets   *)
(* m_next = now + ms, then the timer is inserted under the write lock.     *)
(* onTimerInsertedAtFront() only wakes the reactor; it changes no state of *)
(* the timer heap.                                                         *)
AddTimer(c, t, p, r) ==
    /\ Idle(c)
    /\ t \notin created
    /\ created' = created \cup {t}
    /\ next' = [next EXCEPT ![t] = now + p]
    /\ ms' = [ms EXCEPT ![t] = p]
    /\ recurring' = [recurring EXCEPT ![t] = r]
    /\ cb' = [cb EXCEPT ![t] = TRUE]
    /\ timers' = timers \cup {<<now + p, t>>}
    /\ UNCHANGED <<now, previouseTime, cbs, refreshing>>

(* Timer::cancel(): under the write lock, if m_cb is set clear it and      *)
(* erase the entry find() returns.  erase(end()) when find() misses is     *)
(* undefined; it is modelled as erasing nothing.                           *)
\* Mutant: m_cb is cleared but the entry is left in m_timers.
CancelKeepsEntry(c, t) ==
    /\ Idle(c)
    /\ t \in created
    /\ cb' = [cb EXCEPT ![t] = FALSE]
    /\ UNCHANGED <<timers, now, created, next, ms, recurring, previouseTime,
                   cbs, refreshing>>

Cancel(c, t) ==
    /\ Idle(c)
    /\ t \in created
    /\ IF cb[t]
         THEN /\ cb' = [cb EXCEPT ![t] = FALSE]
              /\ timers' = timers \ {Entry(t)}
         ELSE UNCHANGED <<cb, timers>>
    /\ UNCHANGED <<now, created, next, ms, recurring, previouseTime, cbs,
                   refreshing>>

(* Timer::refresh(), first half, without the lock: return false when m_cb  *)
(* is null or find() misses, otherwise erase the entry.                    *)
RefreshErase(c, t) ==
    /\ Idle(c)
    /\ t \in created
    /\ cb[t]
    /\ Found(t)
    /\ timers' = timers \ {Entry(t)}
    /\ refreshing' = [refreshing EXCEPT ![c] = t]
    /\ UNCHANGED <<now, created, next, ms, recurring, cb, previouseTime,
                   cbs>>

(* Timer::refresh(), second half: m_next = now + m_ms and insert.          *)
RefreshInsert(c) ==
    LET t == refreshing[c] IN
    /\ t # 0
    /\ next' = [next EXCEPT ![t] = now + ms[t]]
    /\ timers' = timers \cup {<<now + ms[t], t>>}
    /\ refreshing' = [refreshing EXCEPT ![c] = 0]
    /\ UNCHANGED <<now, created, ms, recurring, cb, previouseTime, cbs>>

(* Timer::reset(ms, from_now): unchanged when the interval is the same and *)
(* from_now is false; otherwise under the write lock find the entry        *)
(* (return false when missing), erase it, recompute m_next from now or     *)
(* from the previous start, and re-insert through addTimer.                *)
ResetStart(t, fromNow) == IF fromNow THEN now ELSE next[t] - ms[t]

Reset(c, t, p, fromNow) ==
    /\ Idle(c)
    /\ t \in created
    /\ ~(p = ms[t] /\ ~fromNow)
    /\ Found(t)
    /\ ResetStart(t, fromNow) + p \in Deadlines
    /\ ms' = [ms EXCEPT ![t] = p]
    /\ next' = [next EXCEPT ![t] = ResetStart(t, fromNow) + p]
    /\ timers' = (timers \ {Entry(t)}) \cup {<<ResetStart(t, fromNow) + p, t>>}
    /\ UNCHANGED <<now, created, recurring, cb, previouseTime, cbs,
                   refreshing>>

(* TimerManager::detectClockRollover(now_ms): a backward jump of more than *)
(* an hour relative to m_previouseTime.                                    *)
ClockRollover(nowMs) == nowMs < previouseTime /\ nowMs < previouseTime - Hour

(* listExpiredCb: the entries before the iterator.  Without rollover the   *)
(* iterator is lower_bound of a sentinel Timer(now_ms) whose address is    *)
(* anywhere among the timers' (pos), advanced past every entry whose       *)
(* m_next equals now_ms; with rollover it is end().                        *)
BeforeSentinel(e, nowMs, pos) == e[1] < nowMs \/ (e[1] = nowMs /\ e[2] <= pos)

\* Mutant: no while loop past the entries whose m_next equals now_ms.
ExpiredEntriesNoSkip(nowMs, pos, rollover) ==
    IF rollover THEN timers
    ELSE {e \in timers : BeforeSentinel(e, nowMs, pos)}

ExpiredEntries(nowMs, pos, rollover) ==
    IF rollover THEN timers
    ELSE {e \in timers : BeforeSentinel(e, nowMs, pos) \/ e[1] = nowMs}

\* Mutant: a recurring timer re-armed from its deadline, not from now_ms.
RearmFromDeadline(t) == next[t] + ms[t]

(* The deadline a recurring timer gets when it fires: now_ms + m_ms.       *)
Rearm(t) == now + ms[t]

(* TimerManager::listExpiredCb(cbs).  Returns early when the set is empty, *)
(* before detectClockRollover updates m_previouseTime, and (after it)      *)
(* when there is no rollover and the first timer is not due.  Otherwise the*)
(* expired entries are erased and their callbacks returned; recurring      *)
(* timers are re-inserted at now_ms + m_ms, one-shot timers lose m_cb.     *)
ListExpiredCb(c) ==
    /\ Idle(c)
    /\ IF timers = {}
         THEN /\ cbs' = {}
              /\ UNCHANGED <<timers, next, cb, previouseTime>>
         ELSE LET rollover == ClockRollover(now) IN
              /\ previouseTime' = now
              /\ IF ~rollover /\ \A e \in timers : e[1] > now
                   THEN /\ cbs' = {}
                        /\ UNCHANGED <<timers, next, cb>>
                   ELSE \E pos \in 0..Cardinality(Timers) :
                        LET expired == ExpiredEntries(now, pos, rollover)
                            ids == {e[2] : e \in expired}
                            again == {t \in ids : recurring[t]}
                        IN /\ cbs' = ids
                           /\ next' = [t \in Timers |->
                                         IF t \in again THEN Rearm(t) ELSE next[t]]
                           /\ cb' = [t \in Timers |->
                                       IF t \in ids \ again THEN FALSE ELSE cb[t]]
                           /\ timers' = (timers \ expired)
                                          \cup {<<Rearm(t), t>> : t \in again}
    /\ UNCHANGED <<now, created, ms, recurring, refreshing>>

(* TimerManager::getNextTimer(): ~0ull when empty, 0 when the first timer  *)
(* is due, otherwise the distance to it.  Read-only.                       *)
NoTimer == -1
GetNextTimer ==
    IF timers = {} THEN NoTimer
    ELSE LET first == CHOOSE e \in timers : IsBegin(e) IN
         IF now >= first[1] THEN 0 ELSE first[1] - now

(* GetCurrentMS() is gettimeofday: it advances, and it can be set back.    *)
Tick ==
    /\ now < MaxTime
    /\ now' = now + 1
    /\ UNCHANGED <<created, timers, next, ms, recurring, cb, previouseTime,
                   cbs, refreshing>>

ClockBack ==
    /\ \E v \in 0..(now - 1) : now' = v
    /\ UNCHANGED <<created, timers, next, ms, recurring, cb, previouseTime,
                   cbs, refreshing>>

Next ==
    \/ \E c \in Callers :
          \/ \E t \in Timers, p \in Periods, r \in BOOLEAN : AddTimer(c, t, p, r)
          \/ \E t \in Timers : Cancel(c, t)
          \/ \E t \in Timers : RefreshErase(c, t)
          \/ RefreshInsert(c)
          \/ \E t \in Timers, p \in Periods, f \in BOOLEAN : Reset(c, t, p, f)
          \/ ListExpiredCb(c)
    \/ Tick
    \/ ClockBack

Spec == Init /\ [][Next]_vars

DrainStep == \E c \in Callers : ListExpiredCb(c)

-----------------------------------------------------------------------------
(* The timer set holds exactly the live timers (spec, Data Model: a timer  *)
(* is in the set iff its callback is present), each under its current     *)
(* m_next so that find() reaches it.  A timer whose refresh is between its *)
(* erase and its insert is exempt while that refresh is in progress.       *)
TimerSetIsLive ==
    /\ \A t \in created \ {refreshing[c] : c \in Callers} : InSet(t) <=> cb[t]
    /\ \A e \in timers : e[1] = next[e[2]]

(* listExpiredCb returns the callbacks of exactly the timers due at now_ms *)
(* (all timers after a detected clock rollover), whatever the sentinel's   *)
(* address is relative to timers that share the deadline now_ms.           *)
DueIds ==
    IF ClockRollover(now) THEN {e[2] : e \in timers}
    ELSE {e[2] : e \in {f \in timers : f[1] <= now}}

DrainFiresDue == [][DrainStep => cbs' = DueIds]_vars

(* Refinement: the ordered set keyed by (m_next, address), its find() by  *)
(* the current m_next, the lower_bound sentinel and the skip loop of       *)
(* listExpiredCb, and the re-insert of recurring timers together behave    *)
(* as the map of live timers of AbstractTimers.  A timer is live when its  *)
(* m_cb is set; its deadline, period and flag are m_next, m_ms and         *)
(* m_recurring; the last callbacks are those listExpiredCb returned.       *)
(* The erase half of Timer::refresh is a stuttering step: the timer stays  *)
(* live with its old deadline until the insert half moves it.              *)
Abstract == INSTANCE AbstractTimers
    WITH clock <- now, live <- {t \in created : cb[t]}, deadline <- next,
         period <- ms, repeat <- recurring, fired <- cbs

AbstractTimerSpec == Abstract!Spec
=============================================================================
