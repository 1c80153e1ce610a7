-------------------------------- MODULE Hook --------------------------------
(***************************************************************************)
(* The blocking-I/O interception of src/src/hook.cpp: do_io (read, recv,  *)
(* accept, write, send ...) on a non-blocking socket, composed with the    *)
(* timer heap of TimerManager (an INSTANCE over the same variables) and    *)
(* with the IOManager's per-fd READ and WRITE slots.                       *)
(*                                                                         *)
(* Each fiber makes up to Calls calls of do_io on one shared socket, each  *)
(* a read (read, readv, recv, recvfrom, recvmsg: the READ event and        *)
(* SO_RCVTIMEO) or a write (write, writev, send, sendto, sendmsg: WRITE    *)
(* and SO_SNDTIMEO).  A call tries the syscall; on EAGAIN it arms a        *)
(* condition timer for the socket's timeout (addConditionTimer),           *)
(* registers the call's event with                                         *)
(* itself as the waiter (addEvent), yields HOLD, and when resumed cancels  *)
(* the timer and either reports ETIMEDOUT or retries from the top.         *)
(*                                                                         *)
(* The reactor (IOManager::idle) drains expired timers into scheduled      *)
(* callbacks and triggers the READ event when the socket is readable.  A   *)
(* timer callback runs later, as a task: if the call that armed it is      *)
(* still in progress and not yet cancelled, it records ETIMEDOUT and       *)
(* cancels the call's event, which wakes whoever is registered.  The peer  *)
(* makes the socket readable, and reads to free the send buffer, whenever  *)
(* it likes.                                                               *)
(*                                                                         *)
(* iomanager.cpp is not in the repository: addEvent, cancelEvent and       *)
(* triggerEvent are modelled from the spec (section 4.4).  The scheduler  *)
(* is abstracted: a woken fiber is resumed by some worker later.           *)
(***************************************************************************)
EXTENDS Integers, FiniteSets

CONSTANTS
    Fibers,      \* coroutines calling do_io on the socket
    Calls,       \* do_io calls each fiber makes, one after the other
    Tos,         \* values ctx->getTimeout(SO_RCVTIMEO) can have, in ms
    NoTimeout,   \* (uint64_t)-1
    NoFiber,     \* an empty EventContext
    PeerSends,   \* whether the peer is assumed to send eventually
    Closes,      \* whether another fiber may close() the socket
    Connects,    \* whether each fiber's first call is connect()
    Kinds,       \* the directions of the fibers' do_io calls
    Timers, Callers, Periods, MaxTime, Hour   \* of TimerManager

ASSUME /\ Calls \in Nat \ {0} /\ PeerSends \in BOOLEAN
       /\ Closes \in BOOLEAN /\ Connects \in BOOLEAN
       /\ NoFiber \notin Fibers
       /\ Tos \ {NoTimeout} \subseteq Periods /\ Periods \subseteq Nat
       /\ Periods # {}
       /\ Kinds \subseteq {"read", "write"} /\ Kinds # {}

VARIABLES
    \* TimerManager
    now, created, timers, next, ms, recurring, cb, previouseTime, cbs,
    refreshing,
    \* do_io
    pc,          \* "idle" (between calls), "io", "add", "yield", "hold"
    call,        \* number of the fiber's current (or last) do_io call
    cancelled,   \* tinfo->cancelled of the current call: 0 or ETIMEDOUT
    timerOf,     \* the timer armed in the current round, or 0
    owner,       \* owner[t]: <<fiber, call>> whose tinfo timer t watches
    result,      \* what the last call returned; "none" while one runs
    start,       \* the clock when the current call began
    to,          \* the socket's timeout when the current call began
    retAt,       \* the clock when the last call returned
    \* IOManager
    slot,        \* the fd's READ EventContext: the waiting fiber or NoFiber
    woken,       \* woken[f]: f has been scheduled by an event or a cancel
    pending,     \* timers whose callbacks listExpiredCb handed out, not yet run
    \* the socket
    readable,    \* data is waiting in the receive buffer
    sendFull,    \* the send buffer has no room
    fdState,     \* "open"; "cancelled": close() ran cancelAll and del but
                 \* not yet close_f; "closed"
    \* connect
    kind,        \* kind[f]: "read", "write" or "connect", the fiber's call
    wslot,       \* the fd's WRITE EventContext: the waiting fiber or NoFiber
    conn         \* the socket: "none", "inprogress", "connected", "refused"

tmVars == <<now, created, timers, next, ms, recurring, cb, previouseTime,
            cbs, refreshing>>
ioVars == <<pc, call, cancelled, timerOf, owner, result, start, to, retAt>>
iomVars == <<slot, woken, pending, readable, sendFull, fdState>>
connVars == <<kind, wslot, conn>>
vars == <<tmVars, ioVars, iomVars, connVars>>

TM == INSTANCE TimerManager

Iom == CHOOSE c \in Callers : TRUE
Results == {"none", "ok", "ETIMEDOUT", "EFAIL", "EBADF"}
ETIMEDOUT == 110   \* the errno value stored in timer_info::cancelled

TypeOK ==
    /\ pc \in [Fibers -> {"idle", "io", "add", "yield", "hold"}]
    /\ call \in [Fibers -> 0..Calls]
    /\ cancelled \in [Fibers -> {0, ETIMEDOUT}]
    /\ timerOf \in [Fibers -> Timers \cup {0}]
    /\ owner \in [Timers -> (Fibers \X (0..Calls)) \cup {<<NoFiber, 0>>}]
    /\ result \in [Fibers -> Results]
    /\ start \in [Fibers -> 0..MaxTime] /\ to \in [Fibers -> Tos]
    /\ retAt \in [Fibers -> 0..MaxTime]
    /\ slot \in Fibers \cup {NoFiber}
    /\ woken \in [Fibers -> BOOLEAN]
    /\ pending \subseteq Timers
    /\ readable \in BOOLEAN
    /\ fdState \in {"open", "cancelled", "closed"}
    /\ kind \in [Fibers -> {"read", "write", "connect"}]
    /\ sendFull \in BOOLEAN
    /\ wslot \in Fibers \cup {NoFiber}
    /\ conn \in {"none", "inprogress", "connected", "refused"}

Init ==
    /\ TM!Init
    /\ pc = [f \in Fibers |-> "idle"]
    /\ call = [f \in Fibers |-> 0]
    /\ cancelled = [f \in Fibers |-> 0]
    /\ timerOf = [f \in Fibers |-> 0]
    /\ owner = [t \in Timers |-> <<NoFiber, 0>>]
    /\ result = [f \in Fibers |-> "none"]
    /\ start = [f \in Fibers |-> 0] /\ to = [f \in Fibers |-> CHOOSE x \in Tos : TRUE]
    /\ retAt = [f \in Fibers |-> 0]
    /\ slot = NoFiber
    /\ woken = [f \in Fibers |-> FALSE]
    /\ pending = {}
    /\ readable = FALSE
    /\ sendFull = FALSE
    /\ fdState = "open"
    /\ kind = [f \in Fibers |-> "read"]
    /\ wslot = NoFiber
    /\ conn = IF Connects THEN "none" ELSE "connected"
-----------------------------------------------------------------------------
(* The do_io call of fiber f returns r (hook.cpp: return n / return -1).   *)
Return(f, r) ==
    /\ pc' = [pc EXCEPT ![f] = "idle"]
    /\ result' = [result EXCEPT ![f] = r]
    /\ retAt' = [retAt EXCEPT ![f] = now]

(* The socket is ready for a call of kind k: data in the receive buffer    *)
(* for a read; for a write, an established connection with room in the    *)
(* send buffer (a write on a connection still in progress is EAGAIN).     *)
Ready(k) == IF k = "read" THEN readable ELSE conn = "connected" /\ ~sendFull

(* A read that succeeds empties the receive buffer; a write may fill the   *)
(* send buffer.                                                            *)
Transfer(k) ==
    IF k = "read" THEN readable' = FALSE /\ UNCHANGED sendFull
    ELSE sendFull' \in BOOLEAN /\ UNCHANGED readable

(* timer->cancel() when the round armed a timer.                           *)
\* Mutant: the timer the round armed is never cancelled.
CancelTimerSkipped(f) == UNCHANGED tmVars

CancelTimer(f) ==
    IF timerOf[f] # 0 THEN TM!Cancel(Iom, timerOf[f]) ELSE UNCHANGED tmVars

(* A do_io call begins: the timeout is read from the FdCtx (whatever       *)
(* setsockopt last stored) and a fresh timer_info is made, shared by every *)
(* retry round of this call.                                               *)
Begin(f) ==
    /\ pc[f] = "idle"
    /\ call[f] < Calls
    /\ ~Connects \/ call[f] > 0
    /\ fdState = "open"
    /\ \E k \in Kinds : kind' = [kind EXCEPT ![f] = k]
    /\ call' = [call EXCEPT ![f] = @ + 1]
    /\ start' = [start EXCEPT ![f] = now]
    /\ \E x \in Tos : to' = [to EXCEPT ![f] = x]
    /\ cancelled' = [cancelled EXCEPT ![f] = 0]
    /\ result' = [result EXCEPT ![f] = "none"]
    /\ pc' = [pc EXCEPT ![f] = "io"]
    /\ UNCHANGED <<tmVars, timerOf, owner, retAt, iomVars, wslot, conn>>

(* A do_io call after close() found no FdCtx (FdMgr::get(fd) is null) and  *)
(* forwards the call: the kernel's non-blocking read or write succeeds or  *)
(* fails with EAGAIN while the fd is still open, EBADF once close_f ran.   *)
BeginForwarded(f) ==
    /\ pc[f] = "idle"
    /\ call[f] < Calls
    /\ ~Connects \/ call[f] > 0
    /\ fdState # "open"
    /\ call' = [call EXCEPT ![f] = @ + 1]
    /\ start' = [start EXCEPT ![f] = now]
    /\ \E k \in Kinds :
         /\ kind' = [kind EXCEPT ![f] = k]
         /\ IF fdState # "closed" /\ Ready(k)
              THEN Return(f, "ok") /\ Transfer(k)
              ELSE /\ Return(f, IF fdState = "closed" THEN "EBADF" ELSE "EFAIL")
                   /\ UNCHANGED <<readable, sendFull>>
    /\ UNCHANGED <<tmVars, cancelled, timerOf, owner, to, slot, woken, pending,
                   fdState, wslot, conn>>

(* addConditionTimer(to, cb, winfo): a one-shot timer of to ms that       *)
(* watches the call's timer_info.                                          *)
ArmTimer(f) ==
    \E t \in Timers :
        /\ TM!AddTimer(Iom, t, to[f], FALSE)
        /\ timerOf' = [timerOf EXCEPT ![f] = t]
        /\ owner' = [owner EXCEPT ![t] = <<f, call[f]>>]

(* retry: the syscall.  EBADF once close_f has run; otherwise the data    *)
(* moves, or EAGAIN: the round's timer is null and, when the socket has a   *)
(* timeout, addConditionTimer(to, ..., winfo) arms a one-shot timer        *)
(* watching this call's timer_info.  do_io holds its FdCtx::ptr, so a      *)
(* retry after close() does not look the fd up again.                      *)
Io(f) ==
    /\ pc[f] = "io"
    /\ \/ /\ fdState = "closed"
          /\ Return(f, "EBADF")
          /\ UNCHANGED <<tmVars, call, cancelled, timerOf, owner, start, to,
                         iomVars>>
       \/ /\ fdState # "closed"
          /\ conn = "refused"
          /\ Return(f, "EFAIL")
          /\ UNCHANGED <<tmVars, call, cancelled, timerOf, owner, start, to,
                         iomVars>>
       \/ /\ fdState # "closed"
          /\ Ready(kind[f])
          /\ Transfer(kind[f])
          /\ Return(f, "ok")
          /\ UNCHANGED <<tmVars, call, cancelled, timerOf, owner, start, to,
                         slot, woken, pending, fdState>>
       \/ /\ fdState # "closed" /\ conn # "refused"
          /\ ~Ready(kind[f])
          /\ to[f] = NoTimeout
          /\ timerOf' = [timerOf EXCEPT ![f] = 0]
          /\ pc' = [pc EXCEPT ![f] = "add"]
          /\ UNCHANGED <<tmVars, call, cancelled, owner, result, start, to, retAt,
                         iomVars>>
       \/ /\ fdState # "closed" /\ conn # "refused"
          /\ ~Ready(kind[f])
          /\ to[f] # NoTimeout
          /\ ArmTimer(f)
          /\ pc' = [pc EXCEPT ![f] = "add"]
          /\ UNCHANGED <<call, cancelled, result, start, to, retAt, iomVars>>
    /\ UNCHANGED connVars

(* IOManager::addEvent(fd, READ or WRITE) with the current fiber as the    *)
(* waiter: fails when the event is already registered on the fd (spec      *)
(* 4.4, 6) or when the kernel registration fails because the fd is closed. *)
AddEventOk(k) ==
    /\ (IF k = "read" THEN slot ELSE wslot) = NoFiber
    /\ fdState # "closed"

AddEvent(f) ==
    IF kind[f] = "read" THEN slot' = f /\ UNCHANGED wslot
    ELSE wslot' = f /\ UNCHANGED slot

(* iom->addEvent: on success yield next; on failure cancel the timer and   *)
(* return -1.                                                              *)
RegisterOrFail(f) ==
    /\ pc[f] = "add"
    /\ IF AddEventOk(kind[f])
         THEN /\ AddEvent(f)
              /\ pc' = [pc EXCEPT ![f] = "yield"]
              /\ UNCHANGED <<tmVars, result, retAt>>
         ELSE /\ CancelTimer(f)
              /\ Return(f, "EFAIL")
              /\ UNCHANGED <<slot, wslot>>
    /\ UNCHANGED <<call, cancelled, timerOf, owner, start, to, woken, pending,
                   readable, sendFull, fdState, kind, conn>>

(* Fiber::YieldToHold().                                                   *)
Yield(f) ==
    /\ pc[f] = "yield"
    /\ pc' = [pc EXCEPT ![f] = "hold"]
    /\ UNCHANGED <<tmVars, call, cancelled, timerOf, owner, result, start, to,
                   retAt, iomVars, connVars>>

(* if(tinfo->cancelled), read after the yield in do_io and in             *)
(* connect_with_timeout alike.                                             *)
TimedOut(f) == cancelled[f] # 0

(* Resumed: timer->cancel(); ETIMEDOUT when tinfo->cancelled, otherwise    *)
(* do_io goes to retry and connect_with_timeout to getsockopt(SO_ERROR).   *)
Resume(f) ==
    /\ pc[f] = "hold"
    /\ woken[f]
    /\ woken' = [woken EXCEPT ![f] = FALSE]
    /\ CancelTimer(f)
    /\ IF TimedOut(f)
         THEN Return(f, "ETIMEDOUT")
         ELSE /\ pc' = [pc EXCEPT ![f] = IF kind[f] = "connect" THEN "sockopt"
                                           ELSE "io"]
              /\ UNCHANGED <<result, retAt>>
    /\ UNCHANGED <<call, cancelled, timerOf, owner, start, to, slot, pending,
                   readable, sendFull, fdState>>
    /\ UNCHANGED connVars

(* connect() is connect_with_timeout(fd, ..., s_connect_timeout), the     *)
(* timeout being one of Tos.  It fails with EBADF once close() has deleted *)
(* the FdCtx.  connect_f either succeeds at once, or fails because an      *)
(* attempt is under way or done, or reports EINPROGRESS.  Then a fresh     *)
(* timer_info is made.                                                     *)
ConnBegin(f) ==
    /\ Connects
    /\ pc[f] = "idle"
    /\ call[f] = 0
    /\ call' = [call EXCEPT ![f] = 1]
    /\ kind' = [kind EXCEPT ![f] = "connect"]
    /\ start' = [start EXCEPT ![f] = now]
    /\ \E x \in Tos : to' = [to EXCEPT ![f] = x]
    /\ cancelled' = [cancelled EXCEPT ![f] = 0]
    /\ \/ /\ fdState # "open"
          /\ Return(f, "EBADF")
          /\ UNCHANGED conn
       \/ /\ fdState = "open" /\ conn # "none"
          /\ Return(f, "EFAIL")
          /\ UNCHANGED conn
       \/ /\ fdState = "open" /\ conn = "none"
          /\ conn' = "connected"
          /\ Return(f, "ok")
       \/ /\ fdState = "open" /\ conn = "none"
          /\ conn' = "inprogress"
          /\ pc' = [pc EXCEPT ![f] = "arm"]
          /\ result' = [result EXCEPT ![f] = "none"]
          /\ UNCHANGED retAt
    /\ UNCHANGED <<tmVars, timerOf, owner, iomVars, wslot>>

(* addConditionTimer(timeout_ms, ...) unless the timeout is (uint64_t)-1.  *)
ConnArm(f) ==
    /\ pc[f] = "arm"
    /\ IF to[f] = NoTimeout
         THEN /\ timerOf' = [timerOf EXCEPT ![f] = 0]
              /\ UNCHANGED <<tmVars, owner>>
         ELSE ArmTimer(f)
    /\ pc' = [pc EXCEPT ![f] = "wadd"]
    /\ UNCHANGED <<call, cancelled, result, start, to, retAt, iomVars, connVars>>

(* addEvent(fd, WRITE): on success yield; on failure cancel the timer and *)
(* fall through to getsockopt.                                             *)
ConnRegister(f) ==
    /\ pc[f] = "wadd"
    /\ IF AddEventOk("write")
         THEN /\ wslot' = f
              /\ pc' = [pc EXCEPT ![f] = "yield"]
              /\ UNCHANGED tmVars
         ELSE /\ CancelTimer(f)
              /\ pc' = [pc EXCEPT ![f] = "sockopt"]
              /\ UNCHANGED wslot
    /\ UNCHANGED <<call, cancelled, timerOf, owner, result, start, to, retAt,
                   iomVars, kind, conn>>

(* getsockopt(SO_ERROR): -1 on a closed fd; the refusal; otherwise 0, also *)
(* while the connection is still in progress, and connect returns 0.      *)
SoError == IF conn = "refused" THEN "EFAIL" ELSE "ok"

Sockopt(f) ==
    /\ pc[f] = "sockopt"
    /\ Return(f, IF fdState = "closed" THEN "EBADF" ELSE SoError)
    /\ UNCHANGED <<tmVars, call, cancelled, timerOf, owner, start, to,
                   iomVars, connVars>>
-----------------------------------------------------------------------------
(* IOManager::FdContext::triggerEvent(READ) and cancelEvent(fd, READ):     *)
(* clear the slot and schedule the waiting fiber (spec 4.4: cancelEvent    *)
(* fires the event once before clearing it).                               *)
\* Mutant: the event is cleared but its fiber is not scheduled.
TriggerEventDropsWaiter ==
    /\ slot # NoFiber
    /\ UNCHANGED woken
    /\ slot' = NoFiber

TriggerEvent ==
    /\ slot # NoFiber
    /\ woken' = [woken EXCEPT ![slot] = TRUE]
    /\ slot' = NoFiber

CancelEvent == IF slot # NoFiber THEN TriggerEvent ELSE UNCHANGED <<slot, woken>>

(* The same for the WRITE event a write or connect_with_timeout waits for. *)
TriggerWrite ==
    /\ wslot # NoFiber
    /\ woken' = [woken EXCEPT ![wslot] = TRUE]
    /\ wslot' = NoFiber

CancelWrite == IF wslot # NoFiber THEN TriggerWrite ELSE UNCHANGED <<wslot, woken>>

(* IOManager::cancelAll(fd): both events fire and both slots clear.        *)
CancelAll ==
    /\ woken' = [g \in Fibers |-> woken[g] \/ g \in {slot, wslot}]
    /\ slot' = NoFiber
    /\ wslot' = NoFiber

(* IOManager::idle, epoll part: the socket is readable (data, or the error *)
(* of a refused connection) and READ is registered, so the event is        *)
(* removed and its fiber scheduled.                                        *)
ReadReady ==
    /\ readable \/ conn = "refused"
    /\ fdState # "closed"
    /\ TriggerEvent
    /\ UNCHANGED <<tmVars, ioVars, pending, readable, sendFull, fdState, wslot,
                   kind, conn>>

(* IOManager::idle, epoll part: the socket is writable (the connection is  *)
(* up with room in the send buffer) or the attempt was refused, so the     *)
(* WRITE waiter is scheduled.                                              *)
WriteReady ==
    /\ conn = "refused" \/ Ready("write")
    /\ fdState # "closed"
    /\ TriggerWrite
    /\ UNCHANGED <<tmVars, ioVars, slot, pending, readable, sendFull, fdState,
                   kind, conn>>

(* IOManager::idle, timer part: listExpiredCb, and schedule(cbs).          *)
DrainTimers ==
    /\ TM!ListExpiredCb(Iom)
    /\ pending' = pending \cup cbs'
    /\ UNCHANGED <<ioVars, slot, woken, readable, sendFull, fdState, connVars>>

(* OnTimer: weak_cond.lock() succeeds while the do_io call that armed the  *)
(* timer has not returned (its timer_info is alive).                       *)
\* Mutant: timer_info kept per fiber rather than per call, so a late
\* callback of an earlier call still finds it alive.
TimerInfoAliveAnyCall(t) == pc[owner[t][1]] # "idle"

TimerInfoAlive(t) ==
    LET f == owner[t][1] IN call[f] = owner[t][2] /\ pc[f] # "idle"

(* The condition timer's callback, run as a task: if timer_info is alive   *)
(* and not yet cancelled, set cancelled = ETIMEDOUT and cancelEvent(fd,    *)
(* READ), or cancelEvent(fd, WRITE) for a write's or connect's timer.      *)
RunTimerCb(t) ==
    LET f == owner[t][1] IN
    /\ t \in pending
    /\ pending' = pending \ {t}
    /\ IF TimerInfoAlive(t) /\ cancelled[f] = 0
         THEN /\ cancelled' = [cancelled EXCEPT ![f] = ETIMEDOUT]
              /\ IF kind[f] = "read" THEN CancelEvent /\ UNCHANGED wslot
                 ELSE CancelWrite /\ UNCHANGED slot
         ELSE UNCHANGED <<cancelled, slot, wslot, woken>>
    /\ UNCHANGED <<tmVars, pc, call, timerOf, owner, result, start, to, retAt,
                   readable, sendFull, fdState, kind, conn>>

(* The peer sends: the socket becomes readable.                            *)
Send ==
    /\ ~readable
    /\ conn = "connected"
    /\ fdState # "closed"
    /\ readable' = TRUE
    /\ UNCHANGED <<tmVars, ioVars, slot, woken, pending, sendFull, fdState,
                   connVars>>

(* The peer reads: the send buffer has room again.                        *)
Drain ==
    /\ sendFull
    /\ fdState # "closed"
    /\ sendFull' = FALSE
    /\ UNCHANGED <<tmVars, ioVars, slot, woken, pending, readable, fdState,
                   connVars>>

(* The peer accepts or refuses a connection attempt under way.            *)
Respond ==
    /\ conn = "inprogress"
    /\ fdState # "closed"
    /\ conn' \in {"connected", "refused"}
    /\ UNCHANGED <<tmVars, ioVars, slot, woken, pending, readable, sendFull,
                   fdState, kind, wslot>>

(* close(fd) by another fiber (hook.cpp close): the FdCtx exists, so       *)
(* cancelAll(fd) fires the registered event and FdMgr::del(fd) drops the   *)
(* entry; then close_f(fd).  Between the two a woken fiber may already run *)
(* on another worker.                                                      *)
CloseCancel ==
    /\ Closes
    /\ fdState = "open"
    /\ CancelAll
    /\ fdState' = "cancelled"
    /\ UNCHANGED <<tmVars, ioVars, pending, readable, sendFull, kind, conn>>

(* close_f(fd): the kernel drops the fd from the epoll set; no event on it *)
(* is ever reported again.                                                 *)
CloseF ==
    /\ fdState = "cancelled"
    /\ fdState' = "closed"
    /\ UNCHANGED <<tmVars, ioVars, slot, woken, pending, readable, sendFull,
                   connVars>>

Tick ==
    /\ TM!Tick
    /\ UNCHANGED <<ioVars, iomVars, connVars>>

-----------------------------------------------------------------------------
Fiber(f) ==
    \/ Io(f) \/ RegisterOrFail(f) \/ Yield(f) \/ Resume(f)
    \/ ConnArm(f) \/ ConnRegister(f) \/ Sockopt(f)

Reactor ==
    \/ ReadReady \/ WriteReady \/ DrainTimers
    \/ \E t \in Timers : RunTimerCb(t)

Next ==
    \/ \E f \in Fibers : Begin(f) \/ BeginForwarded(f) \/ ConnBegin(f) \/ Fiber(f)
    \/ Reactor
    \/ Send \/ Drain \/ Respond
    \/ CloseCancel \/ CloseF
    \/ Tick

(* Workers run every scheduled fiber and task, the reactor keeps polling,  *)
(* and the clock advances; close() runs to its end (close_f) without a    *)
(* suspension point.  Whether the peer ever sends, and answers a connect,  *)
(* is a parameter.                                                         *)
Fairness ==
    /\ \A f \in Fibers : WF_vars(Fiber(f))
    /\ WF_vars(ReadReady) /\ WF_vars(WriteReady) /\ WF_vars(DrainTimers)
    /\ \A t \in Timers : WF_vars(RunTimerCb(t))
    /\ WF_vars(Tick)
    /\ WF_vars(CloseF)
    /\ PeerSends => WF_vars(Send) /\ WF_vars(Drain) /\ WF_vars(Respond)

Spec == Init /\ [][Next]_vars /\ Fairness

-----------------------------------------------------------------------------
(* A do_io call reports ETIMEDOUT only if the socket had a timeout when   *)
(* the call began, and only once that timeout has elapsed (spec 4.5,       *)
(* 7(d)).  Threatened by the callback of a timer from an earlier call or   *)
(* an earlier retry round that listExpiredCb handed out before             *)
(* timer->cancel() could stop it: it would time out a call with no         *)
(* timeout, or one whose own deadline is still ahead.                      *)
TimeoutOnlyAfterDeadline ==
    \A f \in Fibers :
        result[f] = "ETIMEDOUT" => /\ to[f] # NoTimeout
                                   /\ retAt[f] >= start[f] + to[f]

(* Every do_io call returns when the peer eventually sends: a fiber parked *)
(* in YieldToHold is always woken by the event or by its timeout.          *)
DoIoReturns == \A f \in Fibers : pc[f] # "idle" ~> pc[f] = "idle"

(* Once the timeout callback has recorded ETIMEDOUT for a call, the call   *)
(* returns, whether or not the peer ever sends (spec 4.5: the timer        *)
(* cancels the reactor event; scenario: connect times out, "not hung").    *)
TimeoutReturns ==
    \A f \in Fibers : cancelled[f] # 0 ~> pc[f] = "idle"

(* No do_io call leaves a live timer behind: a timer whose callback is     *)
(* still set belongs to the call of its fiber that is still in progress.   *)
(* Threatened by the addEvent failure path (another fiber already waits    *)
(* for READ, or close_f ran first), which must timer->cancel() before it   *)
(* returns -1; a leaked timer keeps IOManager::stopping() false until it   *)
(* fires.                                                                  *)
TimerReleased ==
    \A t \in created :
        cb[t] => /\ pc[owner[t][1]] # "idle"
                 /\ call[owner[t][1]] = owner[t][2]

====
