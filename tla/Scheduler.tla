------------------------------ MODULE Scheduler ------------------------------
(***************************************************************************)
(* The M:N task scheduler of src/src/scheduler.cpp with the coroutine      *)
(* state machine of src/src/fiber.cpp it drives.  Worker threads run       *)
(* Scheduler::run: take the first runnable Task of m_fibers under the      *)
(* mutex, swap into its fiber (or into the thread's reusable cb_fiber for  *)
(* a callback), and on return re-enqueue READY fibers, park the others as  *)
(* HOLD, or run the idle fiber when nothing is runnable.  The main thread  *)
(* runs start() (constructing the Thread objects under m_mutex, see the    *)
(* Thread module), schedule() and stop(); with use_caller it is also a     *)
(* worker, whose root fiber runs Scheduler::run inside stop().             *)
(*                                                                         *)
(* A fiber body is a bounded sequence of the steps application code takes  *)
(* inside a fiber: YieldToReady, blocking (register a waiter, then         *)
(* YieldToHold, as the hooks do), scheduling a blocked fiber again, and    *)
(* returning or throwing.  Fiber::YieldTo* sets m_state before swapOut     *)
(* saves the context: the two are separate steps.                          *)
(***************************************************************************)
EXTENDS Integers, Sequences, FiniteSets
LOCAL SE == INSTANCE SequencesExt

CONSTANTS
    Threads,      \* worker threads
    Any,          \* Task::thread == -1
    FiberIds,     \* Fiber objects that can exist
    Work,         \* what main() schedules: sequence of [kind, thread]
    Budget,       \* bound on the yields one fiber body makes
    Parking,      \* whether fiber bodies block and get woken
    NoTid,        \* Thread::m_id before Thread::run sets it (-1)
    Caller        \* with use_caller = true the constructing thread, which is
                  \* then one of Threads; otherwise a value outside Threads

ASSUME /\ Any \notin Threads
       /\ Budget \in Nat
       /\ Parking \in BOOLEAN
       /\ \A i \in DOMAIN Work : Work[i].kind \in {"fiber", "cb"}
                                 /\ Work[i].thread \in Threads \cup {Any}

CbIds == {i \in DOMAIN Work : Work[i].kind = "cb"}

States == {"NONE", "INIT", "EXEC", "READY", "HOLD", "TERM", "EXCEPT"}
Done == {"TERM", "EXCEPT"}

Task == [fiber : FiberIds \cup {0}, cb : CbIds \cup {0},
         thread : Threads \cup {Any}]
NoTask == [fiber |-> 0, cb |-> 0, thread |-> Any]

VARIABLES
    fibers,            \* m_fibers: the pending Task list
    state,             \* Fiber::m_state ("NONE": not constructed)
    saved,             \* the fiber's m_ctx holds a context it can resume from
    budget,            \* yields left in the fiber's body
    parked,            \* fibers registered to be woken (blocked in a hook)
    pc,                \* where each worker is in Scheduler::run
    task,              \* run()'s local Task
    cur,               \* the fiber a worker has swapped into, or 0
    cbFiber,           \* run()'s local cb_fiber, or 0
    idleTerm,          \* the worker's idle_fiber reached TERM
    activeThreadCount, \* m_activeThreadCount
    stopping,          \* m_stopping
    autoStop,          \* m_autoStop
    mainPc,            \* the main thread: "start", "schedule", "stop", "join", "done"
    scheduled,         \* how many Work items main has scheduled
    running,           \* running[f]: the threads executing on f's stack
    tstate, tid, sem, handle, mutex,  \* the workers' Thread objects and m_mutex
    threadIds,         \* m_threadIds
    rootState          \* m_rootFiber's m_state, "NONE" without a root fiber

vars == <<fibers, state, saved, budget, parked, pc, task, cur, cbFiber,
          idleTerm, activeThreadCount, stopping, autoStop, mainPc,
          scheduled, running, tstate, tid, sem, handle, mutex, threadIds,
          rootState>>

Th == INSTANCE Thread

UseCaller == Caller \in Threads

(* Scheduler::Scheduler(threads, use_caller): with use_caller the calling  *)
(* thread counts as one of the threads (--threads), gets the root fiber    *)
(* m_rootFiber = Fiber(run, 0, true) in INIT, and is m_threadIds[0].       *)
RootIds == IF UseCaller THEN <<Caller>> ELSE <<>>
RootFiber == IF UseCaller THEN "INIT" ELSE "NONE"

(* m_threads: the m_threadCount Thread objects, in the order start()       *)
(* creates them.                                                           *)
ThreadOrder == SE!SetToSeq(Threads \ {Caller})

PcValues == {"none", "loop", "dispatch", "idle", "body", "block", "swapout",
             "return", "post", "exit"}

TypeOK ==
    /\ fibers \in Seq(Task)
    /\ state \in [FiberIds -> States]
    /\ saved \in [FiberIds -> BOOLEAN]
    /\ budget \in [FiberIds -> 0..Budget]
    /\ parked \subseteq FiberIds
    /\ pc \in [Threads -> PcValues]
    /\ task \in [Threads -> Task]
    /\ cur \in [Threads -> FiberIds \cup {0}]
    /\ cbFiber \in [Threads -> FiberIds \cup {0}]
    /\ idleTerm \in [Threads -> BOOLEAN]
    /\ activeThreadCount \in 0..Cardinality(Threads)
    /\ stopping \in BOOLEAN /\ autoStop \in BOOLEAN
    /\ mainPc \in {"start", "create", "ctor", "unlock", "schedule", "stop",
                  "call", "caller", "join", "done"}
    /\ scheduled \in 0..Len(Work)
    /\ running \in [FiberIds -> SUBSET Threads]
    /\ Th!TypeOK
    /\ threadIds \in Seq(Threads \cup {NoTid})
    /\ rootState \in {"NONE", "INIT", "EXEC", "TERM"}

Init ==
    /\ fibers = <<>>
    /\ state = [f \in FiberIds |-> "NONE"]
    /\ saved = [f \in FiberIds |-> FALSE]
    /\ budget = [f \in FiberIds |-> 0]
    /\ parked = {}
    /\ pc = [t \in Threads |-> "none"]
    /\ task = [t \in Threads |-> NoTask]
    /\ cur = [t \in Threads |-> 0]
    /\ cbFiber = [t \in Threads |-> 0]
    /\ idleTerm = [t \in Threads |-> FALSE]
    /\ activeThreadCount = 0
    /\ stopping = FALSE /\ autoStop = FALSE
    /\ mainPc = "start"
    /\ scheduled = 0
    /\ running = [f \in FiberIds |-> {}]
    /\ Th!Init
    /\ threadIds = RootIds
    /\ rootState = RootFiber

-----------------------------------------------------------------------------
(* Fiber::Fiber(cb): a new fiber, INIT, with a context made by makecontext *)
FreeFibers == {f \in FiberIds : state[f] = "NONE"}

(* Scheduler::stopping() *)
Stopping == autoStop /\ stopping /\ fibers = <<>> /\ activeThreadCount = 0

(* scheduleNoLock: build a Task from exec and push it unless it holds      *)
(* neither a fiber nor a callback.                                          *)
ScheduleNoLock(tk) ==
    fibers' = IF tk.fiber # 0 \/ tk.cb # 0 THEN Append(fibers, tk) ELSE fibers

(* schedule(exec, thread): scheduleNoLock under m_mutex; the base tickle() *)
(* only logs.                                                              *)
Schedule(tk) == ScheduleNoLock(tk)

(* The Task-selection test of run(): the task's thread matches, and it is  *)
(* not a fiber that is still EXEC.                                         *)
\* Mutant: the thread filter forgets that -1 means any thread.
RunnableOwnThreadOnly(tk, t) ==
    /\ tk.thread = t
    /\ ~(tk.fiber # 0 /\ state[tk.fiber] = "EXEC")

Runnable(tk, t) ==
    /\ tk.thread \in {Any, t}
    /\ ~(tk.fiber # 0 /\ state[tk.fiber] = "EXEC")

FirstRunnable(t) == SE!SelectInSeq(fibers, LAMBDA tk : Runnable(tk, t))

(* Fiber::swapIn(): m_state = EXEC and switch onto the fiber's stack,      *)
(* resuming from whatever m_ctx holds.                                     *)
SwapIn(t, f) ==
    /\ state' = [state EXCEPT ![f] = "EXEC"]
    /\ saved' = [saved EXCEPT ![f] = FALSE]
    /\ running' = [running EXCEPT ![f] = @ \cup {t}]
    /\ cur' = [cur EXCEPT ![t] = f]

(* Fiber::reset(cb): the fiber gets the new callback and a fresh context,  *)
(* so its body starts again from the top.                                  *)
Reset(f) == budget' = [budget EXCEPT ![f] = Budget]

-----------------------------------------------------------------------------
(* Scheduler::start(), use_caller = false: MutexType::Lock on m_mutex,     *)
(* return at once when stop() already set m_stopping, else construct the  *)
(* m_threadCount Threads one at a time, each running Scheduler::run, and   *)
(* push each one's getId() as its constructor returns.  The lock is held   *)
(* until start() returns.                                                  *)
Start ==
    /\ mainPc = "start"
    /\ Th!Lock("main")
    /\ mainPc' = IF stopping \/ ThreadOrder = <<>> THEN "unlock" ELSE "create"
    /\ UNCHANGED <<fibers, state, saved, budget, parked, pc, task, cur, cbFiber,
                   idleTerm, activeThreadCount, stopping, autoStop,
                   scheduled, running, threadIds, rootState>>

(* The Thread under construction is m_threads[i], i = m_threadIds.size().  *)
Constructing == ThreadOrder[Len(threadIds) - Len(RootIds) + 1]

(* new Thread(...): pthread_create.                                        *)
CreateThread ==
    /\ mainPc = "create"
    /\ Th!Create(Constructing)
    /\ mainPc' = "ctor"
    /\ UNCHANGED <<fibers, state, saved, budget, parked, pc, task, cur, cbFiber,
                   idleTerm, activeThreadCount, stopping, autoStop,
                   scheduled, running, threadIds, rootState>>

(* The constructor's m_semaphore.wait() returns; m_threadIds.push_back(    *)
(* m_threads[i]->getId()).                                                 *)
CtorReturn ==
    /\ mainPc = "ctor"
    /\ Th!Wait(Constructing)
    /\ threadIds' = Append(threadIds, tid[Constructing])
    /\ mainPc' = IF Len(threadIds) + 1 = Len(RootIds) + Len(ThreadOrder)
                    THEN "unlock" ELSE "create"
    /\ UNCHANGED <<fibers, state, saved, budget, parked, pc, task, cur, cbFiber,
                   idleTerm, activeThreadCount, stopping, autoStop,
                   scheduled, running, rootState>>

(* start() returns: the scoped lock's destructor unlocks m_mutex.          *)
StartUnlock ==
    /\ mainPc = "unlock"
    /\ Th!Unlock("main")
    /\ mainPc' = IF Work = <<>> THEN "stop" ELSE "schedule"
    /\ UNCHANGED <<fibers, state, saved, budget, parked, pc, task, cur, cbFiber,
                   idleTerm, activeThreadCount, stopping, autoStop,
                   scheduled, running, threadIds, rootState>>

(* Thread::run on the new worker, up to the notify; its cb is              *)
(* Scheduler::run, which enters its loop.                                  *)
ThreadRun(t) ==
    /\ pc[t] = "none"
    /\ Th!Run(t)
    /\ pc' = [pc EXCEPT ![t] = "loop"]
    /\ UNCHANGED <<fibers, state, saved, budget, parked, task, cur, cbFiber,
                   idleTerm, activeThreadCount, stopping, autoStop, mainPc,
                   scheduled, running, threadIds, rootState>>

(* Scheduler::run has returned, and so does Thread::run.                   *)
ThreadExit(t) ==
    /\ pc[t] = "exit"
    /\ Th!Exit(t)
    /\ UNCHANGED <<fibers, state, saved, budget, parked, pc, task, cur,
                   cbFiber, idleTerm, activeThreadCount, stopping, autoStop,
                   mainPc, scheduled, running, threadIds, rootState>>

(* main(): sc.schedule(...) of the next Work item; a fiber item is a new   *)
(* Fiber constructed by main, a cb item a std::function.                   *)
MainSchedule ==
    /\ mainPc = "schedule"
    /\ scheduled < Len(Work)
    /\ LET i == scheduled + 1
           w == Work[i]
       IN IF w.kind = "cb"
            THEN /\ Schedule([fiber |-> 0, cb |-> i, thread |-> w.thread])
                 /\ UNCHANGED <<state, saved, budget>>
            ELSE \E f \in FreeFibers :
                 /\ Schedule([fiber |-> f, cb |-> 0, thread |-> w.thread])
                 /\ state' = [state EXCEPT ![f] = "INIT"]
                 /\ saved' = [saved EXCEPT ![f] = TRUE]
                 /\ budget' = [budget EXCEPT ![f] = Budget]
    /\ scheduled' = scheduled + 1
    /\ mainPc' = IF scheduled + 1 = Len(Work) THEN "stop" ELSE "schedule"
    /\ UNCHANGED <<parked, pc, task, cur, cbFiber, idleTerm,
                   activeThreadCount, stopping, autoStop, running>>

(* Scheduler::stop(): m_autoStop, m_stopping, one tickle per thread (a    *)
(* log line).  With a root fiber it goes on to run the remaining work on   *)
(* the caller; without, to the joins.  The use_caller early return for     *)
(* m_threadCount = 0 tests the same stopping() as the call below and, with *)
(* no thread to join, ends the same way.                                   *)
Stop ==
    /\ mainPc = "stop"
    /\ autoStop' = TRUE
    /\ stopping' = TRUE
    /\ mainPc' = IF UseCaller THEN "call" ELSE "join"
    /\ UNCHANGED <<fibers, state, saved, budget, parked, pc, task, cur,
                   cbFiber, idleTerm, activeThreadCount, scheduled, running>>

(* if(!stopping()) m_rootFiber->call(): Fiber::call sets EXEC and swaps    *)
(* from the caller's thread fiber into the root fiber, whose               *)
(* CallerMainFunc runs Scheduler::run on the caller thread.                *)
RootCall ==
    /\ mainPc = "call"
    /\ IF Stopping
         THEN /\ mainPc' = "join"
              /\ UNCHANGED <<pc, rootState>>
         ELSE /\ rootState' = "EXEC"
              /\ pc' = [pc EXCEPT ![Caller] = "loop"]
              /\ mainPc' = "caller"
    /\ UNCHANGED <<fibers, state, saved, budget, parked, task, cur, cbFiber,
                   idleTerm, activeThreadCount, stopping, autoStop, scheduled,
                   running, tstate, tid, sem, handle, mutex, threadIds>>

\* Mutant: CallerMainFunc ends without raw->back(), so call() never returns.
CallerNoBack ==
    /\ mainPc = "caller"
    /\ pc[Caller] = "exit"
    /\ rootState' = "TERM"
    /\ UNCHANGED <<fibers, state, saved, budget, parked, pc, task, cur,
                   cbFiber, idleTerm, activeThreadCount, stopping, autoStop,
                   scheduled, running, tstate, tid, sem, handle, mutex,
                   threadIds, mainPc>>

(* Scheduler::run has returned on the caller: CallerMainFunc sets TERM     *)
(* and back() swaps to the thread fiber, so call() returns inside stop().  *)
CallerBack ==
    /\ mainPc = "caller"
    /\ pc[Caller] = "exit"
    /\ rootState' = "TERM"
    /\ mainPc' = "join"
    /\ UNCHANGED <<fibers, state, saved, budget, parked, pc, task, cur,
                   cbFiber, idleTerm, activeThreadCount, stopping, autoStop,
                   scheduled, running, tstate, tid, sem, handle, mutex,
                   threadIds>>

(* The first Thread of thrs not yet joined.                                *)
NextToJoin ==
    ThreadOrder[CHOOSE i \in DOMAIN ThreadOrder :
                  /\ handle[ThreadOrder[i]]
                  /\ \A j \in 1..i-1 : ~handle[ThreadOrder[j]]]

(* for(auto& i : thrs) i->join(): join each worker in order; stop()        *)
(* returns after the last.                                                 *)
Join ==
    /\ mainPc = "join"
    /\ IF \E t \in Threads : handle[t]
         THEN /\ Th!Join(NextToJoin)
              /\ UNCHANGED mainPc
         ELSE /\ mainPc' = "done"
              /\ UNCHANGED <<tstate, tid, sem, handle, mutex>>
    /\ UNCHANGED <<fibers, state, saved, budget, parked, pc, task, cur,
                   cbFiber, idleTerm, activeThreadCount, stopping, autoStop,
                   scheduled, running, threadIds, rootState>>

-----------------------------------------------------------------------------
(* Scheduler::run, lines 150-188: under the mutex take the first runnable  *)
(* Task out of m_fibers and count the thread active.                       *)
\* Mutant: ++m_activeThreadCount outside the branch that found a task.
PickCountsAlways(t) ==
    /\ pc[t] = "loop"
    /\ LET i == FirstRunnable(t) IN
       IF i = 0
         THEN /\ task' = [task EXCEPT ![t] = NoTask]
              /\ UNCHANGED fibers
         ELSE /\ task' = [task EXCEPT ![t] = fibers[i]]
              /\ fibers' = SE!RemoveAt(fibers, i)
    /\ activeThreadCount' = activeThreadCount + 1
    /\ pc' = [pc EXCEPT ![t] = "dispatch"]
    /\ UNCHANGED <<state, saved, budget, parked, cur, cbFiber, idleTerm,
                   stopping, autoStop, mainPc, scheduled, running>>

Pick(t) ==
    /\ pc[t] = "loop"
    /\ mutex = Th!Unlocked
    /\ LET i == FirstRunnable(t) IN
       IF i = 0
         THEN /\ task' = [task EXCEPT ![t] = NoTask]
              /\ UNCHANGED <<fibers, activeThreadCount>>
         ELSE /\ task' = [task EXCEPT ![t] = fibers[i]]
              /\ fibers' = SE!RemoveAt(fibers, i)
              /\ activeThreadCount' = activeThreadCount + 1
    /\ pc' = [pc EXCEPT ![t] = "dispatch"]
    /\ UNCHANGED <<state, saved, budget, parked, cur, cbFiber, idleTerm,
                   stopping, autoStop, mainPc, scheduled, running>>

(* Scheduler::run, lines 194-249.  A fiber task that has not finished is   *)
(* swapped in.  A callback is run in cb_fiber, reset for the callback when *)
(* the thread has one (Fiber::reset) and new otherwise.  With no task, a   *)
(* popped finished fiber only undoes the active count; otherwise the       *)
(* thread leaves the loop once idle_fiber is TERM, or swaps into it.       *)
Dispatch(t) ==
    LET tk == task[t] IN
    /\ pc[t] = "dispatch"
    /\ \/ /\ tk.fiber # 0
          /\ state[tk.fiber] \notin Done
          /\ SwapIn(t, tk.fiber)
          /\ pc' = [pc EXCEPT ![t] = "body"]
          /\ UNCHANGED <<budget, task, cbFiber, activeThreadCount, idleTerm>>
       \/ /\ tk.cb # 0
          /\ \E f \in IF cbFiber[t] # 0 THEN {cbFiber[t]} ELSE FreeFibers :
               /\ SwapIn(t, f)
               /\ Reset(f)
               /\ cbFiber' = [cbFiber EXCEPT ![t] = f]
          /\ task' = [task EXCEPT ![t] = NoTask]
          /\ pc' = [pc EXCEPT ![t] = "body"]
          /\ UNCHANGED <<activeThreadCount, idleTerm>>
       \/ /\ ~(tk.fiber # 0 /\ state[tk.fiber] \notin Done)
          /\ tk.cb = 0
          /\ IF tk # NoTask
               THEN /\ activeThreadCount' = activeThreadCount - 1
                    /\ task' = [task EXCEPT ![t] = NoTask]
                    /\ pc' = [pc EXCEPT ![t] = "loop"]
               ELSE /\ pc' = [pc EXCEPT ![t] = IF idleTerm[t] THEN "exit" ELSE "idle"]
                    /\ UNCHANGED <<activeThreadCount, task>>
          /\ UNCHANGED <<state, saved, budget, cur, cbFiber, running, idleTerm>>
    /\ UNCHANGED <<fibers, parked, stopping, autoStop, mainPc, scheduled>>

(* Scheduler::idle in idle_fiber: while(!stopping()) YieldToHold(); when   *)
(* stopping() holds the function returns and the idle fiber is TERM.       *)
Idle(t) ==
    /\ pc[t] = "idle"
    /\ idleTerm' = [idleTerm EXCEPT ![t] = Stopping]
    /\ pc' = [pc EXCEPT ![t] = "loop"]
    /\ UNCHANGED <<fibers, state, saved, budget, parked, task, cur, cbFiber,
                   activeThreadCount, stopping, autoStop, mainPc, scheduled,
                   running>>

-----------------------------------------------------------------------------
(* Steps of the body of the fiber cur[t] that worker t is executing.       *)

(* Fiber::YieldToReady(): m_state = READY, then swapOut.                   *)
YieldToReady(t) ==
    LET f == cur[t] IN
    /\ pc[t] = "body"
    /\ budget[f] > 0
    /\ budget' = [budget EXCEPT ![f] = @ - 1]
    /\ state' = [state EXCEPT ![f] = "READY"]
    /\ pc' = [pc EXCEPT ![t] = "swapout"]
    /\ UNCHANGED <<fibers, saved, parked, task, cur, cbFiber, idleTerm,
                   activeThreadCount, stopping, autoStop, mainPc, scheduled,
                   running>>

(* A blocking call in a hook registers who will wake the fiber (addEvent,  *)
(* addTimer with a schedule(fiber) callback) before it yields.             *)
Block(t) ==
    LET f == cur[t] IN
    /\ pc[t] = "body"
    /\ Parking
    /\ budget[f] > 0
    /\ budget' = [budget EXCEPT ![f] = @ - 1]
    /\ parked' = parked \cup {f}
    /\ pc' = [pc EXCEPT ![t] = "block"]
    /\ UNCHANGED <<fibers, state, saved, task, cur, cbFiber, idleTerm,
                   activeThreadCount, stopping, autoStop, mainPc, scheduled,
                   running>>

(* Fiber::YieldToHold(): m_state = HOLD, then swapOut.                     *)
YieldToHold(t) ==
    /\ pc[t] = "block"
    /\ state' = [state EXCEPT ![cur[t]] = "HOLD"]
    /\ pc' = [pc EXCEPT ![t] = "swapout"]
    /\ UNCHANGED <<fibers, saved, budget, parked, task, cur, cbFiber,
                   idleTerm, activeThreadCount, stopping, autoStop, mainPc,
                   scheduled, running>>

(* The waker of a blocked fiber g (an event or timer callback, or another  *)
(* fiber) calls schedule(g).                                               *)
Wake(t, g) ==
    /\ pc[t] = "body"
    /\ g \in parked
    /\ g # cur[t]
    /\ parked' = parked \ {g}
    /\ Schedule([fiber |-> g, cb |-> 0, thread |-> Any])
    /\ UNCHANGED <<state, saved, budget, pc, task, cur, cbFiber, idleTerm,
                   activeThreadCount, stopping, autoStop, mainPc, scheduled,
                   running>>

(* Fiber::MainFunc: the callback returns (TERM) or throws (EXCEPT); the    *)
(* state is set and the fiber swaps out for the last time.                 *)
Finish(t, s) ==
    /\ pc[t] = "body"
    /\ state' = [state EXCEPT ![cur[t]] = s]
    /\ pc' = [pc EXCEPT ![t] = "swapout"]
    /\ UNCHANGED <<fibers, saved, budget, parked, task, cur, cbFiber,
                   idleTerm, activeThreadCount, stopping, autoStop, mainPc,
                   scheduled, running>>

(* Fiber::swapOut(): save the context into m_ctx and switch back to the    *)
(* worker's scheduling fiber.                                              *)
SwapOut(t) ==
    LET f == cur[t] IN
    /\ pc[t] = "swapout"
    /\ saved' = [saved EXCEPT ![f] = TRUE]
    /\ running' = [running EXCEPT ![f] = @ \ {t}]
    /\ pc' = [pc EXCEPT ![t] = "return"]
    /\ UNCHANGED <<fibers, state, budget, parked, task, cur, cbFiber,
                   idleTerm, activeThreadCount, stopping, autoStop, mainPc,
                   scheduled>>

-----------------------------------------------------------------------------
(* Scheduler::run after swapIn returns, lines 199-206 for a fiber task and *)
(* 218-228 for cb_fiber: a READY fiber is scheduled again; a finished      *)
(* cb_fiber is reset(nullptr) and kept; any other state is forced to HOLD, *)
(* and cb_fiber is dropped unless it is kept.                              *)
\* Mutant: the READY branch is missing; a READY fiber is parked as HOLD.
PostFiberDropsReady(t) ==
    LET f == cur[t] IN
    /\ task[t].fiber # 0
    /\ state' = [state EXCEPT ![f] = IF @ \in Done THEN @ ELSE "HOLD"]
    /\ task' = [task EXCEPT ![t] = NoTask]
    /\ UNCHANGED <<fibers, cbFiber>>

PostFiber(t) ==
    LET f == cur[t] IN
    /\ task[t].fiber # 0
    /\ IF state[f] = "READY"
         THEN /\ Schedule([fiber |-> f, cb |-> 0, thread |-> Any])
              /\ UNCHANGED state
         ELSE /\ state' = [state EXCEPT ![f] = IF @ \in Done THEN @ ELSE "HOLD"]
              /\ UNCHANGED fibers
    /\ task' = [task EXCEPT ![t] = NoTask]
    /\ UNCHANGED cbFiber

\* Mutants: cb_fiber.reset() missing after scheduling a READY cb_fiber,
\* or after parking a HOLD one.
PostCallbackKeepsReady(t) ==
    LET f == cur[t] IN
    /\ task[t].fiber = 0
    /\ CASE state[f] = "READY" ->
               /\ Schedule([fiber |-> f, cb |-> 0, thread |-> Any])
               /\ UNCHANGED <<state, cbFiber>>
          [] state[f] \in Done ->
               /\ state' = [state EXCEPT ![f] = "INIT"]
               /\ UNCHANGED <<fibers, cbFiber>>
          [] OTHER ->
               /\ state' = [state EXCEPT ![f] = "HOLD"]
               /\ cbFiber' = [cbFiber EXCEPT ![t] = 0]
               /\ UNCHANGED fibers
    /\ UNCHANGED task

PostCallbackKeepsHeld(t) ==
    LET f == cur[t] IN
    /\ task[t].fiber = 0
    /\ CASE state[f] = "READY" ->
               /\ Schedule([fiber |-> f, cb |-> 0, thread |-> Any])
               /\ cbFiber' = [cbFiber EXCEPT ![t] = 0]
               /\ UNCHANGED state
          [] state[f] \in Done ->
               /\ state' = [state EXCEPT ![f] = "INIT"]
               /\ UNCHANGED <<fibers, cbFiber>>
          [] OTHER ->
               /\ state' = [state EXCEPT ![f] = "HOLD"]
               /\ UNCHANGED <<fibers, cbFiber>>
    /\ UNCHANGED task

PostCallback(t) ==
    LET f == cur[t] IN
    /\ task[t].fiber = 0
    /\ CASE state[f] = "READY" ->
               /\ Schedule([fiber |-> f, cb |-> 0, thread |-> Any])
               /\ cbFiber' = [cbFiber EXCEPT ![t] = 0]
               /\ UNCHANGED state
          [] state[f] \in Done ->
               /\ state' = [state EXCEPT ![f] = "INIT"]
               /\ UNCHANGED <<fibers, cbFiber>>
          [] OTHER ->
               /\ state' = [state EXCEPT ![f] = "HOLD"]
               /\ cbFiber' = [cbFiber EXCEPT ![t] = 0]
               /\ UNCHANGED fibers
    /\ UNCHANGED task

(* Back in run() after swapIn returns: --m_activeThreadCount (an atomic,  *)
(* outside the mutex) comes before the fiber's state is looked at.         *)
\* Mutant: --m_activeThreadCount missing after swapIn returns.
ReturnKeepsActive(t) ==
    /\ pc[t] = "return"
    /\ pc' = [pc EXCEPT ![t] = "post"]
    /\ UNCHANGED <<fibers, state, saved, budget, parked, task, cur, cbFiber,
                   idleTerm, activeThreadCount, stopping, autoStop, mainPc,
                   scheduled, running>>

Return(t) ==
    /\ pc[t] = "return"
    /\ activeThreadCount' = activeThreadCount - 1
    /\ pc' = [pc EXCEPT ![t] = "post"]
    /\ UNCHANGED <<fibers, state, saved, budget, parked, task, cur, cbFiber,
                   idleTerm, stopping, autoStop, mainPc, scheduled, running>>

Post(t) ==
    /\ pc[t] = "post"
    /\ PostFiber(t) \/ PostCallback(t)
    /\ cur' = [cur EXCEPT ![t] = 0]
    /\ pc' = [pc EXCEPT ![t] = "loop"]
    /\ UNCHANGED <<activeThreadCount, saved, budget, parked, idleTerm,
                   stopping, autoStop, mainPc, scheduled, running>>

-----------------------------------------------------------------------------
Worker(t) ==
    \/ ThreadRun(t)
    \/ /\ \/ Pick(t) \/ Dispatch(t) \/ Idle(t)
          \/ YieldToReady(t) \/ Block(t) \/ YieldToHold(t)
          \/ \E g \in FiberIds : Wake(t, g)
          \/ \E s \in Done : Finish(t, s)
          \/ SwapOut(t) \/ Return(t) \/ Post(t)
       /\ UNCHANGED <<tstate, tid, sem, handle, mutex, threadIds, rootState>>
    \/ ThreadExit(t)

MainThread ==
    \/ Start \/ CreateThread \/ CtorReturn \/ StartUnlock \/ RootCall
    \/ CallerBack \/ Join
    \/ /\ MainSchedule \/ Stop
       /\ UNCHANGED <<tstate, tid, sem, handle, mutex, threadIds, rootState>>

(* Once main has joined every worker the program ends.                     *)
Terminated == mainPc = "done" /\ UNCHANGED vars

Next == MainThread \/ (\E t \in Threads : Worker(t)) \/ Terminated

(* Workers are OS threads and main is an OS thread: each keeps running     *)
(* while it has a step to take.                                            *)
Fairness == /\ \A t \in Threads : WF_vars(Worker(t))
            /\ WF_vars(MainThread)

Spec == Init /\ [][Next]_vars /\ Fairness

-----------------------------------------------------------------------------
QueuedFiber(f) == \E i \in DOMAIN fibers : fibers[i].fiber = f
QueuedCb(k) == \E i \in DOMAIN fibers : fibers[i].cb = k

(* A fiber's stack is executed by at most one thread at a time (spec, Data *)
(* Model: only one coroutine per thread is EXEC; a switch transfers        *)
(* control, never ownership).  Threatened when a blocked fiber is          *)
(* scheduled by its waker while it is still on its way out of YieldToHold. *)
NoDoubleRun == \A f \in FiberIds : Cardinality(running[f]) <= 1

(* The cb_fiber a worker keeps between tasks is a fresh or reset fiber     *)
(* that nobody else can resume: INIT, not queued, not registered with a    *)
(* waker.  Fiber::reset asserts TERM, EXCEPT or INIT, and a queued or      *)
(* parked fiber reset for another callback would lose its continuation.    *)
CbFiberReuseSafe ==
    \A t \in Threads :
        cbFiber[t] # 0 /\ pc[t] \in {"loop", "dispatch", "idle", "exit"}
            => /\ state[cbFiber[t]] = "INIT"
               /\ ~QueuedFiber(cbFiber[t])
               /\ cbFiber[t] \notin parked

(* Every task in m_fibers is eventually taken out by a worker whose thread *)
(* it matches: FIFO selection with the thread filter starves nobody, and   *)
(* stop() does not let the workers leave while a task waits.               *)
QueuedTaskDispatched ==
    /\ \A f \in FiberIds : QueuedFiber(f) ~> ~QueuedFiber(f)
    /\ \A k \in CbIds : QueuedCb(k) ~> ~QueuedCb(k)

(* A fiber that yielded READY runs again (run() re-enqueues it, and        *)
(* stopping() stays false while it waits).                                 *)
ReadyFiberResumes == \A f \in FiberIds : state[f] = "READY" ~> state[f] = "EXEC"

(* stop() returns: every worker observes stopping() in its idle fiber,     *)
(* leaves run(), and is joined.                                            *)
AllWorkersExit == <>(mainPc = "done")

(* Scheduler::start pushes m_threads[i]->getId() as soon as the Thread     *)
(* constructor returns, while Thread::run on the new worker writes m_id:  *)
(* every entry of m_threadIds is the id of the worker created at that     *)
(* index, never the -1 m_id holds before run() sets it.  The semaphore    *)
(* handshake of Thread::Thread and Thread::run is what orders the two.    *)
ThreadIdsKnown ==
    \A i \in DOMAIN threadIds : threadIds[i] = (RootIds \o ThreadOrder)[i]
=============================================================================
