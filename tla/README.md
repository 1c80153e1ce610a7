# TLA+ models of the frb server framework

This directory models the concurrency core of the C++ framework in `src/`. That core is:

- stackful coroutines (`Fiber`);
- the M:N scheduler that runs them on a thread pool (`Scheduler`);
- the timer heap (`TimerManager`);
- the layer above them: the epoll reactor (`IOManager`), the syscall hooks (`hook.cpp`) and the fd table (`FdManager`).

The modules are checked with TLC.

## 1. Inventory

### Components and their state

| Component | Source | State | Operations that change it |
|---|---|---|---|
| Fiber | `src/src/fiber.cpp` | `m_state` ∈ INIT, EXEC, READY, HOLD, TERM, EXCEPT; `m_ctx` (saved context); `m_cb`; thread-local `t_fiber`, `t_threadFiber` | ctor (INIT + makecontext), `reset` (TERM/EXCEPT/INIT → INIT), `swapIn` (→ EXEC, switch), `swapOut` (save, switch back), `YieldToReady` (→ READY, swapOut), `YieldToHold` (→ HOLD, swapOut), `MainFunc` (→ TERM or EXCEPT, swapOut), `call`/`back` (root fiber) |
| Scheduler | `src/src/scheduler.cpp`, `src/include/scheduler.h` | `m_fibers` (list of Task {fiber or cb, thread}), `m_activeThreadCount` (atomic), `m_idleThreadCount`, `m_stopping`, `m_autoStop`, `m_threads`, `m_rootFiber` | `start`, `schedule`/`scheduleNoLock`, `run` (per worker), `idle`, `stopping`, `stop`, `tickle` (logs only) |
| TimerManager | `src/src/timer.cpp` | `m_timers` (std::set ordered by (m_next, address)), per timer `m_next`, `m_ms`, `m_cb`, `m_recurring`; `m_previouseTime` | `addTimer`, `addConditionTimer`, `Timer::cancel`, `Timer::refresh` (no lock), `Timer::reset`, `listExpiredCb` (+ `detectClockRollover`), `getNextTimer`, `hasTimer` |
| IOManager | `src/include/iomanager.h` only | per fd `FdContext` {events, read/write EventContext}, pending event count, epoll set, tickle pipe | `addEvent`, `delEvent`, `cancelEvent`, `cancelAll`, `triggerEvent`, `idle` (epoll_wait + listExpiredCb), `tickle`, `stopping` |
| Hooks | `src/src/hook.cpp` | thread-local `t_hook_enable`; `timer_info.cancelled` per call | `do_io` (retry loop with condition timer), `sleep`/`usleep`/`nanosleep`, `connect_with_timeout`, `socket`, `accept`, `close`, `fcntl`, `ioctl`, `setsockopt` |
| FdManager | `src/src/fd_manager.cpp` | `m_datas` (vector of FdCtx), per FdCtx `m_isInit`, `m_isSocket`, `m_sysNonblock`, `m_userNonblock`, `m_isClosed`, timeouts | `get(fd, auto_create)`, `del(fd)`, `FdCtx::init`, `setTimeout` |
| Thread/Mutex/Semaphore/RWMutex | `src/src/thread.cpp`, `src/include/thread.h` | pthread handle, semaphore, mutex holder, rwlock readers and writer | ctor (create, wait for start), `join`, `lock`/`unlock`, `rdlock`/`wrlock`/`unlock` and the scoped locks |
| Config | `src/src/config.cpp`, `src/include/config.h` | global map name → ConfigVar; per var `m_val`, `m_cbs` | `Lookup`, `setValue` (listeners then write), `addListener`, `delListener`, `LoadFromYaml` |
| Log | `src/include/log.h` | appenders, formatters | formatting and output |

### How they interact

- Each worker thread runs `Scheduler::run`. Under `m_mutex` it takes the first Task whose thread matches and that is not an EXEC fiber. It then swaps into that fiber, or into its reusable `cb_fiber` for a callback. When control comes back, it re-enqueues READY fibers and forces anything else that has not finished to HOLD.
- A fiber that must wait (`sleep`, `do_io`) first registers a waker: a timer whose callback calls `schedule(fiber)`, or an `addEvent` whose trigger does. It then calls `YieldToHold`.
- The waker runs on whichever worker drains the timer heap (`listExpiredCb` in `IOManager::idle`) or sees the epoll event.
- `stop()` sets `m_autoStop` and `m_stopping`. Workers leave once their idle fiber sees `stopping()`.

### Behaviours that make it hard

- A fiber's state and its saved context change in two steps (`m_state = HOLD`, then `swapOut`). Meanwhile its waker is on another thread.
- `run()` reads a fiber's state after `swapIn` returns. By then the fiber may already belong to another worker.
- `Timer::refresh` takes no lock.
- The clock can go backwards.
- Equal deadlines are ordered by address.
- `do_io` retries with a condition timer that may already be in flight.
- Shutdown depends on the counters and the queue becoming empty together.

### Properties per component

- **Fiber/Scheduler:**
  - a fiber's stack runs on at most one thread (`NoDoubleRun`);
  - a reused `cb_fiber` is fresh and not reachable by anyone else (`CbFiberReuseSafe`);
  - every queued task is dispatched (`QueuedTaskDispatched`);
  - READY fibers resume (`ReadyFiberResumes`);
  - `stop()` returns, with and without `use_caller` (`AllWorkersExit`);
  - every id in `m_threadIds` is the id of a thread that has started, in construction order, because each Thread constructor waits on its semaphore (`ThreadIdsKnown`).
- **TimerManager:**
  - the set holds exactly the live timers, under their current key (`TimerSetIsLive`);
  - a drain returns exactly the due timers (`DrainFiresDue`);
  - the heap implements the abstract timer set of `AbstractTimers` (`AbstractTimerSpec`): every heap step is an abstract step, and the erase half of the unlocked `refresh` is a stuttering step.
- **Hooks (`do_io`, `connect_with_timeout`, `close`):**
  - ETIMEDOUT is reported only for a call that had a timeout, and only once it has elapsed (`TimeoutOnlyAfterDeadline`);
  - a call that has returned leaves no armed timer behind (`TimerReleased`);
  - every call returns (`DoIoReturns`), and a timed-out call returns (`TimeoutReturns`).
- **FdManager and the fd hooks:**
  - a socket on `do_io`'s coroutine path is non-blocking in the kernel (`NoThreadBlock`; `ioctl(FIONBIO)` breaks it);
  - `fcntl(F_GETFL)` reports the O_NONBLOCK the application asked for (`UserViewConsistent`; `socket(SOCK_NONBLOCK)` breaks it).
- **Config:**
  - after each `setValue`, every listener's copy equals `m_val` (`ListenersAgree`).

## 2. Modules

| Module | Models | State | Actions |
|---|---|---|---|
| `AbstractTimers` | what the heap promises (spec §4.3) | the clock; the live timers with deadline, period and recurring flag; the timers the last expiry returned | `Add`, `Cancel`, `Refresh`, `Reset`, `Expire` (the due timers, or every live one), `SetClock` |
| `TimerManager` | `timer.cpp` | `timers` (the std::set as a set of ⟨deadline, address⟩), per timer `next`, `ms`, `recurring`, `cb`; `previouseTime`; the clock `now`; an unlocked `refresh` in progress | `AddTimer`, `Cancel`, `RefreshErase`/`RefreshInsert`, `Reset`, `ListExpiredCb` (with `ClockRollover` and re-arming), `GetNextTimer`, `Tick`, `ClockBack` |
| `Scheduler` | `scheduler.cpp`, `fiber.cpp`, `sleep` in `hook.cpp` | the task queue, each fiber's state and saved flag, per worker `pc`, current task and `cb_fiber`, `activeThreadCount`, `stopping`/`autoStop` | `Start`, `Schedule`, `Pick`, `SwapIn`, `YieldToReady`, `YieldToHold`, `Block`/`Wake`, `Finish`, `SwapOut`, `Return` (`--m_activeThreadCount`), `Post` (re-enqueue or force HOLD), `Idle`; main thread: `Start`, `CreateThread`, `CtorReturn`, `StartUnlock` (start() under `m_mutex`), `Stop`, `RootCall` (`m_rootFiber->call()`), `CallerBack` (`CallerMainFunc`'s `back()`), `Join`; per worker `ThreadRun`, `ThreadExit` |
| `Thread` | `thread.cpp`, `thread.h`: Thread, Semaphore, Mutex and its scoped lock | the pthread's state, `m_id`, the semaphore count, `m_thread`, the mutex holder | `Create`, `Run` (sets `m_id`, then `notify`), `Wait`, `Exit`, `Join`, `Lock`, `Unlock`; no Next of its own: `Scheduler` instantiates it (`Th == INSTANCE Thread`) for its workers and `m_mutex` |
| `Hook` | `do_io`, `connect_with_timeout` and `close` in `hook.cpp` over `IOManager` (`iomanager.cpp` is not in the repository: `addEvent`, `cancelEvent`, `cancelAll` and `triggerEvent` follow the contracts declared in `iomanager.h` and the spec's §4.4, and are marked spec-modelled in the map) and `TimerManager` (`TM == INSTANCE TimerManager`) | per fiber `pc`, `call` number, `kind` (read, write or connect), the timeout `to` read when the call begins, `timer_info.cancelled`, its condition timer; the fd's READ and WRITE waiter slots; the FdCtx's open/cancelled/closed state; the socket's readability, full send buffer and connection state | fiber: `Begin`/`BeginForwarded`, `Io`, `RegisterOrFail`, `Yield`, `Resume`, `ConnBegin`, `ConnArm`, `ConnRegister`, `Sockopt`; reactor: `ReadReady`/`WriteReady`, `DrainTimers`, `RunTimerCb`; environment: `Send`, `Drain`, `Respond`, `CloseCancel` (`cancelAll`), `CloseF` (`del` and `close_f`), `Tick` |
| `FdManager` | `fd_manager.cpp`, and `socket`, `accept`, `close`, `fcntl`, `ioctl`, `setsockopt` in `hook.cpp` | the kernel's open/O_NONBLOCK per fd; `m_datas`; the FdCtx fields; per thread `pc` | `Socket`, `Accept`, `GetRead`, `GetCreate` (the two lock regions of `get(fd, true)`), `Close`, `CloseF`, `FcntlSetfl`, `IoctlFionbio`, `Setsockopt` |
| `RWMutex` | `RWMutex`, `ReadScopedLockImpl`, `WriteScopedLockImpl` in `thread.h` | the read-lock holders and the writer | `RdLock`, `WrLock`, `Unlock`, the scoped `ReadLock`/`WriteLock`/`ScopedUnlock`, and `ReadSection`/`WriteSection` for a critical section that is one step; no Next of its own: `Config` instantiates it for `m_mutex` |
| `Config` | `config.h`, `config.cpp` | the registry's name → type; one ConfigVar's `m_val`, `m_cbs` and each listener's copy; `m_mutex` (`RW == INSTANCE RWMutex`); per thread `pc` and the values a running `LoadFromYaml` still has to set | `Lookup`, `SetValue` (compare, then start notifying), `Notify` (one listener), `Unlock`, `Write`, `AddListener`, `DelListener`, `ClearListener`, `LoadFromYaml` (`ListAllMember` as a RECURSIVE operator over a YAML tree, `tolower`, `LookUpBase`, `fromString`), `LoadNext` (one key's `setValue`) |

`TimerManager` ends with the refinement mapping onto `AbstractTimers`: `clock <- now`, `live <- {t \in created : cb[t]}`, `deadline <- next`, `period <- ms`, `repeat <- recurring`, `fired <- cbs`. The timer_heap run checks `AbstractTimerSpec == Abstract!Spec` as a PROPERTY. The ordered set, the sentinel search and the address tie-break are what the abstract module leaves out.

Each module has an `MC` module that gives the constants values for TLC. `FdManager.HookedPath` is `do_io`'s dispatch test (hook.cpp:109-124), shared with `Hook`, which models what follows it.

## 3. Plan

1. `TimerManager`: done.
2. `Scheduler`, which includes the Fiber state machine: done.
3. `Hook`: `do_io` over the IOManager's READ and WRITE slots, for reads and writes: done.
4. `FdManager` with the fd hooks: done.
5. `Config`: `Lookup`, `setValue` over the `RWMutex` module, and `LoadFromYaml`: done.
6. `AbstractTimers` and the refinement `TimerManager!AbstractTimerSpec`: done.
7. `close` and `connect_with_timeout` in `Hook`, with the WRITE slot and `cancelAll`: done.
8. Next: the rest of the IOManager from the spec (`delEvent`, the pending-event count, a `stopping()` that also waits for timers), composing `Scheduler` and `TimerManager` through INSTANCE.
9. `use_caller` mode, in which the root fiber runs `run()` from `stop()`, and thread construction in `start()` through the `Thread` module: done.

## 4. Runs

| Run | Module / cfg | Expect | What it shows |
|---|---|---|---|
| timer_heap | MCTimerManager / MCTimerManager.cfg | pass | With one caller the set holds exactly the live timers, `listExpiredCb` returns exactly the due timers for every sentinel address, and the heap implements `AbstractTimers`. |
| timer_refresh_race | MCTimerManager / MCTimerManager_refresh.cfg | violation | The unlocked `refresh` racing `cancel` re-inserts a cancelled timer. |
| sched_two_workers | MCScheduler / MCScheduler.cfg | pass | Two workers, pinned and unpinned tasks that yield: `cb_fiber` reuse is safe, every task is dispatched, READY fibers resume, `stop()` returns, and `m_threadIds` holds only started threads' ids (`ThreadIdsKnown`). |
| sched_blocking | MCScheduler / MCScheduler_block.cfg | pass | `use_caller = true` with one thread (IOManager's default): there are no worker threads, the caller runs every task inside `stop()`, fibers block and wake each other, and `stop()` returns. |
| sched_double_resume | MCScheduler / MCScheduler_race.cfg | violation | A fiber woken between `m_state = HOLD` and `swapOut` is resumed by a second worker. |
| hook_timeout | MCHook / MCHook.cfg | pass | One fiber: a `connect` then two `do_io` calls, each a read or a write, each with a 2 ms timeout or none. No ETIMEDOUT for a call without a timeout or before its timeout, even from a late timer of an earlier call; every call returns once the peer answers, sends and reads. |
| hook_shared_socket | MCHook / MCHook_shared.cfg | pass | Two fibers each read or write one socket (timeout 1 ms or none) while it may be closed: failed `addEvent`s, stolen data, retries, `close` and late timers never leave a returned call's timer armed (`TimerReleased`), including the path where `addEvent` fails because the other fiber already waits for READ. |
| hook_close_race | MCHook / MCHook_close.cfg | violation | `close()` on another fiber while a `do_io` without a timeout is between its FdCtx lookup and `addEvent` (or retries after `cancelAll` woke it) leaves the call registered on an fd that `close_f` then drops from epoll; it waits forever. |
| hook_lost_timeout | MCHook / MCHook_lost_timeout.cfg | violation | A condition timer that fires before `addEvent` leaves the call waiting with no timeout. |
| fd_socket_nonblock | MCFdManager / MCFdManager.cfg | violation | `socket()` with `SOCK_NONBLOCK` in its type: `FdCtx::init` clears `m_userNonblock`, so F_GETFL reports the socket blocking (fd_manager.cpp:55). |
| fd_ioctl_blocks | MCFdManager / MCFdManager_ioctl_block.cfg | violation | `ioctl(FIONBIO, 0)` makes a hooked socket blocking in the kernel, and the worker thread then blocks in `do_io`. |
| config_listener_race | MCConfig / MCConfig_race.cfg | violation | An `addListener` or a second `setValue` between the listener calls and the write leaves a listener stale. |

These code observations are recorded as hazards without a run of their own:
- `Lookup`'s character set lacks `9`.
- The `sleep`/`nanosleep` conversions overflow.
- `detectClockRollover` misses a backward jump across a drain that found the set empty, since `m_previouseTime` is updated only when the set is non-empty (timer.cpp:163). At the abstract level this is an `Expire` that returns the due timers instead of all of them, which `AbstractTimers` allows, so the refinement holds.
- A `connect` woken by `close()`'s `cancelAll` reads `SO_ERROR` 0 on a socket still connecting and reports success (hook.cpp:335). With `Closes = TRUE` and `Connects = TRUE`, a property that `connect` returns 0 only for a connected socket fails on this path.
- `YieldToHold` keeps a `Fiber::ptr` to the fiber on its own stack (fiber.cpp:203), so a fiber whose waker is lost is leaked, never destroyed; each do_io hang above is also a leaked stack.
- When `addEvent(WRITE)` fails, `connect` falls through to `getsockopt` instead of returning -1 (hook.cpp:326).
- `FdManager::get` rejects only `fd == -1`; another negative fd indexes `m_datas` out of range (fd_manager.cpp:83).
- The connect-timeout listener stores an `int` into a `uint64_t`, so a negative configured value other than -1 becomes a timeout of about 2^64 ms (hook.cpp:68).
- A listener that calls `setValue` or `addListener` on its own ConfigVar waits for the write lock under its own read lock, and hangs (config.h:325); `RWMutex` is not re-entrant.
- `swapOut` leaves `t_fiber` pointing at the swapped-out fiber, which `run()` may then free; a later `GetFiberId` in a log line reads it (fiber.cpp:175).
- `ListAllMember` checks a YAML key before `LoadFromYaml` lowers it, so a key with an upper-case letter is dropped with its subtree and the `tolower` never changes anything (config.cpp:17). MCConfig's first document has such a key (`Log`).
- `Scheduler::run` enables the hooks also for a plain `Scheduler`, where `IOManager::GetThis()` is null; `tests/test_scheduler.cpp` calls `sleep(1)` in such a fiber (scheduler.cpp:138).

Config has no passing run. Its actions are reached by the race run, and a single-threaded `setValue` is not a question worth a run.

FdManager has no passing run either. Its user-flag property holds for sockets created blocking, but only because each of `fcntl` and `ioctl` copies the flag it is given; the questions worth asking of the fd table are the two ways the flags go wrong, and those are its two violation runs.

The findings behind the violation runs are in `PROJECT.json` under `findings`.

### Bounds

- **Timer runs:**
  - two timers, addresses 1 and 2, so they can share a deadline and be ordered by address;
  - periods 1..2;
  - clock 0..4;
  - Hour = 1, so a backward jump of 2 is a rollover.
- **Scheduler runs:**
  - two workers, since the races need two;
  - three work items (a callback pinned to a thread, an unpinned callback, an unpinned fiber);
  - three Fiber objects;
  - one yield per body;
  - `Caller` is a thread outside `Threads` (use_caller = false) in the two-worker and race runs, and the only thread in the blocking run. use_caller with two threads adds nothing to the double-resume race, which the race run already shows.
- **Hook runs:**
  - hook_timeout: timeout 2 ms or none, chosen per call, with three calls (a `connect`, then two reads or writes; a write may fill the send buffer, so the second call can block on WRITE), so a later call runs while an earlier call's timer can still be in flight;
  - the shared-socket run uses two fibers, one read each, timeout 1 ms or none, clock 0..2, a closer, and fiber symmetry (safety only); clock 0..3 with a closer takes over five minutes;
  - the close-race run uses one read with no timeout, which is the case where nothing but the event can wake the call;
  - liveness with two fibers runs past ten minutes, so `DoIoReturns` is checked with one fiber.
- **FdManager runs:**
  - two threads;
  - fd numbers 3 and 4, so a closed fd number is handed out again;
  - two FdCtx objects, reused once no entry points to them;
  - three timevals, two of which convert to 0 ms;
  - sockets created with and without `SOCK_NONBLOCK`.
- **Config run:**
  - two threads;
  - values 0..2;
  - two listener ids;
  - three names: the registered var, one with a `9`, and one with a dot;
  - two YAML documents for `LoadFromYaml`: `{log: 2, a: {b: 1}, Log: 1}` (a matching key, a nested one, an upper-case one) and `{log: {x: 1}}` (a map where the var holds a scalar).

### Fairness

- **Threads:** every worker and the main thread are OS threads. Each takes a step whenever it has one, so weak fairness per thread holds.
- **Task choice:** no fairness is assumed on which task a worker picks. The code picks FIFO, and the model follows it exactly.
- **Hook:** the reactor's event dispatch (READ and WRITE), timer drain and timer callbacks, and the clock, are weakly fair, because the idle fiber runs them whenever a worker is free. `close` completing (`CloseF`) is weakly fair: it is the rest of one synchronous call. The peer sending data, reading what was written (`Drain`) and answering a connect are an environment assumption, `PeerSends`. The lost-timeout run sets it FALSE to show that the call then hangs.
- **FdManager and Config:** only safety is checked, so no fairness is assumed.

## 5. Not modelled

- **Log and formatting:** `log.cpp` is not in the repository, only `log.h`, and the spec puts logging out of scope; what remains is formatting and output.
- **Config's YAML parsing and LexicalCast conversions of containers:** string processing with no concurrency. A YAML document is a tree of records; `fromString` converts a scalar and fails on a map.
- **Stack allocation and ucontext:** a swap is modelled as control transfer plus a "context saved" flag.
- **Thread, Mutex and Semaphore wrappers:** Thread construction, join, Semaphore and the scheduler's `m_mutex` around `start()` are modelled (`Thread`). `ConfigVar::m_mutex` is the `RWMutex` module, since `setValue` holds it across several steps. Elsewhere a lock is modelled as the atomicity of the steps it protects (RWMutex in FdManager and TimerManager, `m_mutex` in `run`/`schedule`). Spinlock and CASLock guard only logging. NullMutex does nothing. `~Thread`'s detach happens only for a thread never joined, which the scheduler never leaves.
- **sleep/nanosleep millisecond conversions:** they overflow above 2^31 ms, outside TLC's integers; they are listed as hazards.
- **The hook-disabled paths:** each forwards to the original function.
