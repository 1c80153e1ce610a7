------------------------------ MODULE FdManager ------------------------------
(***************************************************************************)
(* The descriptor table of src/src/fd_manager.cpp (FdManager::m_datas of  *)
(* FdCtx objects) and the hooks of src/src/hook.cpp that create, read and *)
(* change it: socket, close, fcntl(F_SETFL / F_GETFL), ioctl(FIONBIO) and  *)
(* setsockopt(SO_RCVTIMEO), together with the kernel's view of each fd:    *)
(* open, a socket, and its O_NONBLOCK file flag.                           *)
(*                                                                         *)
(* FdCtx::init makes every socket non-blocking in the kernel               *)
(* (m_sysNonblock) and remembers what the application asked for in         *)
(* m_userNonblock: do_io takes the coroutine path only for sockets the     *)
(* application believes blocking, and fcntl(F_GETFL) shows the             *)
(* application its own view.                                               *)
(*                                                                         *)
(* FdManager::get drops its read lock before taking the write lock to      *)
(* create an entry, and close() deletes the entry before close_f: both are *)
(* two steps.  The other hooks are one step each.                          *)
(***************************************************************************)
EXTENDS Integers, FiniteSets

CONSTANTS
    Threads,     \* application threads calling the hooks
    Fds,         \* fd numbers the kernel can hand out
    Ctxs,        \* FdCtx objects that can be allocated
    SockFlags,   \* O_NONBLOCK values an application passes in socket()'s type
    Ops,         \* which of "fcntl", "ioctl" the application uses
    TimeVals     \* <<tv_sec, tv_usec>> values given to setsockopt(SO_RCVTIMEO)

ASSUME /\ Fds \subseteq Nat /\ Ctxs \subseteq Nat \ {0}
       /\ SockFlags \subseteq BOOLEAN /\ Ops \subseteq {"fcntl", "ioctl"}
       /\ TimeVals \subseteq Nat \X (0..999999)

NoTimeout == -1

VARIABLES
    osOpen,      \* the kernel has fd open
    osNonblock,  \* O_NONBLOCK in the open file's flags
    datas,       \* m_datas[fd]: an FdCtx, or 0 for a null pointer
    ctx,         \* the FdCtx objects' fields
    known,       \* fds socket() has returned to the application, not closed
    userSet,     \* userSet[fd]: the O_NONBLOCK the application last asked for
    pc,          \* "idle", "get" / "create" (in socket), "closef" (in close)
    fdOf         \* the fd the thread's current hook is working on

vars == <<osOpen, osNonblock, datas, ctx, known, userSet, pc, fdOf>>

CtxFields == [isInit : BOOLEAN, isSocket : BOOLEAN, sysNonblock : BOOLEAN,
              userNonblock : BOOLEAN, isClosed : BOOLEAN,
              recvTimeout : Int, sendTimeout : Int]

TypeOK ==
    /\ osOpen \in [Fds -> BOOLEAN] /\ osNonblock \in [Fds -> BOOLEAN]
    /\ datas \in [Fds -> Ctxs \cup {0}]
    /\ ctx \in [Ctxs -> CtxFields]
    /\ known \subseteq Fds
    /\ userSet \in [Fds -> BOOLEAN]
    /\ pc \in [Threads -> {"idle", "get", "create", "closef"}]
    /\ fdOf \in [Threads -> Fds]

Init ==
    /\ osOpen = [fd \in Fds |-> FALSE]
    /\ osNonblock = [fd \in Fds |-> FALSE]
    /\ datas = [fd \in Fds |-> 0]        \* FdManager(): m_datas.resize(64)
    /\ ctx = [c \in Ctxs |-> [isInit |-> FALSE, isSocket |-> FALSE,
                              sysNonblock |-> FALSE, userNonblock |-> FALSE,
                              isClosed |-> FALSE, recvTimeout |-> NoTimeout,
                              sendTimeout |-> NoTimeout]]
    /\ known = {}
    /\ userSet = [fd \in Fds |-> FALSE]
    /\ pc = [t \in Threads |-> "idle"]
    /\ fdOf = [t \in Threads |-> CHOOSE fd \in Fds : TRUE]

-----------------------------------------------------------------------------
(* FdManager::get(fd) without auto_create: the entry, null when missing.   *)
Get(fd) == datas[fd]

(* The hooks' test !ctx || ctx->isClose() || !ctx->isSocket(): the call is *)
(* passed to the kernel unchanged.                                         *)
Forwarded(fd) ==
    LET c == Get(fd) IN c = 0 \/ ctx[c].isClosed \/ ~ctx[c].isSocket

(* FdCtx::FdCtx(fd) and FdCtx::init(): fstat, and for a socket set        *)
(* O_NONBLOCK in the kernel when it is missing and record m_sysNonblock;   *)
(* the application's flag starts cleared whatever the fd's flags are.      *)
NewCtx(fd) ==
    [isInit |-> osOpen[fd], isSocket |-> osOpen[fd], sysNonblock |-> osOpen[fd],
     userNonblock |-> FALSE, isClosed |-> FALSE, recvTimeout |-> NoTimeout,
     sendTimeout |-> NoTimeout]

(* socket(): socket_f hands out the lowest free fd, a socket whose         *)
(* O_NONBLOCK is the one in the type argument; then get(fd, true).         *)
Socket(t) ==
    /\ pc[t] = "idle"
    /\ \E fd \in Fds : ~osOpen[fd]
    /\ LET fd == CHOOSE x \in Fds : ~osOpen[x] /\ \A y \in Fds : ~osOpen[y] => x <= y
       IN \E nb \in SockFlags :
            /\ osOpen' = [osOpen EXCEPT ![fd] = TRUE]
            /\ osNonblock' = [osNonblock EXCEPT ![fd] = nb]
            /\ userSet' = [userSet EXCEPT ![fd] = nb]
            /\ fdOf' = [fdOf EXCEPT ![t] = fd]
    /\ pc' = [pc EXCEPT ![t] = "get"]
    /\ UNCHANGED <<datas, ctx, known>>

(* FdManager::get(fd, true) under the read lock: an existing entry is      *)
(* returned (and socket() returns fd); a missing one makes the thread drop *)
(* the read lock before taking the write lock.                             *)
GetRead(t) ==
    /\ pc[t] = "get"
    /\ IF datas[fdOf[t]] # 0
         THEN /\ pc' = [pc EXCEPT ![t] = "idle"]
              /\ known' = known \cup {fdOf[t]}
         ELSE /\ pc' = [pc EXCEPT ![t] = "create"]
              /\ UNCHANGED known
    /\ UNCHANGED <<osOpen, osNonblock, datas, ctx, userSet, fdOf>>

(* FdManager::get under the write lock: a new FdCtx is installed without   *)
(* looking again at m_datas[fd]; its init() may change the kernel flag.    *)
(* An FdCtx no entry points to has been freed and may be allocated again.  *)
GetCreate(t) ==
    /\ pc[t] = "create"
    /\ \E c \in Ctxs \ {datas[x] : x \in Fds} :
         LET fd == fdOf[t] IN
         /\ ctx' = [ctx EXCEPT ![c] = NewCtx(fd)]
         /\ osNonblock' = [osNonblock EXCEPT ![fd] = @ \/ NewCtx(fd).isSocket]
         /\ datas' = [datas EXCEPT ![fd] = c]
    /\ pc' = [pc EXCEPT ![t] = "idle"]
    /\ known' = known \cup {fdOf[t]}
    /\ UNCHANGED <<osOpen, userSet, fdOf>>

(* accept(s): do_io(accept_f) returns a new connected socket, blocking    *)
(* like every accepted socket on Linux; then get(fd, true).                *)
Accept(t) ==
    /\ pc[t] = "idle" /\ known # {}
    /\ \E fd \in Fds : ~osOpen[fd]
    /\ LET fd == CHOOSE x \in Fds : ~osOpen[x] /\ \A y \in Fds : ~osOpen[y] => x <= y
       IN /\ osOpen' = [osOpen EXCEPT ![fd] = TRUE]
          /\ osNonblock' = [osNonblock EXCEPT ![fd] = FALSE]
          /\ userSet' = [userSet EXCEPT ![fd] = FALSE]
          /\ fdOf' = [fdOf EXCEPT ![t] = fd]
    /\ pc' = [pc EXCEPT ![t] = "get"]
    /\ UNCHANGED <<datas, ctx, known>>

(* FdManager::del(fd) under the write lock: m_datas[fd].reset().           *)
Del(fd) == datas' = [datas EXCEPT ![fd] = 0]

(* close(): get(fd); when there is an entry, iom->cancelAll(fd) and       *)
(* FdManager::del(fd) reset m_datas[fd]; then close_f.                     *)
Close(t) ==
    /\ pc[t] = "idle"
    /\ \E fd \in known :
         /\ Del(fd)
         /\ known' = known \ {fd}
         /\ fdOf' = [fdOf EXCEPT ![t] = fd]
    /\ pc' = [pc EXCEPT ![t] = "closef"]
    /\ UNCHANGED <<osOpen, osNonblock, ctx, userSet>>

CloseF(t) ==
    /\ pc[t] = "closef"
    /\ osOpen' = [osOpen EXCEPT ![fdOf[t]] = FALSE]
    /\ pc' = [pc EXCEPT ![t] = "idle"]
    /\ UNCHANGED <<osNonblock, datas, ctx, known, userSet, fdOf>>

(* The O_NONBLOCK flag fcntl(F_SETFL) passes to fcntl_f: the user's for a *)
(* forwarded fd, otherwise forced to m_sysNonblock.                        *)
SetflArg(fd, nb) ==
    IF Forwarded(fd) THEN nb ELSE ctx[Get(fd)].sysNonblock

(* fcntl(fd, F_SETFL, arg) with arg's O_NONBLOCK set to nb.                *)
FcntlSetfl(t) ==
    /\ pc[t] = "idle" /\ "fcntl" \in Ops
    /\ \E fd \in known, nb \in BOOLEAN :
         /\ ctx' = IF Forwarded(fd) THEN ctx
                   ELSE [ctx EXCEPT ![Get(fd)].userNonblock = nb]
         /\ osNonblock' = [osNonblock EXCEPT ![fd] = SetflArg(fd, nb)]
         /\ userSet' = [userSet EXCEPT ![fd] = nb]
    /\ UNCHANGED <<osOpen, datas, known, pc, fdOf>>

(* ioctl(fd, FIONBIO, &v): m_userNonblock = v for a hooked socket, and     *)
(* in every case ioctl_f passes v on to the kernel.                        *)
IoctlFionbio(t) ==
    /\ pc[t] = "idle" /\ "ioctl" \in Ops
    /\ \E fd \in known, nb \in BOOLEAN :
         /\ ctx' = IF Forwarded(fd) THEN ctx
                   ELSE [ctx EXCEPT ![Get(fd)].userNonblock = nb]
         /\ osNonblock' = [osNonblock EXCEPT ![fd] = nb]
         /\ userSet' = [userSet EXCEPT ![fd] = nb]
    /\ UNCHANGED <<osOpen, datas, known, pc, fdOf>>

(* FdCtx::setTimeout(type, v): m_recvTimeout for SO_RCVTIMEO, else        *)
(* m_sendTimeout.                                                          *)
SetTimeout(c, type, v) ==
    IF type = "SO_RCVTIMEO" THEN ctx' = [ctx EXCEPT ![c].recvTimeout = v]
    ELSE ctx' = [ctx EXCEPT ![c].sendTimeout = v]

(* setsockopt(SOL_SOCKET, SO_RCVTIMEO or SO_SNDTIMEO, tv):                 *)
(* FdCtx::setTimeout with tv_sec * 1000 + tv_usec / 1000 milliseconds when *)
(* the fd has an entry.                                                    *)
Setsockopt(t) ==
    /\ pc[t] = "idle"
    /\ \E fd \in known, tv \in TimeVals, type \in {"SO_RCVTIMEO", "SO_SNDTIMEO"} :
         IF Get(fd) = 0 THEN UNCHANGED ctx
         ELSE SetTimeout(Get(fd), type, tv[1] * 1000 + tv[2] \div 1000)
    /\ UNCHANGED <<osOpen, osNonblock, datas, known, userSet, pc, fdOf>>

Next ==
    \E t \in Threads :
        \/ Socket(t) \/ Accept(t) \/ GetRead(t) \/ GetCreate(t) \/ Close(t) \/ CloseF(t)
        \/ FcntlSetfl(t) \/ IoctlFionbio(t) \/ Setsockopt(t)

Spec == Init /\ [][Next]_vars

-----------------------------------------------------------------------------
(* The O_NONBLOCK fcntl(fd, F_GETFL) reports: the kernel's flag for a      *)
(* forwarded fd, otherwise replaced by m_userNonblock.                     *)
GetflNonblock(fd) ==
    IF Forwarded(fd) THEN osNonblock[fd] ELSE ctx[Get(fd)].userNonblock

(* do_io's test: an fd with a live socket entry whose user flag is clear   *)
(* gets the coroutine path, which calls the syscall expecting EAGAIN.     *)
HookedPath(fd) == ~Forwarded(fd) /\ ~ctx[Get(fd)].userNonblock

(* Whatever the application did with socket(), fcntl and ioctl, F_GETFL    *)
(* on an fd it holds reports the O_NONBLOCK it last asked for: the user    *)
(* view kept in FdCtx::m_userNonblock (the spec's "user-requested          *)
(* nonblocking flag") never contradicts the application.  Threatened by    *)
(* socket(SOCK_NONBLOCK), whose request FdCtx::init does not record, and  *)
(* by each hook that must copy the request into the FdCtx.                 *)
UserViewConsistent == \A fd \in known : GetflNonblock(fd) = userSet[fd]

(* A hooked read or write that do_io sends down the coroutine path never   *)
(* finds a blocking fd in the kernel: otherwise the syscall blocks the     *)
(* whole worker thread instead of returning EAGAIN and yielding the fiber. *)
NoThreadBlock == \A fd \in known : HookedPath(fd) => osNonblock[fd]
====
