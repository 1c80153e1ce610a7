CONSTANTS
    t1 = t1
    t2 = t2
    Threads <- MCThreads
    Fds <- MCFds
    Ctxs <- MCCtxs
    SockFlags <- BlockingSockets
    Ops <- FcntlAndIoctl
    TimeVals <- MCTimeVals
SPECIFICATION Spec
INVARIANT NoThreadBlock
