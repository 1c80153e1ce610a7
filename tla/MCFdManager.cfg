\* Sockets created with or without SOCK_NONBLOCK in their type, then
\* fcntl and ioctl on two fd numbers by two threads.
CONSTANTS
    t1 = t1
    t2 = t2
    Threads <- MCThreads
    Fds <- MCFds
    Ctxs <- MCCtxs
    SockFlags <- AnySockets
    Ops <- FcntlAndIoctl
    TimeVals <- MCTimeVals
SPECIFICATION Spec
INVARIANT UserViewConsistent
