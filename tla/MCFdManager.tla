----------------------------- MODULE MCFdManager -----------------------------
(* Instances of FdManager for TLC: two threads, two fd numbers so that a   *)
(* closed fd is handed out again, and as many FdCtx objects as fds.        *)
EXTENDS FdManager

CONSTANTS t1, t2

MCThreads == {t1, t2}
MCFds == {3, 4}
MCCtxs == {1, 2}
BlockingSockets == {FALSE}
AnySockets == {FALSE, TRUE}
FcntlOnly == {"fcntl"}
FcntlAndIoctl == {"fcntl", "ioctl"}
\* a zero timeval and a sub-millisecond one, both 0 ms after the conversion
MCTimeVals == {<<0, 0>>, <<0, 500>>, <<1, 0>>}
====
