---------------------------- MODULE MCScheduler ----------------------------
(* Model-checking instance of Scheduler.  Work mirrors tests/test_scheduler *)
(* (start, schedule, stop) with a callback for any thread, a callback bound *)
(* to one worker and a fiber; three Fiber objects cover the fiber task and  *)
(* a fresh cb_fiber for each callback.                                      *)
EXTENDS Scheduler

CONSTANTS t1, t2

TwoWorkers == {t1, t2}
OneWorker == {t1}
MCCaller == t1
MCFiberIds == 1..3

WorkTwo == << [kind |-> "cb", thread |-> Any],
              [kind |-> "cb", thread |-> t2],
              [kind |-> "fiber", thread |-> Any] >>

WorkOne == << [kind |-> "fiber", thread |-> Any],
              [kind |-> "cb", thread |-> t1],
              [kind |-> "cb", thread |-> Any] >>
=============================================================================
