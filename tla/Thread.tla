------------------------------- MODULE Thread -------------------------------
(***************************************************************************)
(* frb::Thread, frb::Semaphore and frb::Mutex with its scoped lock         *)
(* (src/include/thread.h, src/src/thread.cpp), as the operations an owner  *)
(* composes: Scheduler instantiates this module for its worker threads     *)
(* and its m_mutex.                                                        *)
(*                                                                         *)
(* The Thread constructor returns only after the new thread has passed     *)
(* m_semaphore.notify() in Thread::run: everything run() writes into the   *)
(* Thread object before the notify (m_id above all) is visible to the      *)
(* constructing thread, and nothing after it touches the object.           *)
(***************************************************************************)
EXTENDS Naturals

CONSTANTS
    Threads,    \* the Thread objects the owner constructs
    NoTid       \* m_id's initial value -1

ASSUME NoTid \notin Threads

VARIABLES
    tstate,     \* the pthread: "none", "created", "started" (in cb()), "exited"
    tid,        \* Thread::m_id; a started thread's id is the thread itself
    sem,        \* the count of Thread::m_semaphore
    handle,     \* Thread::m_thread # 0
    mutex       \* who holds the Mutex, or Unlocked

thvars == <<tstate, tid, sem, handle, mutex>>

Unlocked == "unlocked"

TypeOK ==
    /\ tstate \in [Threads -> {"none", "created", "started", "exited"}]
    /\ tid \in [Threads -> Threads \cup {NoTid}]
    /\ sem \in [Threads -> Nat]
    /\ handle \in [Threads -> BOOLEAN]

(* Member initialisers: m_id = -1, m_thread = 0, Semaphore(0).             *)
Init ==
    /\ tstate = [t \in Threads |-> "none"]
    /\ tid = [t \in Threads |-> NoTid]
    /\ sem = [t \in Threads |-> 0]
    /\ handle = [t \in Threads |-> FALSE]
    /\ mutex = Unlocked

(* Thread::Thread: pthread_create(&m_thread, ..., &Thread::run, this).     *)
(* The constructor goes on to m_semaphore.wait(), which is Wait.           *)
Create(t) ==
    /\ tstate[t] = "none"
    /\ tstate' = [tstate EXCEPT ![t] = "created"]
    /\ handle' = [handle EXCEPT ![t] = TRUE]
    /\ UNCHANGED <<tid, sem, mutex>>

(* Semaphore::notify: sem_post adds one to the count.                      *)
Notify(t) == sem' = [sem EXCEPT ![t] = @ + 1]

(* Thread::run up to cb(): t_thread, t_thread_name, m_id = GetThreadId(),  *)
(* pthread_setname_np and cb.swap(m_cb), then m_semaphore.notify().        *)
Run(t) ==
    /\ tstate[t] = "created"
    /\ tid' = [tid EXCEPT ![t] = t]
    /\ Notify(t)
    /\ tstate' = [tstate EXCEPT ![t] = "started"]
    /\ UNCHANGED <<handle, mutex>>

(* Semaphore::wait in the constructor: sem_wait blocks while the count is  *)
(* zero, then takes one.                                                   *)
\* Mutant: wait returns without a post (a semaphore that does not block).
WaitNoBlock(t) ==
    /\ sem' = [sem EXCEPT ![t] = IF @ > 0 THEN @ - 1 ELSE 0]
    /\ UNCHANGED <<tstate, tid, handle, mutex>>

Wait(t) ==
    /\ sem[t] > 0
    /\ sem' = [sem EXCEPT ![t] = @ - 1]
    /\ UNCHANGED <<tstate, tid, handle, mutex>>

(* Thread::run returns 0 once cb() has returned.                           *)
Exit(t) ==
    /\ tstate[t] = "started"
    /\ tstate' = [tstate EXCEPT ![t] = "exited"]
    /\ UNCHANGED <<tid, sem, handle, mutex>>

(* Thread::join: with m_thread set, pthread_join blocks until the thread   *)
(* has exited, then m_thread = 0.  A second join finds m_thread = 0 and    *)
(* does nothing.                                                           *)
Join(t) ==
    /\ handle[t]
    /\ tstate[t] = "exited"
    /\ handle' = [handle EXCEPT ![t] = FALSE]
    /\ UNCHANGED <<tstate, tid, sem, mutex>>

(* Mutex::Lock lock(m): ScopedLockImpl's constructor calls Mutex::lock,    *)
(* pthread_mutex_lock, which blocks while another thread holds it, and     *)
(* sets m_locked.                                                          *)
Lock(o) ==
    /\ mutex = Unlocked
    /\ mutex' = o
    /\ UNCHANGED <<tstate, tid, sem, handle>>

(* ~ScopedLockImpl: unlock() releases the mutex when m_locked is set.      *)
Unlock(o) ==
    /\ mutex = o
    /\ mutex' = Unlocked
    /\ UNCHANGED <<tstate, tid, sem, handle>>
=============================================================================
