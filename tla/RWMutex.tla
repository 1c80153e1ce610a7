------------------------------ MODULE RWMutex ------------------------------
(***************************************************************************)
(* frb::RWMutex over pthread_rwlock_t, with the scoped ReadLock and        *)
(* WriteLock of src/include/thread.h, as the operations an owner composes: *)
(* Config instantiates it for each ConfigVar's m_mutex.                    *)
(*                                                                         *)
(* RWMutex passes a null attribute to pthread_rwlock_init, so the lock has *)
(* glibc's default kind, which prefers readers: a reader gets in whenever  *)
(* no writer holds the lock, even while a writer is waiting.  A writer    *)
(* gets in only when nobody holds it.  Nothing here is re-entrant: a       *)
(* thread that asks for the write lock while it holds the read lock waits  *)
(* forever.                                                                *)
(***************************************************************************)

CONSTANTS
    Owners,     \* the threads that lock it
    NoOwner     \* no writer

ASSUME NoOwner \notin Owners

VARIABLES
    readers,    \* threads holding the read lock
    writer      \* the thread holding the write lock, or NoOwner

TypeOK == readers \subseteq Owners /\ writer \in Owners \cup {NoOwner}

(* RWMutex(): pthread_rwlock_init, unlocked.                               *)
Init == readers = {} /\ writer = NoOwner

(* RWMutex::rdlock: pthread_rwlock_rdlock waits while a writer holds it.  *)
RdLock(o) ==
    /\ writer = NoOwner
    /\ readers' = readers \cup {o}
    /\ UNCHANGED writer

(* RWMutex::wrlock: pthread_rwlock_wrlock waits until nobody holds it.    *)
WrLock(o) ==
    /\ writer = NoOwner /\ readers = {}
    /\ writer' = o
    /\ UNCHANGED readers

(* RWMutex::unlock: pthread_rwlock_unlock releases what o holds.          *)
Unlock(o) ==
    /\ o \in readers \/ writer = o
    /\ readers' = readers \ {o}
    /\ writer' = IF writer = o THEN NoOwner ELSE writer

(* ReadScopedLockImpl / WriteScopedLockImpl: the constructor locks and     *)
(* sets m_locked; unlock(), which the destructor calls, unlocks once and   *)
(* clears it.                                                              *)
ReadLock(o) == RdLock(o)
WriteLock(o) == WrLock(o)
ScopedUnlock(o) == Unlock(o)

(* A write section whose body is one atomic step: WriteLock, the body,     *)
(* and the destructor's unlock leave the lock as they found it, once the   *)
(* write lock could be taken.                                              *)
WriteSection == writer = NoOwner /\ readers = {}

(* A read section whose body is one atomic step.                           *)
ReadSection == writer = NoOwner
=============================================================================
