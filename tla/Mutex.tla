-------------------------------- MODULE Mutex --------------------------------
(***************************************************************************)
(* What a lock promises to the threads that share it: at most one of them  *)
(* holds it, only a free lock is taken and only its holder gives it back.  *)
(* spinlock.h is shown to implement this module (SpinLock), and the task   *)
(* queue is modelled on top of it (TaskQueue).                             *)
(***************************************************************************)
CONSTANTS Threads,   \* the threads that use the lock
          Free       \* "no thread", the holder of a lock nobody holds

ASSUME FreeAssumption == Free \notin Threads

VARIABLE holder      \* the thread that holds the lock, or Free

MutexTypeOK == holder \in Threads \cup {Free}

MutexInit == holder = Free

Acquire(t) == holder = Free /\ holder' = t

Release(t) == holder = t /\ holder' = Free

MutexNext == \E t \in Threads : Acquire(t) \/ Release(t)

MutexSpec == MutexInit /\ [][MutexNext]_holder
=============================================================================
