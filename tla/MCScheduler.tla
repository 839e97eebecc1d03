---------------------------- MODULE MCScheduler ------------------------------
(* Small instances of Scheduler for TLC. *)
EXTENDS Scheduler

ASSUME SchedulerFinite == IsFiniteSet(Coroutines) /\ IsFiniteSet(Fds)
=============================================================================
