---------------------------- MODULE MCThreadPool -----------------------------
(* Small pools for TLC. *)
EXTENDS ThreadPool, FiniteSets

ASSUME PoolFinite == IsFiniteSet(Threads) /\ IsFiniteSet(Tasks)
=============================================================================
