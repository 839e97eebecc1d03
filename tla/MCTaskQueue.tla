----------------------------- MODULE MCTaskQueue -----------------------------
(* Three threads that post and pop without bound, and three task addresses, *)
(* so that a freed address comes back while others are still in use.        *)
EXTENDS TaskQueue, FiniteSets

ASSUME AddrFinite == IsFiniteSet(Addr)
=============================================================================
