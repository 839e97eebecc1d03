------------------------------- MODULE MCTrees -------------------------------
(***************************************************************************)
(* The two trees of the coroutine scheduler on small instances, one of     *)
(* them in each behaviour: three coroutines that sleep, and the tree of    *)
(* waiters over nine descriptors.                                          *)
(***************************************************************************)
EXTENDS SleepTimer, WaitTree

VARIABLE part

allVars == <<part, vars, waitVars>>

MCInit == part \in {"timer", "waits"} /\ Init /\ WaitInit

(* main returns, or the wait would go beyond the bound. *)
TimerEnds == (phase = "done" \/ (phase = "wait" /\ now + timeout > MaxNow)) /\ UNCHANGED vars

MCNext == /\ UNCHANGED part
          /\ \/ part = "timer" /\ (Next \/ TimerEnds) /\ UNCHANGED waitVars
             \/ part = "waits" /\ WaitNext /\ UNCHANGED vars

MCSpec == MCInit /\ [][MCNext]_allVars
=============================================================================
