------------------------------- MODULE Timers --------------------------------
(***************************************************************************)
(* What the scheduler promises to coroutines that sleep and to those that  *)
(* queue: a sleep is over at its own time and no other call ends it, the   *)
(* earliest goes first, and the queue is first in, first out.              *)
(***************************************************************************)
EXTENDS Naturals, Sequences

CONSTANT Coroutines

VARIABLES clock,     \* microseconds since the scheduler was created
          deadline,  \* when the sleep of a coroutine ends, or 0
          line       \* the coroutines that are ready

vars == <<clock, deadline, line>>

Sleepers == {co \in Coroutines : deadline[co] # 0}

Init == clock = 0 /\ deadline = [co \in Coroutines |-> 0] /\ Len(line) = 1

(* A sleep of the coroutine itself ends at a time of its own. *)
Sleep(co) == /\ deadline'[co] > clock
             /\ \A other \in Sleepers \ {co} : deadline[other] # deadline'[co]
             /\ deadline' = [deadline EXCEPT ![co] = deadline'[co]]
             /\ UNCHANGED <<clock, line>>

Wake(co) == /\ co \in Sleepers /\ deadline[co] <= clock
            /\ \A other \in Sleepers : deadline[co] <= deadline[other]
            /\ deadline' = [deadline EXCEPT ![co] = 0]
            /\ UNCHANGED <<clock, line>>

Queue(co) == line' = Append(line, co) /\ UNCHANGED <<clock, deadline>>
RunFirst  == line # <<>> /\ line' = Tail(line) /\ UNCHANGED <<clock, deadline>>
Pass      == clock' > clock /\ UNCHANGED <<deadline, line>>

Next == (\E co \in Coroutines : Sleep(co) \/ Wake(co) \/ Queue(co)) \/ RunFirst \/ Pass

TimersSpec == Init /\ [][Next]_vars
=============================================================================
