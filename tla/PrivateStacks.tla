---------------------------- MODULE PrivateStacks ----------------------------
(***************************************************************************)
(* What a coroutine sees of its stack (README.md:65 of wlyCo: each has one *)
(* of its own): calls and assignments of the coroutine that runs change    *)
(* its stack, and nothing else changes any stack.                          *)
(***************************************************************************)
EXTENDS Sequences, Naturals

CONSTANTS Owners, Values, Nobody

VARIABLES stack,      \* stack[co]: the words of co's frames, the outermost first
          running     \* the coroutine that runs, or Nobody

stackVars == <<stack, running>>

StacksInit == running = Nobody /\ stack = [co \in Owners |-> <<>>]

SetStack(words) == stack' = [stack EXCEPT ![running] = words]

StartsWith(co, v) == /\ running = Nobody /\ stack[co] = <<>>
                     /\ running' = co
                     /\ stack' = [stack EXCEPT ![co] = <<v>>]

Continues(co) == /\ running = Nobody /\ stack[co] # <<>>
                 /\ running' = co
                 /\ UNCHANGED stack

Calls(v) == SetStack(Append(stack[running], v))

Returns == /\ Len(stack[running]) > 1
           /\ SetStack(SubSeq(stack[running], 1, Len(stack[running]) - 1))

Assigns(i, v) == SetStack([stack[running] EXCEPT ![i] = v])

(* What the coroutine does to its stack while it runs *)
Works == /\ running # Nobody /\ UNCHANGED running
         /\ \/ \E v \in Values : Calls(v)
            \/ Returns
            \/ \E i \in 1..Len(stack[running]), v \in Values : Assigns(i, v)

Suspends == running # Nobody /\ running' = Nobody /\ UNCHANGED stack

Ends == running # Nobody /\ running' = Nobody /\ SetStack(<<>>)

StacksNext == \/ \E co \in Owners : Continues(co) \/ \E v \in Values : StartsWith(co, v)
              \/ Works \/ Suspends \/ Ends

StacksSpec == StacksInit /\ [][StacksNext]_stackVars
=============================================================================
