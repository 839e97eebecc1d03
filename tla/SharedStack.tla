----------------------------- MODULE SharedStack -----------------------------
(***************************************************************************)
(* How coroutines share one stack (cppNetwork/wlyCo/src, built with        *)
(* _USE_UCONTEXT): all run on sched->stack, a coroutine that yields has    *)
(* its frames copied out and one that is resumed has them copied back.     *)
(*                                                                         *)
(* Addresses are counted in words from the top of the stack: word 1 is the *)
(* first word of the outermost frame.  yield, swapcontext and resume need  *)
(* words of their own below depth, which they are done with when the       *)
(* coroutine goes on.                                                      *)
(***************************************************************************)
EXTENDS Naturals, Sequences

CONSTANTS Coroutines, Null,
          Values,      \* what a word may hold
          Size         \* the words of sched->stack, NTY_CO_MAX_STACKSIZE

ASSUME StackAssumption == Size \in Nat \ {0} /\ Null \notin Coroutines

VARIABLES mem,         \* sched->stack
          depth,       \* how many words the frames of the running coroutine take
          curr,        \* sched->curr_thread
          status,      \* what a coroutine is: NEW, READY (it was run) or none
          size,        \* co->stack_size
          saved,       \* co->stack: what it holds, up to stack_size
          room         \* history: how many words co->stack was allocated with

vars == <<mem, depth, curr, status, size, saved, room>>

TypeOK == /\ mem \in [1..Size -> Values]
          /\ depth \in 0..Size
          /\ curr \in Coroutines \cup {Null}
          /\ status \in [Coroutines -> {"none", "NEW", "READY"}]
          /\ size \in [Coroutines -> 0..Size]
          /\ saved \in [Coroutines -> Seq(Values)]
          /\ room \in [Coroutines -> 0..Size]

Init == /\ mem \in [1..Size -> Values]
        /\ depth = 0 /\ curr = Null
        /\ status = [co \in Coroutines |-> "none"]
        /\ size = [co \in Coroutines |-> 0]
        /\ saved = [co \in Coroutines |-> <<>>]
        /\ room = [co \in Coroutines |-> 0]

(* nty_coroutine_create, by main or by the running coroutine: co->stack = NULL *)
Create(co) == /\ status[co] = "none"
              /\ status' = [status EXCEPT ![co] = "NEW"]
              /\ UNCHANGED <<mem, depth, curr, size, saved, room>>

(* nty_coroutine_resume of a NEW coroutine: makecontext has its context     *)
(* start at the top, where _exec writes its first word.                     *)
Start(co) == /\ curr = Null /\ status[co] = "NEW"
             /\ curr' = co /\ depth' = 1
             /\ \E v \in Values : mem' = [mem EXCEPT ![1] = v]
             /\ status' = [status EXCEPT ![co] = "READY"]
             /\ UNCHANGED <<size, saved, room>>

\* Wrong variant: the copy is not loaded.
ResumeUnloaded(co) == /\ curr = Null /\ status[co] = "READY"
                      /\ curr' = co /\ depth' = size[co]
                      /\ UNCHANGED <<mem, status, size, saved, room>>

(* nty_coroutine_resume of any other: _load_stack and swapcontext *)
Resume(co) == /\ curr = Null /\ status[co] = "READY"
              /\ curr' = co /\ depth' = size[co]
              /\ mem' = [i \in 1..Size |-> IF i <= size[co] THEN saved[co][i] ELSE mem[i]]
              /\ UNCHANGED <<status, size, saved, room>>
-----------------------------------------------------------------------------
(* The running coroutine calls, returns, and writes to its variables. *)
Call == /\ curr # Null /\ depth < Size
        /\ depth' = depth + 1
        /\ \E v \in Values : mem' = [mem EXCEPT ![depth + 1] = v]
        /\ UNCHANGED <<curr, status, size, saved, room>>

Return == /\ curr # Null /\ depth > 1
          /\ depth' = depth - 1
          /\ UNCHANGED <<mem, curr, status, size, saved, room>>

Assign == /\ curr # Null
          /\ \E i \in 1..depth, v \in Values : mem' = [mem EXCEPT ![i] = v]
          /\ UNCHANGED <<depth, curr, status, size, saved, room>>

\* Wrong variant: memory is allocated for the first copy only.
YieldInOnce == /\ curr # Null
               /\ room' = [room EXCEPT ![curr] = IF size[curr] = 0 THEN depth ELSE @]
               /\ size' = [size EXCEPT ![curr] = depth]
               /\ saved' = [saved EXCEPT ![curr] = [i \in 1..depth |-> mem[i]]]
               /\ curr' = Null /\ depth' = 0
               /\ UNCHANGED <<mem, status>>

(* nty_coroutine_yield: _save_stack allocates when stack_size, the words of *)
(* the last copy, is too small, and copies all words from the top.          *)
Yield == /\ curr # Null
         /\ room' = [room EXCEPT ![curr] = IF size[curr] < depth THEN depth ELSE @]
         /\ size' = [size EXCEPT ![curr] = depth]
         /\ saved' = [saved EXCEPT ![curr] = [i \in 1..depth |-> mem[i]]]
         /\ curr' = Null /\ depth' = 0
         /\ UNCHANGED <<mem, status>>

(* _exec's yield, which saves nothing, and nty_coroutine_free *)
Exit == /\ curr # Null
        /\ status' = [status EXCEPT ![curr] = "none"]
        /\ size' = [size EXCEPT ![curr] = 0]
        /\ saved' = [saved EXCEPT ![curr] = <<>>]
        /\ room' = [room EXCEPT ![curr] = 0]
        /\ curr' = Null /\ depth' = 0
        /\ UNCHANGED mem

Next == \/ \E co \in Coroutines : Create(co) \/ Start(co) \/ Resume(co)
        \/ Call \/ Return \/ Assign \/ Yield \/ Exit

Spec == Init /\ [][Next]_vars
-----------------------------------------------------------------------------
(* Neither copy leaves the memory it was given: co->stack, whose size the   *)
(* code does not record but for the last copy, has room for the words that  *)
(* are copied to and from it.                                               *)
CopiesFit == \A co \in Coroutines : size[co] <= room[co]

(* The stack a coroutine would have if it had one of its own *)
StackOf == [co \in Coroutines |-> IF co = curr THEN [i \in 1..depth |-> mem[i]]
                                               ELSE saved[co]]

Private == INSTANCE PrivateStacks WITH Owners <- Coroutines, Nobody <- Null,
                                       stack <- StackOf, running <- curr

(* Sharing the stack is invisible to each coroutine by itself: whatever ran *)
(* in the meantime, it finds its frames as it left them.                    *)
ImplementsPrivateStacks == Private!StacksSpec
=============================================================================
