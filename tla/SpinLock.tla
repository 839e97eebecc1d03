------------------------------ MODULE SpinLock -------------------------------
(***************************************************************************)
(* tools/thread_pool/src/spinlock.h, the variant every C11 or C++11 build  *)
(* compiles: one atomic int, taken with test-and-test-and-set.             *)
(*                                                                         *)
(* A thread at "out" may call spinlock_lock or spinlock_trylock; one at    *)
(* "in" holds the lock and leaves with spinlock_unlock.  Each action is    *)
(* one access to the atomic int: the exchange of spinlock_lock has acquire *)
(* and the store of spinlock_unlock release ordering, so what a holder     *)
(* reads and writes in between is ordered by the accesses modelled here.   *)
(***************************************************************************)
EXTENDS Integers

CONSTANTS Threads,   \* the threads that share the lock
          Free       \* nobody, as the holder of a lock nobody holds

ASSUME NobodyAssumption == Free \notin Threads

VARIABLES lock,      \* spinlock.lock, the atomic int
          pc         \* where each thread is

vars == <<lock, pc>>

PCs == {"out", "exchange", "spin", "try_exchange", "in"}

TypeOK == /\ lock \in {0, 1}
          /\ pc \in [Threads -> PCs]

Goto(t, label) == pc' = [pc EXCEPT ![t] = label]

(* spinlock_init *)
Init == /\ lock = 0
        /\ pc = [t \in Threads |-> "out"]

LockCall(t) == /\ pc[t] = "out"
               /\ Goto(t, "exchange")
               /\ UNCHANGED lock

(* atomic_test_and_set_: writes 1 whatever it reads, and returns what it read. *)
TestAndSet(t, won, lost) ==
    /\ lock' = 1
    /\ Goto(t, IF lock = 0 THEN won ELSE lost)

LockExchange(t) == pc[t] = "exchange" /\ TestAndSet(t, "in", "spin")

\* Wrong variant: the spin loop takes the 0 it read for the lock.
SpinEnters(t) == /\ pc[t] = "spin" /\ lock = 0
                 /\ Goto(t, "in")
                 /\ UNCHANGED lock

(* while (atomic_load_relaxed_(..)) atomic_pause_(): leaves once it reads 0. *)
LockSpin(t) == /\ pc[t] = "spin"
               /\ lock = 0
               /\ Goto(t, "exchange")
               /\ UNCHANGED lock

(* spinlock_trylock: gives up at once when the relaxed load sees the lock taken. *)
TryLoad(t) == /\ pc[t] = "out"
              /\ lock = 0
              /\ Goto(t, "try_exchange")
              /\ UNCHANGED lock

TryExchange(t) == pc[t] = "try_exchange" /\ TestAndSet(t, "in", "out")

\* Wrong variant: the lock word stays 1.
LeaveLocked(t) == /\ pc[t] = "in"
                  /\ Goto(t, "out")
                  /\ UNCHANGED lock

Unlock(t) == /\ pc[t] = "in"
             /\ lock' = 0
             /\ Goto(t, "out")

Step(t) == \/ LockExchange(t)
           \/ LockSpin(t)
           \/ TryExchange(t)
           \/ Unlock(t)

Next == \E t \in Threads : LockCall(t) \/ TryLoad(t) \/ Step(t)

Spec == Init /\ [][Next]_vars

(* A thread that has called the lock keeps running, and a holder leaves: no *)
(* caller of spinlock_lock blocks or returns between lock and unlock.  Calls *)
(* themselves are never forced.                                             *)
Fairness == \A t \in Threads : WF_vars(Step(t))

FairSpec == Spec /\ Fairness
-----------------------------------------------------------------------------
Holders == {t \in Threads : pc[t] = "in"}

(* No two threads are between spinlock_lock/trylock and spinlock_unlock. *)
MutualExclusion == \A t, u \in Holders : t = u

(* The atomic int says whether somebody is inside: a losing exchange, which *)
(* writes 1 as well, never marks a free lock as taken.                      *)
LockWordExact == (lock = 1) <=> (Holders # {})

(* The lock seen from outside: who is inside, if anybody. *)
Holder == IF Holders = {} THEN Free ELSE CHOOSE t \in Threads : t \in Holders

Abstract == INSTANCE Mutex WITH holder <- Holder

(* spinlock.h implements Mutex: calls, losing exchanges and spinning are   *)
(* invisible from outside, the winning exchange acquires a free lock and   *)
(* the store of 0 releases it.                                             *)
ImplementsMutex == Abstract!MutexSpec

(* Whenever a thread is inside spinlock_lock some thread gets in.  That it *)
(* is the waiting one is not promised: an exchange may always lose.        *)
SomeThreadGetsIn ==
    (\E t \in Threads : pc[t] \in {"exchange", "spin"}) ~> (Holders # {})
=============================================================================
