--------------------------- MODULE MCCoroutineCalls --------------------------
(***************************************************************************)
(* What coroutines call and run on, on small instances, one of the four in *)
(* each behaviour: hook_tcpserver.c with two readers and two connections;  *)
(* the stack alone, with two coroutines that call, return and yield as     *)
(* they like; the hooked socket calls of two coroutines on two             *)
(* descriptors, where the longer buffer is twice what a connection has     *)
(* room for; and two tail queues, as the scheduler's, that share four      *)
(* elements.                                                               *)
(***************************************************************************)
EXTENDS HookServer

CONSTANTS StackCoroutines, StackValues,              \* bound: of SharedStack alone
          Callers, CallFds, Nobody, Room, Lengths,   \* of SocketHooks
          Heads, Elems,                              \* of TailQueues
          Parts                                      \* what a run is about

VARIABLES part,
          hooksAlive, hooksCurr, calls, sock, interest,   \* of SocketHooks
          links, order                                    \* of TailQueues

Hooks  == INSTANCE SocketHooks WITH Coroutines <- Callers, Fds <- CallFds,
                                    alive <- hooksAlive, curr <- hooksCurr, co <- calls
Queues == INSTANCE TailQueues WITH Nil <- Null, q <- links

callVars   == <<hooksAlive, hooksCurr, calls, sock, interest>>
queueVars  == <<links, order>>
serverVars == <<stackVars, hookVars>>

ASSUME CallsAssumption ==
    /\ Nobody \notin Callers /\ CallFds \subseteq Nat \ {0}
    /\ Room \in Nat \ {0} /\ Lengths \subseteq Nat
    /\ IsFiniteSet(Coroutines) /\ Parts \subseteq {"server", "stack", "calls", "queues"}
    /\ Heads \cap Elems = {} /\ Null \notin Heads \cup Elems

(* There is no server, and the stack holds anything. *)
StackInit == /\ Init /\ mem \in [1..Size -> StackValues]
             /\ at = [co \in Coroutines |-> "start"]
             /\ fd = [co \in Coroutines |-> NoFd] /\ given = fd
             /\ open = {} /\ ready = <<>> /\ batch = {} /\ alive = FALSE

StackInBound == /\ mem' \in [1..Size -> StackValues]
                /\ \A co \in Coroutines \ StackCoroutines : status'[co] = "none"

MCInit == /\ part \in Parts
          /\ Hooks!Init /\ Queues!Init
          /\ IF part = "stack" THEN StackInit ELSE HookInit

MCNext == /\ UNCHANGED part
          /\ \/ part = "server" /\ HookNext /\ UNCHANGED <<callVars, queueVars>>
             \/ /\ part = "stack"  /\ Next /\ StackInBound
                /\ UNCHANGED <<hookVars, callVars, queueVars>>
             \/ part = "calls"  /\ Hooks!Next /\ UNCHANGED <<serverVars, queueVars>>
             \/ part = "queues" /\ Queues!Next /\ UNCHANGED <<serverVars, callVars>>

MCSpec == MCInit /\ [][MCNext]_<<part, serverVars, callVars, queueVars>>

FairSpec == MCSpec /\ Hooks!Fairness
-----------------------------------------------------------------------------
(* A send sends a prefix of its buffer, once: see SocketHooks. *)
SendsAPrefix == Hooks!SendsAPrefix

(* Calls on connections look as if they blocked: see SocketHooks. *)
LooksBlocking == Hooks!LooksBlocking

(* A call returns once it can, if the ready queue runs empty again and     *)
(* again: see SocketHooks.                                                 *)
CallsReturn == part = "calls" => Hooks!CallsReturn

(* Tail queues keep their order, forwards and backwards. *)
LinksKeepOrder == Queues!LinksKeepOrder
=============================================================================
