------------------------------ MODULE MCServers ------------------------------
(***************************************************************************)
(* The servers of cppNetwork on small instances, one of them in each       *)
(* behaviour: what is not of its part stays as it is.                      *)
(***************************************************************************)
EXTENDS Sockets, TLC

CONSTANTS p1, p2, EVENTS_LENGTH, Loop,
          Parts,               \* what a run is about
          DemoSends, WlSends,  \* Sends, of the parts that send less
          WlLength, WlJobs,    \* BUFFER_LENGTH and MaxJobs of wlnet
          SomeWorkers,         \* of the server that has worker threads
          PoolClients          \* bound: the descriptors it has for connections

ASSUME ServersAssumption == /\ EVENTS_LENGTH \in Nat \ {0} /\ BUFFER_LENGTH \in Nat \ {0}
                            /\ IsFiniteSet(Clients) /\ Clients \subseteq Nat \ {Listener}
                            /\ Nobody \notin Peers /\ Loop \notin SomeWorkers
                            /\ Sends \in [Peers -> Nat]
                            /\ DemoSends \in [Peers -> Nat] /\ WlSends \in [Peers -> Nat]
                            /\ WlLength \in Nat \ {0} /\ WlJobs \in Nat \ {0}

TwoPeers   == {p1, p2}
TwoClients == 1..2
ThreeToOne == p1 :> 3 @@ p2 :> 1
TwoToOne   == p1 :> 2 @@ p2 :> 1
TwoToNone  == p1 :> 2 @@ p2 :> 0
OneClient  == {1}

VARIABLES part,
          kind, watched, maxfd, ready, buff, clientfd,   \* of DemoServers
          blk, interest, events,                         \* of EchoReactor and Wlnet
          conn,                                          \* of EchoReactor
          pool, entry, edge, jobs, at, answered          \* of Wlnet

Reactor == INSTANCE EchoReactor
Demos   == INSTANCE DemoServers WITH Sends <- DemoSends
Wl      == INSTANCE Wlnet WITH BUFFER_LENGTH <- WlLength, Sends <- WlSends, MaxJobs <- WlJobs,
                               Workers <- SomeWorkers

demosVars == <<kind, watched, maxfd, ready, buff, clientfd>>
bothVars  == <<blk, interest, events>>
wlVars    == <<pool, entry, edge, jobs, at, answered>>
vars      == <<part, demosVars, bothVars, conn, wlVars, socketVars>>

NoDemos == kind = "" /\ watched = {} /\ maxfd = 0 /\ ready = {} /\ buff = <<>> /\ clientfd = 0
NoBoth  == blk = 0 /\ interest = <<>> /\ events = {}
NoWl    == pool = FALSE /\ entry = <<>> /\ edge = {} /\ jobs = <<>> /\ at = <<>> /\ answered = <<>>

Init == /\ part \in Parts
        /\ \/ part = "reactor"    /\ Reactor!Init /\ NoDemos /\ NoWl
           \/ part = "demos"      /\ Demos!Init /\ NoBoth /\ conn = <<>> /\ NoWl
           \/ part = "wlnet"      /\ Wl!Init /\ NoDemos /\ conn = <<>>

IsReactor == part = "reactor"    /\ UNCHANGED <<part, demosVars, wlVars>>
IsDemos   == part = "demos"      /\ UNCHANGED <<part, bothVars, conn, wlVars>>
IsWl      == part = "wlnet"      /\ UNCHANGED <<part, demosVars, conn>>

InBound == pool => \A f \in Clients \ PoolClients : peer'[f] = Nobody

Server == \/ IsReactor /\ Reactor!Server
          \/ IsDemos   /\ Demos!Server
          \/ IsWl      /\ Wl!Server /\ InBound

PeerActs(p) == \/ IsReactor /\ Reactor!PeerStep(p) /\ UNCHANGED <<bothVars, conn>>
               \/ IsDemos   /\ Demos!PeerStep(p) /\ UNCHANGED demosVars
               \/ IsWl      /\ Wl!PeerActs(p)

Next == Server \/ \E p \in Peers : PeerActs(p)

Spec == Init /\ [][Next]_vars

(* The fairness of the parts: the server runs, and peers read what they    *)
(* are sent.  accept may fail for ever.                                    *)
Fairness == /\ WF_vars(Server)
            /\ \A p \in Peers : WF_vars(PeerActs(p) /\ full[p] /\ ~full'[p])

FairSpec == Spec /\ Fairness
-----------------------------------------------------------------------------
(* What an event said still holds when its turn comes: see EventsHold of   *)
(* each of the modules.                                                    *)
EventsHold == /\ part = "reactor" => Reactor!EventsHold
              /\ part = "demos" => Demos!EventsHold
              /\ part = "wlnet" => Wl!EventsHold

(* The servers that look at the listener alone when it is ready            *)
(* (select-socket.cpp:67-76, poll-socket.cpp:67-74): while peers wait to   *)
(* be accepted, or accept fails, they see to nobody else.                  *)
ListenerFirst == part = "demos" /\ kind \in {"select", "poll"}

(* What an accepted peer sends is echoed or answered, unless it resets its *)
(* connection or the process ends; by select's and poll's servers only if  *)
(* from some time on no peer waits to be accepted.  wlnet with one thread  *)
(* answers too, to which no edge comes for what its connection had before. *)
(* Nothing is said of peers that are not accepted: see README.             *)
Replied(p, k) == IF part = "wlnet" THEN answered[p] >= k ELSE Len(echo[p]) >= k
RepliesCome ==
    (ListenerFirst => <>[](Backlog = {})) =>
        \A p \in Peers : \A k \in 1..Sends[p] :
            ~pool /\ Due(p, k) ~> Replied(p, k) \/ Excused(p)

(* "reactor框架的同步非阻塞IO多路复用模型" of wlnet/README.md:3, a reactor   *)
(* with I/O that does not block: no callback of a worker has to wait.      *)
CallbacksNeverWait == pool => Wl!CallbacksNeverWait
=============================================================================
