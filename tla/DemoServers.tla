----------------------------- MODULE DemoServers -----------------------------
(***************************************************************************)
(* The echo servers of cppNetwork/socket, select, poll and epoll: one loop *)
(* in main each, around blocking calls (their connections block, only the  *)
(* listener does not, but in socket.cpp), and all of them read a buffer    *)
(* and send it back before anything else.                                  *)
(*                                                                         *)
(* Not here: poll's array has POLL_SIZE entries and select's sets have     *)
(* FD_SETSIZE bits; neither server compares a descriptor with these.       *)
(***************************************************************************)
EXTENDS Sockets

VARIABLES kind,      \* which of the servers runs
          watched,   \* rfds, the entries of fds, what epoll watches
          maxfd,
          ready,     \* what is left of what the call reported
          buff,      \* what recv took, until it is sent
          clientfd   \* whose it is

serverVars == <<kind, watched, maxfd, ready, buff, clientfd>>
vars       == <<serverVars, socketVars>>

TypeOK == /\ SocketsTypeOK
          /\ kind \in {"socket", "select", "poll", "epoll"}
          /\ watched \subseteq Fds /\ ready \subseteq Fds
          /\ maxfd \in Fds /\ clientfd \in Fds
          /\ buff \in Seq(Bytes) /\ Len(buff) <= BUFFER_LENGTH

(* Up to the loop: socket.cpp goes on with a blocking accept. *)
Init == /\ SocketsInit
        /\ kind \in {"socket", "select", "poll", "epoll"}
        /\ watched = IF kind = "socket" THEN {} ELSE {Listener}
        /\ ready = {Listener} \ watched
        /\ maxfd = Listener /\ clientfd = Listener
        /\ buff = <<>>

Sequential == kind = "socket"

(* select and poll are told of descriptors up to maxfd only.  The entries  *)
(* of poll's array before the listener's are never set, and may make it    *)
(* return early, with nothing to do.                                       *)
Reported == {f \in watched : Readable(f) /\ (kind = "epoll" \/ f <= maxfd)}

Wait == /\ alive /\ ~Sequential /\ ready = {} /\ buff = <<>>
        /\ Reported # {}
        /\ ready' = Reported
        /\ UNCHANGED <<kind, watched, maxfd, buff, clientfd, socketVars>>

(* Whose turn it is: select and poll see to the listener alone when it is  *)
(* ready, and else go through the others upwards; epoll has any order.     *)
Turn == IF kind = "epoll" \/ ready = {} THEN ready
        ELSE IF Listener \in ready THEN {Listener} ELSE {Min(ready)}

Handles(f) == alive /\ buff = <<>> /\ f \in Turn

Done(f) == IF f = Listener /\ kind # "epoll" THEN {} ELSE ready \ {f}

\* Wrong variant: if (clientfd < maxfd)
HighestSwapped(f) == IF f < maxfd THEN f ELSE maxfd

Highest(f) == Max({f, maxfd})

Accept(p, f) == /\ Handles(Listener) /\ Accepts(p, f)
                /\ watched' = IF Sequential THEN watched ELSE watched \cup {f}
                /\ maxfd' = Highest(f)
                /\ ready' = IF Sequential THEN {f} ELSE Done(Listener)
                /\ UNCHANGED <<kind, buff, clientfd>>

(* accept returns -1: epoll's server ends, and socket.cpp when recv(-1)    *)
(* fails.                                                                  *)
AcceptFails == /\ Handles(Listener)
               /\ IF kind \in {"select", "poll"} THEN UNCHANGED socketVars ELSE Exits
               /\ ready' = Done(Listener)
               /\ UNCHANGED <<kind, watched, maxfd, buff, clientfd>>

(* The len bytes that recv returns. *)
Taken(f) == [i \in 1..Available(f, BUFFER_LENGTH) |-> <<peer[f], got[peer[f]] + i>>]

Recv(f) == /\ f # Listener /\ Handles(f) /\ Receives(f, BUFFER_LENGTH)
           /\ buff' = Taken(f) /\ clientfd' = f
           /\ UNCHANGED <<kind, watched, maxfd, ready>>

(* send, whose result nobody looks at *)
Send == /\ alive /\ buff # <<>>
        /\ Delivers(clientfd, buff) \/ DeliveryFails(clientfd)
        /\ buff' = <<>> /\ ready' = Done(clientfd)
        /\ clientfd' = Listener
        /\ UNCHANGED <<kind, watched, maxfd>>

(* socket.cpp has served its one message. *)
Return == /\ alive /\ Sequential /\ ready = {} /\ buff = <<>>
          /\ Exits /\ UNCHANGED serverVars

Forgets(f) == /\ watched' = watched \ {f}
              /\ ready' = Done(f)
              /\ UNCHANGED <<kind, maxfd, buff, clientfd>>

(* recv returns 0: the connection is closed, and socket.cpp returns.       *)
RecvEnd(f) == /\ f # Listener /\ Handles(f) /\ ReceivesEnd(f)
              /\ IF Sequential THEN Exits ELSE Closes({f})
              /\ Forgets(f)

(* recv returns -1: select.cpp closes, poll.cpp tries again at the next    *)
(* round, and the others return from main.                                 *)
RecvFails(f) ==
    /\ f # Listener /\ Handles(f)
    /\ \/ /\ kind = "select"
          /\ NothingLeft(f) /\ reset[peer[f]] = "pending"
          /\ Closes({f}) /\ Forgets(f)
       \/ /\ kind = "poll"
          /\ ReceiveFails(f)
          /\ ready' = Done(f) /\ UNCHANGED <<kind, watched, maxfd, buff, clientfd>>
       \/ /\ kind \in {"epoll", "socket"}
          /\ NothingLeft(f) /\ reset[peer[f]] = "pending"
          /\ Exits /\ UNCHANGED serverVars

Server == \/ Wait \/ AcceptFails \/ Send \/ Return
          \/ \E p \in Peers, f \in Clients : Accept(p, f)
          \/ \E f \in Clients : Recv(f) \/ RecvEnd(f) \/ RecvFails(f)

Next == Server \/ \E p \in Peers : PeerStep(p) /\ UNCHANGED serverVars

Spec == Init /\ [][Next]_vars

(* The server runs, and peers read what they are sent.  accept may fail for *)
(* ever, as it does once the process has no descriptor left.               *)
Fairness == /\ WF_vars(Server)
            /\ \A p \in Peers : WF_vars(Drain(p) /\ UNCHANGED serverVars)

FairSpec == Spec /\ Fairness
-----------------------------------------------------------------------------
(* When the turn of a descriptor comes it is still the one that was        *)
(* reported, open and readable: accept and recv, which block, need not     *)
(* wait.  Every connection is watched, and in the range that is passed on. *)
EventsHold ==
    /\ TypeOK
    /\ alive /\ ~Sequential =>
         /\ \A f \in ready : f \in watched /\ (Readable(f) \/ (f = clientfd /\ buff # <<>>))
         /\ \A f \in Clients : peer[f] # Nobody => f \in watched /\ (kind = "epoll" \/ f <= maxfd)
=============================================================================
