----------------------------- MODULE EchoReactor -----------------------------
(***************************************************************************)
(* cppNetwork/reactor/reactor-socket.cpp: one thread waits for epoll, level *)
(* triggered, and calls the callback that its table has for the descriptor  *)
(* of each event.  A connection is read from and written to in turns.       *)
(*                                                                         *)
(* The sockets block.  A callback that would have to wait is an event that  *)
(* cannot be handled.                                                       *)
(*                                                                         *)
(* Not here: a malloc for a block of the table that fails.  zv_connect_idx  *)
(* returns NULL then, which its callers follow (lines 205-209, 245-246).    *)
(***************************************************************************)
EXTENDS Sockets

CONSTANT EVENTS_LENGTH    \* entries in a block of the table

Zero == <<Nobody, 0>>     \* what memset writes
Junk == <<Nobody, 1>>     \* what malloc left

VARIABLES blk,         \* reactor->blk
          conn,        \* the table, over the numbers of its blocks
          interest,    \* what epoll watches a descriptor for
          events       \* what is left of the batch from epoll_wait

serverVars == <<blk, conn, interest, events>>
vars       == <<serverVars, socketVars>>

Conn == [fd : Fds \cup {-1}, count : Nat, cb : {"none", "accept_cb", "recv_cb", "send_cb"},
         rc : Nat, rbuffer : [1..BUFFER_LENGTH -> Bytes \cup {Zero, Junk}]]

TypeOK == /\ SocketsTypeOK
          /\ blk \in Nat \ {0}
          /\ conn \in [Fds -> Conn] /\ \A f \in Fds : conn[f].rc <= BUFFER_LENGTH
          /\ interest \in [Fds -> {"none", "in", "out"}]
          /\ events \subseteq Fds \X {"in", "out"}

(* What malloc leaves in an entry: nothing of it is to be relied on.         *)
Unset == [fd |-> -1, count |-> BUFFER_LENGTH + 1, cb |-> "none", rc |-> 0,
          rbuffer |-> [i \in 1..BUFFER_LENGTH |-> Junk]]

(* zv_init_reactor and set_listener *)
Init == /\ SocketsInit
        /\ blk = 1
        /\ conn = [f \in Fds |-> IF f = Listener
                                 THEN [Unset EXCEPT !.fd = f, !.cb = "accept_cb"] ELSE Unset]
        /\ interest = [f \in Fds |-> IF f = Listener THEN "in" ELSE "none"]
        /\ events = {}
-----------------------------------------------------------------------------
Ready == {e \in Fds \X {"in", "out"} :
            interest[e[1]] = e[2] /\ IF e[2] = "in" THEN Readable(e[1]) ELSE Writable(e[1])}

(* epoll_wait, when the last batch is done *)
EpollWait == /\ alive /\ events = {} /\ Ready # {}
             /\ events' = Ready
             /\ UNCHANGED <<blk, conn, interest, socketVars>>

(* The main loop takes an event, looks up its entry with zv_connect_idx,     *)
(* which adds blocks up to the one it is in, and calls the callback.         *)
BlocksFor(f) == Max({blk, f \div EVENTS_LENGTH + 1})

Call(e, cb) == /\ alive /\ e \in events
               /\ conn[e[1]].cb = cb
               /\ events' = events \ {e}

(* epoll_ctl, to add or to modify *)
Watch(f, what) == [interest EXCEPT ![f] = what]

OpenEntry(f) == [conn[f] EXCEPT !.fd = f, !.count = BUFFER_LENGTH, !.cb = "recv_cb"]

(* accept_cb: accept fails, for want of a descriptor or of memory. *)
AcceptFails(e) == Call(e, "accept_cb") /\ UNCHANGED <<blk, conn, interest, socketVars>>

Accept(e, p, f) ==
    /\ Call(e, "accept_cb") /\ Accepts(p, f)
    /\ blk' = BlocksFor(f)
    /\ conn' = [conn EXCEPT ![f] = OpenEntry(f)]
    /\ interest' = Watch(f, "in")

(* recv_cb takes up to a buffer of what is there; send_cb is to echo it. *)
Recv(e) ==
    LET f   == e[1]
        p   == peer[f]
        len == Available(f, conn[f].count)
    IN /\ Call(e, "recv_cb") /\ Receives(f, conn[f].count)
       /\ conn' = [conn EXCEPT ![f].rbuffer = [i \in DOMAIN @ |->
                                                 IF i <= len THEN <<p, got[p] + i>> ELSE @[i]],
                               ![f].rc = len, ![f].cb = "send_cb"]
       /\ interest' = Watch(f, "out")
       /\ UNCHANGED blk

(* ... recv fails: return *)
RecvFails(e) == Call(e, "recv_cb") /\ ReceiveFails(e[1]) /\ UNCHANGED <<blk, conn, interest>>

(* ... recv returns 0: close(conn->fd) and close(fd) *)
Closed(f) == {conn[f].fd, f}

RecvEnd(e) == LET f == e[1] IN
              /\ Call(e, "recv_cb") /\ ReceivesEnd(f)
              /\ Closes(Closed(f))
              /\ interest' = [g \in Fds |-> IF g \in Closed(f) THEN "none" ELSE interest[g]]
              /\ conn' = [conn EXCEPT ![f].fd = -1, ![f].rc = 0]
              /\ UNCHANGED blk

\* Wrong variant: sizeof(conn->rbuffer) in place of conn->rc
WholeBuffer(c) == c.rbuffer

Outgoing(c) == SubSeq(c.rbuffer, 1, c.rc)

(* send_cb sends rc bytes and clears them. *)
Send(e) == LET f == e[1]  c == conn[f] IN
           /\ Call(e, "send_cb") /\ Delivers(f, Outgoing(c))
           /\ conn' = [conn EXCEPT ![f].rbuffer = [i \in DOMAIN @ |-> IF i <= c.rc THEN Zero ELSE @[i]],
                                   ![f].cb = "recv_cb"]
           /\ interest' = Watch(f, "in")
           /\ UNCHANGED blk

(* ... send fails: return *)
SendFails(e) == Call(e, "send_cb") /\ DeliveryFails(e[1]) /\ UNCHANGED <<blk, conn, interest>>
-----------------------------------------------------------------------------
Handle(e) == \/ AcceptFails(e) \/ Recv(e) \/ RecvFails(e) \/ RecvEnd(e) \/ Send(e) \/ SendFails(e)
             \/ \E p \in Peers, f \in Clients : Accept(e, p, f)

Server == EpollWait \/ \E e \in events : Handle(e)

Next == Server \/ \E p \in Peers : PeerStep(p) /\ UNCHANGED serverVars

Spec == Init /\ [][Next]_vars

(* The server runs, and peers read what they are sent. *)
Fairness == WF_vars(Server) /\ \A p \in Peers : WF_vars(Drain(p) /\ UNCHANGED serverVars)

FairSpec == Spec /\ Fairness
-----------------------------------------------------------------------------
(* What an event of the batch said still holds when its turn comes, although *)
(* callbacks have accepted, closed and reused descriptors since: the entry   *)
(* is in a block that exists, has the callback for it, and the callback need *)
(* not wait.                                                                 *)
EventsHold ==
    /\ TypeOK
    /\ alive => \A e \in events :
         /\ e[1] \div EVENTS_LENGTH < blk
         /\ conn[e[1]].cb = IF e[1] = Listener THEN "accept_cb"
                            ELSE IF e[2] = "in" THEN "recv_cb" ELSE "send_cb"
         /\ IF e[2] = "in" THEN Readable(e[1]) ELSE Writable(e[1])
=============================================================================
