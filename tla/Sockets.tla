------------------------------- MODULE Sockets -------------------------------
(***************************************************************************)
(* What the servers of cppNetwork see of the operating system: peers that  *)
(* connect, send numbered bytes, read what they are sent, close or reset,  *)
(* and the kernel between them and the server's process.                   *)
(*                                                                         *)
(* accept takes the lowest free descriptor; a send of one buffer fits when *)
(* the descriptor is writable; recv and send report a reset once, then     *)
(* recv returns 0, and send raises SIGPIPE, which ends the process.        *)
(***************************************************************************)
EXTENDS Integers, SequencesExt, FiniteSetsExt

CONSTANTS Peers, Nobody,
          Clients,          \* descriptors for connections, positive numbers
          BUFFER_LENGTH,
          Sends             \* bound: how many bytes each peer sends

Listener == 0
Fds      == Clients \cup {Listener}
Bytes    == {b \in Peers \X Nat : b[2] \in 1..Sends[b[1]]}   \* numbered

VARIABLES alive,       \* the server's process runs
          peer,        \* whose connection a descriptor is; Nobody when it is free
          phase,       \* of a peer: "new", "backlog" (connected), "accepted"
          sent, got,   \* bytes a peer sent, and that recv took of them
          echo,        \* what a peer was sent back
          full,        \* the peer's connection takes no more for now
          fin,         \* the peer sent its FIN
          reset        \* a reset: "none", "pending" and "reported" to the server

peerVars   == <<phase, sent, fin>>
socketVars == <<alive, peer, peerVars, got, echo, full, reset>>

SocketsTypeOK == /\ alive \in BOOLEAN
                 /\ peer \in [Clients -> Peers \cup {Nobody}]
                 /\ phase \in [Peers -> {"new", "backlog", "accepted"}]
                 /\ \A p \in Peers : got[p] \in 0..sent[p] /\ sent[p] \in 0..Sends[p]
                 /\ \A p \in Peers : echo[p] \in Seq(Bytes)
                 /\ full \in [Peers -> BOOLEAN] /\ fin \in [Peers -> BOOLEAN]
                 /\ reset \in [Peers -> {"none", "pending", "reported"}]

SocketsInit == /\ alive = TRUE
               /\ peer = [f \in Clients |-> Nobody]
               /\ phase = [p \in Peers |-> "new"]
               /\ sent = [p \in Peers |-> 0] /\ got = [p \in Peers |-> 0]
               /\ echo = [p \in Peers |-> <<>>]
               /\ full = [p \in Peers |-> FALSE] /\ fin = [p \in Peers |-> FALSE]
               /\ reset = [p \in Peers |-> "none"]
-----------------------------------------------------------------------------
(* The peers, which know nothing of the server. *)
Connected(p) == phase[p] # "new" /\ ~fin[p] /\ reset[p] = "none"

Connect(p) == /\ phase[p] = "new"
              /\ phase' = [phase EXCEPT ![p] = "backlog"]
              /\ UNCHANGED <<alive, peer, sent, fin, got, echo, full, reset>>

PeerSend(p) == /\ Connected(p) /\ sent[p] < Sends[p]
               /\ sent' = [sent EXCEPT ![p] = @ + 1]
               /\ UNCHANGED <<alive, peer, phase, fin, got, echo, full, reset>>

PeerClose(p) == /\ Connected(p)
                /\ fin' = [fin EXCEPT ![p] = TRUE]
                /\ UNCHANGED <<alive, peer, phase, sent, got, echo, full, reset>>

PeerReset(p) == /\ phase[p] = "accepted" /\ reset[p] = "none"
                /\ reset' = [reset EXCEPT ![p] = "pending"]
                /\ UNCHANGED <<alive, peer, peerVars, got, echo, full>>

(* The peer reads, and there is room for an echo again. *)
Drain(p) == /\ full[p]
            /\ full' = [full EXCEPT ![p] = FALSE]
            /\ UNCHANGED <<alive, peer, peerVars, got, echo, reset>>

(* After the end of the process they are of no interest. *)
PeerStep(p) == alive /\ (Connect(p) \/ PeerSend(p) \/ PeerClose(p) \/ PeerReset(p) \/ Drain(p))
-----------------------------------------------------------------------------
Backlog == {p \in Peers : phase[p] = "backlog"}
Unused  == {f \in Clients : peer[f] = Nobody}

Readable(f) == IF f = Listener THEN Backlog # {}
               ELSE LET p == peer[f] IN p # Nobody /\ (sent[p] > got[p] \/ fin[p] \/ reset[p] # "none")
Writable(f) == LET p == peer[f] IN p # Nobody /\ (~full[p] \/ reset[p] # "none")

(* accept for the connection of p, with the descriptor that it returns *)
Accepts(p, f) == /\ p \in Backlog /\ Unused # {} /\ f = Min(Unused)
                 /\ peer' = [peer EXCEPT ![f] = p]
                 /\ phase' = [phase EXCEPT ![p] = "accepted"]
                 /\ UNCHANGED <<alive, sent, fin, got, echo, full, reset>>

(* recv of up to len bytes *)
Available(f, len) == Min({len, sent[peer[f]] - got[peer[f]]})
Receives(f, len)  == /\ peer[f] # Nobody /\ Available(f, len) > 0
                     /\ got' = [got EXCEPT ![peer[f]] = @ + Available(f, len)]
                     /\ UNCHANGED <<alive, peer, peerVars, echo, full, reset>>

(* ... that fails, and that returns 0 *)
NothingLeft(f) == peer[f] # Nobody /\ sent[peer[f]] = got[peer[f]]

ReceiveFails(f) == /\ NothingLeft(f) /\ reset[peer[f]] = "pending"
                   /\ reset' = [reset EXCEPT ![peer[f]] = "reported"]
                   /\ UNCHANGED <<alive, peer, peerVars, got, echo, full>>

ReceivesEnd(f) == LET p == peer[f] IN
                  NothingLeft(f) /\ (reset[p] = "reported" \/ (reset[p] = "none" /\ fin[p]))

(* close of the descriptors in S *)
Closes(S) == /\ peer' = [f \in Clients |-> IF f \in S THEN Nobody ELSE peer[f]]
             /\ UNCHANGED <<alive, peerVars, got, echo, full, reset>>

(* send *)
Delivers(f, bytes) == LET p == peer[f] IN
                      /\ p # Nobody /\ reset[p] = "none" /\ ~full[p]
                      /\ echo' = [echo EXCEPT ![p] = @ \o bytes]
                      /\ full' \in {full, [full EXCEPT ![p] = TRUE]}
                      /\ UNCHANGED <<alive, peer, peerVars, got, reset>>

(* ... that fails, the second time by SIGPIPE *)
DeliveryFails(f) == LET p == peer[f] IN
                    /\ p # Nobody /\ reset[p] # "none"
                    /\ alive' = (reset[p] = "pending")
                    /\ reset' = [reset EXCEPT ![p] = "reported"]
                    /\ UNCHANGED <<peer, peerVars, got, echo, full>>

(* The process returns from main. *)
Exits == alive' = FALSE /\ UNCHANGED <<peer, peerVars, got, echo, full, reset>>
-----------------------------------------------------------------------------
(* Every peer is echoed what it sent, from the start, in order and without   *)
(* gaps, and nothing of another: although descriptors, and a reactor's       *)
(* entries and buffers, pass from one connection to the next as they are.    *)
EchoesItsOwn == \A p \in Peers : \A i \in 1..Len(echo[p]) : echo[p][i] = <<p, i>>

(* For that a reply is due, and what excuses a server from it. *)
Due(p, k)  == sent[p] >= k /\ phase[p] = "accepted"
Excused(p) == reset[p] # "none" \/ ~alive
=============================================================================
