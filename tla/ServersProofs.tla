---------------------------- MODULE ServersProofs ----------------------------
(***************************************************************************)
(* The servers of cppNetwork echo every peer its own bytes, and no event   *)
(* is handled that does not hold any more: for any peers, descriptors,     *)
(* sizes and worker threads.                                               *)
(*                                                                         *)
(* First the connections, whatever server has them; then each server.      *)
(***************************************************************************)
EXTENDS MCServers, SequenceTheorems, WellFoundedInduction, TLAPS

(* The natural numbers are well-founded, so a set of them has a least. *)
LEMMA MinIsLeast ==
  ASSUME NEW T, T \subseteq Nat, T # {}
  PROVE  Min(T) \in T /\ \A y \in T : Min(T) <= y
<1>1. PICK x \in T : \A y \in T : ~(<<y, x>> \in OpToRel(<, Nat))
  BY NatLessThanWellFounded, WFMin, Zenon
<1>2. ASSUME NEW y \in T, y < x
      PROVE  <<y, x>> \in OpToRel(<, Nat)
  BY <1>2, Zenon DEF OpToRel
<1>3. \A y \in T : ~(y < x)
  BY <1>1, <1>2
<1>4. \A y \in T : x <= y
  BY <1>3
<1> QED
  BY <1>4 DEF Min

LEMMA MaxOfTwo ==
  ASSUME NEW a \in Nat, NEW b \in Nat
  PROVE  Max({a, b}) \in {a, b} /\ Max({a, b}) >= a /\ Max({a, b}) >= b
<1>1. \E x \in {a, b} : \A y \in {a, b} : x >= y
  <2>1. CASE a >= b
    BY <2>1
  <2>2. CASE b >= a
    BY <2>2
  <2> QED
    BY <2>1, <2>2
<1>2. Max({a, b}) \in {a, b} /\ \A y \in {a, b} : Max({a, b}) >= y
  BY <1>1 DEF Max
<1> QED
  BY <1>2
-----------------------------------------------------------------------------
(* What a peer has: it was echoed no more than recv took of what it sent,   *)
(* and a peer that was not accepted yet nothing.                            *)
PeerTypes(sends) ==
    /\ alive \in BOOLEAN
    /\ phase \in [Peers -> {"new", "backlog", "accepted"}]
    /\ sent \in [Peers -> Nat] /\ got \in [Peers -> Nat]
    /\ echo \in [Peers -> Seq(Peers \X Nat)]
    /\ full \in [Peers -> BOOLEAN] /\ fin \in [Peers -> BOOLEAN]
    /\ reset \in [Peers -> {"none", "pending", "reported"}]
    /\ \A p \in Peers : got[p] <= sent[p] /\ sent[p] <= sends[p]

Echoed == \A p \in Peers : /\ Len(echo[p]) <= got[p]
                           /\ phase[p] # "accepted" => got[p] = 0

PeersInv(sends) == PeerTypes(sends) /\ Echoed /\ EchoesItsOwn

(* The connections of the descriptors cs are of different peers. *)
OneFdEach(cs) ==
    /\ peer \in [cs -> Peers \cup {Nobody}]
    /\ \A f \in cs : peer[f] # Nobody => phase[peer[f]] = "accepted"
    /\ \A f, g \in cs : peer[f] = peer[g] /\ peer[f] # Nobody => f = g

SocketsInv(cs, sends) == PeersInv(sends) /\ OneFdEach(cs)

(* That is all that the modules say of the types. *)
LEMMA EchoTyped ==
  ASSUME NEW sends \in [Peers -> Nat], PeersInv(sends), NEW p \in Peers
  PROVE  echo[p] \in Seq({b \in Peers \X Nat : b[2] \in 1..sends[b[1]]})
<1> DEFINE B == {b \in Peers \X Nat : b[2] \in 1..sends[b[1]]}
<1>1. echo[p] \in Seq(Peers \X Nat) /\ Len(echo[p]) \in Nat
  BY DEF PeersInv, PeerTypes
<1>2. \A i \in 1..Len(echo[p]) : echo[p][i] \in B
  <2> SUFFICES ASSUME NEW i \in 1..Len(echo[p])
               PROVE  echo[p][i] \in B
    OBVIOUS
  <2>1. echo[p][i] = <<p, i>> /\ i \in Nat
    BY <1>1 DEF PeersInv, EchoesItsOwn
  <2>2. got[p] \in Nat /\ sent[p] \in Nat /\ sends[p] \in Nat
        /\ Len(echo[p]) <= got[p] /\ got[p] <= sent[p] /\ sent[p] <= sends[p]
    BY DEF PeersInv, PeerTypes, Echoed
  <2>3. i \in 1..sends[p]
    BY <1>1, <2>2
  <2> QED
    BY <2>1, <2>3
<1>3. echo[p] \in [1..Len(echo[p]) -> B]
  <2>1. echo[p] = [i \in 1..Len(echo[p]) |-> echo[p][i]]
    BY <1>1
  <2> QED
    BY <1>2, <2>1
<1>4. Seq(B) = UNION {[1..n -> B] : n \in Nat}
  BY SeqDef
<1> HIDE DEF B
<1>5. echo[p] \in Seq(B)
  BY <1>1, <1>3, <1>4
<1> QED
  BY <1>5 DEF B

(* What the peers do: none of it takes back that something can be read or   *)
(* written.                                                                *)
PeersGoOn(sends) ==
    /\ UNCHANGED <<alive, peer, got, echo>>
    /\ phase' \in [Peers -> {"new", "backlog", "accepted"}]
    /\ \A p \in Peers : \/ phase'[p] = phase[p]
                        \/ phase[p] = "new" /\ phase'[p] = "backlog"
    /\ sent' \in [Peers -> Nat] /\ \A p \in Peers : sent[p] <= sent'[p] /\ sent'[p] <= sends[p]
    /\ fin' \in [Peers -> BOOLEAN] /\ \A p \in Peers : fin[p] => fin'[p]
    /\ full' \in [Peers -> BOOLEAN] /\ \A p \in Peers : full'[p] => full[p]
    /\ reset' \in [Peers -> {"none", "pending", "reported"}]
    /\ \A p \in Peers : reset[p] # "none" => reset'[p] # "none"

LEMMA PeersKeep ==
  ASSUME NEW sends \in [Peers -> Nat], NEW cs, SocketsInv(cs, sends), PeersGoOn(sends)
  PROVE  SocketsInv(cs, sends)'
<1>1. PeerTypes(sends)'
  <2>1. \A p \in Peers : got'[p] <= sent'[p] /\ sent'[p] <= sends[p]
    BY DEF SocketsInv, PeersInv, PeerTypes, PeersGoOn
  <2> QED
    BY <2>1 DEF SocketsInv, PeersInv, PeerTypes, PeersGoOn
<1>2. Echoed' /\ EchoesItsOwn'
  BY DEF SocketsInv, PeersInv, PeersGoOn, Echoed, EchoesItsOwn
<1>3. OneFdEach(cs)'
  <2> SUFFICES ASSUME NEW f \in cs, peer[f] # Nobody
               PROVE  phase'[peer[f]] = "accepted"
    BY DEF SocketsInv, OneFdEach, PeersGoOn
  <2>1. peer[f] \in Peers /\ phase[peer[f]] = "accepted"
    BY DEF SocketsInv, OneFdEach
  <2> QED
    BY <2>1 DEF PeersGoOn
<1> QED
  BY <1>1, <1>2, <1>3 DEF SocketsInv, PeersInv

LEMMA PeersLeaveReady ==
  ASSUME NEW sends \in [Peers -> Nat], NEW cs, Nobody \notin Peers,
         SocketsInv(cs, sends), PeersGoOn(sends), NEW f \in cs \cup {Listener}
  PROVE  /\ Readable(f) => Readable(f)'
         /\ f # Listener /\ Writable(f) => Writable(f)'
<1>1. CASE f = Listener
  BY <1>1 DEF Readable, Backlog, PeersGoOn
<1>2. CASE f # Listener
  <2>1. peer'[f] = peer[f] /\ peer[f] \in Peers \cup {Nobody}
    BY <1>2 DEF SocketsInv, OneFdEach, PeersGoOn
  <2>2. CASE peer[f] \in Peers
    <3> DEFINE p == peer[f]
    <3>1. got[p] \in Nat /\ sent[p] \in Nat /\ sent'[p] \in Nat
      BY <2>2 DEF SocketsInv, PeersInv, PeerTypes, PeersGoOn
    <3>2. /\ got'[p] = got[p] /\ sent[p] <= sent'[p] /\ (fin[p] => fin'[p])
          /\ (full'[p] => full[p]) /\ (reset[p] # "none" => reset'[p] # "none")
      BY <2>2 DEF PeersGoOn
    <3>3. Readable(f) => Readable(f)'
      BY <1>2, <2>1, <3>1, <3>2 DEF Readable
    <3>4. Writable(f) => Writable(f)'
      BY <2>1, <3>2 DEF Writable
    <3> QED
      BY <3>3, <3>4
  <2>3. CASE peer[f] = Nobody
    BY <1>2, <2>3 DEF Readable, Writable
  <2> QED
    BY <2>1, <2>2, <2>3
<1> QED
  BY <1>1, <1>2
-----------------------------------------------------------------------------
(* Nothing changes for the connection of f. *)
Untouched(f) ==
    /\ peer'[f] = peer[f]
    /\ peer[f] # Nobody =>
         /\ sent'[peer[f]] = sent[peer[f]] /\ got'[peer[f]] = got[peer[f]]
         /\ echo'[peer[f]] = echo[peer[f]] /\ full'[peer[f]] = full[peer[f]]
         /\ fin'[peer[f]] = fin[peer[f]] /\ reset'[peer[f]] = reset[peer[f]]

LEMMA UntouchedStaysReady ==
  ASSUME NEW f, f # Listener, Untouched(f)
  PROVE  Readable(f)' = Readable(f) /\ Writable(f)' = Writable(f)
BY DEF Untouched, Readable, Writable

(* What the system calls of a server do to the connections. *)
TakesUp(cs, p, f) ==
    /\ f \in cs /\ peer[f] = Nobody /\ p \in Peers /\ phase[p] = "backlog"
    /\ peer' = [peer EXCEPT ![f] = p]
    /\ phase' = [phase EXCEPT ![p] = "accepted"]
    /\ UNCHANGED <<alive, sent, fin, got, echo, full, reset>>

Takes(cs, f, n) ==
    /\ f \in cs /\ peer[f] # Nobody
    /\ n \in Nat /\ n <= sent[peer[f]] - got[peer[f]]
    /\ got' = [got EXCEPT ![peer[f]] = @ + n]
    /\ UNCHANGED <<alive, peer, phase, sent, fin, echo, full, reset>>

Gives(cs, f, bytes) ==
    /\ f \in cs /\ peer[f] # Nobody
    /\ bytes \in Seq(Peers \X Nat)
    /\ Len(echo[peer[f]]) + Len(bytes) <= got[peer[f]]
    /\ \A i \in 1..Len(bytes) : bytes[i] = <<peer[f], Len(echo[peer[f]]) + i>>
    /\ echo' = [echo EXCEPT ![peer[f]] = @ \o bytes]
    /\ full' \in {full, [full EXCEPT ![peer[f]] = TRUE]}
    /\ UNCHANGED <<alive, peer, phase, sent, fin, got, reset>>

Reports(cs, f) ==
    /\ f \in cs /\ peer[f] # Nobody /\ reset[peer[f]] # "none"
    /\ alive' \in BOOLEAN
    /\ reset' = [reset EXCEPT ![peer[f]] = "reported"]
    /\ UNCHANGED <<peer, phase, sent, fin, got, echo, full>>

GivesUp(cs, S) ==
    /\ peer' = [f \in cs |-> IF f \in S THEN Nobody ELSE peer[f]]
    /\ UNCHANGED <<alive, phase, sent, fin, got, echo, full, reset>>

Ends == alive' = FALSE /\ UNCHANGED <<peer, phase, sent, fin, got, echo, full, reset>>

LEMMA TakesUpKeeps ==
  ASSUME NEW sends \in [Peers -> Nat], NEW cs, Nobody \notin Peers, SocketsInv(cs, sends),
         NEW p, NEW f, TakesUp(cs, p, f)
  PROVE  /\ SocketsInv(cs, sends)'
         /\ \A g \in cs \ {f} : Untouched(g)
         /\ peer'[f] = p /\ got[p] = 0 /\ echo[p] = <<>>
<1> USE DEF TakesUp
<1>1. got[p] = 0 /\ echo[p] = <<>>
  <2>1. got[p] = 0 /\ Len(echo[p]) <= 0
    BY DEF SocketsInv, PeersInv, Echoed
  <2>2. echo[p] \in Seq(Peers \X Nat)
    BY DEF SocketsInv, PeersInv, PeerTypes
  <2> QED
    BY <2>1, <2>2, EmptySeq
<1>2. PeersInv(sends)'
  <2>1. PeerTypes(sends)'
    BY DEF SocketsInv, PeersInv, PeerTypes
  <2> QED
    BY <2>1 DEF SocketsInv, PeersInv, PeerTypes, Echoed, EchoesItsOwn
<1>3. OneFdEach(cs)'
  <2>1. phase \in [Peers -> {"new", "backlog", "accepted"}]
    BY DEF SocketsInv, PeersInv, PeerTypes
  <2>2. \A g \in cs : peer[g] # p
    BY DEF SocketsInv, OneFdEach
  <2> QED
    BY <2>1, <2>2 DEF SocketsInv, OneFdEach
<1>4. \A g \in cs \ {f} : Untouched(g)
  BY DEF SocketsInv, OneFdEach, Untouched
<1> QED
  BY <1>1, <1>2, <1>3, <1>4 DEF SocketsInv, OneFdEach

LEMMA TakesKeeps ==
  ASSUME NEW sends \in [Peers -> Nat], NEW cs, Nobody \notin Peers, SocketsInv(cs, sends),
         NEW n, NEW f, Takes(cs, f, n)
  PROVE  /\ SocketsInv(cs, sends)'
         /\ \A g \in cs \ {f} : Untouched(g)
         /\ peer[f] \in Peers /\ got'[peer[f]] = got[peer[f]] + n
<1> DEFINE p == peer[f]
<1>1. /\ p \in Peers /\ phase[p] = "accepted"
      /\ \A g \in cs \ {f} : peer[g] # p
      /\ sent[p] \in Nat /\ got \in [Peers -> Nat]
  BY DEF Takes, SocketsInv, OneFdEach, PeersInv, PeerTypes
<1>2. got' \in [Peers -> Nat] /\ got'[p] = got[p] + n /\ \A q \in Peers \ {p} : got'[q] = got[q]
  BY <1>1 DEF Takes
<1>3. got[p] \in Nat /\ n \in Nat /\ got'[p] <= sent[p] /\ got[p] <= got'[p]
  BY <1>1, <1>2 DEF Takes
<1>4. UNCHANGED <<alive, peer, phase, sent, fin, echo, full, reset>>
  BY DEF Takes
<1>5. PeerTypes(sends)'
  BY <1>2, <1>3, <1>4 DEF SocketsInv, PeersInv, PeerTypes
<1>6. Echoed'
  <2>1. Len(echo[p]) \in Nat
    BY <1>1 DEF SocketsInv, PeersInv, PeerTypes
  <2>2. Len(echo[p]) <= got[p]
    BY <1>1 DEF SocketsInv, PeersInv, Echoed
  <2> QED
    BY <1>1, <1>2, <1>3, <1>4, <2>1, <2>2 DEF SocketsInv, PeersInv, Echoed
<1>7. EchoesItsOwn' /\ OneFdEach(cs)'
  BY <1>4 DEF SocketsInv, PeersInv, EchoesItsOwn, OneFdEach
<1>8. \A g \in cs \ {f} : Untouched(g)
  BY <1>1, <1>2, <1>4 DEF SocketsInv, OneFdEach, Untouched
<1> QED
  BY <1>1, <1>2, <1>5, <1>6, <1>7, <1>8 DEF SocketsInv, PeersInv

LEMMA GivesKeeps ==
  ASSUME NEW sends \in [Peers -> Nat], NEW cs, Nobody \notin Peers, SocketsInv(cs, sends),
         NEW bytes, NEW f, Gives(cs, f, bytes)
  PROVE  /\ SocketsInv(cs, sends)'
         /\ \A g \in cs \ {f} : Untouched(g)
         /\ peer[f] \in Peers
         /\ Len(echo'[peer[f]]) = Len(echo[peer[f]]) + Len(bytes)
<1> DEFINE p == peer[f]
<1>1. /\ p \in Peers /\ \A g \in cs \ {f} : peer[g] # p
      /\ echo \in [Peers -> Seq(Peers \X Nat)] /\ full \in [Peers -> BOOLEAN]
  BY DEF Gives, SocketsInv, OneFdEach, PeersInv, PeerTypes
<1>2. /\ echo'[p] = echo[p] \o bytes /\ \A q \in Peers \ {p} : echo'[q] = echo[q]
      /\ full' \in [Peers -> BOOLEAN] /\ \A q \in Peers \ {p} : full'[q] = full[q]
  BY <1>1 DEF Gives
<1>3. echo[p] \in Seq(Peers \X Nat) /\ bytes \in Seq(Peers \X Nat)
  BY <1>1 DEF Gives
<1>4. /\ Len(echo[p]) \in Nat /\ Len(bytes) \in Nat
      /\ echo[p] \o bytes \in Seq(Peers \X Nat)
      /\ Len(echo[p] \o bytes) = Len(echo[p]) + Len(bytes)
      /\ \A i \in 1..Len(echo[p]) + Len(bytes) :
            (echo[p] \o bytes)[i] = IF i <= Len(echo[p]) THEN echo[p][i] ELSE bytes[i - Len(echo[p])]
  BY <1>3, ConcatProperties, LenProperties
<1>5. echo' \in [Peers -> Seq(Peers \X Nat)]
  BY <1>1, <1>4 DEF Gives
<1>6. UNCHANGED <<alive, peer, phase, sent, fin, got, reset>>
  BY DEF Gives
<1>7. PeerTypes(sends)'
  BY <1>2, <1>5, <1>6 DEF SocketsInv, PeersInv, PeerTypes
<1>8. Echoed'
  BY <1>2, <1>4, <1>6 DEF SocketsInv, PeersInv, Echoed, Gives
<1>9. EchoesItsOwn'
  <2> SUFFICES ASSUME NEW q \in Peers, NEW i \in 1..Len(echo'[q])
               PROVE  echo'[q][i] = <<q, i>>
    BY DEF EchoesItsOwn
  <2>1. CASE q # p
    BY <1>2, <2>1 DEF SocketsInv, PeersInv, EchoesItsOwn
  <2>2. CASE q = p /\ i <= Len(echo[p])
    <3>1. echo'[q][i] = echo[p][i] /\ i \in 1..Len(echo[p])
      BY <1>2, <1>4, <2>2
    <3> QED
      BY <2>2, <3>1, <1>1 DEF SocketsInv, PeersInv, EchoesItsOwn
  <2>3. CASE q = p /\ ~(i <= Len(echo[p]))
    <3>0. i \in 1..(Len(echo[p]) + Len(bytes)) /\ echo'[q] = echo[p] \o bytes
      BY <1>2, <1>4, <2>3
    <3>1. echo'[q][i] = bytes[i - Len(echo[p])] /\ i - Len(echo[p]) \in 1..Len(bytes)
      <4>1. echo'[q][i] = bytes[i - Len(echo[p])]
        BY <1>4, <2>3, <3>0
      <4>2. i - Len(echo[p]) \in 1..Len(bytes)
        BY <1>4, <2>3, <3>0
      <4> QED
        BY <4>1, <4>2
    <3>2. bytes[i - Len(echo[p])] = <<p, Len(echo[p]) + (i - Len(echo[p]))>>
      BY <3>1 DEF Gives
    <3>3. Len(echo[p]) + (i - Len(echo[p])) = i
      BY <1>4
    <3> QED
      BY <2>3, <3>1, <3>2, <3>3
  <2> QED
    BY <2>1, <2>2, <2>3
<1>10. OneFdEach(cs)'
  BY <1>6 DEF SocketsInv, OneFdEach
<1>11. \A g \in cs \ {f} : Untouched(g)
  BY <1>1, <1>2, <1>6 DEF SocketsInv, OneFdEach, Untouched
<1> QED
  BY <1>1, <1>2, <1>4, <1>7, <1>8, <1>9, <1>10, <1>11 DEF SocketsInv, PeersInv

LEMMA ReportsKeeps ==
  ASSUME NEW sends \in [Peers -> Nat], NEW cs, Nobody \notin Peers, SocketsInv(cs, sends),
         NEW f, Reports(cs, f)
  PROVE  /\ SocketsInv(cs, sends)'
         /\ \A g \in cs \ {f} : Untouched(g)
         /\ \A g \in cs : Readable(g)' = Readable(g) /\ Writable(g)' = Writable(g)
<1> DEFINE p == peer[f]
<1>1. /\ p \in Peers /\ \A g \in cs \ {f} : peer[g] # p
      /\ reset \in [Peers -> {"none", "pending", "reported"}]
  BY DEF Reports, SocketsInv, OneFdEach, PeersInv, PeerTypes
<1>2. /\ reset' \in [Peers -> {"none", "pending", "reported"}]
      /\ \A q \in Peers : (reset'[q] = "none") = (reset[q] = "none")
      /\ \A q \in Peers \ {p} : reset'[q] = reset[q]
  BY <1>1 DEF Reports
<1>3. UNCHANGED <<peer, phase, sent, fin, got, echo, full>> /\ alive' \in BOOLEAN
  BY DEF Reports
<1>4. SocketsInv(cs, sends)'
  BY <1>2, <1>3 DEF SocketsInv, PeersInv, PeerTypes, Echoed, EchoesItsOwn, OneFdEach
<1>5. \A g \in cs \ {f} : Untouched(g)
  BY <1>1, <1>2, <1>3 DEF SocketsInv, OneFdEach, Untouched
<1>6. \A g \in cs : Readable(g)' = Readable(g) /\ Writable(g)' = Writable(g)
  BY <1>2, <1>3 DEF SocketsInv, OneFdEach, Readable, Writable, Backlog
<1> QED
  BY <1>4, <1>5, <1>6

LEMMA GivesUpKeeps ==
  ASSUME NEW sends \in [Peers -> Nat], NEW cs, SocketsInv(cs, sends), NEW S, GivesUp(cs, S)
  PROVE  /\ SocketsInv(cs, sends)'
         /\ \A g \in cs \ S : Untouched(g)
<1>1. PeersInv(sends)'
  BY DEF GivesUp, SocketsInv, PeersInv, PeerTypes, Echoed, EchoesItsOwn
<1>2. OneFdEach(cs)' /\ \A g \in cs \ S : Untouched(g)
  BY DEF GivesUp, SocketsInv, OneFdEach, Untouched
<1> QED
  BY <1>1, <1>2 DEF SocketsInv

LEMMA EndsKeeps ==
  ASSUME NEW sends \in [Peers -> Nat], NEW cs, SocketsInv(cs, sends), Ends
  PROVE  SocketsInv(cs, sends)'
BY DEF Ends, SocketsInv, PeersInv, PeerTypes, Echoed, EchoesItsOwn, OneFdEach
-----------------------------------------------------------------------------
(* The reactor.  An entry of a connection is read into in turn with being    *)
(* sent from: what was taken and is not echoed yet is in its buffer.         *)
EntryInv(f) ==
    /\ peer[f] = Nobody => interest[f] = "none"
    /\ peer[f] # Nobody =>
         /\ conn[f].fd = f /\ conn[f].count = BUFFER_LENGTH
         /\ f \div EVENTS_LENGTH < blk
         /\ \/ /\ conn[f].cb = "recv_cb" /\ interest[f] = "in"
               /\ Len(echo[peer[f]]) = got[peer[f]]
            \/ /\ conn[f].cb = "send_cb" /\ interest[f] = "out"
               /\ Len(echo[peer[f]]) + conn[f].rc = got[peer[f]]
               /\ \A i \in 1..conn[f].rc :
                     conn[f].rbuffer[i] = <<peer[f], Len(echo[peer[f]]) + i>>

ReactorTypes == /\ blk \in Nat \ {0}
                /\ conn \in [Fds -> Reactor!Conn]
                /\ \A f \in Fds : conn[f].rc <= BUFFER_LENGTH
                /\ interest \in [Fds -> {"none", "in", "out"}]
                /\ events \subseteq Fds \X {"in", "out"}

ListenerInv == conn[Listener].cb = "accept_cb" /\ interest[Listener] = "in"

(* An event of the batch is of what the descriptor is still watched for.     *)
BatchInv == alive => \A e \in events :
               /\ interest[e[1]] = e[2]
               /\ IF e[2] = "in" THEN Readable(e[1]) ELSE Writable(e[1])

ReactorInv == /\ SocketsInv(Clients, Sends) /\ ReactorTypes /\ ListenerInv
              /\ (\A f \in Clients : EntryInv(f)) /\ BatchInv

LEMMA EntryStays ==
  ASSUME NEW f \in Clients, EntryInv(f), Untouched(f), conn'[f] = conn[f],
         interest'[f] = interest[f], blk \in Nat, blk' \in Nat, blk' >= blk
  PROVE  EntryInv(f)'
<1>1. f \in Nat /\ f \div EVENTS_LENGTH \in Nat
  BY ServersAssumption
<1>2. f \div EVENTS_LENGTH < blk => f \div EVENTS_LENGTH < blk'
  BY <1>1
<1> QED
  BY <1>2 DEF EntryInv, Untouched

(* Events of other descriptors than the one that is handled stay true.       *)
LEMMA BatchGoesOn ==
  ASSUME ReactorInv, NEW e \in events, events' = events \ {e}, alive' => alive,
         \A g \in Clients \ {e[1]} : peer[g] # Nobody => Untouched(g) /\ interest'[g] = interest[g],
         e[1] # Listener => phase' = phase /\ interest'[Listener] = interest[Listener]
  PROVE  BatchInv'
<1> SUFFICES ASSUME alive, NEW d \in events, d # e
             PROVE  /\ interest'[d[1]] = d[2]
                    /\ IF d[2] = "in" THEN Readable(d[1])' ELSE Writable(d[1])'
  BY DEF BatchInv
<1>1. /\ interest[d[1]] = d[2] /\ (IF d[2] = "in" THEN Readable(d[1]) ELSE Writable(d[1]))
      /\ interest[e[1]] = e[2]
  BY DEF ReactorInv, BatchInv
<1>2. d \in Fds \X {"in", "out"} /\ e \in Fds \X {"in", "out"}
  BY DEF ReactorInv, ReactorTypes
<1>3. d[1] # e[1]
  BY <1>1, <1>2
<1>4. CASE d[1] = Listener
  BY <1>1, <1>2, <1>3, <1>4 DEF ReactorInv, ListenerInv, Readable, Backlog
<1>5. CASE d[1] # Listener
  <2>1. d[1] \in Clients \ {e[1]} /\ peer[d[1]] # Nobody
    BY <1>1, <1>2, <1>3, <1>5 DEF Fds, Readable, Writable
  <2>2. Untouched(d[1]) /\ interest'[d[1]] = interest[d[1]]
    BY <2>1
  <2>3. Readable(d[1])' = Readable(d[1]) /\ Writable(d[1])' = Writable(d[1])
    BY <1>5, <2>2, UntouchedStaysReady
  <2> QED
    BY <1>1, <2>2, <2>3
<1> QED
  BY <1>4, <1>5

LEMMA ReactorPeers ==
  ASSUME SocketsInv(Clients, Sends), NEW p \in Peers, Reactor!PeerStep(p)
  PROVE  PeersGoOn(Sends)
<1> USE DEF SocketsInv, PeersInv, PeerTypes, PeersGoOn
<1>1. CASE Reactor!Connect(p)
  BY <1>1 DEF Reactor!Connect
<1>2. CASE Reactor!PeerSend(p)
  <2>1. /\ sent \in [Peers -> Nat] /\ sent[p] < Sends[p] /\ Sends[p] \in Nat
        /\ sent' = [sent EXCEPT ![p] = sent[p] + 1]
    BY <1>2, ServersAssumption DEF Reactor!PeerSend
  <2>2. sent' \in [Peers -> Nat] /\ \A q \in Peers : sent[q] <= sent'[q] /\ sent'[q] <= Sends[q]
    BY <2>1
  <2> QED
    BY <1>2, <2>2 DEF Reactor!PeerSend
<1>3. CASE Reactor!PeerClose(p)
  BY <1>3 DEF Reactor!PeerClose
<1>4. CASE Reactor!PeerReset(p)
  BY <1>4 DEF Reactor!PeerReset, Reactor!peerVars
<1>5. CASE Reactor!Drain(p)
  BY <1>5 DEF Reactor!Drain, Reactor!peerVars
<1> QED
  BY <1>1, <1>2, <1>3, <1>4, <1>5 DEF Reactor!PeerStep

LEMMA ReactorPeersStep ==
  ASSUME ReactorInv, NEW p \in Peers, Reactor!PeerStep(p), UNCHANGED <<bothVars, conn>>
  PROVE  ReactorInv'
<1>1. SocketsInv(Clients, Sends) /\ PeersGoOn(Sends) /\ UNCHANGED <<blk, interest, events, conn>>
  BY ReactorPeers DEF ReactorInv, bothVars
<1>2. SocketsInv(Clients, Sends)'
  BY <1>1, PeersKeep, ServersAssumption
<1>3. \A f \in Clients : EntryInv(f)'
  BY <1>1 DEF ReactorInv, EntryInv, PeersGoOn
<1>4. BatchInv'
  <2> SUFFICES ASSUME alive, NEW e \in events
               PROVE  IF e[2] = "in" THEN Readable(e[1])' ELSE Writable(e[1])'
    BY <1>1 DEF ReactorInv, BatchInv, PeersGoOn
  <2>1. /\ interest[e[1]] = e[2]
        /\ IF e[2] = "in" THEN Readable(e[1]) ELSE Writable(e[1])
    BY DEF ReactorInv, BatchInv
  <2>2. e[1] \in Clients \cup {Listener}
    BY DEF ReactorInv, ReactorTypes, Fds
  <2>3. /\ Readable(e[1]) => Readable(e[1])'
        /\ e[1] # Listener /\ Writable(e[1]) => Writable(e[1])'
    BY <1>1, <2>2, PeersLeaveReady, ServersAssumption
  <2>4. e[2] # "in" => e[1] # Listener
    BY <2>1 DEF ReactorInv, ListenerInv
  <2> QED
    BY <2>1, <2>3, <2>4
<1>5. ReactorTypes' /\ ListenerInv'
  BY <1>1 DEF ReactorInv, ReactorTypes, ListenerInv
<1> QED
  BY <1>2, <1>3, <1>4, <1>5 DEF ReactorInv

LEMMA EpollWaitStep ==
  ASSUME ReactorInv, Reactor!EpollWait
  PROVE  ReactorInv'
<1>1. /\ events' = Reactor!Ready /\ UNCHANGED <<blk, conn, interest>>
      /\ UNCHANGED <<alive, peer, phase, sent, fin, got, echo, full, reset>>
  BY DEF Reactor!EpollWait, Reactor!socketVars, Reactor!peerVars
<1>2. SocketsInv(Clients, Sends)' /\ ListenerInv' /\ \A f \in Clients : EntryInv(f)'
  BY <1>1 DEF ReactorInv, SocketsInv, PeersInv, PeerTypes, Echoed, EchoesItsOwn, OneFdEach,
     ListenerInv, EntryInv
<1>3. ReactorTypes'
  BY <1>1 DEF ReactorInv, ReactorTypes, Reactor!Ready, Reactor!Fds, Fds, Reactor!Listener, Listener
<1>4. BatchInv'
  <2> SUFFICES ASSUME NEW e \in Reactor!Ready
               PROVE  /\ interest[e[1]] = e[2]
                      /\ IF e[2] = "in" THEN Readable(e[1])' ELSE Writable(e[1])'
    BY <1>1 DEF BatchInv
  <2>1. /\ interest[e[1]] = e[2]
        /\ IF e[2] = "in" THEN Reactor!Readable(e[1]) ELSE Reactor!Writable(e[1])
    BY DEF Reactor!Ready
  <2>2. /\ Readable(e[1])' = Reactor!Readable(e[1])
        /\ Writable(e[1])' = Reactor!Writable(e[1])
    BY <1>1 DEF Readable, Reactor!Readable, Writable, Reactor!Writable, Backlog, Reactor!Backlog,
       Listener, Reactor!Listener
  <2> QED
    BY <2>1, <2>2
<1> QED
  BY <1>2, <1>3, <1>4 DEF ReactorInv

(* The callback that is called is the one for what the event is of.          *)
LEMMA EventsEntry ==
  ASSUME ReactorInv, alive, NEW e \in events
  PROVE  \/ e[1] = Listener /\ conn[e[1]].cb = "accept_cb"
         \/ /\ e[1] \in Clients /\ e[1] # Listener /\ peer[e[1]] # Nobody
            /\ conn[e[1]].cb = IF e[2] = "in" THEN "recv_cb" ELSE "send_cb"
<1>1. /\ interest[e[1]] = e[2] /\ (IF e[2] = "in" THEN Readable(e[1]) ELSE Writable(e[1]))
      /\ e[1] \in Clients \cup {Listener}
  BY DEF ReactorInv, BatchInv, ReactorTypes, Fds
<1>2. CASE e[1] = Listener
  BY <1>2 DEF ReactorInv, ListenerInv
<1>3. CASE e[1] # Listener
  BY <1>1, <1>3 DEF ReactorInv, EntryInv, Readable, Writable
<1> QED
  BY <1>2, <1>3

LEMMA AcceptFailsStep ==
  ASSUME ReactorInv, NEW e \in events, Reactor!AcceptFails(e)
  PROVE  ReactorInv'
<1>1. /\ events' = events \ {e} /\ UNCHANGED <<blk, conn, interest>>
      /\ UNCHANGED <<alive, peer, phase, sent, fin, got, echo, full, reset>>
  BY DEF Reactor!AcceptFails, Reactor!Call, Reactor!socketVars, Reactor!peerVars
<1>2. SocketsInv(Clients, Sends)' /\ ListenerInv' /\ \A f \in Clients : EntryInv(f)'
  BY <1>1 DEF ReactorInv, SocketsInv, PeersInv, PeerTypes, Echoed, EchoesItsOwn, OneFdEach,
     ListenerInv, EntryInv
<1>3. ReactorTypes'
  BY <1>1 DEF ReactorInv, ReactorTypes
<1>4. BatchInv'
  BY <1>1 DEF ReactorInv, BatchInv, Readable, Writable, Backlog
<1> QED
  BY <1>2, <1>3, <1>4 DEF ReactorInv

LEMMA AcceptStep ==
  ASSUME ReactorInv, NEW e \in events, NEW p \in Peers, NEW f \in Clients,
         Reactor!Accept(e, p, f)
  PROVE  ReactorInv'
<1>1. TakesUp(Clients, p, f)
  <2>1. /\ Reactor!Unused # {} /\ f = Reactor!Min(Reactor!Unused) /\ Reactor!Unused \subseteq Nat
    BY ServersAssumption DEF Reactor!Accept, Reactor!Accepts, Reactor!Unused
  <2>2. f \in Reactor!Unused
    <3>1. Min(Reactor!Unused) \in Reactor!Unused
      BY <2>1, MinIsLeast
    <3> QED
      BY <2>1, <3>1 DEF Min, Reactor!Min
  <2> QED
    BY <2>2 DEF Reactor!Accept, Reactor!Accepts, Reactor!Unused, Reactor!Backlog, TakesUp
<1>2. /\ SocketsInv(Clients, Sends)' /\ \A g \in Clients \ {f} : Untouched(g)
      /\ peer'[f] = p /\ got[p] = 0 /\ echo[p] = <<>>
  <2>1. SocketsInv(Clients, Sends) /\ Sends \in [Peers -> Nat] /\ Nobody \notin Peers
    BY ServersAssumption DEF ReactorInv
  <2>2. SocketsInv(Clients, Sends)' /\ peer'[f] = p
    BY <1>1, <2>1, TakesUpKeeps
  <2>3. got[p] = 0 /\ echo[p] = <<>>
    BY <1>1, <2>1, TakesUpKeeps
  <2>4. \A g \in Clients \ {f} : Untouched(g)
    BY <1>1, <2>1, TakesUpKeeps
  <2> QED
    BY <2>2, <2>3, <2>4
<1>3. /\ events' = events \ {e} /\ alive' = alive /\ alive /\ e[1] = Listener
      /\ blk' = Reactor!BlocksFor(f)
      /\ conn' = [conn EXCEPT ![f] = Reactor!OpenEntry(f)]
      /\ interest' = [interest EXCEPT ![f] = "in"]
  BY <1>1, EventsEntry DEF Reactor!Accept, Reactor!Call, TakesUp, Reactor!Watch
<1>4. /\ blk' \in Nat \ {0} /\ blk' >= blk /\ f \div EVENTS_LENGTH < blk'
  <2>1. blk \in Nat \ {0} /\ f \div EVENTS_LENGTH \in Nat
    BY ServersAssumption DEF ReactorInv, ReactorTypes
  <2>2. /\ Max({blk, f \div EVENTS_LENGTH + 1}) \in {blk, f \div EVENTS_LENGTH + 1}
        /\ Max({blk, f \div EVENTS_LENGTH + 1}) >= blk
        /\ Max({blk, f \div EVENTS_LENGTH + 1}) >= f \div EVENTS_LENGTH + 1
    BY <2>1, MaxOfTwo
  <2>3. blk' = Max({blk, f \div EVENTS_LENGTH + 1})
    BY <1>3 DEF Reactor!BlocksFor, Max, Reactor!Max
  <2> QED
    BY <2>1, <2>2, <2>3
<1>5. Reactor!OpenEntry(f) \in Reactor!Conn /\ Reactor!OpenEntry(f).rc = conn[f].rc
  <2>1. conn[f] \in Reactor!Conn
    BY DEF ReactorInv, ReactorTypes, Fds
  <2>2. f \in Reactor!Fds
    BY DEF Reactor!Fds
  <2> QED
    BY <2>1, <2>2, ServersAssumption DEF Reactor!OpenEntry, Reactor!Conn
<1>6. ReactorTypes'
  BY <1>3, <1>4, <1>5 DEF ReactorInv, ReactorTypes, Fds
<1>7. ListenerInv'
  BY <1>3, ServersAssumption DEF ReactorInv, ReactorTypes, ListenerInv, Fds
<1>8. EntryInv(f)'
  <2>1. /\ conn'[f].fd = f /\ conn'[f].count = BUFFER_LENGTH /\ conn'[f].cb = "recv_cb"
        /\ interest'[f] = "in"
    <3>1. conn'[f] = Reactor!OpenEntry(f) /\ interest'[f] = "in"
      BY <1>3 DEF ReactorInv, ReactorTypes, Fds
    <3>2. conn[f] \in Reactor!Conn
      BY DEF ReactorInv, ReactorTypes, Fds
    <3> QED
      BY <3>1, <3>2 DEF Reactor!OpenEntry, Reactor!Conn
  <2>2. peer'[f] = p /\ Len(echo'[p]) = got'[p]
    BY <1>1, <1>2 DEF TakesUp
  <2> QED
    BY <1>4, <2>1, <2>2, ServersAssumption DEF EntryInv
<1>9. \A g \in Clients : EntryInv(g)'
  <2> SUFFICES ASSUME NEW g \in Clients, g # f
               PROVE  EntryInv(g)'
    BY <1>8
  <2>1. conn'[g] = conn[g] /\ interest'[g] = interest[g] /\ Untouched(g)
    BY <1>2, <1>3 DEF ReactorInv, ReactorTypes, Fds
  <2>2. blk \in Nat /\ blk' \in Nat /\ blk' >= blk /\ EntryInv(g)
    BY <1>4 DEF ReactorInv, ReactorTypes
  <2> QED
    BY <2>1, <2>2, EntryStays
<1>10. BatchInv'
  <2>1. \A g \in Clients \ {e[1]} :
           peer[g] # Nobody => Untouched(g) /\ interest'[g] = interest[g]
    BY <1>1, <1>2, <1>3 DEF TakesUp, ReactorInv, ReactorTypes
  <2> QED
    BY <1>3, <2>1, BatchGoesOn
<1> QED
  BY <1>2, <1>6, <1>7, <1>9, <1>10 DEF ReactorInv

(* What a callback for a connection leaves as it is: the others.             *)
LEMMA OthersStay ==
  ASSUME ReactorInv, NEW e \in events, e[1] \in Clients, events' = events \ {e}, blk' = blk,
         alive' => alive, SocketsInv(Clients, Sends)', ReactorTypes',
         UNCHANGED phase, interest'[Listener] = interest[Listener], conn'[Listener] = conn[Listener],
         \A g \in Clients \ {e[1]} : /\ Untouched(g) /\ interest'[g] = interest[g]
                                     /\ conn'[g] = conn[g],
         EntryInv(e[1])'
  PROVE  ReactorInv'
<1>1. BatchInv'
  BY BatchGoesOn
<1>2. ListenerInv'
  BY DEF ReactorInv, ListenerInv
<1>3. \A g \in Clients : EntryInv(g)'
  <2> SUFFICES ASSUME NEW g \in Clients, g # e[1]
               PROVE  EntryInv(g)'
    OBVIOUS
  <2>1. blk \in Nat /\ blk' \in Nat /\ blk' >= blk /\ EntryInv(g)
    BY DEF ReactorInv, ReactorTypes
  <2> QED
    BY <2>1, EntryStays
<1> QED
  BY <1>1, <1>2, <1>3 DEF ReactorInv

(* recv and send fail. *)
LEMMA FailsStep ==
  ASSUME ReactorInv, NEW e \in events, Reactor!RecvFails(e) \/ Reactor!SendFails(e)
  PROVE  ReactorInv'
<1> DEFINE f == e[1]
<1> USE ServersAssumption
<1>1. /\ events' = events \ {e} /\ alive /\ conn[f].cb \in {"recv_cb", "send_cb"}
      /\ UNCHANGED <<blk, conn, interest>>
  BY DEF Reactor!RecvFails, Reactor!SendFails, Reactor!Call
<1>2. f \in Clients /\ f # Listener /\ peer[f] # Nobody
  BY <1>1, EventsEntry
<1>3. Reports(Clients, f)
  <2>1. alive \in BOOLEAN
    BY DEF ReactorInv, SocketsInv, PeersInv, PeerTypes
  <2> QED
    BY <1>2, <2>1 DEF Reports, Reactor!RecvFails, Reactor!SendFails, Reactor!ReceiveFails,
       Reactor!DeliveryFails, Reactor!NothingLeft, Reactor!peerVars
<1>4. SocketsInv(Clients, Sends)' /\ \A g \in Clients \ {f} : Untouched(g)
  BY <1>3, ReportsKeeps DEF ReactorInv
<1>5. EntryInv(f)'
  BY <1>1, <1>2, <1>3 DEF Reports, ReactorInv, EntryInv
<1>6. ReactorTypes'
  BY <1>1 DEF ReactorInv, ReactorTypes
<1> QED
  BY <1>1, <1>2, <1>3, <1>4, <1>5, <1>6, OthersStay DEF Reports

LEMMA RecvEndStep ==
  ASSUME ReactorInv, NEW e \in events, Reactor!RecvEnd(e)
  PROVE  ReactorInv'
<1> DEFINE f == e[1]
<1> USE ServersAssumption
<1>1. /\ events' = events \ {e} /\ alive /\ conn[f].cb = "recv_cb" /\ blk' = blk
      /\ Reactor!Closes(Reactor!Closed(f))
      /\ interest' = [g \in Reactor!Fds |-> IF g \in Reactor!Closed(f) THEN "none" ELSE interest[g]]
      /\ conn' = [conn EXCEPT ![f].fd = -1, ![f].rc = 0]
  BY DEF Reactor!RecvEnd, Reactor!Call
<1>2. f \in Clients /\ f # Listener /\ peer[f] # Nobody
  BY <1>1, EventsEntry
<1>3. Reactor!Closed(f) = {f} /\ Reactor!Fds = Fds
  <2>1. conn[f].fd = f
    BY <1>2 DEF ReactorInv, EntryInv
  <2> QED
    BY <2>1 DEF Reactor!Closed, Reactor!Fds, Fds, Reactor!Listener, Listener
<1>4. GivesUp(Clients, {f})
  BY <1>1, <1>3 DEF GivesUp, Reactor!Closes, Reactor!peerVars
<1>5. SocketsInv(Clients, Sends)' /\ \A g \in Clients \ {f} : Untouched(g)
  BY <1>4, GivesUpKeeps DEF ReactorInv
<1>6. conn' \in [Fds -> Reactor!Conn] /\ (\A g \in Fds : conn'[g].rc <= BUFFER_LENGTH)
      /\ \A g \in Fds \ {f} : conn'[g] = conn[g]
  <2>1. conn \in [Fds -> Reactor!Conn] /\ f \in Fds
    BY <1>2 DEF ReactorInv, ReactorTypes, Fds
  <2>2. conn' = [conn EXCEPT ![f] = [conn[f] EXCEPT !.fd = -1, !.rc = 0]]
    BY <1>1, <2>1
  <2>3. [conn[f] EXCEPT !.fd = -1, !.rc = 0] \in Reactor!Conn
    BY <2>1 DEF Reactor!Conn
  <2>4. [conn[f] EXCEPT !.fd = -1, !.rc = 0].rc = 0
    BY <2>1, ZenonT(30) DEF Reactor!Conn
  <2> QED
    BY <2>1, <2>2, <2>3, <2>4 DEF ReactorInv, ReactorTypes
<1>7. /\ interest' \in [Fds -> {"none", "in", "out"}] /\ interest'[f] = "none"
      /\ \A g \in Fds \ {f} : interest'[g] = interest[g]
  BY <1>1, <1>2, <1>3 DEF ReactorInv, ReactorTypes, Fds
<1>8. ReactorTypes'
  BY <1>1, <1>6, <1>7 DEF ReactorInv, ReactorTypes
<1>9. EntryInv(f)'
  BY <1>2, <1>4, <1>7 DEF EntryInv, GivesUp
<1> QED
  BY <1>1, <1>2, <1>4, <1>5, <1>6, <1>7, <1>8, <1>9, OthersStay DEF GivesUp, Fds

LEMMA MinOfTwo ==
  ASSUME NEW a \in Nat, NEW b \in Nat
  PROVE  Min({a, b}) \in Nat /\ Min({a, b}) <= a /\ Min({a, b}) <= b
<1>1. {a, b} \subseteq Nat /\ {a, b} # {}
  OBVIOUS
<1> QED
  BY <1>1, MinIsLeast

LEMMA RecvStep ==
  ASSUME ReactorInv, NEW e \in events, Reactor!Recv(e)
  PROVE  ReactorInv'
<1> DEFINE f == e[1]
           p == peer[f]
           len == Reactor!Available(f, conn[f].count)
           buffer == [i \in DOMAIN conn[f].rbuffer |->
                        IF i <= len THEN <<p, got[p] + i>> ELSE conn[f].rbuffer[i]]
<1> USE ServersAssumption
<1>1. /\ events' = events \ {e} /\ alive /\ conn[f].cb = "recv_cb" /\ blk' = blk
      /\ Reactor!Receives(f, conn[f].count)
      /\ interest' = [interest EXCEPT ![f] = "out"]
      /\ conn' = [conn EXCEPT ![f].rbuffer = buffer, ![f].rc = len, ![f].cb = "send_cb"]
  BY DEF Reactor!Recv, Reactor!Call, Reactor!Watch
<1>2. f \in Clients /\ f # Listener /\ p # Nobody /\ e[2] = "in"
  BY <1>1, EventsEntry
<1>3. /\ p \in Peers /\ got[p] \in Nat /\ sent[p] \in Nat /\ got[p] <= sent[p]
      /\ sent[p] <= Sends[p] /\ Sends[p] \in Nat
  BY <1>2 DEF ReactorInv, SocketsInv, OneFdEach, PeersInv, PeerTypes
<1>4. /\ conn[f].count = BUFFER_LENGTH /\ conn[f].fd = f /\ f \div EVENTS_LENGTH < blk
      /\ Len(echo[p]) = got[p]
  BY <1>1, <1>2 DEF ReactorInv, EntryInv
<1>5. len \in Nat /\ len <= BUFFER_LENGTH /\ len <= sent[p] - got[p]
  <2>1. len = Min({BUFFER_LENGTH, sent[p] - got[p]})
    BY <1>4 DEF Reactor!Available, Min, Reactor!Min
  <2>2. sent[p] - got[p] \in Nat /\ BUFFER_LENGTH \in Nat
    BY <1>3
  <2> QED
    BY <2>1, <2>2, MinOfTwo
<1>6. Takes(Clients, f, len)
  BY <1>1, <1>2, <1>5 DEF Takes, Reactor!Receives, Reactor!peerVars
<1>7. /\ SocketsInv(Clients, Sends)' /\ \A g \in Clients \ {f} : Untouched(g)
      /\ got'[p] = got[p] + len
  BY <1>6, TakesKeeps DEF ReactorInv
<1>8. /\ conn[f] \in Reactor!Conn /\ conn \in [Fds -> Reactor!Conn] /\ f \in Fds
      /\ conn[f].rbuffer \in [1..BUFFER_LENGTH -> Reactor!Bytes \cup {Reactor!Zero, Reactor!Junk}]
  BY <1>2 DEF ReactorInv, ReactorTypes, Fds, Reactor!Conn
<1>9. /\ buffer \in [1..BUFFER_LENGTH -> Reactor!Bytes \cup {Reactor!Zero, Reactor!Junk}]
      /\ \A i \in 1..len : buffer[i] = <<p, got[p] + i>>
  <2>1. DOMAIN conn[f].rbuffer = 1..BUFFER_LENGTH
    BY <1>8
  <2>2. \A i \in 1..BUFFER_LENGTH : i <= len => <<p, got[p] + i>> \in Reactor!Bytes
    <3> SUFFICES ASSUME NEW i \in 1..BUFFER_LENGTH, i <= len
                 PROVE  <<p, got[p] + i>> \in Reactor!Bytes
      OBVIOUS
    <3>1. i \in Nat /\ got[p] + i \in 1..Sends[p]
      BY <1>3, <1>5
    <3> QED
      BY <1>3, <3>1 DEF Reactor!Bytes
  <2>3. \A i \in 1..BUFFER_LENGTH :
           buffer[i] \in Reactor!Bytes \cup {Reactor!Zero, Reactor!Junk}
    BY <1>8, <2>1, <2>2
  <2>4. \A i \in 1..len : buffer[i] = <<p, got[p] + i>>
    <3>1. \A i \in 1..len : i \in 1..BUFFER_LENGTH /\ i <= len
      BY <1>5
    <3> QED
      BY <2>1, <3>1
  <2> QED
    BY <2>1, <2>3, <2>4
<1> HIDE DEF buffer, len
<1>10. /\ conn'[f] = [conn[f] EXCEPT !.rbuffer = buffer, !.rc = len, !.cb = "send_cb"]
       /\ \A g \in Fds \ {f} : conn'[g] = conn[g]
       /\ conn' = [conn EXCEPT ![f] = conn'[f]]
  BY <1>1, <1>8
<1>11. /\ conn'[f] \in Reactor!Conn
       /\ conn'[f].rbuffer = buffer /\ conn'[f].rc = len /\ conn'[f].cb = "send_cb"
       /\ conn'[f].fd = f /\ conn'[f].count = BUFFER_LENGTH
  BY <1>4, <1>5, <1>8, <1>9, <1>10 DEF Reactor!Conn
<1>12. /\ interest' \in [Fds -> {"none", "in", "out"}] /\ interest'[f] = "out"
       /\ \A g \in Fds \ {f} : interest'[g] = interest[g]
  BY <1>1, <1>8 DEF ReactorInv, ReactorTypes
<1>13. ReactorTypes'
  <2>1. conn' \in [Fds -> Reactor!Conn]
    BY <1>8, <1>10, <1>11
  <2>2. \A g \in Fds : conn'[g].rc <= BUFFER_LENGTH
    BY <1>5, <1>10, <1>11 DEF ReactorInv, ReactorTypes
  <2> QED
    BY <1>1, <1>12, <2>1, <2>2 DEF ReactorInv, ReactorTypes
<1>14. EntryInv(f)'
  <2>1. peer'[f] = p /\ echo'[p] = echo[p] /\ blk' = blk
    BY <1>1, <1>6 DEF Takes
  <2>2. Len(echo'[p]) + conn'[f].rc = got'[p]
    BY <1>4, <1>7, <1>11, <2>1
  <2>3. \A i \in 1..conn'[f].rc : conn'[f].rbuffer[i] = <<p, Len(echo'[p]) + i>>
    BY <1>4, <1>9, <1>11, <2>1
  <2> QED
    BY <1>2, <1>4, <1>11, <1>12, <2>1, <2>2, <2>3 DEF EntryInv
<1> QED
  BY <1>1, <1>2, <1>6, <1>7, <1>10, <1>12, <1>13, <1>14, OthersStay DEF Takes, Fds

LEMMA SendStep ==
  ASSUME ReactorInv, NEW e \in events, Reactor!Send(e)
  PROVE  ReactorInv'
<1> DEFINE f == e[1]
           p == peer[f]
           bytes == Reactor!Outgoing(conn[f])
           buffer == [i \in DOMAIN conn[f].rbuffer |->
                        IF i <= conn[f].rc THEN Reactor!Zero ELSE conn[f].rbuffer[i]]
<1> USE ServersAssumption
<1>1. /\ events' = events \ {e} /\ alive /\ conn[f].cb = "send_cb" /\ blk' = blk
      /\ Reactor!Delivers(f, bytes)
      /\ interest' = [interest EXCEPT ![f] = "in"]
      /\ conn' = [conn EXCEPT ![f].rbuffer = buffer, ![f].cb = "recv_cb"]
  BY DEF Reactor!Send, Reactor!Call, Reactor!Watch
<1>2. f \in Clients /\ f # Listener /\ p # Nobody
  BY <1>1, EventsEntry
<1>3. /\ p \in Peers /\ got[p] \in Nat
      /\ echo[p] \in Seq(Peers \X Nat) /\ Len(echo[p]) \in Nat
  <2>1. p \in Peers
    BY <1>2 DEF ReactorInv, SocketsInv, OneFdEach
  <2>2. got[p] \in Nat /\ echo[p] \in Seq(Peers \X Nat)
    BY <2>1 DEF ReactorInv, SocketsInv, PeersInv, PeerTypes
  <2> QED
    BY <2>1, <2>2, LenProperties
<1>4. /\ conn[f] \in Reactor!Conn /\ conn \in [Fds -> Reactor!Conn] /\ f \in Fds
      /\ conn[f].rbuffer \in [1..BUFFER_LENGTH -> Reactor!Bytes \cup {Reactor!Zero, Reactor!Junk}]
      /\ conn[f].rc \in Nat /\ conn[f].rc <= BUFFER_LENGTH
  BY <1>2 DEF ReactorInv, ReactorTypes, Fds, Reactor!Conn
<1>5. /\ conn[f].count = BUFFER_LENGTH /\ conn[f].fd = f /\ f \div EVENTS_LENGTH < blk
      /\ Len(echo[p]) + conn[f].rc = got[p]
      /\ \A i \in 1..conn[f].rc : conn[f].rbuffer[i] = <<p, Len(echo[p]) + i>>
  BY <1>1, <1>2 DEF ReactorInv, EntryInv
<1>6. /\ bytes \in Seq(Peers \X Nat) /\ Len(bytes) = conn[f].rc
      /\ \A i \in 1..Len(bytes) : bytes[i] = <<p, Len(echo[p]) + i>>
  <2>1. \A i \in 1..conn[f].rc : conn[f].rbuffer[i] \in Peers \X Nat
    <3> SUFFICES ASSUME NEW i \in 1..conn[f].rc
                 PROVE  conn[f].rbuffer[i] \in Peers \X Nat
      OBVIOUS
    <3>1. Len(echo[p]) + i \in Nat
      BY <1>3, <1>4
    <3>2. conn[f].rbuffer[i] = <<p, Len(echo[p]) + i>>
      BY <1>5
    <3> QED
      BY <1>3, <3>1, <3>2
  <2>2. /\ bytes \in Seq(Peers \X Nat)
        /\ Len(bytes) = IF 1 <= conn[f].rc THEN conn[f].rc - 1 + 1 ELSE 0
        /\ \A i \in 1..(conn[f].rc - 1 + 1) : bytes[i] = conn[f].rbuffer[1 + i - 1]
    BY <1>4, <2>1, SubSeqProperties DEF Reactor!Outgoing
  <2>3. Len(bytes) = conn[f].rc
    BY <1>4, <2>2
  <2>4. \A i \in 1..Len(bytes) : bytes[i] = <<p, Len(echo[p]) + i>>
    <3> SUFFICES ASSUME NEW i \in 1..Len(bytes)
                 PROVE  bytes[i] = <<p, Len(echo[p]) + i>>
      OBVIOUS
    <3> HIDE DEF bytes
    <3>1. i \in 1..conn[f].rc /\ i \in 1..(conn[f].rc - 1 + 1) /\ 1 + i - 1 = i
      BY <1>4, <2>3
    <3> QED
      BY <1>5, <2>2, <3>1
  <2> QED
    BY <2>2, <2>3, <2>4
<1> HIDE DEF bytes
<1>7. Gives(Clients, f, bytes)
  <2>1. Len(echo[p]) + Len(bytes) <= got[p]
    BY <1>3, <1>5, <1>6
  <2>2. /\ echo' = [echo EXCEPT ![p] = @ \o bytes]
        /\ full' \in {full, [full EXCEPT ![p] = TRUE]}
        /\ UNCHANGED <<alive, peer, phase, sent, fin, got, reset>>
    BY <1>1 DEF Reactor!Delivers, Reactor!peerVars
  <2> QED
    BY <1>2, <1>6, <2>1, <2>2 DEF Gives
<1>8. /\ SocketsInv(Clients, Sends)' /\ \A g \in Clients \ {f} : Untouched(g)
      /\ Len(echo'[p]) = got[p]
  <2>1. SocketsInv(Clients, Sends) /\ Sends \in [Peers -> Nat] /\ Nobody \notin Peers
    BY DEF ReactorInv
  <2>2. /\ SocketsInv(Clients, Sends)' /\ \A g \in Clients \ {f} : Untouched(g)
        /\ Len(echo'[p]) = Len(echo[p]) + Len(bytes)
    <3> HIDE DEF f
    <3> QED
      BY <1>7, <2>1, GivesKeeps
  <2> QED
    BY <1>5, <1>6, <2>2
<1>9. buffer \in [1..BUFFER_LENGTH -> Reactor!Bytes \cup {Reactor!Zero, Reactor!Junk}]
  BY <1>4
<1> HIDE DEF buffer
<1>10. /\ conn'[f] = [conn[f] EXCEPT !.rbuffer = buffer, !.cb = "recv_cb"]
       /\ \A g \in Fds \ {f} : conn'[g] = conn[g]
       /\ conn' = [conn EXCEPT ![f] = conn'[f]]
  BY <1>1, <1>4
<1>11. /\ conn'[f] \in Reactor!Conn
       /\ conn'[f].rc = conn[f].rc /\ conn'[f].cb = "recv_cb"
       /\ conn'[f].fd = f /\ conn'[f].count = BUFFER_LENGTH
  BY <1>4, <1>5, <1>9, <1>10 DEF Reactor!Conn
<1>12. /\ interest' \in [Fds -> {"none", "in", "out"}] /\ interest'[f] = "in"
       /\ \A g \in Fds \ {f} : interest'[g] = interest[g]
  BY <1>1, <1>4 DEF ReactorInv, ReactorTypes
<1>13. ReactorTypes'
  <2>1. conn' \in [Fds -> Reactor!Conn]
    BY <1>4, <1>10, <1>11
  <2>2. \A g \in Fds : conn'[g].rc <= BUFFER_LENGTH
    BY <1>4, <1>10, <1>11 DEF ReactorInv, ReactorTypes
  <2> QED
    BY <1>1, <1>12, <2>1, <2>2 DEF ReactorInv, ReactorTypes
<1>14. EntryInv(f)'
  <2>1. peer'[f] = p /\ got'[p] = got[p]
    BY <1>7 DEF Gives
  <2> QED
    BY <1>1, <1>2, <1>5, <1>8, <1>11, <1>12, <2>1 DEF EntryInv
<1> QED
  BY <1>1, <1>2, <1>7, <1>8, <1>10, <1>12, <1>13, <1>14, OthersStay DEF Gives, Fds

LEMMA SocketsBegin ==
  ASSUME NEW sends \in [Peers -> Nat], NEW cs,
         /\ alive = TRUE
         /\ peer = [f \in cs |-> Nobody]
         /\ phase = [p \in Peers |-> "new"]
         /\ sent = [p \in Peers |-> 0] /\ got = [p \in Peers |-> 0]
         /\ echo = [p \in Peers |-> <<>>]
         /\ full = [p \in Peers |-> FALSE] /\ fin = [p \in Peers |-> FALSE]
         /\ reset = [p \in Peers |-> "none"]
  PROVE  SocketsInv(cs, sends)
<1>1. /\ alive \in BOOLEAN
      /\ phase \in [Peers -> {"new", "backlog", "accepted"}]
      /\ full \in [Peers -> BOOLEAN] /\ fin \in [Peers -> BOOLEAN]
      /\ reset \in [Peers -> {"none", "pending", "reported"}]
  OBVIOUS
<1>2. /\ sent \in [Peers -> Nat] /\ got \in [Peers -> Nat]
      /\ \A p \in Peers : got[p] <= sent[p] /\ sent[p] <= sends[p]
  OBVIOUS
<1>3. echo \in [Peers -> Seq(Peers \X Nat)] /\ \A p \in Peers : Len(echo[p]) = 0
  BY EmptySeq
<1>4. PeerTypes(sends)
  BY <1>1, <1>2, <1>3 DEF PeerTypes
<1>5. Echoed /\ EchoesItsOwn
  BY <1>3 DEF Echoed, EchoesItsOwn
<1>6. OneFdEach(cs)
  BY DEF OneFdEach
<1> QED
  BY <1>4, <1>5, <1>6 DEF SocketsInv, PeersInv

LEMMA ReactorInit ==
  ASSUME Reactor!Init
  PROVE  ReactorInv
<1> USE ServersAssumption
<1>1. SocketsInv(Clients, Sends)
  BY SocketsBegin DEF Reactor!Init, Reactor!SocketsInit
<1>2. /\ blk = 1 /\ interest \in [Fds -> {"none", "in", "out"}] /\ events = {}
      /\ interest[Listener] = "in" /\ \A f \in Clients : interest[f] = "none" /\ peer[f] = Nobody
  BY DEF Reactor!Init, Reactor!SocketsInit, Reactor!Fds, Fds, Reactor!Listener, Listener
<1>3. /\ conn \in [Fds -> Reactor!Conn] /\ \A f \in Fds : conn[f].rc = 0
      /\ conn[Listener].cb = "accept_cb"
  <2>1. Reactor!Unset \in Reactor!Conn /\ Reactor!Unset.rc = 0
    BY DEF Reactor!Unset, Reactor!Conn, Reactor!Fds
  <2>2. /\ [Reactor!Unset EXCEPT !.fd = Listener, !.cb = "accept_cb"] \in Reactor!Conn
        /\ [Reactor!Unset EXCEPT !.fd = Listener, !.cb = "accept_cb"].rc = 0
        /\ [Reactor!Unset EXCEPT !.fd = Listener, !.cb = "accept_cb"].cb = "accept_cb"
    BY <2>1 DEF Reactor!Conn, Reactor!Fds, Reactor!Listener, Listener
  <2>3. conn = [f \in Fds |-> IF f = Listener
                               THEN [Reactor!Unset EXCEPT !.fd = Listener, !.cb = "accept_cb"]
                               ELSE Reactor!Unset]
    BY DEF Reactor!Init, Reactor!Fds, Fds, Reactor!Listener, Listener
  <2> QED
    BY <2>1, <2>2, <2>3 DEF Fds
<1> QED
  BY <1>1, <1>2, <1>3 DEF ReactorInv, ReactorTypes, ListenerInv, EntryInv, BatchInv

LEMMA ReactorStep ==
  ASSUME ReactorInv, Reactor!Server
  PROVE  ReactorInv'
BY EpollWaitStep, AcceptFailsStep, AcceptStep, FailsStep, RecvEndStep, RecvStep, SendStep
   DEF Reactor!Server, Reactor!Handle

LEMMA SocketsTyped ==
  ASSUME NEW sends \in [Peers -> Nat], NEW cs, SocketsInv(cs, sends)
  PROVE  /\ alive \in BOOLEAN
         /\ peer \in [cs -> Peers \cup {Nobody}]
         /\ phase \in [Peers -> {"new", "backlog", "accepted"}]
         /\ \A p \in Peers : got[p] \in 0..sent[p] /\ sent[p] \in 0..sends[p]
         /\ \A p \in Peers : echo[p] \in Seq({b \in Peers \X Nat : b[2] \in 1..sends[b[1]]})
         /\ full \in [Peers -> BOOLEAN] /\ fin \in [Peers -> BOOLEAN]
         /\ reset \in [Peers -> {"none", "pending", "reported"}]
<1>1. \A p \in Peers : got[p] \in 0..sent[p] /\ sent[p] \in 0..sends[p]
  BY DEF SocketsInv, PeersInv, PeerTypes
<1> QED
  BY <1>1, EchoTyped DEF SocketsInv, OneFdEach, PeersInv, PeerTypes

LEMMA ReactorHolds ==
  ASSUME ReactorInv
  PROVE  Reactor!EventsHold /\ EchoesItsOwn
<1>1. Reactor!SocketsTypeOK
  BY SocketsTyped, ServersAssumption DEF ReactorInv, Reactor!SocketsTypeOK, Reactor!Bytes
<1>2. Reactor!TypeOK
  BY <1>1 DEF ReactorInv, ReactorTypes, Reactor!TypeOK, Fds, Reactor!Fds, Listener, Reactor!Listener
<1>3. ASSUME alive, NEW e \in events
      PROVE  /\ e[1] \div EVENTS_LENGTH < blk
             /\ conn[e[1]].cb = IF e[1] = Reactor!Listener THEN "accept_cb"
                                ELSE IF e[2] = "in" THEN "recv_cb" ELSE "send_cb"
             /\ IF e[2] = "in" THEN Reactor!Readable(e[1]) ELSE Reactor!Writable(e[1])
  <2>1. IF e[2] = "in" THEN Reactor!Readable(e[1]) ELSE Reactor!Writable(e[1])
    BY <1>3 DEF ReactorInv, BatchInv, Readable, Reactor!Readable, Writable, Reactor!Writable,
       Backlog, Reactor!Backlog, Listener, Reactor!Listener
  <2>2. CASE e[1] = Listener
    <3>1. e[1] \div EVENTS_LENGTH = 0 /\ blk > 0
      BY <2>2, ServersAssumption DEF Listener, ReactorInv, ReactorTypes
    <3> QED
      BY <1>3, <2>1, <2>2, <3>1, EventsEntry DEF Listener, Reactor!Listener
  <2>3. CASE e[1] # Listener
    <3>1. /\ e[1] \in Clients /\ peer[e[1]] # Nobody
          /\ conn[e[1]].cb = IF e[2] = "in" THEN "recv_cb" ELSE "send_cb"
      BY <1>3, <2>3, EventsEntry
    <3>2. e[1] \div EVENTS_LENGTH < blk
      BY <3>1 DEF ReactorInv, EntryInv
    <3> QED
      BY <2>1, <2>3, <3>1, <3>2 DEF Listener, Reactor!Listener
  <2> QED
    BY <2>2, <2>3
<1> QED
  BY <1>2, <1>3 DEF Reactor!EventsHold, ReactorInv, SocketsInv, PeersInv
-----------------------------------------------------------------------------
LEMMA Offset ==
  ASSUME NEW a \in Nat, NEW n \in Nat, n <= a, NEW i \in 1..n, NEW m \in Nat, a <= m
  PROVE  a - n + i \in 1..m /\ a - n + i \in Nat
OBVIOUS

(* The demonstration servers.  A connection that was not reset is owed what *)
(* is in the buffer, if that is its own, and else nothing.                  *)
Owed(f) == IF f = clientfd THEN Len(buff) ELSE 0

LagInv == \A f \in Clients : peer[f] # Nobody /\ reset[peer[f]] = "none" =>
             Len(echo[peer[f]]) + Owed(f) = got[peer[f]]

DemosTypes == /\ kind \in {"socket", "select", "poll", "epoll"}
              /\ watched \subseteq Fds /\ ready \subseteq Fds
              /\ maxfd \in Fds /\ clientfd \in Fds
              /\ buff \in Seq(Peers \X Nat) /\ Len(buff) <= BUFFER_LENGTH

(* The buffer has the last bytes that were taken from its connection.       *)
BuffInv ==
    /\ buff = <<>> => clientfd = Listener
    /\ buff # <<>> =>
         /\ clientfd \in Clients /\ peer[clientfd] # Nobody
         /\ Len(buff) <= got[peer[clientfd]]
         /\ \A i \in 1..Len(buff) :
              buff[i] = <<peer[clientfd], got[peer[clientfd]] - Len(buff) + i>>

(* What the loop was told of is still so; it is told of every connection.   *)
ToldInv == \A f \in ready : f \in watched /\ (Readable(f) \/ (f = clientfd /\ buff # <<>>))
WatchInv == \A f \in Clients : peer[f] # Nobody => f \in watched /\ (kind = "epoll" \/ f <= maxfd)

DemosInv == /\ SocketsInv(Clients, DemoSends) /\ DemosTypes /\ LagInv /\ BuffInv
            /\ alive /\ kind # "socket" => ToldInv /\ WatchInv

LEMMA DemosPeers ==
  ASSUME SocketsInv(Clients, DemoSends), NEW p \in Peers, Demos!PeerStep(p)
  PROVE  PeersGoOn(DemoSends)
<1> USE DEF SocketsInv, PeersInv, PeerTypes, PeersGoOn
<1>1. CASE Demos!Connect(p)
  BY <1>1 DEF Demos!Connect
<1>2. CASE Demos!PeerSend(p)
  <2>1. /\ sent \in [Peers -> Nat] /\ sent[p] < DemoSends[p] /\ DemoSends[p] \in Nat
        /\ sent' = [sent EXCEPT ![p] = sent[p] + 1]
    BY <1>2, ServersAssumption DEF Demos!PeerSend
  <2>2. /\ sent' \in [Peers -> Nat]
        /\ \A q \in Peers : sent[q] <= sent'[q] /\ sent'[q] <= DemoSends[q]
    BY <2>1
  <2> QED
    BY <1>2, <2>2 DEF Demos!PeerSend
<1>3. CASE Demos!PeerClose(p)
  BY <1>3 DEF Demos!PeerClose
<1>4. CASE Demos!PeerReset(p)
  BY <1>4 DEF Demos!PeerReset, Demos!peerVars
<1>5. CASE Demos!Drain(p)
  BY <1>5 DEF Demos!Drain, Demos!peerVars
<1> QED
  BY <1>1, <1>2, <1>3, <1>4, <1>5 DEF Demos!PeerStep

LEMMA DemosPeersStep ==
  ASSUME DemosInv, NEW p \in Peers, Demos!PeerStep(p), UNCHANGED demosVars
  PROVE  DemosInv'
<1>1. /\ SocketsInv(Clients, DemoSends) /\ PeersGoOn(DemoSends)
      /\ UNCHANGED <<kind, watched, maxfd, ready, buff, clientfd>>
  BY DemosPeers DEF DemosInv, demosVars
<1>2. SocketsInv(Clients, DemoSends)'
  BY <1>1, PeersKeep, ServersAssumption
<1>3. DemosTypes' /\ BuffInv'
  BY <1>1 DEF DemosInv, DemosTypes, BuffInv, PeersGoOn
<1>4. LagInv'
  <2>1. \A f \in Clients : peer[f] # Nobody => peer[f] \in Peers
    BY DEF DemosInv, SocketsInv, OneFdEach
  <2> QED
    BY <1>1, <2>1 DEF DemosInv, LagInv, Owed, PeersGoOn
<1>5. alive' /\ kind' # "socket" => ToldInv' /\ WatchInv'
  <2> SUFFICES ASSUME alive, kind # "socket"
               PROVE  ToldInv' /\ WatchInv'
    BY <1>1 DEF PeersGoOn
  <2>1. WatchInv'
    BY <1>1 DEF DemosInv, WatchInv, PeersGoOn
  <2>2. ASSUME NEW f \in ready
        PROVE  Readable(f) => Readable(f)'
    <3>1. f \in Clients \cup {Listener}
      BY DEF DemosInv, DemosTypes, Fds
    <3> QED
      BY <1>1, <3>1, PeersLeaveReady, ServersAssumption
  <2>3. ToldInv'
    BY <1>1, <2>2 DEF DemosInv, ToldInv
  <2> QED
    BY <2>1, <2>3
<1> QED
  BY <1>2, <1>3, <1>4, <1>5 DEF DemosInv

LEMMA DemosNames ==
  /\ Demos!Listener = Listener /\ Demos!Fds = Fds
  /\ Demos!Sequential = (kind = "socket")
  /\ \A f : Demos!Readable(f) = Readable(f)
BY DEF Demos!Listener, Listener, Demos!Fds, Fds, Demos!Sequential, Demos!Readable, Readable,
   Demos!Backlog, Backlog

(* The steps that leave the connections as they are.                        *)
LEMMA DemosIdleStep ==
  ASSUME DemosInv,
         \/ Demos!Wait \/ Demos!Return
         \/ Demos!AcceptFails
  PROVE  DemosInv'
<1>1. /\ UNCHANGED <<kind, watched, maxfd, buff, clientfd>>
      /\ UNCHANGED <<peer, phase, sent, fin, got, echo, full, reset>>
      /\ alive' \in {alive, FALSE}
  BY DEF Demos!Wait, Demos!Return, Demos!AcceptFails, Demos!Exits, Demos!serverVars,
     Demos!socketVars, Demos!peerVars
<1>2. ready' \subseteq Fds /\ (ready' \subseteq ready \/ ready' = Demos!Reported)
  <2>1. Demos!Reported \subseteq watched
    BY DEF Demos!Reported
  <2> QED
    BY <2>1 DEF Demos!Wait, Demos!Return, Demos!AcceptFails, Demos!Done, Demos!serverVars,
       DemosInv, DemosTypes
<1>3. SocketsInv(Clients, DemoSends)'
  BY <1>1 DEF DemosInv, SocketsInv, PeersInv, PeerTypes, Echoed, EchoesItsOwn, OneFdEach
<1>4. DemosTypes' /\ BuffInv' /\ LagInv'
  BY <1>1, <1>2 DEF DemosInv, DemosTypes, BuffInv, LagInv, Owed
<1>5. ASSUME alive', kind # "socket"
      PROVE  ToldInv' /\ WatchInv'
  <2>1. alive /\ ToldInv /\ WatchInv
    BY <1>1, <1>5 DEF DemosInv, SocketsInv, PeersInv, PeerTypes
  <2>2. \A f \in Demos!Reported : f \in watched /\ Readable(f)
    BY DemosNames DEF Demos!Reported
  <2>3. \A f : Readable(f)' = Readable(f)
    BY <1>1 DEF Readable, Backlog
  <2> QED
    BY <1>1, <1>2, <2>1, <2>2, <2>3 DEF ToldInv, WatchInv
<1> QED
  BY <1>1, <1>3, <1>4, <1>5 DEF DemosInv

LEMMA DemosAcceptStep ==
  ASSUME DemosInv, NEW p \in Peers, NEW f \in Clients, Demos!Accept(p, f)
  PROVE  DemosInv'
<1>1. TakesUp(Clients, p, f)
  <2>1. /\ Demos!Unused # {} /\ f = Demos!Min(Demos!Unused) /\ Demos!Unused \subseteq Nat
    BY ServersAssumption DEF Demos!Accept, Demos!Accepts, Demos!Unused
  <2>2. f \in Demos!Unused
    <3>1. Min(Demos!Unused) \in Demos!Unused
      BY <2>1, MinIsLeast
    <3> QED
      BY <2>1, <3>1 DEF Min, Demos!Min
  <2> QED
    BY <2>2 DEF Demos!Accept, Demos!Accepts, Demos!Unused, Demos!Backlog, TakesUp
<1>2. /\ SocketsInv(Clients, DemoSends)' /\ \A g \in Clients \ {f} : Untouched(g)
      /\ peer'[f] = p /\ got[p] = 0 /\ echo[p] = <<>>
  <2>1. SocketsInv(Clients, DemoSends) /\ DemoSends \in [Peers -> Nat] /\ Nobody \notin Peers
    BY ServersAssumption DEF DemosInv
  <2>2. SocketsInv(Clients, DemoSends)' /\ peer'[f] = p
    BY <1>1, <2>1, TakesUpKeeps
  <2>3. got[p] = 0 /\ echo[p] = <<>>
    BY <1>1, <2>1, TakesUpKeeps
  <2>4. \A g \in Clients \ {f} : Untouched(g)
    BY <1>1, <2>1, TakesUpKeeps
  <2> QED
    BY <2>2, <2>4, <2>3
<1>3. /\ alive' = alive /\ alive /\ UNCHANGED <<kind, buff, clientfd>>
      /\ watched' = (IF kind = "socket" THEN watched ELSE watched \cup {f})
      /\ maxfd' = Demos!Highest(f)
      /\ ready' = (IF kind = "socket" THEN {f} ELSE Demos!Done(Listener))
      /\ buff = <<>>
  BY <1>1, DemosNames DEF Demos!Accept, Demos!Handles, TakesUp
<1>4. clientfd = Listener /\ f # Listener /\ clientfd \notin Clients
  BY <1>3, ServersAssumption DEF DemosInv, BuffInv
<1>5. maxfd' \in Fds /\ maxfd' >= f /\ maxfd' >= maxfd /\ maxfd \in Nat /\ f \in Nat
  <2>1. f \in Nat /\ maxfd \in Nat /\ maxfd \in Fds /\ f \in Fds
    BY ServersAssumption DEF DemosInv, DemosTypes, Fds, Listener
  <2>2. maxfd' = Max({f, maxfd})
    BY <1>3 DEF Demos!Highest, Max, Demos!Max
  <2> QED
    BY <2>1, <2>2, MaxOfTwo
<1>6. ready' \subseteq Fds
  BY <1>3 DEF DemosInv, DemosTypes, Demos!Done, Fds
<1>7. DemosTypes'
  BY <1>3, <1>5, <1>6 DEF DemosInv, DemosTypes, Fds
<1>8. BuffInv'
  BY <1>3, <1>4 DEF BuffInv
<1>9. LagInv'
  <2>1. \A g \in Clients : Owed(g) = 0 /\ Owed(g)' = 0
    BY <1>3, <1>4 DEF Owed
  <2>2. Len(echo'[p]) + 0 = got'[p]
    BY <1>1, <1>2 DEF TakesUp
  <2> QED
    BY <1>2, <2>1, <2>2 DEF DemosInv, LagInv, Untouched
<1>10. ASSUME kind # "socket"
       PROVE  ToldInv' /\ WatchInv'
  <2>1. ToldInv /\ WatchInv /\ watched' = watched \cup {f}
    BY <1>3, <1>10 DEF DemosInv
  <2>2. WatchInv'
    <3> SUFFICES ASSUME NEW g \in Clients, peer'[g] # Nobody
                 PROVE  g \in watched' /\ (kind' = "epoll" \/ g <= maxfd')
      BY DEF WatchInv
    <3>1. CASE g = f
      BY <1>5, <2>1, <3>1
    <3>2. CASE g # f
      <4>1. peer[g] # Nobody /\ g \in Nat
        BY <1>2, <3>2, ServersAssumption DEF Untouched
      <4>2. g \in watched /\ (kind = "epoll" \/ g <= maxfd)
        BY <2>1, <4>1 DEF WatchInv
      <4>3. maxfd' \in Nat
        BY <1>5 DEF Fds, Listener
      <4>4. g <= maxfd => g <= maxfd'
        BY <1>5, <4>1, <4>3
      <4> QED
        BY <1>3, <2>1, <4>2, <4>4
    <3> QED
      BY <3>1, <3>2
  <2>3. ToldInv'
    <3> SUFFICES ASSUME NEW g \in ready'
                 PROVE  g \in watched' /\ Readable(g)'
      BY DEF ToldInv
    <3>1. g \in ready /\ g # Listener
      BY <1>3, <1>10, DemosNames DEF Demos!Done
    <3>2. g \in watched /\ Readable(g)
      BY <1>3, <2>1, <3>1 DEF ToldInv
    <3>3. g \in Clients /\ peer[g] # Nobody
      BY <3>1, <3>2 DEF DemosInv, DemosTypes, Fds, Readable
    <3>4. Untouched(g)
      BY <1>1, <1>2, <3>3 DEF TakesUp
    <3>5. Readable(g)' = Readable(g)
      BY <3>1, <3>4, UntouchedStaysReady
    <3> QED
      BY <2>1, <3>2, <3>5
  <2> QED
    BY <2>2, <2>3
<1> QED
  BY <1>2, <1>3, <1>7, <1>8, <1>9, <1>10 DEF DemosInv

(* Others than the connection that is served are as they were.              *)
LEMMA DemosOthers ==
  ASSUME DemosInv, alive, kind # "socket", UNCHANGED <<kind, maxfd, phase>>,
         NEW f \in Clients, watched \ {f} \subseteq watched',
         \A g \in Clients \ {f} : Untouched(g)
  PROVE  /\ \A g \in ready \ {f} : g # clientfd => g \in watched' /\ Readable(g)'
         /\ \A g \in Clients \ {f} : peer'[g] # Nobody =>
               g \in watched' /\ (kind' = "epoll" \/ g <= maxfd')
<1>1. ToldInv /\ WatchInv
  BY DEF DemosInv
<1>2. ASSUME NEW g \in ready \ {f}, g # clientfd
      PROVE  g \in watched' /\ Readable(g)'
  <2>1. g \in watched /\ Readable(g)
    BY <1>1, <1>2 DEF ToldInv
  <2>2. CASE g = Listener
    BY <2>1, <2>2 DEF Readable, Backlog
  <2>3. CASE g # Listener
    <3>1. g \in Clients \ {f}
      BY <2>3 DEF DemosInv, DemosTypes, Fds
    <3> QED
      BY <2>1, <2>3, <3>1, UntouchedStaysReady
  <2> QED
    BY <2>1, <2>2, <2>3
<1>3. ASSUME NEW g \in Clients \ {f}, peer'[g] # Nobody
      PROVE  g \in watched' /\ (kind' = "epoll" \/ g <= maxfd')
  BY <1>1, <1>3 DEF WatchInv, Untouched
<1> QED
  BY <1>2, <1>3

LEMMA DemosRecvStep ==
  ASSUME DemosInv, NEW f \in Clients, Demos!Recv(f)
  PROVE  DemosInv'
<1> DEFINE p == peer[f]
           len == Demos!Available(f, BUFFER_LENGTH)
<1> USE ServersAssumption
<1>1. /\ alive /\ buff = <<>> /\ f \in Demos!Turn /\ f # Listener
      /\ Demos!Receives(f, BUFFER_LENGTH) /\ peer[f] # Nobody /\ len > 0
      /\ buff' = Demos!Taken(f) /\ clientfd' = f
      /\ UNCHANGED <<kind, watched, maxfd, ready>>
  BY DemosNames DEF Demos!Recv, Demos!Handles, Demos!Receives
<1>2. /\ p \in Peers /\ got[p] \in Nat /\ sent[p] \in Nat /\ got[p] <= sent[p]
  BY <1>1 DEF DemosInv, SocketsInv, OneFdEach, PeersInv, PeerTypes
<1>3. len \in Nat /\ len <= BUFFER_LENGTH /\ len <= sent[p] - got[p]
  <2>1. len = Min({BUFFER_LENGTH, sent[p] - got[p]})
    BY DEF Demos!Available, Min, Demos!Min
  <2>2. sent[p] - got[p] \in Nat /\ BUFFER_LENGTH \in Nat
    BY <1>2
  <2> QED
    BY <2>1, <2>2, MinOfTwo
<1>4. Takes(Clients, f, len)
  BY <1>1, <1>3 DEF Takes, Demos!Receives, Demos!peerVars
<1>5. buff' = [i \in 1..len |-> <<p, got[p] + i>>]
  BY <1>1 DEF Demos!Taken
<1> HIDE DEF len
<1>6. /\ SocketsInv(Clients, DemoSends)' /\ \A g \in Clients \ {f} : Untouched(g)
      /\ got'[p] = got[p] + len
  <2>1. SocketsInv(Clients, DemoSends) /\ DemoSends \in [Peers -> Nat] /\ Nobody \notin Peers
    BY DEF DemosInv
  <2> QED
    BY <1>4, <2>1, TakesKeeps
<1>7. buff' \in Seq(Peers \X Nat) /\ Len(buff') = len
  <2>1. \A i \in 1..len : <<p, got[p] + i>> \in Peers \X Nat
    BY <1>2, <1>3
  <2> QED
    BY <1>3, <1>5, <2>1
<1>8. DemosTypes'
  BY <1>1, <1>3, <1>7 DEF DemosInv, DemosTypes, Fds
<1>9. BuffInv'
  <2>1. buff' # <<>>
    BY <1>1, <1>3, <1>7
  <2>2. peer'[f] = p
    BY <1>4 DEF Takes
  <2>3. \A i \in 1..Len(buff') : buff'[i] = <<p, got'[p] - Len(buff') + i>>
    <3> SUFFICES ASSUME NEW i \in 1..len
                 PROVE  buff'[i] = <<p, got'[p] - len + i>>
      BY <1>7
    <3>1. got'[p] - len + i = got[p] + i
      BY <1>2, <1>3, <1>6
    <3> QED
      BY <1>5, <3>1
  <2>4. Len(buff') <= got'[p]
    BY <1>2, <1>3, <1>6, <1>7
  <2> QED
    BY <1>1, <2>1, <2>2, <2>3, <2>4 DEF BuffInv
<1>10. LagInv'
  <2>1. \A g \in Clients : Owed(g) = 0
    BY <1>1 DEF Owed, DemosInv, BuffInv
  <2>2. Owed(f)' = len /\ \A g \in Clients \ {f} : Owed(g)' = 0
    BY <1>1, <1>7 DEF Owed
  <2>3. /\ peer'[f] = p /\ echo'[p] = echo[p] /\ reset'[p] = reset[p]
        /\ \A g \in Clients \ {f} : Untouched(g)
    BY <1>4, <1>6 DEF Takes
  <2>4. ASSUME reset'[p] = "none"
        PROVE  Len(echo'[p]) + len = got'[p]
    <3>1. Len(echo[p]) + 0 = got[p]
      BY <1>1, <2>1, <2>3, <2>4 DEF DemosInv, LagInv
    <3>2. Len(echo[p]) \in Nat
      BY <1>2 DEF DemosInv, SocketsInv, PeersInv, PeerTypes
    <3> QED
      BY <1>2, <1>3, <1>6, <2>3, <3>1, <3>2
  <2>5. ASSUME NEW g \in Clients \ {f}, peer'[g] # Nobody, reset'[peer'[g]] = "none"
        PROVE  Len(echo'[peer'[g]]) + 0 = got'[peer'[g]]
    BY <2>1, <2>3, <2>5 DEF DemosInv, LagInv, Untouched
  <2> QED
    BY <2>2, <2>3, <2>4, <2>5 DEF LagInv
<1>11. ASSUME kind # "socket"
       PROVE  ToldInv' /\ WatchInv'
  <2>1. ToldInv /\ WatchInv /\ phase' = phase /\ peer' = peer
    BY <1>1, <1>4, <1>11 DEF DemosInv, Takes
  <2>2. /\ \A g \in ready \ {f} : g # clientfd => g \in watched' /\ Readable(g)'
        /\ \A g \in Clients \ {f} : peer'[g] # Nobody =>
               g \in watched' /\ (kind' = "epoll" \/ g <= maxfd')
    BY <1>1, <1>6, <1>11, <2>1, DemosOthers
  <2>3. buff' # <<>>
    BY <1>1, <1>3, <1>7
  <2>4. ToldInv'
    <3> SUFFICES ASSUME NEW g \in ready
                 PROVE  g \in watched /\ (Readable(g)' \/ g = f)
      BY <1>1, <2>3 DEF ToldInv
    <3>1. g = clientfd => g = Listener
      BY <1>1 DEF DemosInv, BuffInv
    <3>2. g = Listener => Readable(g)' = Readable(g)
      BY <2>1 DEF Readable, Backlog
    <3>3. g \in watched /\ Readable(g)
      BY <1>1, <2>1 DEF ToldInv
    <3> QED
      BY <1>1, <2>2, <3>1, <3>2, <3>3
  <2> QED
    BY <1>1, <2>1, <2>4 DEF WatchInv
<1> QED
  BY <1>1, <1>6, <1>8, <1>9, <1>10, <1>11 DEF DemosInv

(* After a send nothing is owed. *)
LEMMA DemosSendStep ==
  ASSUME DemosInv, Demos!Send
  PROVE  DemosInv'
<1> DEFINE f == clientfd
           p == peer[f]
<1> USE ServersAssumption
<1>1. /\ alive /\ buff # <<>> /\ (Demos!Delivers(f, buff) \/ Demos!DeliveryFails(f))
      /\ buff' = <<>> /\ ready' = Demos!Done(f) /\ clientfd' = Listener
      /\ UNCHANGED <<kind, watched, maxfd>>
  BY DemosNames DEF Demos!Send
<1>2. /\ f \in Clients /\ f # Listener /\ p # Nobody /\ Len(buff) <= got[p]
      /\ \A i \in 1..Len(buff) : buff[i] = <<p, got[p] - Len(buff) + i>>
      /\ buff \in Seq(Peers \X Nat) /\ Len(buff) \in Nat
  <2>1. f \in Clients /\ f # Listener
    BY <1>1 DEF DemosInv, BuffInv
  <2>2. buff \in Seq(Peers \X Nat) /\ Len(buff) \in Nat
    BY DEF DemosInv, DemosTypes
  <2>3. p # Nobody /\ Len(buff) <= got[p]
    BY <1>1 DEF DemosInv, BuffInv
  <2>4. \A i \in 1..Len(buff) : buff[i] = <<p, got[p] - Len(buff) + i>>
    BY <1>1 DEF DemosInv, BuffInv
  <2> QED
    BY <2>1, <2>2, <2>3, <2>4
<1>3. /\ p \in Peers /\ got[p] \in Nat /\ Len(echo[p]) \in Nat
  BY <1>2 DEF DemosInv, SocketsInv, OneFdEach, PeersInv, PeerTypes
<1>4. ready' = ready \ {f}
  BY <1>1, <1>2, DemosNames DEF Demos!Done
<1>5. SocketsInv(Clients, DemoSends) /\ DemoSends \in [Peers -> Nat] /\ Nobody \notin Peers
  BY DEF DemosInv
<1>6. /\ SocketsInv(Clients, DemoSends)' /\ \A g \in Clients \ {f} : Untouched(g)
      /\ alive' \in BOOLEAN /\ phase' = phase /\ peer' = peer /\ got' = got
      /\ reset'[p] = "none" => Len(echo'[p]) = got[p]
  <2>1. CASE Demos!Delivers(f, buff)
    <3>1. reset[p] = "none" /\ UNCHANGED <<alive, peer, phase, got>>
      BY <2>1 DEF Demos!Delivers, Demos!peerVars
    <3>2. Len(echo[p]) + Len(buff) = got[p]
      BY <1>2, <3>1 DEF DemosInv, LagInv, Owed
    <3>3. \A i \in 1..Len(buff) : buff[i] = <<p, Len(echo[p]) + i>>
      <4>1. got[p] - Len(buff) = Len(echo[p])
        BY <1>2, <1>3, <3>2
      <4> QED
        BY <1>2, <4>1
    <3>4. Len(echo[p]) + Len(buff) <= got[p]
      BY <1>3, <3>2
    <3>5. Gives(Clients, f, buff)
      BY <1>2, <2>1, <3>3, <3>4 DEF Gives, Demos!Delivers, Demos!peerVars
    <3>6. /\ SocketsInv(Clients, DemoSends)' /\ \A g \in Clients \ {f} : Untouched(g)
          /\ Len(echo'[p]) = Len(echo[p]) + Len(buff)
      BY <1>5, <3>5, GivesKeeps
    <3>7. alive' \in BOOLEAN
      BY <1>1, <3>1
    <3> QED
      BY <3>1, <3>2, <3>6, <3>7
  <2>2. CASE Demos!DeliveryFails(f)
    <3>1. Reports(Clients, f)
      BY <1>2, <2>2 DEF Reports, Demos!DeliveryFails, Demos!peerVars
    <3>2. SocketsInv(Clients, DemoSends)' /\ \A g \in Clients \ {f} : Untouched(g)
      BY <1>5, <3>1, ReportsKeeps
    <3>3. reset'[p] # "none"
      BY <1>3, <3>1 DEF Reports, DemosInv, SocketsInv, PeersInv, PeerTypes
    <3> QED
      BY <3>1, <3>2, <3>3 DEF Reports
  <2> QED
    BY <1>1, <2>1, <2>2
<1>7. DemosTypes'
  <2>1. buff' \in Seq(Peers \X Nat) /\ Len(buff') <= BUFFER_LENGTH
    BY <1>1, EmptySeq
  <2> QED
    BY <1>1, <1>4, <2>1 DEF DemosInv, DemosTypes, Fds
<1>8. BuffInv'
  BY <1>1 DEF BuffInv
<1>9. LagInv'
  <2>1. \A g \in Clients : Owed(g)' = 0 /\ (g # f => Owed(g) = 0)
    BY <1>1, <1>2 DEF Owed
  <2>2. reset'[p] = "none" => Len(echo'[p]) + 0 = got'[p]
    BY <1>3, <1>6
  <2>3. ASSUME NEW g \in Clients \ {f}, peer[g] # Nobody, reset'[peer[g]] = "none"
        PROVE  Len(echo'[peer[g]]) + 0 = got'[peer[g]]
    BY <1>6, <2>1, <2>3 DEF DemosInv, LagInv, Untouched
  <2> QED
    BY <1>6, <2>1, <2>2, <2>3 DEF LagInv
<1>10. ASSUME alive', kind # "socket"
       PROVE  ToldInv' /\ WatchInv'
  <2>1. ToldInv /\ WatchInv
    BY <1>1, <1>10 DEF DemosInv
  <2>2. \A g \in ready \ {f} : g # clientfd => g \in watched' /\ Readable(g)'
    BY <1>1, <1>2, <1>6, <1>10, DemosOthers
  <2>3. ToldInv'
    BY <1>1, <1>4, <2>2 DEF ToldInv
  <2>4. WatchInv'
    BY <1>1, <1>6, <2>1 DEF WatchInv
  <2> QED
    BY <2>3, <2>4
<1> QED
  BY <1>1, <1>6, <1>7, <1>8, <1>9, <1>10 DEF DemosInv

(* A connection is closed, and forgotten. *)
LEMMA DemosCloseStep ==
  ASSUME DemosInv, NEW f \in Clients, kind # "socket", f # Listener,
         Demos!Handles(f), Demos!Closes({f}), Demos!Forgets(f)
  PROVE  DemosInv'
<1>1. /\ alive /\ alive' /\ buff = <<>> /\ buff' = <<>>
      /\ UNCHANGED <<kind, maxfd, buff, clientfd, phase>>
      /\ watched' = watched \ {f} /\ ready' = ready \ {f}
  BY DemosNames DEF Demos!Handles, Demos!Closes, Demos!Forgets, Demos!Done, Demos!peerVars
<1>2. clientfd = Listener
  BY <1>1 DEF DemosInv, BuffInv
<1>3. GivesUp(Clients, {f})
  BY DEF GivesUp, Demos!Closes, Demos!peerVars
<1>4. /\ SocketsInv(Clients, DemoSends)' /\ \A g \in Clients \ {f} : Untouched(g)
  <2>1. SocketsInv(Clients, DemoSends) /\ DemoSends \in [Peers -> Nat]
    BY ServersAssumption DEF DemosInv
  <2> QED
    BY <1>3, <2>1, GivesUpKeeps
<1>5. peer'[f] = Nobody
  BY <1>3 DEF GivesUp
<1>6. DemosTypes' /\ BuffInv'
  BY <1>1, <1>2 DEF DemosInv, DemosTypes, BuffInv
<1>7. LagInv'
  <2>1. \A g \in Clients : Owed(g)' = Owed(g)
    BY <1>1 DEF Owed
  <2> QED
    BY <1>4, <1>5, <2>1 DEF DemosInv, LagInv, Untouched
<1>8. ToldInv' /\ WatchInv'
  <2>1. /\ \A g \in ready \ {f} : g # clientfd => g \in watched' /\ Readable(g)'
        /\ \A g \in Clients \ {f} : peer'[g] # Nobody =>
               g \in watched' /\ (kind' = "epoll" \/ g <= maxfd')
    BY <1>1, <1>4, DemosOthers
  <2>2. ASSUME NEW g \in ready \ {f}, g = clientfd
        PROVE  g \in watched' /\ Readable(g)'
    <3>1. g \in watched /\ Readable(g) /\ g = Listener
      BY <1>1, <1>2, <2>2 DEF DemosInv, ToldInv
    <3> QED
      BY <1>1, <3>1 DEF Readable, Backlog
  <2> QED
    BY <1>1, <1>5, <2>1, <2>2 DEF ToldInv, WatchInv
<1> QED
  BY <1>4, <1>6, <1>7, <1>8 DEF DemosInv

(* The process returns from main. *)
LEMMA DemosEndStep ==
  ASSUME DemosInv, Demos!Exits, UNCHANGED <<kind, maxfd, buff, clientfd>>,
         watched' \subseteq watched, ready' \subseteq ready
  PROVE  DemosInv'
<1>1. Ends
  BY DEF Ends, Demos!Exits, Demos!peerVars
<1>2. SocketsInv(Clients, DemoSends)'
  <2>1. SocketsInv(Clients, DemoSends) /\ DemoSends \in [Peers -> Nat]
    BY ServersAssumption DEF DemosInv
  <2> QED
    BY <1>1, <2>1, EndsKeeps
<1>3. DemosTypes' /\ BuffInv' /\ LagInv' /\ ~alive'
  BY <1>1 DEF Ends, DemosInv, DemosTypes, BuffInv, LagInv, Owed
<1> QED
  BY <1>2, <1>3 DEF DemosInv

(* recv fails, and the connection stays open. *)
LEMMA DemosReportStep ==
  ASSUME DemosInv, NEW f \in Clients, f # Listener, Demos!Handles(f),
         Demos!ReceiveFails(f), ready' = Demos!Done(f),
         UNCHANGED <<kind, watched, maxfd, buff, clientfd>>
  PROVE  DemosInv'
<1>1. SocketsInv(Clients, DemoSends) /\ DemoSends \in [Peers -> Nat] /\ Nobody \notin Peers
  BY ServersAssumption DEF DemosInv
<1>2. Reports(Clients, f) /\ UNCHANGED <<alive, phase, peer, got, echo>>
  <2>1. alive' = alive /\ alive \in BOOLEAN
    BY <1>1 DEF Demos!ReceiveFails, SocketsInv, PeersInv, PeerTypes
  <2> QED
    BY <2>1 DEF Reports, Demos!ReceiveFails, Demos!NothingLeft, Demos!peerVars
<1>3. /\ SocketsInv(Clients, DemoSends)' /\ \A g \in Clients \ {f} : Untouched(g)
      /\ \A g \in Clients : Readable(g)' = Readable(g)
  BY <1>1, <1>2, ReportsKeeps
<1>4. DemosTypes' /\ BuffInv' /\ ready' = ready \ {f}
  BY <1>2, DemosNames DEF DemosInv, DemosTypes, BuffInv, Demos!Done
<1>5. LagInv'
  <2>1. reset'[peer[f]] = "reported" /\ \A g \in Clients : Owed(g)' = Owed(g)
    BY <1>1, <1>2 DEF Reports, SocketsInv, OneFdEach, PeersInv, PeerTypes, Owed
  <2> QED
    BY <1>2, <1>3, <2>1 DEF DemosInv, LagInv, Untouched
<1>6. ASSUME alive, kind # "socket"
      PROVE  ToldInv' /\ WatchInv'
  <2>1. ToldInv /\ WatchInv
    BY <1>6 DEF DemosInv
  <2>2. \A g \in ready : Readable(g)' = Readable(g)
    <3>1. Readable(Listener)' = Readable(Listener)
      BY <1>2 DEF Readable, Backlog
    <3> QED
      BY <1>3, <3>1 DEF DemosInv, DemosTypes, Fds
  <2> QED
    BY <1>2, <1>4, <2>1, <2>2 DEF ToldInv, WatchInv
<1> QED
  BY <1>2, <1>3, <1>4, <1>5, <1>6 DEF DemosInv

LEMMA DemosRecvEndStep ==
  ASSUME DemosInv, NEW f \in Clients, Demos!RecvEnd(f) \/ Demos!RecvFails(f)
  PROVE  DemosInv'
<1>1. f # Listener /\ Demos!Handles(f)
  BY DemosNames DEF Demos!RecvEnd, Demos!RecvFails
<1>2. CASE kind # "socket" /\ Demos!Closes({f}) /\ Demos!Forgets(f)
  BY <1>1, <1>2, DemosCloseStep
<1>3. CASE Demos!Exits /\ (Demos!Forgets(f) \/ UNCHANGED Demos!serverVars)
  <2>1. /\ UNCHANGED <<kind, maxfd, buff, clientfd>>
        /\ watched' \subseteq watched /\ ready' \subseteq ready
    BY <1>3 DEF Demos!Forgets, Demos!Done, Demos!serverVars
  <2> QED
    BY <1>3, <2>1, DemosEndStep
<1>4. CASE /\ Demos!ReceiveFails(f) /\ ready' = Demos!Done(f)
           /\ UNCHANGED <<kind, watched, maxfd, buff, clientfd>>
  BY <1>1, <1>4, DemosReportStep
<1> QED
  BY <1>2, <1>3, <1>4, DemosNames DEF Demos!RecvEnd, Demos!RecvFails

LEMMA DemosStep ==
  ASSUME DemosInv, Demos!Server
  PROVE  DemosInv'
BY DemosIdleStep, DemosAcceptStep, DemosRecvStep, DemosSendStep, DemosRecvEndStep
   DEF Demos!Server

LEMMA DemosInit ==
  ASSUME Demos!Init
  PROVE  DemosInv
<1>1. SocketsInv(Clients, DemoSends)
  BY SocketsBegin, ServersAssumption DEF Demos!Init, Demos!SocketsInit
<1>2. /\ kind \in {"socket", "select", "poll", "epoll"} /\ maxfd = Listener /\ clientfd = Listener
      /\ buff = <<>> /\ watched \in {{}, {Listener}} /\ ready = {Listener} \ watched
      /\ kind # "socket" => watched = {Listener}
      /\ \A f \in Clients : peer[f] = Nobody
  BY DemosNames DEF Demos!Init, Demos!SocketsInit
<1>3. DemosTypes
  <2>1. buff \in Seq(Peers \X Nat) /\ Len(buff) = 0
    BY <1>2, EmptySeq
  <2> QED
    BY <1>2, <2>1, ServersAssumption DEF DemosTypes, Fds
<1>4. BuffInv /\ LagInv
  BY <1>2 DEF BuffInv, LagInv
<1>5. kind # "socket" => ToldInv /\ WatchInv
  BY <1>2 DEF ToldInv, WatchInv
<1> QED
  BY <1>1, <1>3, <1>4, <1>5 DEF DemosInv

LEMMA DemosHolds ==
  ASSUME DemosInv
  PROVE  Demos!EventsHold /\ EchoesItsOwn
<1>1. SocketsInv(Clients, DemoSends) /\ DemoSends \in [Peers -> Nat]
  BY ServersAssumption DEF DemosInv
<1>2. Demos!SocketsTypeOK
  BY <1>1, SocketsTyped DEF Demos!SocketsTypeOK, Demos!Bytes
<1>3. buff \in Seq(Demos!Bytes)
  <2>1. CASE buff = <<>>
    BY <2>1, EmptySeq
  <2>2. CASE buff # <<>>
    <3> DEFINE p == peer[clientfd]
               B == Demos!Bytes
    <3>1. clientfd \in Clients /\ p # Nobody /\ buff \in Seq(Peers \X Nat)
      BY <2>2 DEF DemosInv, BuffInv, DemosTypes
    <3>2. p \in Peers /\ got[p] \in Nat /\ sent[p] \in Nat /\ got[p] <= sent[p] /\ sent[p] <= DemoSends[p]
      BY <1>1, <3>1 DEF SocketsInv, OneFdEach, PeersInv, PeerTypes
    <3>3. Len(buff) <= got[p] /\ Len(buff) \in Nat
      BY <2>2, <3>1 DEF DemosInv, BuffInv
    <3>4. ASSUME NEW i \in 1..Len(buff)
          PROVE  buff[i] \in B
      <4>1. buff[i] = <<p, got[p] - Len(buff) + i>>
        BY <2>2 DEF DemosInv, BuffInv
      <4>2. DemoSends[p] \in Nat /\ got[p] <= DemoSends[p]
        BY <1>1, <3>2
      <4>3. got[p] - Len(buff) + i \in 1..DemoSends[p] /\ got[p] - Len(buff) + i \in Nat
        BY <3>2, <3>3, <4>2, Offset
      <4> QED
        BY <3>2, <4>1, <4>3 DEF Demos!Bytes
    <3>5. buff = [i \in 1..Len(buff) |-> buff[i]]
      BY <3>1
    <3> HIDE DEF B
    <3>6. buff \in [1..Len(buff) -> B]
      BY <3>4, <3>5
    <3>7. Seq(B) = UNION {[1..n -> B] : n \in Nat}
      BY SeqDef
    <3>8. buff \in Seq(B)
      BY <3>3, <3>6, <3>7
    <3> QED
      BY <3>8 DEF B
  <2> QED
    BY <2>1, <2>2
<1>4. Demos!TypeOK
  BY <1>2, <1>3, DemosNames DEF DemosInv, DemosTypes, Demos!TypeOK
<1>5. alive /\ ~Demos!Sequential => ToldInv /\ WatchInv
  BY DemosNames DEF DemosInv
<1> QED
  BY <1>1, <1>4, <1>5, DemosNames
     DEF Demos!EventsHold, ToldInv, WatchInv, SocketsInv, PeersInv
-----------------------------------------------------------------------------
(* wlnet.  What epoll, a batch, a job or a step of a callback has is the    *)
(* descriptor of an entry that was opened, whichever threads there are.     *)
Opened(f) == entry[f].cb # "none" /\ f \div EVENTS_LENGTH < blk

WlTypes == /\ pool \in BOOLEAN /\ blk \in Nat \ {0}
           /\ entry \in [Fds -> [fd : Fds \cup {-1}, cb : {"none", "accept_cb", "recv_cb", "send_cb"}]]
           /\ interest \in [Fds -> {"none", "in", "out"}]
           /\ edge \subseteq Fds /\ events \subseteq Fds /\ jobs \in Seq(Fds)
           /\ at \in [Wl!Threads -> [do : Wl!Steps, fd : Fds]]
           /\ answered \in [Peers -> Nat]

OpenedInv == /\ entry[Listener].cb = "accept_cb"
             /\ \A f \in Clients : entry[f].cb # "accept_cb" /\ entry[f].fd \in {f, -1}
             /\ \A f \in Fds : interest[f] # "none" => Opened(f)
             /\ \A f \in events : Opened(f)
             /\ \A i \in 1..Len(jobs) : Opened(jobs[i])
             /\ \A t \in Wl!Threads : at[t].do \notin {"free", "accept_cb", "open"} => Opened(at[t].fd)

(* With one thread an entry that no callback has in its hands says how its  *)
(* connection is watched, and an event of a connection is still so.         *)
Coupled(f) == IF peer[f] = Nobody THEN interest[f] = "none"
              ELSE /\ entry[f].fd = f
                   /\ \/ interest[f] = "in" /\ entry[f].cb = "recv_cb"
                      \/ interest[f] = "out" /\ entry[f].cb = "send_cb"

InHand(f) == at[Loop].do \notin {"free", "accept_cb"} /\ at[Loop].fd = f

(* What holds before each step of a callback for its connection. *)
StepInv(step, f) ==
    /\ step = "accept_cb" => f = Listener
    /\ step \notin {"free", "accept_cb", "close_again"} => f \in Clients /\ peer[f] # Nobody
    /\ step \notin {"free", "accept_cb", "open", "close_again"} => entry[f].fd = f
    /\ step = "open" => interest[f] = "none"
    /\ step \in {"add", "recv_cb", "in"} => entry[f].cb = "recv_cb"
    /\ step \in {"out", "send_cb"} => entry[f].cb = "send_cb"
    /\ step = "recv_cb" => interest[f] = "in" /\ Readable(f)
    /\ step = "send_cb" => interest[f] = "out" /\ Writable(f)
    /\ step = "close_again" => f \in Clients /\ peer[f] = Nobody /\ interest[f] = "none"

LoopInv == /\ jobs = <<>> /\ \A t \in SomeWorkers : at[t] = Wl!Free
           /\ \A f \in Clients : InHand(f) \/ Coupled(f)
           /\ \A f \in events : f # Listener => ~InHand(f) /\ peer[f] # Nobody /\ Wl!Ready(f)
           /\ StepInv(at[Loop].do, at[Loop].fd)

WlInv == SocketsInv(Clients, WlSends) /\ WlTypes /\ OpenedInv /\ (~pool => LoopInv)

LEMMA WlNames ==
  /\ Wl!Listener = Listener /\ Wl!Fds = Fds
  /\ Wl!Free.do = "free" /\ Wl!Free \in [do : Wl!Steps, fd : Fds]
  /\ \A f : Wl!Readable(f) = Readable(f) /\ Wl!Writable(f) = Writable(f)
BY DEF Wl!Listener, Listener, Wl!Fds, Fds, Wl!Free, Wl!Steps, Wl!Readable, Readable, Wl!Writable,
   Writable, Wl!Backlog, Backlog

LEMMA WlPeers ==
  ASSUME SocketsInv(Clients, WlSends), NEW p \in Peers, Wl!PeerStep(p)
  PROVE  PeersGoOn(WlSends)
<1> USE DEF SocketsInv, PeersInv, PeerTypes, PeersGoOn
<1>1. CASE Wl!Connect(p)
  BY <1>1 DEF Wl!Connect
<1>2. CASE Wl!PeerSend(p)
  <2>1. /\ sent \in [Peers -> Nat] /\ sent[p] < WlSends[p] /\ WlSends[p] \in Nat
        /\ sent' = [sent EXCEPT ![p] = sent[p] + 1]
    BY <1>2, ServersAssumption DEF Wl!PeerSend
  <2>2. /\ sent' \in [Peers -> Nat]
        /\ \A q \in Peers : sent[q] <= sent'[q] /\ sent'[q] <= WlSends[q]
    BY <2>1
  <2> QED
    BY <1>2, <2>2 DEF Wl!PeerSend
<1>3. CASE Wl!PeerClose(p)
  BY <1>3 DEF Wl!PeerClose
<1>4. CASE Wl!PeerReset(p)
  BY <1>4 DEF Wl!PeerReset, Wl!peerVars
<1>5. CASE Wl!Drain(p)
  BY <1>5 DEF Wl!Drain, Wl!peerVars
<1> QED
  BY <1>1, <1>2, <1>3, <1>4, <1>5 DEF Wl!PeerStep

LEMMA WlPeersStep ==
  ASSUME WlInv, NEW p \in Peers, Wl!PeerActs(p)
  PROVE  WlInv'
<1>1. /\ SocketsInv(Clients, WlSends) /\ PeersGoOn(WlSends)
      /\ UNCHANGED <<pool, blk, entry, interest, events, jobs, at, answered, peer>>
  BY WlPeers DEF WlInv, Wl!PeerActs, Wl!threadVars, PeersGoOn
<1>2. SocketsInv(Clients, WlSends)'
  BY <1>1, PeersKeep, ServersAssumption
<1>3. WlTypes'
  <2>1. edge' \subseteq edge \cup Fds
    BY DEF Wl!PeerActs, Wl!Concerned, Wl!Listener, Listener, Fds
  <2> QED
    BY <1>1, <2>1 DEF WlInv, WlTypes
<1>4. OpenedInv'
  BY <1>1 DEF WlInv, OpenedInv, Opened
<1>5. ASSUME ~pool
      PROVE  LoopInv'
  <2>1. LoopInv
    BY <1>5 DEF WlInv
  <2>2. ASSUME NEW f \in Clients
        PROVE  (Readable(f) => Readable(f)') /\ (f # Listener /\ Writable(f) => Writable(f)')
    BY <1>1, PeersLeaveReady, ServersAssumption
  <2>3. \A f \in Clients : f # Listener
    BY ServersAssumption
  <2>4. \A f \in Clients : InHand(f)' \/ Coupled(f)'
    BY <1>1, <2>1 DEF LoopInv, InHand, Coupled
  <2>5. \A f \in events : f # Listener => ~InHand(f)' /\ peer'[f] # Nobody /\ Wl!Ready(f)'
    <3> SUFFICES ASSUME NEW f \in events, f # Listener
                 PROVE  ~InHand(f)' /\ peer'[f] # Nobody /\ Wl!Ready(f)'
      OBVIOUS
    <3>1. f \in Clients
      BY DEF WlInv, WlTypes, Fds
    <3>2. ~InHand(f) /\ peer[f] # Nobody /\ Wl!Ready(f)
      BY <2>1 DEF LoopInv
    <3>3. Wl!Ready(f)'
      BY <1>1, <2>2, <2>3, <3>1, <3>2, WlNames DEF Wl!Ready, Wl!Readable, Readable, Wl!Writable,
         Writable, Wl!Backlog, Backlog, Wl!Listener, Listener
    <3> QED
      BY <1>1, <3>2, <3>3 DEF InHand
  <2>6. StepInv(at[Loop].do, at[Loop].fd)'
    BY <1>1, <2>1, <2>2, <2>3 DEF LoopInv, StepInv
  <2> QED
    BY <1>1, <2>1, <2>4, <2>5, <2>6 DEF LoopInv
<1> QED
  BY <1>1, <1>2, <1>3, <1>4, <1>5 DEF WlInv
-----------------------------------------------------------------------------
(* The steps of the loop, and those that hand a job on. *)
LEMMA WlQuiet ==
  ASSUME SocketsInv(Clients, WlSends), UNCHANGED socketVars
  PROVE  /\ SocketsInv(Clients, WlSends)'
         /\ \A g : Untouched(g)
         /\ \A g : Readable(g)' = Readable(g) /\ Writable(g)' = Writable(g)
<1>1. UNCHANGED <<alive, peer, phase, sent, fin, got, echo, full, reset>>
  BY DEF socketVars, peerVars
<1>2. SocketsInv(Clients, WlSends)'
  BY <1>1 DEF SocketsInv, PeersInv, PeerTypes, Echoed, EchoesItsOwn, OneFdEach
<1> QED
  BY <1>1, <1>2 DEF Untouched, Readable, Writable, Backlog

LEMMA WlEpollWaitStep ==
  ASSUME WlInv, Wl!EpollWait
  PROVE  WlInv'
<1>1. /\ UNCHANGED <<pool, blk, entry, interest, jobs, at, answered, socketVars, peer>>
      /\ at[Loop].do = "free" /\ events' = {f \in edge : Wl!Ready(f)} /\ edge' = {}
  BY WlNames DEF Wl!EpollWait, socketVars, Wl!socketVars, Wl!peerVars, peerVars
<1>2. /\ SocketsInv(Clients, WlSends)'
      /\ \A g : Readable(g)' = Readable(g) /\ Writable(g)' = Writable(g)
  BY <1>1, WlQuiet DEF WlInv
<1>3. \A f \in events' : f \in Fds /\ interest[f] # "none" /\ Wl!Ready(f)
  BY <1>1 DEF WlInv, WlTypes, Wl!Ready
<1>4. WlTypes' /\ OpenedInv'
  BY <1>1, <1>3 DEF WlInv, WlTypes, OpenedInv, Opened
<1>5. ASSUME ~pool
      PROVE  LoopInv'
  <2>1. LoopInv
    BY <1>5 DEF WlInv
  <2>2. \A f \in Clients : ~InHand(f) /\ ~InHand(f)' /\ Coupled(f) /\ Coupled(f)'
    BY <1>1, <2>1 DEF LoopInv, InHand, Coupled
  <2>3. ASSUME NEW f \in events', f # Listener
        PROVE  ~InHand(f)' /\ peer'[f] # Nobody /\ Wl!Ready(f)'
    <3>1. f \in Clients /\ peer[f] # Nobody
      BY <1>3, <2>2, <2>3 DEF Fds, Coupled
    <3>2. Wl!Ready(f)' = Wl!Ready(f)
      BY <1>1, <1>2, WlNames DEF Wl!Ready, Wl!Readable, Readable, Wl!Writable, Writable,
         Wl!Backlog, Backlog, Wl!Listener, Listener
    <3> QED
      BY <1>1, <1>3, <2>2, <3>1, <3>2
  <2>4. StepInv(at[Loop].do, at[Loop].fd)'
    BY <1>1 DEF StepInv
  <2> QED
    BY <1>1, <2>1, <2>2, <2>3, <2>4 DEF LoopInv
<1> QED
  BY <1>1, <1>2, <1>4, <1>5 DEF WlInv

LEMMA WlCallBackStep ==
  ASSUME WlInv, NEW f \in events, Wl!CallBack(f)
  PROVE  WlInv'
<1> DEFINE cb == entry[f].cb
<1>1. /\ UNCHANGED <<pool, blk, entry, interest, edge, jobs, answered, socketVars, peer>>
      /\ at[Loop].do = "free" /\ ~pool /\ events' = events \ {f}
      /\ at' = [at EXCEPT ![Loop] = [do |-> cb, fd |-> f]]
  BY WlNames DEF Wl!CallBack, Wl!Enter, Wl!reactorVars, socketVars, Wl!socketVars, Wl!peerVars,
     peerVars
<1>2. /\ SocketsInv(Clients, WlSends)'
      /\ \A g : Readable(g)' = Readable(g) /\ Writable(g)' = Writable(g)
  BY <1>1, WlQuiet DEF WlInv
<1>3. f \in Fds /\ Opened(f) /\ cb \in {"accept_cb", "recv_cb", "send_cb"}
  BY DEF WlInv, WlTypes, OpenedInv, Opened
<1>4. /\ at' \in [Wl!Threads -> [do : Wl!Steps, fd : Fds]]
      /\ at'[Loop].do = cb /\ at'[Loop].fd = f
      /\ \A t \in Wl!Threads \ {Loop} : at'[t] = at[t]
  <2>1. [do |-> cb, fd |-> f] \in [do : Wl!Steps, fd : Fds]
    BY <1>3 DEF Wl!Steps
  <2> QED
    BY <1>1, <2>1 DEF WlInv, WlTypes, Wl!Threads
<1>5. WlTypes'
  BY <1>1, <1>4 DEF WlInv, WlTypes
<1>6. OpenedInv'
  <2>1. \A g : Opened(g)' = Opened(g)
    BY <1>1 DEF Opened
  <2> QED
    BY <1>1, <1>3, <1>4, <2>1 DEF WlInv, OpenedInv
<1>7. LoopInv'
  <2>1. LoopInv
    BY <1>1 DEF WlInv
  <2>2. \A g \in Clients : ~InHand(g) /\ Coupled(g) /\ Coupled(g)'
    BY <1>1, <2>1 DEF LoopInv, InHand, Coupled
  <2>3. ASSUME NEW g \in events', g # Listener
        PROVE  ~InHand(g)' /\ peer'[g] # Nobody /\ Wl!Ready(g)'
    <3>1. g \in events /\ g # f /\ peer[g] # Nobody /\ Wl!Ready(g)
      BY <1>1, <2>1, <2>3 DEF LoopInv
    <3>2. Wl!Ready(g)' = Wl!Ready(g)
      BY <1>1, <1>2, WlNames DEF Wl!Ready, Wl!Readable, Readable, Wl!Writable, Writable,
         Wl!Backlog, Backlog, Wl!Listener, Listener
    <3> QED
      BY <1>1, <1>4, <3>1, <3>2 DEF InHand
  <2>4. StepInv(cb, f)'
    <3>1. CASE f = Listener
      BY <1>1, <3>1 DEF WlInv, OpenedInv, StepInv
    <3>2. CASE f # Listener
      <4>1. f \in Clients /\ peer[f] # Nobody /\ Wl!Ready(f) /\ Coupled(f)
        BY <1>3, <2>1, <2>2, <3>2 DEF LoopInv, Fds
      <4>2. cb = "recv_cb" => interest[f] = "in" /\ Readable(f)
        BY <4>1, WlNames DEF Coupled, Wl!Ready
      <4>3. cb = "send_cb" => interest[f] = "out" /\ Writable(f)
        BY <4>1, WlNames DEF Coupled, Wl!Ready
      <4>4. cb # "accept_cb" /\ entry[f].fd = f
        BY <4>1 DEF Coupled
      <4> QED
        BY <1>1, <1>2, <1>3, <4>1, <4>2, <4>3, <4>4 DEF StepInv
    <3> QED
      BY <3>1, <3>2
  <2>5. StepInv(at[Loop].do, at[Loop].fd)'
    BY <1>1, <1>4, <2>4 DEF StepInv
  <2>6. \A t \in SomeWorkers : at'[t] = Wl!Free
    BY <1>4, <2>1, ServersAssumption DEF LoopInv, Wl!Threads
  <2> QED
    BY <1>1, <2>1, <2>2, <2>3, <2>5, <2>6 DEF LoopInv
<1> QED
  BY <1>1, <1>2, <1>5, <1>6, <1>7 DEF WlInv

LEMMA WlAddJobStep ==
  ASSUME WlInv, NEW f \in events, Wl!AddJob(f)
  PROVE  WlInv'
<1>1. /\ UNCHANGED <<pool, blk, entry, interest, edge, at, answered, socketVars>>
      /\ pool /\ events' = events \ {f} /\ jobs' = <<f>> \o jobs
  BY DEF Wl!AddJob, Wl!reactorVars, Wl!socketVars, Wl!peerVars, socketVars, peerVars
<1>2. SocketsInv(Clients, WlSends)'
  BY <1>1, WlQuiet DEF WlInv
<1>3. f \in Fds /\ Opened(f) /\ jobs \in Seq(Fds)
  BY DEF WlInv, WlTypes, OpenedInv
<1>4. /\ jobs' \in Seq(Fds) /\ Len(jobs') = Len(jobs) + 1
      /\ \A i \in 1..Len(jobs') : jobs'[i] = IF i = 1 THEN f ELSE jobs[i - 1]
  BY <1>1, <1>3
<1>5. WlTypes'
  BY <1>1, <1>4 DEF WlInv, WlTypes
<1>6. OpenedInv'
  <2>1. \A g : Opened(g)' = Opened(g)
    BY <1>1 DEF Opened
  <2>2. \A i \in 1..Len(jobs') : Opened(jobs'[i])
    <3> SUFFICES ASSUME NEW i \in 1..Len(jobs')
                 PROVE  Opened(jobs'[i])
      OBVIOUS
    <3>1. CASE i = 1
      BY <1>3, <1>4, <3>1
    <3>2. CASE i # 1
      <4>1. i - 1 \in 1..Len(jobs) /\ jobs'[i] = jobs[i - 1]
        BY <1>3, <1>4, <3>2
      <4> QED
        BY <4>1 DEF WlInv, OpenedInv
    <3> QED
      BY <3>1, <3>2
  <2> QED
    BY <1>1, <2>1, <2>2 DEF WlInv, OpenedInv
<1> QED
  BY <1>1, <1>2, <1>5, <1>6 DEF WlInv

LEMMA WlTakeJobStep ==
  ASSUME WlInv, NEW t \in SomeWorkers, Wl!TakeJob(t)
  PROVE  WlInv'
<1> DEFINE f == Head(jobs)
<1>1. /\ UNCHANGED <<pool, blk, entry, interest, edge, events, answered, socketVars>>
      /\ jobs # <<>> /\ jobs' = Tail(jobs)
      /\ at' = [at EXCEPT ![t] = [do |-> entry[f].cb, fd |-> f]]
  BY DEF Wl!TakeJob, Wl!Enter, Wl!reactorVars, Wl!socketVars, Wl!peerVars, socketVars, peerVars
<1>2. SocketsInv(Clients, WlSends)'
  BY <1>1, WlQuiet DEF WlInv
<1>3. jobs \in Seq(Fds) /\ Len(jobs) \in Nat \ {0} /\ f = jobs[1]
  <2>1. jobs \in Seq(Fds)
    BY DEF WlInv, WlTypes
  <2> QED
    BY <1>1, <2>1, EmptySeq
<1>4. f \in Fds /\ Opened(f) /\ entry[f].cb \in {"accept_cb", "recv_cb", "send_cb"}
  <2>1. f \in Fds /\ Opened(f)
    BY <1>3 DEF WlInv, OpenedInv
  <2> QED
    BY <2>1 DEF Opened, WlInv, WlTypes
<1>5. /\ jobs' \in Seq(Fds) /\ Len(jobs') = Len(jobs) - 1
      /\ \A i \in 1..Len(jobs') : jobs'[i] = jobs[i + 1]
  BY <1>1, <1>3
<1> HIDE DEF f
<1>6. /\ at' \in [Wl!Threads -> [do : Wl!Steps, fd : Fds]]
      /\ at'[t].fd = f /\ \A u \in Wl!Threads \ {t} : at'[u] = at[u]
  <2>1. [do |-> entry[f].cb, fd |-> f] \in [do : Wl!Steps, fd : Fds]
    BY <1>4 DEF Wl!Steps
  <2> QED
    BY <1>1, <2>1 DEF WlInv, WlTypes, Wl!Threads
<1>7. WlTypes'
  BY <1>1, <1>5, <1>6 DEF WlInv, WlTypes
<1>8. OpenedInv'
  <2>1. \A g : Opened(g)' = Opened(g)
    BY <1>1 DEF Opened
  <2>2. \A i \in 1..Len(jobs') : Opened(jobs'[i])
    <3> SUFFICES ASSUME NEW i \in 1..Len(jobs')
                 PROVE  Opened(jobs'[i])
      OBVIOUS
    <3>1. i + 1 \in 1..Len(jobs) /\ jobs'[i] = jobs[i + 1]
      BY <1>3, <1>5
    <3> QED
      BY <3>1 DEF WlInv, OpenedInv
  <2>3. \A u \in Wl!Threads : at'[u].do \notin {"free", "accept_cb", "open"} => Opened(at'[u].fd)
    BY <1>4, <1>6 DEF WlInv, OpenedInv
  <2> QED
    BY <1>1, <2>1, <2>2, <2>3 DEF WlInv, OpenedInv
<1>9. pool
  BY <1>1 DEF WlInv, LoopInv
<1> QED
  BY <1>1, <1>2, <1>7, <1>8, <1>9 DEF WlInv
-----------------------------------------------------------------------------
(* The steps of the callbacks.  A step moves its thread on, and may change  *)
(* the entry of the descriptor that it handles and nothing of the others.   *)
Moves(t, step, f) ==
    /\ at' \in [Wl!Threads -> [do : Wl!Steps, fd : Fds]]
    /\ at'[t].do = step /\ (step # "free" => at'[t].fd = f)
    /\ \A u \in Wl!Threads \ {t} : at'[u] = at[u]
    /\ UNCHANGED <<pool, events, jobs>>

EntryChanges(f) ==
    /\ blk' \in Nat \ {0} /\ blk' >= blk
    /\ entry' \in [Fds -> [fd : Fds \cup {-1}, cb : {"none", "accept_cb", "recv_cb", "send_cb"}]]
    /\ interest' \in [Fds -> {"none", "in", "out"}]
    /\ edge' \subseteq Fds /\ answered' \in [Peers -> Nat]
    /\ \A g \in Fds \ {f} : entry'[g] = entry[g] /\ interest'[g] = interest[g]
    /\ entry'[f].cb # "accept_cb" /\ entry'[f].fd \in {f, -1}
    /\ entry[f].cb # "none" => entry'[f].cb # "none"

(* Whose turn it is: f, or accept_cb has just returned it. *)
Handles(t, f) == \/ at[t].do \notin {"free", "accept_cb"} /\ at[t].fd = f
                 \/ at[t].do = "accept_cb" /\ peer[f] = Nobody

LEMMA OpenedKept ==
  ASSUME WlTypes, OpenedInv, NEW t \in Wl!Threads, NEW f \in Clients, NEW step,
         EntryChanges(f), Moves(t, step, f),
         \/ Opened(f)'
         \/ step \in {"free", "open"} /\ interest'[f] = interest[f]
  PROVE  WlTypes' /\ OpenedInv'
<1>1. WlTypes'
  BY DEF WlTypes, EntryChanges, Moves
<1>2. f # Listener /\ f \in Fds /\ Listener \in Fds
  BY ServersAssumption DEF Fds
<1>3. ASSUME NEW g \in Fds, Opened(g)
      PROVE  Opened(g)'
  <2>1. g \div EVENTS_LENGTH < blk'
    <3>1. g \div EVENTS_LENGTH \in Int /\ blk \in Nat /\ blk' \in Nat /\ blk' >= blk
      BY ServersAssumption DEF WlTypes, EntryChanges, Fds, Listener
    <3> QED
      BY <1>3, <3>1 DEF Opened
  <2>2. entry'[g].cb # "none"
    BY <1>3 DEF Opened, EntryChanges
  <2> QED
    BY <2>1, <2>2 DEF Opened
<1>4. entry'[Listener].cb = "accept_cb"
      /\ \A g \in Clients : entry'[g].cb # "accept_cb" /\ entry'[g].fd \in {g, -1}
  BY <1>2 DEF OpenedInv, EntryChanges, Fds
<1>5. \A g \in Fds : interest'[g] # "none" => Opened(g)'
  BY <1>3 DEF OpenedInv, EntryChanges
<1>6. (\A g \in events' : Opened(g)') /\ \A i \in 1..Len(jobs') : Opened(jobs[i])'
  <2>1. jobs' = jobs /\ events' = events /\ events \subseteq Fds /\ \A i \in 1..Len(jobs) : jobs[i] \in Fds
    BY DEF WlTypes, Moves
  <2> QED
    BY <1>3, <2>1 DEF OpenedInv
<1>7. ASSUME NEW u \in Wl!Threads, at'[u].do \notin {"free", "accept_cb", "open"}
      PROVE  Opened(at[u].fd)'
  <2>1. CASE u = t
    BY <1>7, <2>1 DEF Moves
  <2>2. CASE u # t
    BY <1>3, <1>7, <2>2 DEF OpenedInv, Moves, WlTypes
  <2> QED
    BY <2>1, <2>2
<1> QED
  BY <1>1, <1>4, <1>5, <1>6, <1>7 DEF OpenedInv

LEMMA LoopKept ==
  ASSUME WlTypes, LoopInv, NEW t \in Wl!Threads, NEW f \in Clients, NEW step,
         Handles(t, f), EntryChanges(f), Moves(t, step, f), step # "accept_cb",
         \A g \in Clients \ {f} : Untouched(g),
         IF step = "free" THEN Coupled(f)' ELSE StepInv(step, f)'
  PROVE  LoopInv'
<1>1. t = Loop
  BY WlNames DEF LoopInv, Handles, Wl!Threads
<1>2. \A g \in Clients \ {f} : Coupled(g)
  BY <1>1 DEF LoopInv, InHand, Handles
<1>3. f \notin events /\ f # Listener
  BY <1>1, ServersAssumption DEF LoopInv, InHand, Handles
<1>4. ASSUME NEW g \in Clients \ {f}
      PROVE  ~InHand(g)' /\ Coupled(g)'
  <2>1. peer'[g] = peer[g] /\ entry'[g] = entry[g] /\ interest'[g] = interest[g]
    BY <1>4 DEF Untouched, EntryChanges, Fds
  <2> QED
    BY <1>1, <1>2, <2>1 DEF InHand, Moves, Coupled
<1>5. InHand(f)' \/ Coupled(f)'
  BY <1>1 DEF InHand, Moves
<1>6. ASSUME NEW g \in events', g # Listener
      PROVE  ~InHand(g)' /\ peer'[g] # Nobody /\ Wl!Ready(g)'
  <2>1. g \in events /\ g \in Clients \ {f} /\ Untouched(g)
    BY <1>3, <1>6 DEF Moves, WlTypes, Fds
  <2>2. peer[g] # Nobody /\ Wl!Ready(g) /\ peer'[g] = peer[g] /\ interest'[g] = interest[g]
    BY <1>6, <2>1 DEF LoopInv, Untouched, EntryChanges, Fds
  <2>3. Readable(g)' = Readable(g) /\ Writable(g)' = Writable(g)
    BY <1>6, <2>1, UntouchedStaysReady
  <2>4. Wl!Ready(g)' = Wl!Ready(g)
    BY <2>2, <2>3 DEF Wl!Ready, Wl!Readable, Readable, Wl!Writable, Writable,
       Wl!Backlog, Backlog, Wl!Listener, Listener
  <2> QED
    BY <1>4, <2>1, <2>2, <2>4
<1>7. StepInv(at[Loop].do, at[Loop].fd)'
  <2>1. CASE step = "free"
    BY <1>1, <2>1 DEF Moves, StepInv
  <2>2. CASE step # "free"
    BY <1>1, <2>2 DEF Moves
  <2> QED
    BY <2>1, <2>2
<1>8. jobs' = <<>> /\ \A u \in SomeWorkers : at'[u] = Wl!Free
  BY <1>1, ServersAssumption DEF LoopInv, Moves, Wl!Threads
<1> QED
  BY <1>4, <1>5, <1>6, <1>7, <1>8 DEF LoopInv

LEMMA CallbackKeeps ==
  ASSUME WlInv, NEW t \in Wl!Threads, NEW f \in Clients, NEW step,
         Handles(t, f), EntryChanges(f), Moves(t, step, f), step # "accept_cb",
         SocketsInv(Clients, WlSends)', \A g \in Clients \ {f} : Untouched(g),
         \/ Opened(f)'
         \/ step \in {"free", "open"} /\ interest'[f] = interest[f],
         ~pool => IF step = "free" THEN Coupled(f)' ELSE StepInv(step, f)'
  PROVE  WlInv'
<1>1. WlTypes' /\ OpenedInv'
  BY OpenedKept DEF WlInv
<1>2. ~pool => LoopInv'
  BY LoopKept DEF WlInv
<1> QED
  BY <1>1, <1>2 DEF WlInv, Moves

(* The forms that the steps of a thread have. *)
LEMMA Handled ==
  ASSUME WlInv, NEW t \in Wl!Threads, NEW f, NEW step, step \notin {"free", "accept_cb"},
         Wl!Does(t, step, f)
  PROVE  /\ Handles(t, f) /\ at[t].do = step /\ at[t].fd = f
         /\ step # "open" => Opened(f)
         /\ ~pool => StepInv(step, f)
<1>1. at[t].do = step /\ at[t].fd = f
  BY DEF Wl!Does
<1>2. ~pool => t = Loop
  BY <1>1, WlNames DEF WlInv, LoopInv, Wl!Threads
<1> QED
  BY <1>1, <1>2 DEF WlInv, OpenedInv, LoopInv, Handles

LEMMA ThenMoves ==
  ASSUME WlInv, NEW t \in Wl!Threads, NEW f \in Fds, NEW step \in Wl!Steps, at[t].fd = f,
         Wl!Then(t, step)
  PROVE  Moves(t, step, f)
<1>1. at \in [Wl!Threads -> [do : Wl!Steps, fd : Fds]]
  BY DEF WlInv, WlTypes
<1>2. [at[t] EXCEPT !.do = step] \in [do : Wl!Steps, fd : Fds]
  BY <1>1
<1>3. at' = [at EXCEPT ![t] = [at[t] EXCEPT !.do = step]]
  BY DEF Wl!Then
<1>4. at'[t].do = step /\ at'[t].fd = f
  BY <1>1, <1>3
<1> QED
  BY <1>1, <1>2, <1>3, <1>4 DEF Moves, Wl!Then

LEMMA LeaveMoves ==
  ASSUME WlInv, NEW t \in Wl!Threads, NEW f, Wl!Leave(t)
  PROVE  Moves(t, "free", f)
BY WlNames DEF WlInv, WlTypes, Moves, Wl!Leave

(* ... and what they may do to the entries. *)
LEMMA EntriesKept ==
  ASSUME WlInv, NEW f \in Clients, UNCHANGED <<blk, entry, interest, edge, answered>>
  PROVE  EntryChanges(f) /\ (Opened(f) => Opened(f)')
BY DEF WlInv, WlTypes, OpenedInv, EntryChanges, Opened

LEMMA WatchChanges ==
  ASSUME WlInv, NEW f \in Clients, NEW what \in {"in", "out"}, Wl!Watch(f, what),
         UNCHANGED <<blk, entry, answered>>
  PROVE  /\ EntryChanges(f) /\ (Opened(f) => Opened(f)')
         /\ peer[f] # Nobody => interest'[f] = what
<1>1. /\ interest' \in {interest, [interest EXCEPT ![f] = what]}
      /\ edge' \subseteq edge \cup {f}
      /\ peer[f] # Nobody => interest' = [interest EXCEPT ![f] = what]
  BY DEF Wl!Watch, Wl!Closed
<1>2. f \in Fds
  BY DEF Fds
<1> QED
  BY <1>1, <1>2 DEF WlInv, WlTypes, OpenedInv, EntryChanges, Opened

LEMMA CallbackIs ==
  ASSUME WlInv, NEW f \in Clients, NEW cb \in {"recv_cb", "send_cb"},
         entry' = [entry EXCEPT ![f].cb = cb],
         UNCHANGED <<blk, interest, edge, answered>>
  PROVE  /\ EntryChanges(f) /\ (Opened(f) => Opened(f)')
         /\ entry'[f].cb = cb /\ entry'[f].fd = entry[f].fd
<1>1. f \in Fds /\ entry \in [Fds -> [fd : Fds \cup {-1}, cb : {"none", "accept_cb", "recv_cb", "send_cb"}]]
  BY DEF WlInv, WlTypes, Fds
<1>2. /\ entry'[f].cb = cb /\ entry'[f].fd = entry[f].fd
      /\ \A g \in Fds \ {f} : entry'[g] = entry[g]
  BY <1>1
<1>3. entry' \in [Fds -> [fd : Fds \cup {-1}, cb : {"none", "accept_cb", "recv_cb", "send_cb"}]]
  <2>1. [entry[f] EXCEPT !.cb = cb] \in [fd : Fds \cup {-1}, cb : {"none", "accept_cb", "recv_cb", "send_cb"}]
    BY <1>1
  <2> QED
    BY <1>1, <2>1
<1> QED
  BY <1>1, <1>2, <1>3 DEF WlInv, WlTypes, OpenedInv, EntryChanges, Opened

LEMMA WlAcceptStep ==
  ASSUME WlInv, NEW t \in Wl!Threads, NEW p \in Peers, NEW f \in Clients, Wl!Accept(t, p, f)
  PROVE  WlInv'
<1>1. TakesUp(Clients, p, f)
  <2>1. /\ Wl!Unused # {} /\ f = Wl!Min(Wl!Unused) /\ Wl!Unused \subseteq Nat
    BY ServersAssumption DEF Wl!Accept, Wl!Accepts, Wl!Unused
  <2>2. f \in Wl!Unused
    <3>1. Min(Wl!Unused) \in Wl!Unused
      BY <2>1, MinIsLeast
    <3> QED
      BY <2>1, <3>1 DEF Min, Wl!Min
  <2> QED
    BY <2>2 DEF Wl!Accept, Wl!Accepts, Wl!Unused, Wl!Backlog, TakesUp
<1>2. SocketsInv(Clients, WlSends)' /\ peer'[f] = p
  <2>1. SocketsInv(Clients, WlSends) /\ WlSends \in [Peers -> Nat] /\ Nobody \notin Peers
    BY ServersAssumption DEF WlInv
  <2> QED
    BY <1>1, <2>1, TakesUpKeeps
<1>3. \A g \in Clients \ {f} : Untouched(g)
  <2>1. SocketsInv(Clients, WlSends) /\ WlSends \in [Peers -> Nat] /\ Nobody \notin Peers
    BY ServersAssumption DEF WlInv
  <2> QED
    BY <1>1, <2>1, TakesUpKeeps
<1>4. /\ at[t].do = "accept_cb" /\ Handles(t, f) /\ Moves(t, "open", f)
      /\ UNCHANGED <<blk, entry, interest, edge, answered>>
  <2>1. /\ at[t].do = "accept_cb" /\ UNCHANGED <<blk, entry, interest, edge, answered>>
        /\ UNCHANGED <<pool, events, jobs>>
        /\ at' = [at EXCEPT ![t] = [do |-> "open", fd |-> f]]
    BY DEF Wl!Accept, Wl!Does, Wl!reactorVars
  <2>2. [do |-> "open", fd |-> f] \in [do : Wl!Steps, fd : Fds]
    BY DEF Wl!Steps, Fds
  <2>3. Moves(t, "open", f)
    BY <2>1, <2>2 DEF WlInv, WlTypes, Moves
  <2> QED
    BY <1>1, <2>1, <2>3 DEF Handles, TakesUp
<1>5. ~pool => StepInv("open", f)'
  <2>1. ~pool => t = Loop
    BY <1>4, WlNames DEF WlInv, LoopInv, Wl!Threads
  <2>2. ~pool => Coupled(f) /\ peer[f] = Nobody
    BY <1>1, <1>4, <2>1 DEF WlInv, LoopInv, InHand, TakesUp
  <2>3. peer'[f] # Nobody
    BY <1>2, ServersAssumption
  <2> QED
    BY <1>4, <2>2, <2>3 DEF StepInv, Coupled
<1> QED
  BY <1>2, <1>3, <1>4, <1>5, EntriesKept, CallbackKeeps

LEMMA WlAcceptFailsStep ==
  ASSUME WlInv, NEW t \in Wl!Threads, Wl!AcceptFails(t)
  PROVE  WlInv'
<1>1. /\ at[t].do = "accept_cb" /\ Moves(t, "free", Listener)
      /\ UNCHANGED <<pool, blk, entry, interest, edge, events, jobs, answered, socketVars, peer>>
  <2>1. at[t].do = "accept_cb" /\ Wl!Leave(t)
    BY DEF Wl!AcceptFails, Wl!Does
  <2>2. UNCHANGED <<blk, entry, interest, edge, answered, socketVars, peer>>
    BY DEF Wl!AcceptFails, Wl!reactorVars, Wl!socketVars, Wl!peerVars, socketVars, peerVars
  <2>3. Moves(t, "free", Listener) /\ UNCHANGED <<pool, events, jobs>>
    BY <2>1, LeaveMoves DEF Moves
  <2> QED
    BY <2>1, <2>2, <2>3
<1>2. /\ SocketsInv(Clients, WlSends)'
      /\ \A g : Readable(g)' = Readable(g) /\ Writable(g)' = Writable(g)
  BY <1>1, WlQuiet DEF WlInv
<1>3. WlTypes'
  BY <1>1 DEF WlInv, WlTypes, Moves
<1>4. OpenedInv'
  <2>1. \A u \in Wl!Threads : at'[u].do = "free" \/ at'[u] = at[u]
    BY <1>1 DEF Moves
  <2> QED
    BY <1>1, <2>1 DEF WlInv, OpenedInv, Opened
<1>5. ASSUME ~pool
      PROVE  LoopInv'
  <2>1. LoopInv /\ t = Loop
    BY <1>1, <1>5, WlNames DEF WlInv, LoopInv, Wl!Threads
  <2>2. at'[Loop].do = "free"
    BY <1>1, <2>1 DEF Moves
  <2>3. \A g \in Clients : Coupled(g)'
    BY <1>1, <2>1 DEF LoopInv, InHand, Coupled
  <2>4. \A g \in Fds : Wl!Ready(g)' = Wl!Ready(g)
    BY <1>1, <1>2, WlNames DEF Wl!Ready, Wl!Readable, Readable, Wl!Writable, Writable,
       Wl!Backlog, Backlog, Wl!Listener, Listener
  <2>5. \A g \in events' : g # Listener => ~InHand(g)' /\ peer'[g] # Nobody /\ Wl!Ready(g)'
    BY <1>1, <2>1, <2>2, <2>4 DEF LoopInv, InHand, WlInv, WlTypes
  <2>6. \A u \in SomeWorkers : at'[u] = Wl!Free
    BY <1>1, <2>1, ServersAssumption DEF LoopInv, Moves, Wl!Threads
  <2> QED
    BY <1>1, <2>1, <2>2, <2>3, <2>5, <2>6 DEF LoopInv, StepInv
<1> QED
  BY <1>1, <1>2, <1>3, <1>4, <1>5 DEF WlInv

(* The steps that leave the connections as they are. *)
LEMMA WlOpenStep ==
  ASSUME WlInv, NEW t \in Wl!Threads, NEW f \in Clients, Wl!OpenEntry(t, f)
  PROVE  WlInv'
<1>1. /\ UNCHANGED <<interest, edge, answered, socketVars, peer>>
      /\ blk' = Wl!BlocksFor(f) /\ entry' = [entry EXCEPT ![f] = [fd |-> f, cb |-> "recv_cb"]]
  BY DEF Wl!OpenEntry, socketVars, Wl!socketVars, Wl!peerVars, peerVars
<1>2. Handles(t, f) /\ at[t].fd = f /\ (~pool => StepInv("open", f))
  BY Handled DEF Wl!OpenEntry
<1>3. SocketsInv(Clients, WlSends)' /\ \A g : Untouched(g)
  BY <1>1, WlQuiet DEF WlInv
<1>4. Moves(t, "add", f)
  <2>1. "add" \in Wl!Steps /\ f \in Fds
    BY DEF Wl!Steps, Fds
  <2> QED
    BY <1>2, <2>1, ThenMoves, Handled DEF Wl!OpenEntry
<1>5. /\ blk' \in Nat \ {0} /\ blk' >= blk /\ f \div EVENTS_LENGTH < blk'
  <2>1. blk \in Nat \ {0} /\ f \div EVENTS_LENGTH \in Nat
    <3>1. blk \in Nat \ {0}
      BY DEF WlInv, WlTypes
    <3>2. f \in Nat /\ EVENTS_LENGTH \in Nat \ {0}
      BY ServersAssumption
    <3> QED
      BY <3>1, <3>2
  <2>2. /\ Max({blk, f \div EVENTS_LENGTH + 1}) \in {blk, f \div EVENTS_LENGTH + 1}
        /\ Max({blk, f \div EVENTS_LENGTH + 1}) >= blk
        /\ Max({blk, f \div EVENTS_LENGTH + 1}) >= f \div EVENTS_LENGTH + 1
    BY <2>1, MaxOfTwo
  <2>3. blk' = Max({blk, f \div EVENTS_LENGTH + 1})
    BY <1>1 DEF Wl!BlocksFor, Max, Wl!Max
  <2> QED
    BY <2>1, <2>2, <2>3
<1>6. /\ entry' \in [Fds -> [fd : Fds \cup {-1}, cb : {"none", "accept_cb", "recv_cb", "send_cb"}]]
      /\ entry'[f].cb = "recv_cb" /\ entry'[f].fd = f
      /\ \A g \in Fds \ {f} : entry'[g] = entry[g]
  BY <1>1 DEF WlInv, WlTypes, Fds
<1>7. EntryChanges(f) /\ Opened(f)'
  BY <1>1, <1>5, <1>6 DEF WlInv, WlTypes, EntryChanges, Opened
<1>8. ~pool => StepInv("add", f)'
  BY <1>1, <1>2, <1>6 DEF StepInv
<1> QED
  BY <1>2, <1>3, <1>4, <1>7, <1>8, CallbackKeeps

LEMMA WlWatchStep ==
  ASSUME WlInv, NEW t \in Wl!Threads, NEW f \in Clients,
         Wl!AddToEpoll(t, f) \/ Wl!WaitToSend(t, f) \/ Wl!WaitToRecv(t, f)
  PROVE  WlInv'
<1>1. PICK step \in {"add", "out", "in"} :
         /\ Wl!Does(t, step, f) /\ Wl!Watch(f, IF step = "out" THEN "out" ELSE "in")
         /\ Wl!Leave(t) /\ UNCHANGED <<blk, entry, answered, socketVars, peer>>
  BY DEF Wl!AddToEpoll, Wl!WaitToSend, Wl!WaitToRecv, socketVars, Wl!socketVars, Wl!peerVars,
     peerVars
<1>2. Handles(t, f) /\ Opened(f) /\ (~pool => StepInv(step, f)) /\ Moves(t, "free", f)
  BY <1>1, Handled, LeaveMoves
<1>3. SocketsInv(Clients, WlSends)' /\ \A g : Untouched(g)
  BY <1>1, WlQuiet DEF WlInv
<1>4. /\ EntryChanges(f) /\ Opened(f)'
      /\ peer[f] # Nobody => interest'[f] = IF step = "out" THEN "out" ELSE "in"
  <2> DEFINE what == IF step = "out" THEN "out" ELSE "in"
  <2>1. what \in {"in", "out"} /\ Wl!Watch(f, what) /\ UNCHANGED <<blk, entry, answered>>
    BY <1>1
  <2> HIDE DEF what
  <2>2. EntryChanges(f) /\ Opened(f)' /\ (peer[f] # Nobody => interest'[f] = what)
    BY <1>2, <2>1, WatchChanges
  <2> QED
    BY <2>2 DEF what
<1>5. ~pool => Coupled(f)'
  BY <1>1, <1>2, <1>4 DEF StepInv, Coupled
<1> QED
  BY <1>2, <1>3, <1>4, <1>5, CallbackKeeps

LEMMA WlCallbackIsStep ==
  ASSUME WlInv, NEW t \in Wl!Threads, NEW f \in Clients,
         Wl!Received(t, f) \/ Wl!Answered(t, f)
  PROVE  WlInv'
<1>1. PICK step \in {"got", "answered"} :
         /\ Wl!Does(t, step, f)
         /\ entry' = [entry EXCEPT ![f].cb = IF step = "got" THEN "send_cb" ELSE "recv_cb"]
         /\ Wl!Then(t, IF step = "got" THEN "out" ELSE "in")
         /\ UNCHANGED <<blk, interest, edge, answered, socketVars, peer>>
  BY DEF Wl!Received, Wl!Answered, socketVars, Wl!socketVars, Wl!peerVars, peerVars
<1> DEFINE cb == IF step = "got" THEN "send_cb" ELSE "recv_cb"
           next == IF step = "got" THEN "out" ELSE "in"
<1>2. Handles(t, f) /\ at[t].fd = f /\ Opened(f) /\ (~pool => StepInv(step, f))
  BY <1>1, Handled
<1>3. SocketsInv(Clients, WlSends)' /\ \A g : Untouched(g)
  BY <1>1, WlQuiet DEF WlInv
<1>4. Moves(t, next, f) /\ next \notin {"free", "accept_cb"}
  <2>1. next \in Wl!Steps /\ f \in Fds /\ Wl!Then(t, next) /\ next \notin {"free", "accept_cb"}
    BY <1>1 DEF Wl!Steps, Fds
  <2> HIDE DEF next
  <2> QED
    BY <1>2, <2>1, ThenMoves
<1>5. EntryChanges(f) /\ Opened(f)' /\ entry'[f].cb = cb /\ entry'[f].fd = entry[f].fd
  <2>1. cb \in {"recv_cb", "send_cb"} /\ entry' = [entry EXCEPT ![f].cb = cb]
    BY <1>1
  <2> HIDE DEF cb
  <2> QED
    BY <1>1, <1>2, <2>1, CallbackIs
<1>6. ~pool => StepInv(next, f)'
  BY <1>1, <1>2, <1>5 DEF StepInv
<1> HIDE DEF next
<1> QED
  BY <1>2, <1>3, <1>4, <1>5, <1>6, CallbackKeeps

LEMMA WlRecvStep ==
  ASSUME WlInv, NEW t \in Wl!Threads, NEW f \in Clients, Wl!Recv(t, f)
  PROVE  WlInv'
<1> DEFINE p == peer[f]
           n == Wl!Available(f, WlLength)
<1>1. /\ Wl!Does(t, "recv_cb", f) /\ p # Nobody /\ n > 0
      /\ got' = [got EXCEPT ![p] = @ + n]
      /\ UNCHANGED <<alive, peer, phase, sent, fin, echo, full, reset>>
      /\ Wl!Then(t, "got") /\ UNCHANGED <<blk, entry, interest, edge, answered>>
  BY DEF Wl!Recv, Wl!Receives, Wl!peerVars, Wl!reactorVars
<1>2. Handles(t, f) /\ at[t].fd = f /\ Opened(f) /\ (~pool => StepInv("recv_cb", f))
  BY <1>1, Handled
<1>3. n \in Nat /\ n <= sent[p] - got[p]
  <2>1. n = Min({WlLength, sent[p] - got[p]})
    BY DEF Wl!Available, Min, Wl!Min
  <2>2. sent[p] - got[p] \in Nat /\ WlLength \in Nat
    BY <1>1, ServersAssumption DEF WlInv, SocketsInv, OneFdEach, PeersInv, PeerTypes
  <2> QED
    BY <2>1, <2>2, MinOfTwo
<1> HIDE DEF n
<1>4. Takes(Clients, f, n)
  BY <1>1, <1>3 DEF Takes
<1>5. SocketsInv(Clients, WlSends)' /\ \A g \in Clients \ {f} : Untouched(g)
  <2>1. SocketsInv(Clients, WlSends) /\ WlSends \in [Peers -> Nat] /\ Nobody \notin Peers
    BY ServersAssumption DEF WlInv
  <2> QED
    BY <1>4, <2>1, TakesKeeps
<1>6. Moves(t, "got", f)
  <2>1. "got" \in Wl!Steps /\ f \in Fds
    BY DEF Wl!Steps, Fds
  <2> QED
    BY <1>1, <1>2, <2>1, ThenMoves
<1>7. EntryChanges(f) /\ Opened(f)'
  BY <1>1, <1>2, EntriesKept
<1>8. ~pool => StepInv("got", f)'
  BY <1>1, <1>2 DEF StepInv
<1> QED
  BY <1>2, <1>5, <1>6, <1>7, <1>8, CallbackKeeps

(* recv and send fail: the callback returns, whoever has the descriptor. *)
LEMMA WlFailsStep ==
  ASSUME WlInv, NEW t \in Wl!Threads, NEW f \in Clients,
         Wl!RecvFails(t, f) \/ Wl!SendFails(t, f)
  PROVE  WlInv'
<1>1. PICK step \in {"recv_cb", "send_cb"} :
         /\ Wl!Does(t, step, f)
         /\ Wl!ReceiveFails(f) \/ Wl!DeliveryFails(f) \/ UNCHANGED socketVars
         /\ Wl!Leave(t) /\ UNCHANGED <<blk, entry, interest, edge, answered>>
  BY DEF Wl!RecvFails, Wl!SendFails, Wl!reactorVars, Wl!socketVars, Wl!peerVars, socketVars,
     peerVars
<1>2. /\ Handles(t, f) /\ Opened(f) /\ Moves(t, "free", f)
      /\ ~pool => StepInv(step, f)
  BY <1>1, Handled, LeaveMoves
<1>3. SocketsInv(Clients, WlSends) /\ WlSends \in [Peers -> Nat] /\ Nobody \notin Peers
  BY ServersAssumption DEF WlInv
<1>4. Reports(Clients, f) \/ UNCHANGED socketVars
  <2>1. alive \in BOOLEAN
    BY <1>3 DEF SocketsInv, PeersInv, PeerTypes
  <2>2. ASSUME Wl!ReceiveFails(f)
        PROVE  Reports(Clients, f)
    BY <2>1, <2>2 DEF Wl!ReceiveFails, Wl!NothingLeft, Wl!peerVars, Reports
  <2>3. ASSUME Wl!DeliveryFails(f)
        PROVE  Reports(Clients, f)
    BY <2>1, <2>3 DEF Wl!DeliveryFails, Wl!peerVars, Reports
  <2> QED
    BY <1>1, <2>2, <2>3
<1>5. SocketsInv(Clients, WlSends)' /\ (\A g \in Clients \ {f} : Untouched(g)) /\ peer' = peer
  <2>1. CASE Reports(Clients, f)
    <3>1. SocketsInv(Clients, WlSends)' /\ \A g \in Clients \ {f} : Untouched(g)
      BY <1>3, <2>1, ReportsKeeps
    <3> QED
      BY <2>1, <3>1 DEF Reports
  <2>2. CASE UNCHANGED socketVars
    BY <1>3, <2>2, WlQuiet DEF socketVars
  <2> QED
    BY <1>4, <2>1, <2>2
<1>6. EntryChanges(f) /\ Opened(f)'
  BY <1>1, <1>2, EntriesKept
<1>7. ~pool => Coupled(f)'
  BY <1>1, <1>2, <1>5 DEF StepInv, Coupled
<1> QED
  BY <1>2, <1>5, <1>6, <1>7, CallbackKeeps

LEMMA WlRecvEndStep ==
  ASSUME WlInv, NEW t \in Wl!Threads, NEW f \in Clients, Wl!RecvEnd(t, f)
  PROVE  WlInv'
<1>1. /\ Wl!Does(t, "recv_cb", f) /\ Wl!Then(t, "close")
      /\ UNCHANGED <<blk, entry, interest, edge, answered, socketVars, peer>>
  BY DEF Wl!RecvEnd, Wl!reactorVars, socketVars, Wl!socketVars, Wl!peerVars, peerVars
<1>2. Handles(t, f) /\ at[t].fd = f /\ Opened(f) /\ (~pool => StepInv("recv_cb", f))
  BY <1>1, Handled
<1>3. SocketsInv(Clients, WlSends)' /\ \A g : Untouched(g)
  BY <1>1, WlQuiet DEF WlInv
<1>4. Moves(t, "close", f)
  <2>1. "close" \in Wl!Steps /\ f \in Fds
    BY DEF Wl!Steps, Fds
  <2> QED
    BY <1>1, <1>2, <2>1, ThenMoves
<1>5. EntryChanges(f) /\ Opened(f)'
  BY <1>1, <1>2, EntriesKept
<1>6. ~pool => StepInv("close", f)'
  BY <1>1, <1>2 DEF StepInv
<1> QED
  BY <1>2, <1>3, <1>4, <1>5, <1>6, CallbackKeeps

(* close of the descriptor that the entry has, if it has one still. *)
LEMMA CloseChanges ==
  ASSUME WlInv, NEW f \in Clients, NEW d \in {f, -1}, Wl!Close({d})
  PROVE  /\ SocketsInv(Clients, WlSends)' /\ \A g \in Clients \ {f} : Untouched(g)
         /\ interest' \in [Fds -> {"none", "in", "out"}] /\ edge' \subseteq Fds
         /\ \A g \in Fds \ {f} : interest'[g] = interest[g]
         /\ interest'[f] \in {interest[f], "none"}
         /\ d = f => peer'[f] = Nobody /\ interest'[f] = "none"
<1>1. f # Listener /\ f \in Fds /\ Wl!Listener = Listener /\ Wl!Fds = Fds
  BY WlNames, ServersAssumption DEF Fds
<1>2. GivesUp(Clients, {d})
  BY DEF GivesUp, Wl!Close, Wl!Closes, Wl!peerVars
<1>3. SocketsInv(Clients, WlSends) /\ WlSends \in [Peers -> Nat] /\ {d} \cap Clients \subseteq {f}
  BY ServersAssumption DEF WlInv
<1>4. SocketsInv(Clients, WlSends)' /\ \A g \in Clients \ {f} : Untouched(g)
  <2>1. SocketsInv(Clients, WlSends)' /\ \A g \in Clients \ {d} : Untouched(g)
    BY <1>2, <1>3, GivesUpKeeps
  <2> QED
    BY <1>3, <2>1
<1>5. /\ interest' = [g \in Fds |-> IF g \in {d} \ {Listener} THEN "none" ELSE interest[g]]
      /\ edge' = edge \ {d}
  BY <1>1 DEF Wl!Close
<1>6. \A g \in Fds \ {f} : g # d
  BY ServersAssumption DEF Fds, Listener
<1>7. interest \in [Fds -> {"none", "in", "out"}] /\ edge \subseteq Fds
  BY DEF WlInv, WlTypes
<1> QED
  BY <1>1, <1>2, <1>4, <1>5, <1>6, <1>7 DEF GivesUp

LEMMA WlCloseStep ==
  ASSUME WlInv, NEW t \in Wl!Threads, NEW f \in Clients, Wl!CloseEntry(t, f)
  PROVE  WlInv'
<1>1. /\ Wl!Does(t, "close", f) /\ Wl!Then(t, "close_again") /\ Wl!Close({entry[f].fd})
      /\ entry' = [entry EXCEPT ![f].fd = -1] /\ UNCHANGED <<blk, answered>>
  BY DEF Wl!CloseEntry
<1>2. Handles(t, f) /\ at[t].fd = f /\ Opened(f) /\ (~pool => StepInv("close", f))
  BY <1>1, Handled
<1>3. entry[f].fd \in {f, -1} /\ f \in Fds
  BY DEF WlInv, OpenedInv, Fds
<1>4. /\ SocketsInv(Clients, WlSends)' /\ \A g \in Clients \ {f} : Untouched(g)
      /\ interest' \in [Fds -> {"none", "in", "out"}] /\ edge' \subseteq Fds
      /\ \A g \in Fds \ {f} : interest'[g] = interest[g]
      /\ entry[f].fd = f => peer'[f] = Nobody /\ interest'[f] = "none"
  BY <1>1, <1>3, CloseChanges
<1>5. /\ entry' \in [Fds -> [fd : Fds \cup {-1}, cb : {"none", "accept_cb", "recv_cb", "send_cb"}]]
      /\ entry'[f].fd = -1 /\ entry'[f].cb = entry[f].cb
      /\ \A g \in Fds \ {f} : entry'[g] = entry[g]
  <2>1. entry \in [Fds -> [fd : Fds \cup {-1}, cb : {"none", "accept_cb", "recv_cb", "send_cb"}]]
    BY DEF WlInv, WlTypes
  <2>2. [entry[f] EXCEPT !.fd = -1] \in [fd : Fds \cup {-1}, cb : {"none", "accept_cb", "recv_cb", "send_cb"}]
    BY <1>3, <2>1
  <2> QED
    BY <1>1, <1>3, <2>1, <2>2
<1>6. EntryChanges(f) /\ Opened(f)'
  BY <1>1, <1>2, <1>4, <1>5 DEF WlInv, WlTypes, OpenedInv, EntryChanges, Opened
<1>7. Moves(t, "close_again", f)
  <2>1. "close_again" \in Wl!Steps
    BY DEF Wl!Steps
  <2> QED
    BY <1>1, <1>2, <1>3, <2>1, ThenMoves
<1>8. ~pool => StepInv("close_again", f)'
  BY <1>2, <1>4 DEF StepInv
<1> QED
  BY <1>2, <1>4, <1>6, <1>7, <1>8, CallbackKeeps

LEMMA WlCloseAgainStep ==
  ASSUME WlInv, NEW t \in Wl!Threads, NEW f \in Clients, Wl!CloseAgain(t, f)
  PROVE  WlInv'
<1>1. /\ Wl!Does(t, "close_again", f) /\ Wl!Leave(t) /\ Wl!Close({f})
      /\ UNCHANGED <<blk, entry, answered>>
  BY DEF Wl!CloseAgain
<1>2. Handles(t, f) /\ Opened(f) /\ Moves(t, "free", f)
  BY <1>1, Handled, LeaveMoves
<1>3. /\ SocketsInv(Clients, WlSends)' /\ \A g \in Clients \ {f} : Untouched(g)
      /\ interest' \in [Fds -> {"none", "in", "out"}] /\ edge' \subseteq Fds
      /\ \A g \in Fds \ {f} : interest'[g] = interest[g]
      /\ peer'[f] = Nobody /\ interest'[f] = "none"
  BY <1>1, CloseChanges
<1>4. EntryChanges(f) /\ Opened(f)'
  BY <1>1, <1>2, <1>3 DEF WlInv, WlTypes, OpenedInv, EntryChanges, Opened
<1>5. Coupled(f)'
  BY <1>3 DEF Coupled
<1> QED
  BY <1>2, <1>3, <1>4, <1>5, CallbackKeeps

LEMMA WlSendStep ==
  ASSUME WlInv, NEW t \in Wl!Threads, NEW f \in Clients, Wl!Send(t, f)
  PROVE  WlInv'
<1>1. /\ Wl!Does(t, "send_cb", f) /\ Wl!Delivers(f, <<>>) /\ Wl!Then(t, "answered")
      /\ answered' = [answered EXCEPT ![peer[f]] = got[peer[f]]]
      /\ UNCHANGED <<blk, entry, interest, edge>>
  BY DEF Wl!Send, Wl!reactorVars
<1>2. Handles(t, f) /\ at[t].fd = f /\ Opened(f) /\ (~pool => StepInv("send_cb", f))
  BY <1>1, Handled
<1>3. /\ SocketsInv(Clients, WlSends) /\ WlSends \in [Peers -> Nat] /\ Nobody \notin Peers
      /\ peer[f] # Nobody /\ got[peer[f]] \in Nat /\ Len(echo[peer[f]]) <= got[peer[f]]
      /\ Len(echo[peer[f]]) \in Nat
  <2>1. SocketsInv(Clients, WlSends) /\ WlSends \in [Peers -> Nat] /\ Nobody \notin Peers
    BY ServersAssumption DEF WlInv
  <2>2. peer[f] # Nobody /\ peer[f] \in Peers
    BY <1>1, <2>1 DEF Wl!Delivers, SocketsInv, OneFdEach
  <2>3. got[peer[f]] \in Nat /\ Len(echo[peer[f]]) <= got[peer[f]]
    BY <2>1, <2>2 DEF SocketsInv, PeersInv, PeerTypes, Echoed
  <2>4. echo[peer[f]] \in Seq(Peers \X Nat)
    BY <2>1, <2>2 DEF SocketsInv, PeersInv, PeerTypes
  <2> QED
    BY <2>1, <2>2, <2>3, <2>4
<1>4. Gives(Clients, f, <<>>)
  <2>1. <<>> \in Seq(Peers \X Nat) /\ Len(<<>>) = 0
    BY EmptySeq
  <2> QED
    BY <1>1, <1>3, <2>1 DEF Gives, Wl!Delivers, Wl!peerVars
<1>5. SocketsInv(Clients, WlSends)' /\ (\A g \in Clients \ {f} : Untouched(g)) /\ peer' = peer
  <2>1. SocketsInv(Clients, WlSends)' /\ \A g \in Clients \ {f} : Untouched(g)
    BY <1>3, <1>4, GivesKeeps
  <2> QED
    BY <1>4, <2>1 DEF Gives
<1>6. Moves(t, "answered", f)
  <2>1. "answered" \in Wl!Steps /\ f \in Fds
    BY DEF Wl!Steps, Fds
  <2> QED
    BY <1>1, <1>2, <2>1, ThenMoves
<1>7. EntryChanges(f) /\ Opened(f)'
  <2>1. answered' \in [Peers -> Nat]
    BY <1>1, <1>3 DEF WlInv, WlTypes
  <2> QED
    BY <1>1, <1>2, <2>1 DEF WlInv, WlTypes, OpenedInv, EntryChanges, Opened
<1>8. ~pool => StepInv("answered", f)'
  BY <1>1, <1>2, <1>5 DEF StepInv
<1> QED
  BY <1>2, <1>5, <1>6, <1>7, <1>8, CallbackKeeps

LEMMA WlStep ==
  ASSUME WlInv, Wl!Server
  PROVE  WlInv'
<1>1. ASSUME NEW t \in Wl!Threads, Wl!Running(t)
      PROVE  WlInv'
  BY <1>1, WlAcceptStep, WlAcceptFailsStep, WlOpenStep, WlWatchStep, WlCallbackIsStep, WlRecvStep,
     WlFailsStep, WlRecvEndStep, WlCloseStep, WlCloseAgainStep, WlSendStep
     DEF Wl!Running, Wl!Callback
<1> QED
  BY <1>1, WlEpollWaitStep, WlCallBackStep, WlAddJobStep, WlTakeJobStep DEF Wl!Server

LEMMA WlInit ==
  ASSUME Wl!Init
  PROVE  WlInv
<1>1. SocketsInv(Clients, WlSends)
  BY SocketsBegin, ServersAssumption DEF Wl!Init, Wl!SocketsInit
<1>2. /\ pool \in BOOLEAN /\ blk = 1 /\ edge = {} /\ events = {} /\ jobs = <<>>
      /\ at = [t \in Wl!Threads |-> Wl!Free] /\ answered = [p \in Peers |-> 0]
      /\ \A f \in Clients : peer[f] = Nobody
  BY DEF Wl!Init, Wl!SocketsInit
<1>3. /\ entry = [f \in Fds |-> IF f = Listener THEN [fd |-> f, cb |-> "accept_cb"]
                                ELSE [fd |-> -1, cb |-> "none"]]
      /\ interest = [f \in Fds |-> IF f = Listener THEN "in" ELSE "none"]
  BY WlNames DEF Wl!Init
<1>4. Listener \in Fds /\ \A f \in Clients : f \in Fds /\ f # Listener
  BY ServersAssumption DEF Fds
<1>5. /\ \A f \in Fds : entry[f] \in [fd : Fds \cup {-1}, cb : {"none", "accept_cb", "recv_cb", "send_cb"}]
      /\ entry[Listener].cb = "accept_cb" /\ interest[Listener] = "in"
      /\ \A f \in Clients : entry[f].cb = "none" /\ entry[f].fd = -1 /\ interest[f] = "none"
  BY <1>3, <1>4
<1>6. WlTypes
  <2>1. entry \in [Fds -> [fd : Fds \cup {-1}, cb : {"none", "accept_cb", "recv_cb", "send_cb"}]]
    BY <1>3, <1>5
  <2>2. jobs \in Seq(Fds)
    BY <1>2, EmptySeq
  <2>3. interest \in [Fds -> {"none", "in", "out"}]
    BY <1>3
  <2> QED
    BY <1>2, <2>1, <2>2, <2>3, WlNames DEF WlTypes
<1>7. OpenedInv
  <2>1. Opened(Listener)
    <3>1. Listener \div EVENTS_LENGTH = 0
      BY ServersAssumption DEF Listener
    <3> QED
      BY <1>2, <1>5, <3>1 DEF Opened
  <2>2. Len(jobs) = 0 /\ \A t \in Wl!Threads : at[t].do = "free"
    BY <1>2, WlNames, EmptySeq
  <2> QED
    BY <1>2, <1>4, <1>5, <2>1, <2>2 DEF OpenedInv, Fds
<1>8. LoopInv
  <2>1. at[Loop].do = "free" /\ \A t \in SomeWorkers : at[t] = Wl!Free
    BY <1>2, WlNames DEF Wl!Threads
  <2> QED
    BY <1>2, <1>5, <2>1 DEF LoopInv, Coupled, StepInv
<1> QED
  BY <1>1, <1>6, <1>7, <1>8 DEF WlInv

LEMMA WlHolds ==
  ASSUME WlInv
  PROVE  Wl!EventsHold /\ EchoesItsOwn
<1>1. SocketsInv(Clients, WlSends) /\ WlSends \in [Peers -> Nat]
  BY ServersAssumption DEF WlInv
<1>2. Wl!SocketsTypeOK
  BY <1>1, SocketsTyped DEF Wl!SocketsTypeOK, Wl!Bytes
<1>3. Wl!TypeOK
  BY <1>2, WlNames DEF WlInv, WlTypes, Wl!TypeOK
<1>4. ASSUME NEW f \in events \cup Wl!ToSet(jobs)
      PROVE  entry[f].cb # "none" /\ f \div EVENTS_LENGTH < blk
  <2>1. jobs \in Seq(Fds) /\ (f \in events \/ \E i \in 1..Len(jobs) : f = jobs[i])
    BY <1>4 DEF Wl!ToSet, WlInv, WlTypes
  <2> QED
    BY <2>1 DEF WlInv, OpenedInv, Opened
<1>5. ASSUME ~pool, NEW t \in Wl!Threads
      PROVE  StepInv(at[t].do, at[t].fd)
  <2>1. CASE t = Loop
    BY <1>5, <2>1 DEF WlInv, LoopInv
  <2>2. CASE t # Loop
    <3>1. at[t].do = "free"
      BY <1>5, <2>2, WlNames DEF WlInv, LoopInv, Wl!Threads
    <3> QED
      BY <3>1 DEF StepInv
  <2> QED
    BY <2>1, <2>2
<1>6. ~pool => Wl!CallbacksNeverWait
  <2> SUFFICES ASSUME ~pool, NEW t \in Wl!Threads, NEW f \in Clients
               PROVE  /\ at[t] = [do |-> "recv_cb", fd |-> f] => Wl!Readable(f)
                      /\ at[t] = [do |-> "send_cb", fd |-> f] => Wl!Writable(f)
    BY DEF Wl!CallbacksNeverWait
  <2> QED
    BY <1>5, WlNames DEF StepInv
<1>7. ~pool => \A f \in Clients : at[Loop] = [do |-> "close_again", fd |-> f] => peer[f] = Nobody
  BY <1>5 DEF StepInv, Wl!Threads
<1> QED
  BY <1>1, <1>3, <1>4, <1>6, <1>7 DEF Wl!EventsHold, SocketsInv, PeersInv
-----------------------------------------------------------------------------
PartsInv == /\ part \in {"reactor", "demos", "wlnet"}
            /\ part = "reactor" => ReactorInv
            /\ part = "demos" => DemosInv
            /\ part = "wlnet" => WlInv

LEMMA PartsStutter ==
  ASSUME PartsInv, UNCHANGED vars
  PROVE  PartsInv'
<1>1. /\ UNCHANGED <<part, kind, watched, maxfd, ready, buff, clientfd, blk, interest, events, conn>>
      /\ UNCHANGED <<pool, entry, edge, jobs, at, answered>>
      /\ UNCHANGED <<alive, peer, phase, sent, fin, got, echo, full, reset>>
  BY DEF vars, demosVars, bothVars, wlVars, socketVars, peerVars
<1>2. ASSUME NEW sends \in {Sends, DemoSends, WlSends}, SocketsInv(Clients, sends)
      PROVE  SocketsInv(Clients, sends)'
  BY <1>1, <1>2 DEF SocketsInv, PeersInv, PeerTypes, Echoed, EchoesItsOwn, OneFdEach
<1>3. \A f : Readable(f)' = Readable(f) /\ Writable(f)' = Writable(f)
  BY <1>1 DEF Readable, Writable, Backlog
<1>4. ReactorInv => ReactorInv'
  BY <1>1, <1>2, <1>3 DEF ReactorInv, ReactorTypes, ListenerInv, EntryInv, BatchInv
<1>5. DemosInv => DemosInv'
  BY <1>1, <1>2, <1>3 DEF DemosInv, DemosTypes, LagInv, Owed, BuffInv, ToldInv, WatchInv
<1>6. WlInv => WlInv'
  <2>1. \A f : Wl!Ready(f)' = Wl!Ready(f)
    BY <1>1, <1>3, WlNames DEF Wl!Ready, Wl!Readable, Readable, Wl!Writable, Writable,
       Wl!Backlog, Backlog, Wl!Listener, Listener
  <2>2. OpenedInv => OpenedInv'
    BY <1>1 DEF OpenedInv, Opened
  <2>3. LoopInv => LoopInv'
    BY <1>1, <1>3, <2>1 DEF LoopInv, InHand, Coupled, StepInv
  <2> QED
    BY <1>1, <1>2, <2>2, <2>3 DEF WlInv, WlTypes
<1> QED
  BY <1>1, <1>4, <1>5, <1>6 DEF PartsInv

(* What each of the servers keeps between its calls, and each callback of   *)
(* wlnet between its own, whatever the peers do: how much of what was taken *)
(* from a connection is in a buffer, which of the descriptors are watched   *)
(* for what, and that what a batch has is still so.                         *)
THEOREM ServersInvariant == Spec => []PartsInv
<1>1. Init => PartsInv
  BY ReactorInit, DemosInit, WlInit DEF Init, PartsInv
<1>2. PartsInv /\ [Next]_vars => PartsInv'
  <2> SUFFICES ASSUME PartsInv, [Next]_vars
               PROVE  PartsInv'
    OBVIOUS
  <2>1. CASE IsReactor /\ (Reactor!Server \/ \E p \in Peers : Reactor!PeerStep(p) /\ UNCHANGED <<bothVars, conn>>)
    <3>1. part = "reactor" /\ part' = "reactor"
      BY <2>1 DEF IsReactor
    <3>2. ReactorInv'
      BY <2>1, <3>1, ReactorStep, ReactorPeersStep DEF PartsInv
    <3> QED
      BY <3>1, <3>2 DEF PartsInv
  <2>2. CASE IsDemos /\ (Demos!Server \/ \E p \in Peers : Demos!PeerStep(p) /\ UNCHANGED demosVars)
    <3>1. part = "demos" /\ part' = "demos"
      BY <2>2 DEF IsDemos
    <3>2. DemosInv'
      BY <2>2, <3>1, DemosStep, DemosPeersStep DEF PartsInv
    <3> QED
      BY <3>1, <3>2 DEF PartsInv
  <2>3. CASE IsWl /\ (Wl!Server \/ \E p \in Peers : Wl!PeerActs(p))
    <3>1. part = "wlnet" /\ part' = "wlnet"
      BY <2>3 DEF IsWl
    <3>2. WlInv'
      BY <2>3, <3>1, WlStep, WlPeersStep DEF PartsInv
    <3> QED
      BY <3>1, <3>2 DEF PartsInv
  <2>4. CASE UNCHANGED vars
    BY <2>4, PartsStutter
  <2> QED
    BY <2>1, <2>2, <2>3, <2>4 DEF Next, Server, PeerActs
<1> QED
  BY <1>1, <1>2, PTL DEF Spec

(* Every peer of any of the servers is echoed its own bytes, from the first *)
(* one on, in order and without gaps, although descriptors, entries and     *)
(* buffers pass from one connection to the next as they are.                *)
THEOREM EachIsEchoedItsOwn == Spec => []EchoesItsOwn
<1>1. PartsInv => EchoesItsOwn
  BY ReactorHolds, DemosHolds, WlHolds DEF PartsInv
<1> QED
  BY <1>1, ServersInvariant, PTL

(* When the turn of an event comes it is still so, for each of the servers: *)
(* what it is about is open, watched and ready, and its callback is the one *)
(* that belongs to it.                                                      *)
THEOREM EventsStayTrue == Spec => []EventsHold
<1>1. PartsInv => EventsHold
  BY ReactorHolds, DemosHolds, WlHolds DEF PartsInv, EventsHold
<1> QED
  BY <1>1, ServersInvariant, PTL
=============================================================================
