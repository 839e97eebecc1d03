---------------------------- MODULE MemPoolProofs ----------------------------
(***************************************************************************)
(* The pools' safety: mmpool's, for any size, requests and number of nodes *)
(* (MpPool), and mempool's, for any page and any size of its blocks        *)
(* (MemPool).                                                              *)
(***************************************************************************)
EXTENDS MpPool, MemPool, SequenceTheorems, TLAPS

(* While the pool lives, the marks of a node are in order, every block ends  *)
(* below the mark up to which its node is used, and a new node has room.     *)
NodesFit ==
    pool = "live" =>
        /\ current \in DOMAIN nodes /\ 1 \in DOMAIN nodes
        /\ nodes[1].end = Payload(1) + Size
        /\ \A i \in DOMAIN nodes : Payload(i) <= nodes[i].last /\ nodes[i].last <= nodes[i].end
        /\ \A b \in blocks : b.node \in DOMAIN nodes /\ b.upto <= nodes[b.node].last

(* How often the nodes have failed: those that current has not passed no     *)
(* more than five times, and none of them more often than one before it.     *)
FailedInOrder ==
    /\ \A i \in DOMAIN nodes : i < current => nodes[i].failed > 5
    /\ \A i \in DOMAIN nodes : i >= current => nodes[i].failed <= 5
    /\ \A i, k \in DOMAIN nodes : current <= i /\ i <= k => nodes[k].failed <= nodes[i].failed

(* Nothing is in a pool that is not created yet. *)
Fresh == pool = "none" => current = 1 /\ blocks = {}

PoolInv == BlocksApart /\ Fresh /\ NodesFit /\ FailedInOrder /\ LargeCustody

(* The parts of the invariant about the nodes, and about the list. *)
NodesTyped == /\ pool \in {"none", "live", "destroyed", "overrun", "wild"}
              /\ nodes \in Seq(Node) /\ Len(nodes) <= MaxNodes
              /\ current \in 1..MaxNodes
              /\ garbage \in BOOLEAN
              /\ blocks \subseteq Block

Apart == /\ \A b, c \in blocks : Overlap(b, c) => b = c
         /\ \A b \in blocks :
              /\ b.node <= Len(nodes) /\ Payload(b.node) <= b.from
              /\ \/ b.upto <= nodes[b.node].end
                 \/ /\ b.from > nodes[b.node].end
                    /\ nodes[b.node].end % MP_ALIGNMENT # 0

LEMMA ConsFacts ==
  ASSUME NEW S, NEW s \in Seq(S), NEW e \in S
  PROVE  /\ <<e>> \o s \in Seq(S)
         /\ Len(s) \in Nat /\ Len(<<e>> \o s) = Len(s) + 1
         /\ (<<e>> \o s)[1] = e
         /\ \A i \in 1..Len(s) : (<<e>> \o s)[i + 1] = s[i]
  OBVIOUS

LEMMA AppendFacts ==
  ASSUME NEW S, NEW s \in Seq(S), NEW e \in S
  PROVE  /\ Append(s, e) \in Seq(S)
         /\ Len(s) \in Nat /\ Len(Append(s, e)) = Len(s) + 1
         /\ \A i \in 1..Len(s) : Append(s, e)[i] = s[i]
         /\ Append(s, e)[Len(s) + 1] = e
  OBVIOUS

(* mp_align_ptr rounds up, to no more than the next boundary. *)
LEMMA AlignFacts ==
  ASSUME NEW p \in Nat
  PROVE  /\ mp_align_ptr(p) \in Nat /\ mp_align_ptr(p) >= p
         /\ \A e \in Nat : p <= e /\ e % MP_ALIGNMENT = 0 => mp_align_ptr(p) <= e
  BY DEF mp_align_ptr, MP_ALIGNMENT

LEMMA AlignNode == mp_align_ptr(SizeOfNode) = SizeOfNode
  BY DEF mp_align_ptr, MP_ALIGNMENT, SizeOfNode

(* A call that cuts a block off a node, for the caller or for an entry.      *)
Cuts(n, aligned) == pool = "live" /\ n \in 1..Size /\ Cut(n, aligned)

(* A call that leaves the nodes and their blocks alone. *)
LeavesNodes == UNCHANGED <<pool, nodes, current, garbage, blocks>>

GoesWild == pool' = "wild" /\ UNCHANGED <<nodes, current, garbage, large, heap, blocks>>

(* What the steps are, as far as the nodes are concerned. *)
LEMMA StepKinds ==
  ASSUME [Next]_vars
  PROVE  \/ Create \/ Reset \/ Destroy \/ LeavesNodes \/ GoesWild
         \/ \E n \in 1..Size : \E aligned \in BOOLEAN : Cuts(n, aligned)
<1> USE DEF LeavesNodes, GoesWild
<1>1. CASE UNCHANGED vars
  BY <1>1 DEF vars
<1>2. ASSUME NEW n \in Requests, NEW aligned \in BOOLEAN, Alloc(n, aligned)
      PROVE  GoesWild \/ (n \in 1..Size /\ Cuts(n, aligned))
  BY <1>2, PoolAssumption DEF Alloc, WildCut, Cuts, PoolMax
<1>3. SizeOfLarge \in 1..Size
  BY PoolAssumption DEF SizeOfLarge
<1>4. ASSUME NEW p \in LargeBlocks, NEW n \in Requests, AllocLarge(n, p)
      PROVE  LeavesNodes \/ GoesWild \/ Cuts(SizeOfLarge, TRUE)
  BY <1>3, <1>4 DEF AllocLarge, ReuseEntry, AddEntry, WildCut, Cuts
<1>5. ASSUME NEW p \in LargeBlocks, Memalign(p)
      PROVE  GoesWild \/ Cuts(SizeOfLarge, TRUE)
  BY <1>3, <1>5 DEF Memalign, AddEntry, WildCut, Cuts
<1>6. ASSUME NEW p \in LargeBlocks, Free(p) \/ EntryFails(p)
      PROVE  LeavesNodes
  BY <1>6 DEF Free, EntryFails, vars
<1> QED
  BY <1>1, <1>2, <1>3, <1>4, <1>5, <1>6 DEF Next

LEMMA NodeFacts ==
  ASSUME NEW s \in Seq(Node)
  PROVE  /\ Len(s) \in Nat /\ DOMAIN s = 1..Len(s)
         /\ \A i \in DOMAIN s : /\ s[i] \in Node
                              /\ s[i].last \in Nat /\ s[i].end \in Nat /\ s[i].failed \in Nat
<1>1. /\ Len(s) \in Nat /\ DOMAIN s = 1..Len(s)
      /\ \A i \in DOMAIN s : s[i] \in Node
  OBVIOUS
<1> QED
  BY <1>1 DEF Node

LEMMA PutFacts ==
  ASSUME NEW S, NEW s \in Seq(S), NEW i \in DOMAIN s, NEW e \in S
  PROVE  /\ [s EXCEPT ![i] = e] \in Seq(S)
         /\ Len([s EXCEPT ![i] = e]) = Len(s)
         /\ DOMAIN [s EXCEPT ![i] = e] = DOMAIN s
         /\ [s EXCEPT ![i] = e][i] = e
         /\ \A k \in DOMAIN s : k # i => [s EXCEPT ![i] = e][k] = s[k]
  OBVIOUS

LEMMA MarkFacts ==
  ASSUME NEW r \in Node, NEW x \in Nat
  PROVE  /\ [r EXCEPT !.last = x] \in Node
         /\ [r EXCEPT !.last = x].last = x /\ [r EXCEPT !.last = x].end = r.end
         /\ [r EXCEPT !.last = x].failed = r.failed
  BY DEF Node

(* What a block cut off the node at place i does to the pool: it begins at   *)
(* or above the mark, and ends beyond the node only if it began there.       *)
LEMMA CutFromFacts ==
  ASSUME TypeOK, NodesFit, pool = "live",
         NEW n \in 1..Size, NEW aligned \in BOOLEAN, NEW i, CutFrom(i, n, aligned)
  PROVE  \E m \in Nat :
           /\ i \in DOMAIN nodes /\ nodes[i].last <= m
           /\ nodes' = [nodes EXCEPT ![i].last = m + n]
           /\ blocks' = blocks \cup {[node |-> i, from |-> m, upto |-> m + n]}
           /\ UNCHANGED <<current, garbage>>
           /\ \/ m + n <= nodes[i].end /\ pool' = "live"
              \/ /\ m > nodes[i].end /\ nodes[i].end % MP_ALIGNMENT # 0
                 /\ pool' = "overrun"
<1> DEFINE m == Start(i, aligned)
<1>1. /\ i \in current..Len(nodes) /\ Fits(i, n, aligned)
      /\ nodes' = [nodes EXCEPT ![i].last = m + n]
      /\ blocks' = blocks \cup {[node |-> i, from |-> m, upto |-> m + n]}
      /\ pool' = IF m + n > nodes[i].end THEN "overrun" ELSE pool
      /\ UNCHANGED <<current, garbage>>
  BY DEF CutFrom
<1>2. Len(nodes) \in Nat /\ DOMAIN nodes = 1..Len(nodes) /\ current \in Nat \ {0}
  BY PoolAssumption DEF TypeOK
<1>3. i \in DOMAIN nodes
  BY <1>1, <1>2
<1>4. nodes[i].last \in Nat /\ nodes[i].end \in Nat /\ nodes[i].last <= nodes[i].end
  BY <1>3, NodeFacts DEF TypeOK, NodesFit
<1>5. m \in Nat /\ nodes[i].last <= m
  BY <1>4, AlignFacts DEF Start
<1>6. m > nodes[i].end => nodes[i].end % MP_ALIGNMENT # 0
  BY <1>4, AlignFacts DEF Start
<1>7. m + n <= nodes[i].end \/ m > nodes[i].end
  BY <1>1, <1>4, <1>5 DEF Fits
<1>8. n \in Nat /\ n > 0
  BY PoolAssumption
<1>9. \/ m + n <= nodes[i].end /\ pool' = "live"
      \/ m > nodes[i].end /\ nodes[i].end % MP_ALIGNMENT # 0 /\ pool' = "overrun"
  BY <1>1, <1>4, <1>5, <1>6, <1>7, <1>8
<1> QED
  BY <1>1, <1>3, <1>5, <1>9

(* What a new node does: it has room for its first block. *)
LEMMA CutNewFacts ==
  ASSUME TypeOK, NodesFit, pool = "live",
         NEW n \in 1..Size, NEW aligned \in BOOLEAN, CutNew(n, aligned)
  PROVE  LET k == Len(nodes) + 1
             m == SizeOfNode
         IN /\ Len(nodes') = k /\ Len(nodes) \in Nat /\ k <= MaxNodes
            /\ \A i \in DOMAIN nodes :
                 /\ nodes'[i].last = nodes[i].last /\ nodes'[i].end = nodes[i].end
                 /\ nodes'[i].failed = IF i \in current..(Len(nodes) - 1)
                                       THEN nodes[i].failed + 1 ELSE nodes[i].failed
            /\ nodes'[k] = [last |-> m + n, end |-> m + Size, failed |-> 0]
            /\ nodes' \in Seq(Node)
            /\ blocks' = blocks \cup {[node |-> k, from |-> m, upto |-> m + n]}
            /\ UNCHANGED <<pool, garbage>>
<1> DEFINE k == Len(nodes) + 1
           m == SizeOfNode
           tried == [i \in DOMAIN nodes |->
                       IF i \in current..(Len(nodes) - 1)
                       THEN [nodes[i] EXCEPT !.failed = @ + 1] ELSE nodes[i]]
           new == [last |-> m + n, end |-> m + Size, failed |-> 0]
<1>1. nodes[1].end - SizeOfPool = m + Size
  BY PoolAssumption DEF NodesFit, Payload, SizeOfPool, SizeOfNode
<1>2. /\ nodes' = Append(tried, new) /\ Len(nodes) < MaxNodes
      /\ blocks' = blocks \cup {[node |-> k, from |-> m, upto |-> m + n]}
      /\ UNCHANGED <<pool, garbage>>
  BY <1>1, AlignNode DEF CutNew
<1>3. Len(nodes) \in Nat /\ DOMAIN nodes = 1..Len(nodes) /\ nodes \in Seq(Node)
  BY DEF TypeOK
<1>4. ASSUME NEW i \in DOMAIN nodes
      PROVE  /\ tried[i] \in Node
             /\ tried[i].last = nodes[i].last /\ tried[i].end = nodes[i].end
             /\ tried[i].failed = IF i \in current..(Len(nodes) - 1)
                                  THEN nodes[i].failed + 1 ELSE nodes[i].failed
  <2>1. nodes[i] \in Node /\ nodes[i].failed \in Nat
    BY <1>3, NodeFacts
  <2>2. CASE i \in current..(Len(nodes) - 1)
    <3>1. tried[i] = [nodes[i] EXCEPT !.failed = nodes[i].failed + 1]
      BY <2>2
    <3> HIDE DEF tried
    <3> QED
      BY <2>1, <2>2, <3>1 DEF Node
  <2>3. CASE i \notin current..(Len(nodes) - 1)
    <3>1. tried[i] = nodes[i]
      BY <2>3
    <3> HIDE DEF tried
    <3> QED
      BY <2>1, <2>3, <3>1
  <2> QED
    BY <2>2, <2>3
<1>5. tried \in Seq(Node) /\ Len(tried) = Len(nodes)
  BY <1>3, <1>4
<1>6. new \in Node
  BY PoolAssumption DEF Node, SizeOfNode
<1>7. /\ nodes' \in Seq(Node) /\ Len(nodes') = k
      /\ \A i \in 1..Len(nodes) : nodes'[i] = tried[i]
      /\ nodes'[k] = new
  BY <1>2, <1>5, <1>6, AppendFacts
<1>8. \A i \in DOMAIN nodes :
        /\ nodes'[i].last = nodes[i].last /\ nodes'[i].end = nodes[i].end
        /\ nodes'[i].failed = IF i \in current..(Len(nodes) - 1)
                              THEN nodes[i].failed + 1 ELSE nodes[i].failed
  BY <1>3, <1>4, <1>7
<1>9. k <= MaxNodes
  BY <1>2, <1>3, PoolAssumption
<1> QED
  BY <1>2, <1>3, <1>7, <1>8, <1>9

(* The block that a call cuts off the node at place i, from m on, and what   *)
(* that does to the chain, whether the node is new or not.                   *)
Gives(i, m, n) ==
    /\ i \in DOMAIN nodes' /\ i \in 1..MaxNodes
    /\ nodes' \in Seq(Node) /\ Len(nodes') <= MaxNodes /\ Len(nodes) <= Len(nodes')
    /\ blocks' = blocks \cup {[node |-> i, from |-> m, upto |-> m + n]}
    /\ \A k \in DOMAIN nodes : /\ nodes'[k].end = nodes[k].end
                               /\ k # i => nodes'[k].last = nodes[k].last
    /\ \A k \in DOMAIN nodes' : k = i \/ k \in DOMAIN nodes
    /\ \A b \in blocks : b.node = i => b.upto <= m
    /\ Payload(i) <= m /\ nodes'[i].last = m + n
    /\ \/ m + n <= nodes'[i].end /\ pool' = "live"
       \/ m > nodes'[i].end /\ nodes'[i].end % MP_ALIGNMENT # 0 /\ pool' = "overrun"

(* Every cut gives a block, of a node that was there or of a new one. *)
LEMMA CutGives ==
  ASSUME TypeOK, NodesFit, pool = "live",
         NEW n \in 1..Size, NEW aligned \in BOOLEAN, Cut(n, aligned)
  PROVE  \E i \in Nat : \E m \in Nat : Gives(i, m, n)
<1>1. /\ nodes \in Seq(Node) /\ Len(nodes) \in Nat /\ DOMAIN nodes = 1..Len(nodes)
      /\ Len(nodes) <= MaxNodes /\ MaxNodes \in Nat /\ n \in Nat
      /\ \A k \in DOMAIN nodes : nodes[k] \in Node /\ nodes[k].last \in Nat
      /\ \A k \in DOMAIN nodes : Payload(k) \in Nat /\ Payload(k) <= nodes[k].last
      /\ \A b \in blocks : b.upto \in Nat /\ b.node \in DOMAIN nodes
                           /\ b.upto <= nodes[b.node].last
  BY NodeFacts, PoolAssumption
     DEF TypeOK, NodesFit, Block, Payload, SizeOfPool, SizeOfNode
<1>2. ASSUME NEW i \in 1..MaxNodes, CutFrom(i, n, aligned)
      PROVE  \E m \in Nat : Gives(i, m, n)
  <2>1. PICK m \in Nat :
           /\ i \in DOMAIN nodes /\ nodes[i].last <= m
           /\ nodes' = [nodes EXCEPT ![i].last = m + n]
           /\ blocks' = blocks \cup {[node |-> i, from |-> m, upto |-> m + n]}
           /\ UNCHANGED <<current, garbage>>
           /\ \/ m + n <= nodes[i].end /\ pool' = "live"
              \/ /\ m > nodes[i].end /\ nodes[i].end % MP_ALIGNMENT # 0
                 /\ pool' = "overrun"
    BY <1>2, CutFromFacts
  <2> DEFINE cut == [nodes[i] EXCEPT !.last = m + n]
  <2>2. nodes' = [nodes EXCEPT ![i] = cut]
    BY <2>1
  <2>3. cut \in Node /\ cut.last = m + n /\ cut.end = nodes[i].end
    <3>1. m + n \in Nat /\ nodes[i] \in Node
      BY <1>1, <2>1
    <3> QED
      BY <3>1, MarkFacts
  <2> HIDE DEF cut
  <2>4. /\ nodes' \in Seq(Node) /\ Len(nodes') = Len(nodes) /\ DOMAIN nodes' = DOMAIN nodes
        /\ nodes'[i] = cut /\ \A k \in DOMAIN nodes : k # i => nodes'[k] = nodes[k]
    <3>1. nodes \in Seq(Node) /\ i \in DOMAIN nodes /\ cut \in Node
      BY <1>1, <2>1, <2>3
    <3> QED
      BY ONLY <2>2, <3>1, PutFacts
  <2>5. Payload(i) <= m
    BY <1>1, <2>1
  <2>6. \A b \in blocks : b.node = i => b.upto <= m
    BY <1>1, <2>1
  <2>7. \A k \in DOMAIN nodes : /\ nodes'[k].end = nodes[k].end
                                /\ k # i => nodes'[k].last = nodes[k].last
    BY <2>3, <2>4
  <2> QED
    BY <1>1, <2>1, <2>3, <2>4, <2>5, <2>6, <2>7 DEF Gives
<1>3. ASSUME CutNew(n, aligned)
      PROVE  Gives(Len(nodes) + 1, SizeOfNode, n)
  <2> DEFINE k == Len(nodes) + 1
  <2>1. /\ Len(nodes') = k /\ k <= MaxNodes /\ nodes' \in Seq(Node)
        /\ \A i \in DOMAIN nodes : nodes'[i].last = nodes[i].last /\ nodes'[i].end = nodes[i].end
        /\ nodes'[k] = [last |-> SizeOfNode + n, end |-> SizeOfNode + Size, failed |-> 0]
        /\ blocks' = blocks \cup {[node |-> k, from |-> SizeOfNode, upto |-> SizeOfNode + n]}
        /\ pool' = "live"
    BY <1>3, CutNewFacts
  <2>2. DOMAIN nodes' = 1..k
    BY <2>1
  <2>3. nodes'[k].last = SizeOfNode + n /\ nodes'[k].end = SizeOfNode + Size
    BY <2>1
  <2>4. SizeOfNode + n <= nodes'[k].end
    BY <2>3, PoolAssumption DEF SizeOfNode
  <2>5. k # 1 /\ Payload(k) <= SizeOfNode
    BY <1>1 DEF NodesFit, Payload, SizeOfNode
  <2>6. \A b \in blocks : b.node # k
    BY <1>1
  <2> QED
    BY <1>1, <2>1, <2>2, <2>3, <2>4, <2>5, <2>6 DEF Gives
<1>4. SizeOfNode \in Nat /\ Len(nodes) + 1 \in Nat /\ 1..MaxNodes \subseteq Nat
  BY <1>1 DEF SizeOfNode
<1> QED
  BY <1>2, <1>3, <1>4 DEF Cut

(* The pool starts, and starts over, with the marks behind the headers. *)
LEMMA CreateFacts ==
  ASSUME Create
  PROVE  /\ nodes' \in Seq(Node) /\ DOMAIN nodes' = 1..1 /\ Len(nodes') = 1
         /\ nodes'[1].last = Payload(1) /\ nodes'[1].end = Payload(1) + Size
         /\ nodes'[1].failed = 0
<1> DEFINE new == [last |-> Payload(1), end |-> Payload(1) + Size, failed |-> 0]
<1>1. nodes' = <<new>>
  BY DEF Create
<1>2. new \in Node /\ new.last = Payload(1) /\ new.end = Payload(1) + Size /\ new.failed = 0
  BY PoolAssumption DEF Node, Payload, SizeOfPool, SizeOfNode
<1> HIDE DEF new
<1> QED
  BY <1>1, <1>2

LEMMA ResetFacts ==
  ASSUME Reset, nodes \in Seq(Node)
  PROVE  /\ nodes' \in Seq(Node) /\ DOMAIN nodes' = DOMAIN nodes /\ Len(nodes') = Len(nodes)
         /\ \A i \in DOMAIN nodes : /\ nodes'[i].last = Payload(i)
                                    /\ nodes'[i].end = nodes[i].end
                                    /\ nodes'[i].failed = nodes[i].failed
<1> DEFINE put(i) == [nodes[i] EXCEPT !.last = Payload(i)]
<1>1. nodes' = [i \in DOMAIN nodes |-> put(i)]
  BY DEF Reset
<1>2. \A i \in DOMAIN nodes : nodes[i] \in Node /\ Payload(i) \in Nat
  BY NodeFacts DEF Payload, SizeOfPool, SizeOfNode
<1>3. \A i \in DOMAIN nodes : /\ put(i) \in Node /\ put(i).last = Payload(i)
                              /\ put(i).end = nodes[i].end /\ put(i).failed = nodes[i].failed
  BY <1>2, MarkFacts
<1> HIDE DEF put
<1>4. Len(nodes) \in Nat /\ DOMAIN nodes = 1..Len(nodes)
  BY NodeFacts
<1> QED
  BY <1>1, <1>3, <1>4

(* Where current goes, and what has failed how often by then. *)
LEMMA CurrentFacts ==
  ASSUME TypeOK, NodesFit, pool = "live",
         NEW n \in 1..Size, NEW aligned \in BOOLEAN, Cut(n, aligned)
  PROVE  \/ /\ current' = current /\ DOMAIN nodes' = DOMAIN nodes
            /\ \A i \in DOMAIN nodes : nodes'[i].failed = nodes[i].failed
         \/ /\ DOMAIN nodes' = 1..(Len(nodes) + 1) /\ nodes'[Len(nodes) + 1].failed = 0
            /\ \A i \in DOMAIN nodes :
                 nodes'[i].failed = IF i \in current..(Len(nodes) - 1)
                                    THEN nodes[i].failed + 1 ELSE nodes[i].failed
            /\ current' \in BehindFailed /\ \A d \in BehindFailed : d <= current'
<1>1. ASSUME NEW i \in 1..MaxNodes, CutFrom(i, n, aligned)
      PROVE  /\ current' = current /\ DOMAIN nodes' = DOMAIN nodes
             /\ \A k \in DOMAIN nodes : nodes'[k].failed = nodes[k].failed
  <2>1. PICK m \in Nat : /\ i \in DOMAIN nodes
                         /\ nodes' = [nodes EXCEPT ![i].last = m + n]
                         /\ current' = current
    BY <1>1, CutFromFacts
  <2> DEFINE cut == [nodes[i] EXCEPT !.last = m + n]
  <2>2. nodes' = [nodes EXCEPT ![i] = cut]
    BY <2>1
  <2>3. nodes[i] \in Node /\ nodes \in Seq(Node) /\ m + n \in Nat
    BY <2>1, NodeFacts DEF TypeOK
  <2>4. cut \in Node /\ cut.failed = nodes[i].failed
    BY <2>3, MarkFacts
  <2> HIDE DEF cut
  <2>5. nodes'[i] = cut /\ DOMAIN nodes' = DOMAIN nodes
        /\ \A k \in DOMAIN nodes : k # i => nodes'[k] = nodes[k]
    BY ONLY <2>1, <2>2, <2>3, <2>4, PutFacts
  <2> QED
    BY <2>1, <2>4, <2>5
<1>2. ASSUME CutNew(n, aligned)
      PROVE  /\ DOMAIN nodes' = 1..(Len(nodes) + 1) /\ nodes'[Len(nodes) + 1].failed = 0
             /\ \A i \in DOMAIN nodes :
                  nodes'[i].failed = IF i \in current..(Len(nodes) - 1)
                                     THEN nodes[i].failed + 1 ELSE nodes[i].failed
             /\ current' \in BehindFailed /\ \A d \in BehindFailed : d <= current'
  <2>1. /\ nodes' \in Seq(Node) /\ Len(nodes') = Len(nodes) + 1
        /\ nodes'[Len(nodes) + 1]
             = [last |-> SizeOfNode + n, end |-> SizeOfNode + Size, failed |-> 0]
        /\ \A i \in DOMAIN nodes :
             nodes'[i].failed = IF i \in current..(Len(nodes) - 1)
                                THEN nodes[i].failed + 1 ELSE nodes[i].failed
    BY <1>2, CutNewFacts
  <2>2. current' \in BehindFailed /\ \A d \in BehindFailed : d <= current'
    BY <1>2 DEF CutNew
  <2> QED
    BY <2>1, <2>2, NodeFacts
<1> QED
  BY <1>1, <1>2 DEF Cut

(* current stays in the chain. *)
LEMMA BehindFacts ==
  ASSUME TypeOK, NodesFit, pool = "live", NEW c \in BehindFailed
  PROVE  c \in DOMAIN nodes /\ c >= current
<1>1. Len(nodes) \in Nat /\ DOMAIN nodes = 1..Len(nodes) /\ current \in 1..Len(nodes)
  BY NodeFacts DEF TypeOK, NodesFit
<1> QED
  BY <1>1 DEF BehindFailed

(* A block that is given is apart from those that are there, and fits. *)
LEMMA GivenApart ==
  ASSUME NodesTyped, Apart, NodesFit, pool = "live",
         NEW i \in Nat, NEW m \in Nat, NEW n \in Nat, Gives(i, m, n)
  PROVE  /\ Apart'
         /\ blocks' \subseteq Block
         /\ pool' = "live" =>
              \A b \in blocks' : b.node \in DOMAIN nodes' /\ b.upto <= nodes'[b.node].last
<1> DEFINE new == [node |-> i, from |-> m, upto |-> m + n]
<1>1. /\ new \in Block /\ new.node = i /\ new.from = m /\ new.upto = m + n
      /\ blocks' = blocks \cup {new}
  BY DEF Gives, Block
<1> HIDE DEF new
<1>2. /\ Len(nodes) \in Nat /\ DOMAIN nodes = 1..Len(nodes)
      /\ Len(nodes') \in Nat /\ DOMAIN nodes' = 1..Len(nodes') /\ Len(nodes) <= Len(nodes')
  BY NodeFacts DEF NodesTyped, Gives
<1>3. ASSUME NEW b \in blocks
      PROVE  /\ b.node \in DOMAIN nodes /\ b.node \in DOMAIN nodes' /\ b.node <= Len(nodes')
             /\ b.from \in Nat /\ b.upto \in Nat
             /\ nodes'[b.node].end = nodes[b.node].end
             /\ b.upto <= nodes'[b.node].last
             /\ ~Overlap(b, new) /\ ~Overlap(new, b)
  <2>1. b.node \in DOMAIN nodes /\ b.upto <= nodes[b.node].last
        /\ b.from \in Nat /\ b.upto \in Nat
    BY DEF NodesTyped, NodesFit, Block
  <2>2. b.node = i => b.upto <= m /\ nodes'[i].last = m + n
    BY DEF Gives
  <2>3. b.upto <= nodes'[b.node].last
    BY <2>1, <2>2 DEF Gives
  <2>4. nodes'[b.node].end = nodes[b.node].end
    BY <2>1 DEF Gives
  <2> QED
    BY <1>1, <1>2, <2>1, <2>2, <2>3, <2>4 DEF Overlap
<1>4. \A b, c \in blocks' : Overlap(b, c) => b = c
  BY <1>1, <1>3 DEF Apart
<1>5. /\ i \in DOMAIN nodes' /\ Payload(i) <= m /\ nodes'[i].last = m + n
      /\ \/ m + n <= nodes'[i].end /\ pool' = "live"
         \/ m > nodes'[i].end /\ nodes'[i].end % MP_ALIGNMENT # 0
  BY DEF Gives
<1>6. ASSUME NEW b \in blocks'
      PROVE  /\ b.node \in DOMAIN nodes' /\ b.node <= Len(nodes') /\ Payload(b.node) <= b.from
             /\ \/ b.upto <= nodes'[b.node].end
                \/ b.from > nodes'[b.node].end /\ nodes'[b.node].end % MP_ALIGNMENT # 0
             /\ pool' = "live" => b.upto <= nodes'[b.node].last
  <2>1. CASE b \in blocks
    BY <1>3, <2>1 DEF Apart
  <2>2. CASE b = new
    BY <1>1, <1>2, <1>5, <2>2
  <2> QED
    BY <1>1, <2>1, <2>2
<1>7. blocks' \subseteq Block
  BY <1>1 DEF NodesTyped
<1>8. Apart'
  BY <1>4, <1>6 DEF Apart, Payload, Overlap
<1> QED
  BY <1>6, <1>7, <1>8

(* The nodes and their blocks, in every step. *)
LEMMA NodesStep ==
  ASSUME TypeOK, Apart, Fresh, NodesFit, [Next]_vars
  PROVE  NodesTyped' /\ Apart' /\ Fresh' /\ NodesFit'
<1>1. NodesTyped
  BY DEF TypeOK, NodesTyped
<1>2. CASE Create
  <2>1. /\ nodes' \in Seq(Node) /\ DOMAIN nodes' = 1..1 /\ Len(nodes') = 1
        /\ nodes'[1].last = Payload(1) /\ nodes'[1].end = Payload(1) + Size
    BY <1>2, CreateFacts
  <2>2. /\ pool' = "live" /\ blocks' = {} /\ current' = 1 /\ garbage' \in BOOLEAN
    BY <1>2 DEF Create, Fresh
  <2>3. Payload(1) \in Nat /\ Size \in Nat /\ 1 \in 1..MaxNodes /\ 1 <= MaxNodes
    BY PoolAssumption DEF Payload, SizeOfPool, SizeOfNode
  <2> QED
    BY <2>1, <2>2, <2>3 DEF NodesTyped, Apart, Fresh, NodesFit, Payload
<1>3. CASE Reset
  <2>1. /\ nodes' \in Seq(Node) /\ DOMAIN nodes' = DOMAIN nodes /\ Len(nodes') = Len(nodes)
        /\ \A i \in DOMAIN nodes : nodes'[i].last = Payload(i) /\ nodes'[i].end = nodes[i].end
    BY <1>1, <1>3, ResetFacts DEF NodesTyped
  <2>2. /\ pool' \in {"live", "wild"} /\ pool = "live" /\ blocks' = {} /\ current' = current
        /\ garbage' = garbage
    BY <1>3 DEF Reset
  <2>3. \A i \in DOMAIN nodes : /\ Payload(i) \in Nat /\ nodes[i].last \in Nat
                                /\ nodes[i].end \in Nat /\ Payload(i) <= nodes[i].last
                                /\ nodes[i].last <= nodes[i].end
    BY <1>1, <2>2, NodeFacts DEF NodesTyped, NodesFit, Payload, SizeOfPool, SizeOfNode
  <2>4. \A i \in DOMAIN nodes : Payload(i) <= nodes'[i].last /\ nodes'[i].last <= nodes'[i].end
    BY <2>1, <2>3
  <2> QED
    BY <1>1, <2>1, <2>2, <2>4 DEF NodesTyped, Apart, Fresh, NodesFit, Payload
<1>4. CASE Destroy
  <2>1. /\ pool' \in {"wild", "destroyed"} /\ nodes' = <<>> /\ blocks' = {}
        /\ UNCHANGED <<current, garbage>>
    BY <1>4 DEF Destroy
  <2>2. nodes' \in Seq(Node) /\ Len(nodes') = 0 /\ 0 <= MaxNodes
    BY <2>1, PoolAssumption
  <2> QED
    BY <1>1, <2>1, <2>2 DEF NodesTyped, Apart, Fresh, NodesFit
<1>5. CASE LeavesNodes
  BY <1>1, <1>5 DEF LeavesNodes, NodesTyped, Apart, Overlap, Payload, Fresh, NodesFit
<1>6. CASE GoesWild
  BY <1>1, <1>6 DEF GoesWild, NodesTyped, Apart, Overlap, Payload, Fresh, NodesFit
<1>7. ASSUME NEW n \in 1..Size, NEW aligned \in BOOLEAN, Cuts(n, aligned)
      PROVE  NodesTyped' /\ Apart' /\ Fresh' /\ NodesFit'
  <2>1. pool = "live" /\ Cut(n, aligned)
    BY <1>7 DEF Cuts
  <2>2. PICK i \in Nat, m \in Nat : Gives(i, m, n)
    BY <2>1, CutGives
  <2>3. /\ Apart' /\ blocks' \subseteq Block
        /\ pool' = "live" =>
             \A b \in blocks' : b.node \in DOMAIN nodes' /\ b.upto <= nodes'[b.node].last
    BY <1>1, <2>1, <2>2, GivenApart
  <2>4. /\ Len(nodes) \in Nat /\ DOMAIN nodes = 1..Len(nodes)
        /\ Len(nodes') \in Nat /\ DOMAIN nodes' = 1..Len(nodes')
        /\ Len(nodes) <= Len(nodes') /\ Len(nodes') <= MaxNodes /\ nodes' \in Seq(Node)
    BY <1>1, <2>2, NodeFacts DEF NodesTyped, Gives
  <2>5. garbage' = garbage /\ (current' = current \/ current' \in BehindFailed)
    BY <2>1, CurrentFacts DEF Cut, CutFrom, CutNew
  <2>6. current' \in DOMAIN nodes
    BY <2>1, <2>5, BehindFacts DEF NodesFit
  <2>7. pool' \in {"live", "overrun"}
    BY <2>2 DEF Gives
  <2>8. NodesTyped'
    BY <1>1, <2>3, <2>4, <2>5, <2>6, <2>7, PoolAssumption DEF NodesTyped
  <2>9. ASSUME pool' = "live", NEW k \in DOMAIN nodes'
        PROVE  Payload(k) <= nodes'[k].last /\ nodes'[k].last <= nodes'[k].end
    <3>1. m + n \in Nat /\ Payload(i) \in Nat /\ nodes'[i].last = m + n /\ Payload(i) <= m
          /\ (m + n <= nodes'[i].end \/ pool' = "overrun")
      BY <2>2 DEF Gives, Payload, SizeOfPool, SizeOfNode
    <3>2. k = i \/ (k # i /\ k \in DOMAIN nodes)
      BY <2>2 DEF Gives
    <3>3. k # i /\ k \in DOMAIN nodes =>
            nodes'[k].last = nodes[k].last /\ nodes'[k].end = nodes[k].end
      BY <2>2 DEF Gives
    <3> QED
      BY <2>1, <2>9, <3>1, <3>2, <3>3 DEF NodesFit
  <2>10. nodes'[1].end = Payload(1) + Size /\ 1 \in DOMAIN nodes'
    BY <2>1, <2>2, <2>4 DEF Gives, NodesFit
  <2>11. NodesFit'
    BY <2>3, <2>4, <2>6, <2>9, <2>10 DEF NodesFit, Payload
  <2> QED
    BY <2>3, <2>7, <2>8, <2>11 DEF Fresh
<1> QED
  BY <1>2, <1>3, <1>4, <1>5, <1>6, <1>7, StepKinds

(* How often the nodes have failed, in every step. *)
LEMMA FailedStep ==
  ASSUME TypeOK, Fresh, NodesFit, FailedInOrder, [Next]_vars
  PROVE  FailedInOrder'
<1>1. /\ Len(nodes) \in Nat /\ DOMAIN nodes = 1..Len(nodes) /\ current \in Nat
      /\ \A i \in DOMAIN nodes : nodes[i].failed \in Nat
  BY NodeFacts, PoolAssumption DEF TypeOK
<1>2. CASE Create
  BY <1>2, CreateFacts DEF Create, Fresh, FailedInOrder
<1>3. CASE Reset
  <2>1. /\ DOMAIN nodes' = DOMAIN nodes /\ current' = current
        /\ \A i \in DOMAIN nodes : nodes'[i].failed = nodes[i].failed
    BY <1>3, ResetFacts DEF TypeOK, Reset
  <2> QED
    BY <2>1 DEF FailedInOrder
<1>4. CASE Destroy
  <2>1. DOMAIN nodes' = {}
    BY <1>4 DEF Destroy
  <2> QED
    BY <2>1 DEF FailedInOrder
<1>5. CASE LeavesNodes \/ GoesWild
  BY <1>5 DEF LeavesNodes, GoesWild, FailedInOrder
<1>6. ASSUME NEW n \in 1..Size, NEW aligned \in BOOLEAN, Cuts(n, aligned)
      PROVE  FailedInOrder'
  <2>1. pool = "live" /\ Cut(n, aligned)
    BY <1>6 DEF Cuts
  <2>2. CASE /\ current' = current /\ DOMAIN nodes' = DOMAIN nodes
             /\ \A i \in DOMAIN nodes : nodes'[i].failed = nodes[i].failed
    BY <2>2 DEF FailedInOrder
  <2>3. CASE /\ DOMAIN nodes' = 1..(Len(nodes) + 1) /\ nodes'[Len(nodes) + 1].failed = 0
             /\ \A i \in DOMAIN nodes :
                  nodes'[i].failed = IF i \in current..(Len(nodes) - 1)
                                     THEN nodes[i].failed + 1 ELSE nodes[i].failed
             /\ current' \in BehindFailed /\ \A d \in BehindFailed : d <= current'
    <3>1. /\ current' \in DOMAIN nodes /\ current' >= current
          /\ current' = current \/ nodes[current' - 1].failed > 4
      <4>1. current' \in DOMAIN nodes /\ current' >= current
        BY <2>1, <2>3, BehindFacts
      <4>2. current' = current \/ \E i \in current..(Len(nodes) - 1) :
                                    current' = i + 1 /\ nodes[i].failed > 4
        BY <2>3 DEF BehindFailed
      <4> QED
        BY <1>1, <4>1, <4>2
    <3>2. \A i \in current'..(Len(nodes) - 1) : nodes[i].failed <= 4
      <4>1. ASSUME NEW i \in current'..(Len(nodes) - 1), nodes[i].failed > 4
            PROVE  FALSE
        <5>1. i \in current..(Len(nodes) - 1)
          BY <1>1, <3>1
        <5>2. i + 1 \in BehindFailed
          BY <4>1, <5>1 DEF BehindFailed
        <5> QED
          BY <1>1, <2>3, <3>1, <5>1, <5>2
      <4> QED
        BY <1>1, <3>1, <4>1
    <3>3. ASSUME NEW i \in DOMAIN nodes', i < current'
          PROVE  nodes'[i].failed > 5
      <4>1. i \in DOMAIN nodes /\ i < Len(nodes)
        BY <1>1, <2>3, <3>1, <3>3
      <4>2. CASE i < current
        BY <1>1, <2>3, <4>1, <4>2 DEF FailedInOrder
      <4>3. CASE i >= current
        <5>1. current' - 1 \in DOMAIN nodes /\ i <= current' - 1
              /\ nodes[current' - 1].failed > 4
          BY <1>1, <3>1, <3>3, <4>1, <4>3
        <5>2. nodes[i].failed > 4
          BY <1>1, <4>1, <4>3, <5>1 DEF FailedInOrder
        <5> QED
          BY <1>1, <2>3, <4>1, <4>3, <5>2
      <4> QED
        BY <1>1, <4>1, <4>2, <4>3
    <3>4. ASSUME NEW i \in DOMAIN nodes', i >= current'
          PROVE  nodes'[i].failed <= 5
      BY <1>1, <2>3, <3>1, <3>2, <3>4 DEF FailedInOrder
    <3>5. ASSUME NEW i \in DOMAIN nodes', NEW k \in DOMAIN nodes', current' <= i, i <= k
          PROVE  nodes'[k].failed <= nodes'[i].failed
      <4>1. CASE k = Len(nodes) + 1
        BY <1>1, <2>3, <3>5, <4>1
      <4>2. CASE k # Len(nodes) + 1
        <5>1. i \in DOMAIN nodes /\ k \in DOMAIN nodes /\ current <= i
          BY <1>1, <2>3, <3>1, <3>5, <4>2
        <5>2. nodes[k].failed <= nodes[i].failed
          BY <3>5, <5>1 DEF FailedInOrder
        <5>3. k \in current..(Len(nodes) - 1) => i \in current..(Len(nodes) - 1)
          BY <1>1, <3>5, <5>1
        <5> QED
          BY <1>1, <2>3, <5>1, <5>2, <5>3
      <4> QED
        BY <4>1, <4>2
    <3> QED
      BY <3>3, <3>4, <3>5 DEF FailedInOrder
  <2> QED
    BY <2>1, <2>2, <2>3, CurrentFacts
<1> QED
  BY <1>2, <1>3, <1>4, <1>5, <1>6, StepKinds

LEMMA ToSetFacts ==
  ASSUME NEW s, NEW x
  PROVE  x \in ToSet(s) <=> \E k \in DOMAIN s : s[k] = x
  BY DEF ToSet

ListTyped == large \in Seq(LargeBlocks \cup {NoBlock}) /\ heap \subseteq LargeBlocks

(* An entry for a block that malloc just gave goes to the head of the list. *)
LEMMA AddKeepsCustody ==
  ASSUME ListTyped, LargeCustody, NEW p \in LargeBlocks,
         p \notin heap, heap' = heap \cup {p}, large' = <<p>> \o large
  PROVE  ListTyped' /\ LargeCustody'
<1>1. /\ Len(large) \in Nat /\ DOMAIN large = 1..Len(large)
      /\ \A k \in DOMAIN large : large[k] \in LargeBlocks \cup {NoBlock}
  BY DEF ListTyped
<1>2. /\ large' \in Seq(LargeBlocks \cup {NoBlock})
      /\ DOMAIN large' = 1..(Len(large) + 1)
      /\ large'[1] = p /\ \A k \in 1..Len(large) : large'[k + 1] = large[k]
  <2>1. large \in Seq(LargeBlocks \cup {NoBlock}) /\ p \in LargeBlocks \cup {NoBlock}
    BY DEF ListTyped
  <2>2. /\ large' \in Seq(LargeBlocks \cup {NoBlock}) /\ Len(large') = Len(large) + 1
        /\ large'[1] = p /\ \A k \in 1..Len(large) : large'[k + 1] = large[k]
    BY <2>1, ConsFacts
  <2> QED
    BY <1>1, <2>2
<1>3. p # NoBlock /\ \A k \in DOMAIN large : large[k] # p
  BY PoolAssumption DEF LargeCustody, ToSet
<1>4. \A k \in DOMAIN large' : k = 1 \/ (k - 1 \in DOMAIN large /\ large'[k] = large[k - 1])
  BY <1>1, <1>2
<1>5. ToSet(large') = ToSet(large) \cup {p}
  <2>1. \A k \in DOMAIN large : k + 1 \in DOMAIN large' /\ large'[k + 1] = large[k]
    BY <1>1, <1>2
  <2>2. 1 \in DOMAIN large'
    BY <1>1, <1>2
  <2>3. \A x : (\E k \in DOMAIN large' : large'[k] = x)
               <=> (x = p \/ \E k \in DOMAIN large : large[k] = x)
    BY <1>2, <1>4, <2>1, <2>2
  <2> QED
    BY <2>3, ToSetFacts
<1>6. heap' = ToSet(large') \ {NoBlock}
  BY <1>3, <1>5 DEF LargeCustody
<1>7. ASSUME NEW k \in DOMAIN large', NEW l \in DOMAIN large',
             large'[k] = large'[l], large'[k] # NoBlock
      PROVE  k = l
  <2>1. CASE k = 1 \/ l = 1
    BY <1>2, <1>3, <1>4, <1>7, <2>1
  <2>2. CASE k # 1 /\ l # 1
    <3>1. /\ k - 1 \in DOMAIN large /\ l - 1 \in DOMAIN large
          /\ large[k - 1] = large[l - 1] /\ large[k - 1] # NoBlock
      BY <1>4, <1>7, <2>2
    <3>2. k - 1 = l - 1
      BY <3>1 DEF LargeCustody
    <3> QED
      BY <1>1, <1>2, <3>2
  <2> QED
    BY <2>1, <2>2
<1> QED
  BY <1>2, <1>6, <1>7 DEF ListTyped, LargeCustody

(* The list and malloc's blocks, in every step. *)
LEMMA ListStep ==
  ASSUME ListTyped, LargeCustody, [Next]_vars
  PROVE  ListTyped' /\ LargeCustody'
<1>1. /\ Len(large) \in Nat /\ DOMAIN large = 1..Len(large)
      /\ large \in Seq(LargeBlocks \cup {NoBlock}) /\ heap \subseteq LargeBlocks
  BY DEF ListTyped
<1>2. CASE UNCHANGED <<large, heap>>
  BY <1>2 DEF ListTyped, LargeCustody
<1>3. CASE Reset \/ Destroy
  <2>1. large' = <<>> /\ heap' = {}
    BY <1>3 DEF Reset, Destroy, LargeCustody
  <2>2. ToSet(large') = {} /\ DOMAIN large' = {}
    BY <2>1 DEF ToSet
  <2> QED
    BY <2>1, <2>2 DEF ListTyped, LargeCustody
<1>4. ASSUME NEW p \in LargeBlocks, AddEntry(p)
      PROVE  ListTyped' /\ LargeCustody'
  BY <1>4, AddKeepsCustody DEF AddEntry, Malloc
<1>5. ASSUME NEW p \in LargeBlocks, ReuseEntry(p)
      PROVE  ListTyped' /\ LargeCustody'
  <2>1. PICK k \in DOMAIN large : large[k] = NoBlock /\ large' = [large EXCEPT ![k] = p]
    BY <1>1, <1>5 DEF ReuseEntry, Reusable
  <2>2. p \notin heap /\ heap' = heap \cup {p}
    BY <1>5 DEF ReuseEntry, Malloc
  <2>3. /\ large' \in Seq(LargeBlocks \cup {NoBlock}) /\ DOMAIN large' = DOMAIN large
        /\ large'[k] = p /\ \A l \in DOMAIN large : l # k => large'[l] = large[l]
    BY <1>1, <2>1, PutFacts
  <2>4. p # NoBlock /\ \A l \in DOMAIN large : large[l] # p
    BY <2>2, PoolAssumption DEF LargeCustody, ToSet
  <2>5. \A x : x # NoBlock => ((\E l \in DOMAIN large' : large'[l] = x)
                               <=> (x = p \/ \E l \in DOMAIN large : large[l] = x))
    BY <2>1, <2>3
  <2>6. heap' = ToSet(large') \ {NoBlock}
    BY <2>2, <2>4, <2>5 DEF LargeCustody, ToSet
  <2>7. \A j, l \in DOMAIN large' : large'[j] = large'[l] /\ large'[j] # NoBlock => j = l
    BY <2>3, <2>4 DEF LargeCustody
  <2> QED
    BY <1>1, <2>2, <2>3, <2>6, <2>7 DEF ListTyped, LargeCustody
<1>6. ASSUME NEW p \in LargeBlocks, Free(p)
      PROVE  ListTyped' /\ LargeCustody'
  <2>1. PICK k \in DOMAIN large : large[k] = p /\ large' = [large EXCEPT ![k] = NoBlock]
    BY <1>6 DEF Free
  <2>2. heap' = heap \ {p}
    BY <1>6 DEF Free
  <2>3. /\ large' \in Seq(LargeBlocks \cup {NoBlock}) /\ DOMAIN large' = DOMAIN large
        /\ large'[k] = NoBlock /\ \A l \in DOMAIN large : l # k => large'[l] = large[l]
    BY <1>1, <2>1, PutFacts
  <2>4. p # NoBlock /\ \A l \in DOMAIN large : large[l] = p => l = k
    BY <2>1, PoolAssumption DEF LargeCustody
  <2>5. \A x : x # NoBlock => ((\E l \in DOMAIN large' : large'[l] = x)
                               <=> (x # p /\ \E l \in DOMAIN large : large[l] = x))
    BY <2>1, <2>3, <2>4
  <2>6. heap' = ToSet(large') \ {NoBlock}
    BY <2>2, <2>5 DEF LargeCustody, ToSet
  <2>7. \A j, l \in DOMAIN large' : large'[j] = large'[l] /\ large'[j] # NoBlock => j = l
    BY <2>3 DEF LargeCustody
  <2> QED
    BY <1>1, <2>2, <2>3, <2>6, <2>7 DEF ListTyped, LargeCustody
<1>7. ASSUME NEW n \in Requests, NEW aligned \in BOOLEAN, Alloc(n, aligned)
      PROVE  UNCHANGED <<large, heap>>
  BY <1>7 DEF Alloc, WildCut
<1>8. ASSUME NEW n \in Requests, NEW p \in LargeBlocks, AllocLarge(n, p)
      PROVE  UNCHANGED <<large, heap>> \/ ReuseEntry(p) \/ AddEntry(p)
  BY <1>8 DEF AllocLarge, WildCut
<1>9. ASSUME NEW p \in LargeBlocks, Memalign(p)
      PROVE  UNCHANGED <<large, heap>> \/ AddEntry(p)
  BY <1>9 DEF Memalign, WildCut
<1> QED
  BY <1>2, <1>3, <1>4, <1>5, <1>6, <1>7, <1>8, <1>9
     DEF Next, Create, EntryFails, vars

(* The inductive invariant: the blocks are apart, the marks and counts of    *)
(* the nodes are in order, and the list has malloc's blocks.                 *)
THEOREM PoolInvariant == Spec => []PoolInv
<1>1. Init => PoolInv
  <2> SUFFICES ASSUME Init PROVE PoolInv
    OBVIOUS
  <2>1. /\ pool = "none" /\ nodes = <<>> /\ current = 1 /\ garbage = FALSE
        /\ large = <<>> /\ heap = {} /\ blocks = {}
    BY DEF Init
  <2>2. DOMAIN nodes = {} /\ DOMAIN large = {} /\ ToSet(large) = {}
    BY <2>1, ToSetFacts
  <2>3. TypeOK
    <3>1. <<>> \in Seq(Node) /\ Len(<<>>) = 0 /\ <<>> \in Seq(LargeBlocks \cup {NoBlock})
      OBVIOUS
    <3>2. 0 <= MaxNodes /\ 1 \in 1..MaxNodes
      BY PoolAssumption
    <3> QED
      BY <2>1, <3>1, <3>2 DEF TypeOK
  <2> QED
    BY <2>1, <2>2, <2>3
       DEF PoolInv, BlocksApart, Fresh, NodesFit, FailedInOrder, LargeCustody
<1>2. PoolInv /\ [Next]_vars => PoolInv'
  <2> SUFFICES ASSUME PoolInv, [Next]_vars PROVE PoolInv'
    OBVIOUS
  <2>1. TypeOK /\ Apart /\ Fresh /\ NodesFit /\ FailedInOrder /\ LargeCustody
    BY DEF PoolInv, BlocksApart, Apart
  <2>2. ListTyped
    BY <2>1 DEF TypeOK, ListTyped
  <2>3. NodesTyped' /\ Apart' /\ Fresh' /\ NodesFit'
    BY <2>1, NodesStep
  <2>4. FailedInOrder'
    BY <2>1, FailedStep
  <2>5. ListTyped' /\ LargeCustody'
    BY <2>1, <2>2, ListStep
  <2>6. BlocksApart'
    BY <2>3, <2>5 DEF NodesTyped, ListTyped, TypeOK, Apart, BlocksApart
  <2> QED
    BY <2>3, <2>4, <2>5, <2>6 DEF PoolInv
<1> QED
  BY <1>1, <1>2, PTL DEF Spec

(* The variables have their types: current stays within the chain's bound,   *)
(* and every mark is a natural number.                                       *)
THEOREM TypeCorrect == Spec => []TypeOK
<1>1. PoolInv => TypeOK
  BY DEF PoolInv, BlocksApart
<1> QED
  BY <1>1, PoolInvariant, PTL

(* Two blocks that mp_alloc, mp_nalloc or an entry of the list got never     *)
(* overlap, and a block leaves its node only where the node does not end on  *)
(* an alignment boundary.                                                    *)
THEOREM BlocksStayApart == Spec => []BlocksApart
<1>1. PoolInv => BlocksApart
  BY DEF PoolInv
<1> QED
  BY <1>1, PoolInvariant, PTL

(* Every large block malloc gave is in exactly one entry of the list until   *)
(* mp_free, mp_reset_pool or mp_destory_pool frees it.                       *)
THEOREM LargeBlocksInCustody == Spec => []LargeCustody
<1>1. PoolInv => LargeCustody
  BY DEF PoolInv
<1> QED
  BY <1>1, PoolInvariant, PTL

(* mp_alloc_block moves current only past nodes that failed six times: that  *)
(* the counts never rise along the chain makes the last such node the right  *)
(* place to stop.                                                            *)
THEOREM NodesPassedOverHaveFailed == Spec => []PassedOverHaveFailed
<1>1. PoolInv => PassedOverHaveFailed
  BY DEF PoolInv, FailedInOrder, PassedOverHaveFailed
<1> QED
  BY <1>1, PoolInvariant, PTL
-----------------------------------------------------------------------------
(* The types, and that only blocks are out. *)
PageTyped == /\ block_size \in BlockSizes
             /\ mem = [w \in Words |-> mem[w]]
             /\ held \subseteq Blocks
             /\ chain \in Seq(Blocks)

PageInv == PageTyped /\ FreeListSound

(* Multiples of a size are at least that size apart. *)
LEMMA MultiplesApart ==
  ASSUME NEW n \in Nat \ {0}, NEW k \in Nat, NEW l \in Nat, k < l
  PROVE  k * n + n <= l * n
<1>1. PICK d \in Nat : l = k + 1 + d
  <2>1. l - k - 1 \in Nat
    OBVIOUS
  <2> QED
    BY <2>1
<1>2. l * n = k * n + n + d * n
  BY <1>1
<1>3. d * n \in Nat /\ k * n \in Nat
  OBVIOUS
<1> QED
  BY <1>2, <1>3

(* Blocks lie in the page, and none begins in another or at the end of all. *)
LEMMA BlocksInPage ==
  ASSUME block_size \in BlockSizes
  PROVE  /\ Count \in Nat
         /\ \A k \in 0..Count : Address(k) \in Words
         /\ \A k, l \in 0..Count : Address(k) = Address(l) => k = l
         /\ \A a, b \in Blocks : a # b => a \notin b..(b + block_size - 1)
<1>1. block_size \in Nat \ {0}
  BY PageAssumption
<1> DEFINE n == block_size
<1>2. Count \in Nat /\ Count * n <= PageWords
  <2>1. PageWords = (n * (PageWords \div n)) + (PageWords % n)
    BY <1>1, PageAssumption
  <2>2. PageWords \div n \in Nat /\ PageWords % n \in Nat
    BY <1>1, PageAssumption
  <2> QED
    BY <2>1, <2>2, <1>1 DEF Count
<1>3. ASSUME NEW k \in 0..Count PROVE Address(k) \in Words
  <2>1. k * n \in Nat
    BY <1>1, <1>2
  <2>2. k * n <= Count * n
    <3>1. CASE k = Count
      BY <3>1, <1>1, <1>2
    <3>2. CASE k < Count
      BY <3>2, <1>1, <1>2, <2>1, MultiplesApart
    <3> QED
      BY <3>1, <3>2, <1>2
  <2> QED
    BY <1>1, <1>2, <2>1, <2>2, PageAssumption DEF Address, Words
<1>4. ASSUME NEW k \in 0..Count, NEW l \in 0..Count, k < l
      PROVE  Address(k) + n <= Address(l)
  BY <1>1, <1>2, <1>4, MultiplesApart DEF Address
<1>5. \A k \in 0..Count : Address(k) \in Int
  BY <1>3, PageAssumption DEF Words
<1>6. \A k, l \in 0..Count : Address(k) = Address(l) => k = l
  BY <1>1, <1>2, <1>4, <1>5
<1>7. ASSUME NEW a \in Blocks, NEW b \in Blocks, a # b
      PROVE  a \notin b..(b + block_size - 1)
  <2>1. PICK k, l \in 0..(Count - 1) : a = Address(k) /\ b = Address(l)
    BY DEF Blocks
  <2>2. k \in 0..Count /\ l \in 0..Count /\ (k < l \/ l < k)
    BY <1>2, <1>7, <2>1
  <2> QED
    BY <1>1, <1>4, <1>5, <2>1, <2>2
<1> QED
  BY <1>2, <1>3, <1>6, <1>7

(* The first block of the list is given out, ... *)
LEMMA AllocStep ==
  ASSUME PageInv, memp_alloc
  PROVE  PageInv'
<1> DEFINE n == Len(chain)
<1>1. /\ chain # <<>> /\ n \in Nat \ {0} /\ n = free_count /\ free_ptr = chain[1]
      /\ \A i \in 1..n : chain[i] \in Blocks \ held
  BY DEF PageInv, PageTyped, FreeListSound, memp_alloc
<1>2. /\ chain' \in Seq(Blocks) /\ Len(chain') = n - 1
      /\ \A i \in 1..(n - 1) : chain'[i] = chain[i + 1]
  BY <1>1, HeadTailProperties DEF PageInv, PageTyped, memp_alloc
<1>3. block_size' = block_size /\ mem' = mem /\ held' = held \cup {chain[1]}
      /\ Blocks' = Blocks /\ Words' = Words /\ Address(Count)' = Address(Count)
  BY <1>1 DEF memp_alloc, Blocks, Count, Address, Words
<1>4. PageTyped'
  BY <1>1, <1>2, <1>3 DEF PageInv, PageTyped
<1>5. {chain'[i] : i \in 1..Len(chain')} = Blocks \ held'
  <2>1. ASSUME NEW b \in Blocks \ held' PROVE \E i \in 1..(n - 1) : chain'[i] = b
    <3>1. PICK j \in 1..n : chain[j] = b
      BY <1>3 DEF PageInv, FreeListSound
    <3>2. j # 1
      BY <1>3, <3>1
    <3>3. j - 1 \in 1..(n - 1) /\ chain'[j - 1] = b
      BY <1>1, <1>2, <3>1, <3>2
    <3> QED
      BY <3>3
  <2>2. ASSUME NEW i \in 1..(n - 1) PROVE chain'[i] \in Blocks \ held'
    <3>1. i + 1 \in 1..n /\ 1 \in 1..n /\ i + 1 # 1
      BY <1>1
    <3>2. chain[i + 1] # chain[1]
      BY <3>1 DEF PageInv, FreeListSound
    <3> QED
      BY <1>1, <1>2, <1>3, <3>1, <3>2
  <2> QED
    BY <1>2, <2>1, <2>2
<1>6. \A i, j \in 1..Len(chain') : chain'[i] = chain'[j] => i = j
  BY <1>1, <1>2 DEF PageInv, FreeListSound
<1>7. free_ptr' = IF chain' = <<>> THEN Address(Count) ELSE chain'[1]
  <2>1. free_ptr' = IF 1 = n THEN Address(Count) ELSE chain[2]
    BY <1>1 DEF PageInv, FreeListSound, memp_alloc
  <2>2. chain' = <<>> <=> n = 1
    BY <1>1, <1>2, EmptySeq
  <2> QED
    BY <1>1, <1>2, <2>1, <2>2
<1>8. \A i \in 1..Len(chain') :
         mem[chain'[i]] = IF i = Len(chain') THEN Address(Count) ELSE chain'[i + 1]
  <2> SUFFICES ASSUME NEW i \in 1..(n - 1)
               PROVE  mem[chain'[i]] = IF i = n - 1 THEN Address(Count) ELSE chain'[i + 1]
    BY <1>2
  <2>1. i + 1 \in 1..n /\ (i + 1 = n <=> i = n - 1) /\ (i # n - 1 => i + 1 \in 1..(n - 1))
    BY <1>1
  <2> QED
    BY <1>1, <1>2, <2>1 DEF PageInv, FreeListSound
<1>9. Len(chain') = free_count'
  BY <1>1, <1>2 DEF memp_alloc
<1> QED
  BY <1>3, <1>4, <1>5, <1>6, <1>7, <1>8, <1>9 DEF PageInv, FreeListSound

(* ... who has it writes where no block of the list is, ... *)
LEMMA UseStep ==
  ASSUME PageInv, NEW b \in held, Use(b)
  PROVE  PageInv'
<1>1. UNCHANGED <<block_size, free_count, free_ptr, held, chain>>
      /\ Blocks' = Blocks /\ Words' = Words /\ Address(Count)' = Address(Count)
  BY DEF Use, Blocks, Count, Address, Words
<1>2. \A i \in 1..Len(chain) : chain[i] \in Blocks /\ chain[i] # b
  BY DEF PageInv, FreeListSound
<1>3. \A i \in 1..Len(chain) : chain[i] \notin b..(b + block_size - 1) /\ chain[i] \in Words
  <2>1. b \in Blocks /\ Blocks \subseteq Words
    BY BlocksInPage DEF PageInv, PageTyped, Blocks
  <2> QED
    BY <1>2, <2>1, BlocksInPage DEF PageInv, PageTyped
<1>4. \A i \in 1..Len(chain) : mem'[chain[i]] = mem[chain[i]]
  BY <1>3 DEF Use
<1>5. mem' = [w \in Words |-> mem'[w]]
  BY DEF Use
<1>6. PageTyped'
  BY <1>1, <1>5 DEF PageInv, PageTyped
<1>7. FreeListSound'
  <2>1. {chain'[i] : i \in 1..Len(chain')} = Blocks' \ held'
    BY <1>1 DEF PageInv, FreeListSound
  <2> QED
    BY <1>1, <1>4, <2>1 DEF PageInv, FreeListSound
<1> QED
  BY <1>6, <1>7 DEF PageInv

(* ... and it becomes the first again. *)
LEMMA FreeStep ==
  ASSUME PageInv, NEW b \in held, memp_free(b)
  PROVE  PageInv'
<1> DEFINE n == Len(chain)
<1>1. block_size' = block_size /\ held' = held \ {b} /\ free_ptr' = b /\ free_count' = n + 1
      /\ Blocks' = Blocks /\ Words' = Words /\ Address(Count)' = Address(Count)
  BY DEF memp_free, Blocks, Count, Address, Words, PageInv, FreeListSound
<1>2. b \in Blocks /\ b \in Words /\ n \in Nat
  BY BlocksInPage DEF PageInv, PageTyped, Blocks
<1>3. /\ chain' \in Seq(Blocks) /\ Len(chain') = n + 1 /\ chain' # <<>>
      /\ chain'[1] = b /\ \A i \in 1..n : chain'[i + 1] = chain[i]
  <2>1. <<b>> \in Seq(Blocks) /\ Len(<<b>>) = 1 /\ <<b>>[1] = b
    BY <1>2
  <2> HIDE DEF n
  <2>2. chain \in Seq(Blocks) /\ chain' = <<b>> \o chain
    BY DEF PageInv, PageTyped, memp_free
  <2>3. /\ chain' \in Seq(Blocks) /\ Len(chain') = 1 + Len(chain)
        /\ \A i \in 1..(1 + Len(chain)) : chain'[i] = IF i <= 1 THEN <<b>>[i] ELSE chain[i - 1]
    BY <2>1, <2>2, ConcatProperties
  <2>4. \A i \in 1..n : i + 1 \in 1..(1 + Len(chain)) /\ ~(i + 1 <= 1) /\ (i + 1) - 1 = i
    BY <1>2 DEF n
  <2> QED
    BY <1>2, <2>1, <2>3, <2>4 DEF n
<1>4. \A i \in 1..(n + 1) : i = 1 \/ (i - 1 \in 1..n /\ chain'[i] = chain[i - 1])
  BY <1>2, <1>3
<1>5. /\ mem' = [w \in Words |-> mem'[w]]
      /\ mem'[b] = free_ptr /\ \A w \in Words \ {b} : mem'[w] = mem[w]
  BY <1>2 DEF memp_free, PageInv, PageTyped
<1>6. \A i \in 1..n : chain[i] \in Blocks \ held /\ chain[i] \in Words
  BY BlocksInPage DEF PageInv, PageTyped, FreeListSound, Blocks
<1>7. {chain'[i] : i \in 1..(n + 1)} = Blocks \ held'
  <2>1. ASSUME NEW a \in Blocks \ held' PROVE \E i \in 1..(n + 1) : chain'[i] = a
    <3>1. CASE a = b
      BY <1>2, <1>3, <3>1
    <3>2. CASE a # b
      <4>1. PICK j \in 1..n : chain[j] = a
        BY <1>1, <3>2 DEF PageInv, FreeListSound
      <4> QED
        BY <1>2, <1>3, <4>1
    <3> QED
      BY <3>1, <3>2
  <2>2. \A i \in 1..(n + 1) : chain'[i] \in Blocks \ held'
    BY <1>1, <1>2, <1>3, <1>4, <1>6
  <2> QED
    BY <2>1, <2>2
<1>8. \A i, j \in 1..(n + 1) : chain'[i] = chain'[j] => i = j
  BY <1>2, <1>3, <1>4, <1>6 DEF PageInv, FreeListSound
<1>9. \A i \in 1..(n + 1) :
         mem'[chain'[i]] = IF i = n + 1 THEN Address(Count) ELSE chain'[i + 1]
  <2> SUFFICES ASSUME NEW i \in 1..(n + 1)
               PROVE  mem'[chain'[i]] = IF i = n + 1 THEN Address(Count) ELSE chain'[i + 1]
    OBVIOUS
  <2>1. CASE i = 1
    <3>1. mem'[chain'[i]] = free_ptr
      BY <1>3, <1>5, <2>1
    <3>2. n # 0 => chain'[2] = chain[1] /\ chain # <<>>
      BY <1>2, <1>3
    <3>3. n = 0 => chain = <<>>
      BY DEF PageInv, PageTyped
    <3> QED
      BY <1>2, <2>1, <3>1, <3>2, <3>3 DEF PageInv, FreeListSound
  <2>2. CASE i # 1
    <3>1. i - 1 \in 1..n /\ chain'[i] = chain[i - 1] /\ chain[i - 1] \in Words \ {b}
      BY <1>2, <1>4, <1>6, <2>2
    <3>2. mem'[chain'[i]] = mem[chain[i - 1]]
      BY <1>5, <3>1
    <3>3. i # n + 1 => i \in 1..n /\ chain'[i + 1] = chain[i] /\ i - 1 # n /\ (i - 1) + 1 = i
      BY <1>2, <1>3, <2>2
    <3>4. i = n + 1 => i - 1 = n
      BY <1>2
    <3> QED
      BY <3>1, <3>2, <3>3, <3>4 DEF PageInv, FreeListSound
  <2> QED
    BY <2>1, <2>2
<1>10. PageTyped'
  BY <1>1, <1>3, <1>5 DEF PageInv, PageTyped
<1> QED
  BY <1>1, <1>3, <1>5, <1>7, <1>8, <1>9, <1>10 DEF PageInv, FreeListSound

LEMMA PageInit ==
  ASSUME memp_init
  PROVE  PageInv
<1>1. block_size \in BlockSizes /\ Count \in Nat
  BY BlocksInPage DEF memp_init
<1>2. \A i \in 1..Count : i - 1 \in 0..(Count - 1) /\ i - 1 \in 0..Count
  BY <1>1
<1>3. \A i \in 1..Count : Address(i - 1) \in Blocks
  BY <1>2 DEF Blocks
<1>4. chain \in Seq(Blocks) /\ Len(chain) = Count
  BY <1>1, <1>3 DEF memp_init
<1>5. \A i \in 1..Count : chain[i] = Address(i - 1)
  BY DEF memp_init
<1>6. {chain[i] : i \in 1..Len(chain)} = Blocks \ held
  <2>1. ASSUME NEW b \in Blocks PROVE \E i \in 1..Count : chain[i] = b
    <3>1. PICK k \in 0..(Count - 1) : b = Address(k)
      BY DEF Blocks
    <3>2. k + 1 \in 1..Count /\ (k + 1) - 1 = k
      BY <1>1
    <3> QED
      BY <1>5, <3>1, <3>2
  <2> QED
    BY <1>3, <1>4, <1>5, <2>1 DEF memp_init
<1>7. \A i, j \in 1..Len(chain) : chain[i] = chain[j] => i = j
  BY <1>1, <1>2, <1>4, <1>5, BlocksInPage
<1>8. free_ptr = IF chain = <<>> THEN Address(Count) ELSE chain[1]
  <2>1. Address(0) = 0
    BY <1>1, PageAssumption DEF Address
  <2> QED
    BY <1>1, <1>4, <1>5, <2>1 DEF memp_init
<1>9. \A i \in 1..Len(chain) :
         mem[chain[i]] = IF i = Len(chain) THEN Address(Count) ELSE chain[i + 1]
  <2> SUFFICES ASSUME NEW i \in 1..Count
               PROVE  mem[chain[i]] = IF i = Count THEN Address(Count) ELSE chain[i + 1]
    BY <1>4
  <2>1. Address(i - 1) \in Words /\ Address(i - 1) \in Blocks
    BY <1>1, <1>2, <1>3, BlocksInPage
  <2>2. mem[chain[i]] = Address(i - 1) + block_size
    BY <1>5, <2>1 DEF memp_init
  <2>3. Address(i - 1) + block_size = Address(i)
    BY <1>1, PageAssumption DEF Address
  <2>4. i # Count => i + 1 \in 1..Count /\ (i + 1) - 1 = i
    BY <1>1
  <2> QED
    BY <1>5, <2>2, <2>3, <2>4
<1>10. PageTyped
  BY <1>1, <1>4 DEF memp_init, PageTyped
<1> QED
  BY <1>4, <1>6, <1>7, <1>8, <1>9, <1>10 DEF PageInv, FreeListSound, memp_init

(* The inductive invariant of the page. *)
THEOREM PageInvariant == MempSpec => []PageInv
<1>1. PageInv /\ [MempNext]_mempVars => PageInv'
  <2> SUFFICES ASSUME PageInv, [MempNext]_mempVars PROVE PageInv'
    OBVIOUS
  <2>1. CASE UNCHANGED mempVars
    <3>1. /\ UNCHANGED <<block_size, free_count, free_ptr, mem, held, chain>>
          /\ Blocks' = Blocks /\ Words' = Words /\ Address(Count)' = Address(Count)
      BY <2>1 DEF mempVars, Blocks, Count, Address, Words
    <3>2. PageTyped'
      BY <3>1 DEF PageInv, PageTyped
    <3>3. FreeListSound'
      BY <3>1 DEF PageInv, FreeListSound
    <3> QED
      BY <3>2, <3>3 DEF PageInv
  <2> QED
    BY <2>1, AllocStep, UseStep, FreeStep DEF MempNext
<1> QED
  BY <1>1, PageInit, PTL DEF MempSpec

(* memp_alloc and memp_free keep the list of free blocks whole, though its   *)
(* links are in the blocks and whoever holds a block may write all of it.   *)
THEOREM FreeListStaysSound == MempSpec => []FreeListSound
<1>1. PageInv => FreeListSound
  BY DEF PageInv
<1> QED
  BY <1>1, PageInvariant, PTL
=============================================================================
