------------------------------- MODULE MpPool --------------------------------
(***************************************************************************)
(* tools/mem_pool/src/mmpool-success.c: a pool that cuts blocks off a chain *)
(* of nodes, and keeps a list of the blocks too large for that, which       *)
(* malloc provides.  The entries of the list are blocks of the pool too.    *)
(*                                                                         *)
(* Lengths and addresses are counted in words of 8 bytes, addresses from    *)
(* the start of the memory that the node is in.  A call that gets no memory *)
(* returns NULL and leaves the pool as it was.                              *)
(***************************************************************************)
EXTENDS Integers, SequencesExt

CONSTANTS Size,        \* the argument of mp_create_pool
          Requests,    \* the sizes that blocks are asked for in
          LargeBlocks, \* the addresses malloc has for large blocks
          NoBlock,     \* NULL
          MaxNodes, MaxBlocks  \* bounds on the chain and on the live blocks

VARIABLES pool,     \* the life of the pool; "overrun" and "wild" are beyond C
          nodes,    \* the chain from pool->head
          current,  \* the place of pool->current in it
          garbage,  \* head->next is what malloc left there, and not NULL
          large,    \* the allocs in the entries of pool->large, from its head
          heap,     \* the large blocks malloc has given and not got back
          blocks    \* history: what was cut off the nodes since the last reset

vars == <<pool, nodes, current, garbage, large, heap, blocks>>

MP_ALIGNMENT == 4   \* 32 bytes
SizeOfPool   == 3   \* sizeof(struct mp_pool_s)
SizeOfNode   == 4   \* sizeof(struct mp_node_s)
SizeOfLarge  == 2   \* sizeof(struct mp_large_s)

(* A pool with less room than an entry of the list takes would put entries   *)
(* beyond its nodes; nobody creates one.                                     *)
ASSUME PoolAssumption ==
    /\ Size \in Nat /\ Size >= SizeOfLarge
    /\ Requests \subseteq Nat \ {0}
    /\ MaxNodes \in Nat \ {0} /\ MaxBlocks \in Nat
    /\ NoBlock \notin LargeBlocks

mp_align_ptr(p) == ((p + MP_ALIGNMENT - 1) \div MP_ALIGNMENT) * MP_ALIGNMENT

(* Where the first block of the node at place i can be: head follows the    *)
(* struct mp_pool_s.                                                        *)
Payload(i) == IF i = 1 THEN SizeOfPool + SizeOfNode ELSE SizeOfNode

Node  == [last : Nat, end : Nat, failed : Nat]
Block == [node : 1..MaxNodes, from : Nat, upto : Nat]

TypeOK == /\ pool \in {"none", "live", "destroyed", "overrun", "wild"}
          /\ nodes \in Seq(Node) /\ Len(nodes) <= MaxNodes
          /\ current \in 1..MaxNodes
          /\ garbage \in BOOLEAN
          /\ large \in Seq(LargeBlocks \cup {NoBlock})
          /\ heap \subseteq LargeBlocks
          /\ blocks \subseteq Block

Init == /\ pool = "none" /\ nodes = <<>> /\ current = 1 /\ garbage = FALSE
        /\ large = <<>> /\ heap = {} /\ blocks = {}
-----------------------------------------------------------------------------
(* mp_create_pool does not set head->next. *)
Create == /\ pool = "none"
          /\ pool' = "live"
          /\ nodes' = << [last |-> Payload(1), end |-> Payload(1) + Size, failed |-> 0] >>
          /\ garbage' \in BOOLEAN
          /\ UNCHANGED <<current, large, heap, blocks>>

(* pool->max: MP_MAX_ALLOC_FROM_POOL is 4095 bytes, 511 whole words. *)
PoolMax == IF Size < 511 THEN Size ELSE 511

(* The block that the node would give, and whether it seems to fit: the     *)
(* difference of the pointers is taken as an unsigned number.               *)
Start(i, aligned)   == IF aligned THEN mp_align_ptr(nodes[i].last) ELSE nodes[i].last
Fits(i, n, aligned) == \/ Start(i, aligned) > nodes[i].end
                       \/ nodes[i].end - Start(i, aligned) >= n

(* mp_alloc (aligned) and mp_nalloc: the first node from current on that fits *)
CutFrom(i, n, aligned) ==
    LET m == Start(i, aligned) IN
    /\ i \in current..Len(nodes)
    /\ Fits(i, n, aligned) /\ \A k \in current..(i - 1) : ~Fits(k, n, aligned)
    /\ Cardinality(blocks) < MaxBlocks
    /\ nodes' = [nodes EXCEPT ![i].last = m + n]
    /\ blocks' = blocks \cup {[node |-> i, from |-> m, upto |-> m + n]}
    /\ pool' = IF m + n > nodes[i].end THEN "overrun" ELSE pool
    /\ UNCHANGED <<current, garbage>>

Full(n, aligned) == \A i \in current..Len(nodes) : ~Fits(i, n, aligned)

(* Where current may go: it passes over the nodes that fail for the sixth    *)
(* time, and goes behind the last of them.                                   *)
BehindFailed == {current} \cup
    {i + 1 : i \in {k \in current..(Len(nodes) - 1) : nodes[k].failed > 4}}

(* mp_alloc_block: a new node at the end of the chain *)
CutNew(n, aligned) ==
    /\ Full(n, aligned) /\ ~garbage
    /\ Len(nodes) < MaxNodes /\ Cardinality(blocks) < MaxBlocks
    /\ LET psize == nodes[1].end - SizeOfPool
           m     == mp_align_ptr(SizeOfNode)
           tried == [i \in DOMAIN nodes |->
                       IF i \in current..(Len(nodes) - 1)
                       THEN [nodes[i] EXCEPT !.failed = @ + 1] ELSE nodes[i]]
       IN /\ nodes' = Append(tried, [last |-> m + n, end |-> psize, failed |-> 0])
          /\ blocks' = blocks \cup {[node |-> Len(nodes) + 1, from |-> m, upto |-> m + n]}
    /\ \E c \in BehindFailed : (\A d \in BehindFailed : d <= c) /\ current' = c
    /\ UNCHANGED <<pool, garbage>>

(* The whole of mp_alloc or mp_nalloc for a size up to pool->max *)
Cut(n, aligned) == CutNew(n, aligned) \/ \E i \in 1..MaxNodes : CutFrom(i, n, aligned)

(* p = p->next of the head, where malloc has left something *)
WildCut(n, aligned) == /\ garbage /\ Full(n, aligned)
                       /\ pool' = "wild"
                       /\ UNCHANGED <<nodes, current, garbage, large, heap, blocks>>

Alloc(n, aligned) == /\ pool = "live" /\ n <= PoolMax
                     /\ \/ Cut(n, aligned) /\ UNCHANGED <<large, heap>>
                        \/ WildCut(n, aligned)
-----------------------------------------------------------------------------
(* mp_alloc_large looks at five entries for one to use again. *)
Reusable == {k \in 1..Len(large) : k <= 5 /\ large[k] = NoBlock}

Malloc(p) == p \notin heap /\ heap' = heap \cup {p}

ReuseEntry(p) == /\ pool = "live"
                 /\ Malloc(p)
                 /\ \E k \in Reusable : /\ \A l \in Reusable : k <= l
                                       /\ large' = [large EXCEPT ![k] = p]
                 /\ UNCHANGED <<pool, nodes, current, garbage, blocks>>

(* ... or allocates one, as mp_memalign does in any case *)
AddEntry(p) == /\ Malloc(p)
               /\ large' = <<p>> \o large
               /\ Cut(SizeOfLarge, TRUE)

AllocLarge(n, p) == /\ pool = "live" /\ n > PoolMax
                    /\ \/ ReuseEntry(p)
                       \/ Reusable = {} /\ (AddEntry(p) \/ WildCut(SizeOfLarge, TRUE))

(* ... which fails for want of a node: p is given back to malloc. *)
EntryFails(p) == /\ pool = "live" /\ p \notin heap
                 /\ Full(SizeOfLarge, TRUE) /\ ~garbage
                 /\ UNCHANGED vars

Memalign(p) == /\ pool = "live"
               /\ AddEntry(p) \/ WildCut(SizeOfLarge, TRUE)

\* Wrong variant: l->alloc stays as it was.
FreeKeepsAlloc(p) == /\ pool = "live"
                     /\ p \in ToSet(large)
                     /\ heap' = heap \ {p}
                     /\ UNCHANGED <<pool, nodes, current, garbage, large, blocks>>

(* mp_free of a large block; of others it does nothing. *)
Free(p) == /\ pool = "live"
           /\ \E k \in DOMAIN large :
                /\ large[k] = p /\ \A l \in 1..(k - 1) : large[l] # p
                /\ large' = [large EXCEPT ![k] = NoBlock]
           /\ heap' = heap \ {p}
           /\ UNCHANGED <<pool, nodes, current, garbage, blocks>>

\* Wrong variant: all nodes are taken to have a node's header only.
ResetHeadLow == /\ pool = "live" /\ ~garbage
                /\ heap' = heap \ ToSet(large)
                /\ large' = <<>> /\ blocks' = {}
                /\ nodes' = [i \in DOMAIN nodes |-> [nodes[i] EXCEPT !.last = SizeOfNode]]
                /\ UNCHANGED <<pool, current, garbage>>

(* mp_reset_pool and mp_destory_pool follow head->next.                      *)
Reset == /\ pool = "live"
         /\ pool' = IF garbage THEN "wild" ELSE "live"
         /\ heap' = heap \ ToSet(large)
         /\ large' = <<>>
         /\ nodes' = [i \in DOMAIN nodes |-> [nodes[i] EXCEPT !.last = Payload(i)]]
         /\ blocks' = {}
         /\ UNCHANGED <<current, garbage>>

Destroy == /\ pool = "live"
           /\ pool' = IF garbage THEN "wild" ELSE "destroyed"
           /\ heap' = heap \ ToSet(large)
           /\ large' = <<>> /\ nodes' = <<>> /\ blocks' = {}
           /\ UNCHANGED <<current, garbage>>
-----------------------------------------------------------------------------
Next == \/ Create \/ Reset \/ Destroy
        \/ \E n \in Requests : \E aligned \in BOOLEAN : Alloc(n, aligned)
        \/ \E p \in LargeBlocks : \/ Memalign(p) \/ Free(p) \/ EntryFails(p)
                                  \/ \E n \in Requests : AllocLarge(n, p)

Spec == Init /\ [][Next]_vars
-----------------------------------------------------------------------------
Overlap(b, c) == b.node = c.node /\ b.from < c.upto /\ c.from < b.upto

(* The blocks handed out since the last reset, and the entries of the list,  *)
(* lie apart from each other and in the memory of their nodes behind its     *)
(* header.  The exception is what the unsigned difference costs: a node that *)
(* does not end on an alignment boundary may give a block beyond its end.    *)
BlocksApart ==
    /\ TypeOK
    /\ \A b, c \in blocks : Overlap(b, c) => b = c
    /\ \A b \in blocks :
         /\ b.node <= Len(nodes) /\ Payload(b.node) <= b.from
         /\ \/ b.upto <= nodes[b.node].end
            \/ /\ b.from > nodes[b.node].end
               /\ nodes[b.node].end % MP_ALIGNMENT # 0

(* Every large block that malloc gave and that was not freed is in exactly   *)
(* one entry of the list, and no entry has a block that was freed: reset and *)
(* destroy free each once.                                                   *)
LargeCustody ==
    /\ heap = ToSet(large) \ {NoBlock}
    /\ \A k, l \in DOMAIN large : large[k] = large[l] /\ large[k] # NoBlock => k = l

(* No node is passed over for good that has not failed six times.  The loop  *)
(* of mp_alloc_block moves current behind the last node that has, whatever   *)
(* is between; it must not lose one there that has room.                     *)
PassedOverHaveFailed ==
    \A i \in DOMAIN nodes : i < current => nodes[i].failed > 5
=============================================================================
