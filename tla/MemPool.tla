------------------------------- MODULE MemPool -------------------------------
(***************************************************************************)
(* tools/mem_pool/src/mempool.c: one page cut into blocks of one size.     *)
(* The free blocks are linked through their own first words, which belong  *)
(* to the caller while a block is out.                                     *)
(*                                                                         *)
(* Memory is counted in words of 8 bytes, and so are the sizes: a smaller  *)
(* block has no room for its link, and nobody asks for one.                *)
(***************************************************************************)
EXTENDS Integers, Sequences

CONSTANTS PageWords,   \* MEM_PAGE_SIZE
          BlockSizes,  \* the block sizes a pool is made with
          Null, Data   \* NULL, and what callers write

VARIABLES block_size, free_count, free_ptr,
          mem,     \* the words of the page, and the one behind it
          held,    \* history: the blocks that are out
          chain    \* history: the free blocks in the order of their links

mempVars == <<block_size, free_count, free_ptr, mem, held, chain>>

ASSUME PageAssumption == PageWords \in Nat /\ BlockSizes \subseteq Nat \ {0}

Words   == 0..PageWords
Count   == PageWords \div block_size
Address(k) == k * block_size
Blocks  == {Address(k) : k \in 0..(Count - 1)}

(* memp_init: every block is linked to the next; NULL is written behind the  *)
(* last one, which is behind the page when the size divides it.              *)
memp_init == /\ block_size \in BlockSizes
             /\ free_count = Count /\ free_ptr = 0
             /\ mem = [w \in Words |-> IF w \in Blocks THEN w + block_size ELSE Null]
             /\ held = {}
             /\ chain = [i \in 1..Count |-> Address(i - 1)]

(* memp_alloc; NULL, and nothing changes, when no block is free *)
memp_alloc == /\ free_count # 0
              /\ free_ptr' = mem[free_ptr]
              /\ free_count' = free_count - 1
              /\ held' = held \cup {free_ptr}
              /\ chain' = Tail(chain)
              /\ UNCHANGED <<block_size, mem>>

(* The caller writes a block that it holds. *)
Use(b) == /\ b \in held
          /\ mem' = [w \in Words |-> IF w \in b..(b + block_size - 1) THEN Data ELSE mem[w]]
          /\ UNCHANGED <<block_size, free_count, free_ptr, held, chain>>

\* Wrong variant: the link is not written.
FreeUnlinked(b) ==
    /\ b \in held
    /\ free_ptr' = b
    /\ free_count' = free_count + 1
    /\ held' = held \ {b}
    /\ chain' = <<b>> \o chain
    /\ UNCHANGED <<block_size, mem>>

(* memp_free of a block that is out; it asks for no more than a pointer. *)
memp_free(b) == /\ b \in held
                /\ mem' = [mem EXCEPT ![b] = free_ptr]
                /\ free_ptr' = b
                /\ free_count' = free_count + 1
                /\ held' = held \ {b}
                /\ chain' = <<b>> \o chain
                /\ UNCHANGED block_size

MempNext == memp_alloc \/ \E b \in held : Use(b) \/ memp_free(b)

MempSpec == memp_init /\ [][MempNext]_mempVars
-----------------------------------------------------------------------------
(* The links lead from free_ptr through every free block once, free_count   *)
(* of them, and never through a word that a caller may have written; then   *)
(* to the end of the blocks, which is not one.                              *)
FreeListSound ==
    /\ Len(chain) = free_count
    /\ {chain[i] : i \in 1..Len(chain)} = Blocks \ held
    /\ \A i, j \in 1..Len(chain) : chain[i] = chain[j] => i = j
    /\ free_ptr = IF chain = <<>> THEN Address(Count) ELSE chain[1]
    /\ \A i \in 1..Len(chain) :
          mem[chain[i]] = IF i = Len(chain) THEN Address(Count) ELSE chain[i + 1]
=============================================================================
