----------------------------- MODULE MCMemPools ------------------------------
(***************************************************************************)
(* The pools of tools/mem_pool with a few words each, one of the two in    *)
(* each behaviour.                                                         *)
(***************************************************************************)
EXTENDS MpPool, MemPool

ASSUME SmallPools == IsFiniteSet(LargeBlocks) /\ IsFiniteSet(Requests) /\ IsFiniteSet(BlockSizes)

VARIABLE part

BothInit == part \in {"mmpool", "mempool"} /\ Init /\ memp_init
BothNext == /\ UNCHANGED part
            /\ \/ part = "mmpool"  /\ Next /\ UNCHANGED mempVars
               \/ part = "mempool" /\ MempNext /\ UNCHANGED vars

BothSpec == BothInit /\ [][BothNext]_<<part, vars, mempVars>>
=============================================================================
