------------------------------ MODULE MC_Swap ------------------------------
(***************************************************************************)
(* An instance of BankSwap for TLC that walks the chunks of BlockSpans: two*)
(* KV storages, one whose stage takes one block and one that takes two.    *)
(* ChunksTileTheSpans is of a wider instance: every set of 8 blocks, each  *)
(* walked once, and a third storage whose stage takes three.               *)
(***************************************************************************)
EXTENDS BankSwap

\* Every set of blocks a bank may hold, before the first handover.
BlockSets == IF gpuBank = None THEN SUBSET (0..7) ELSE {}

ThreeBlocks == 0..2
Narrow == INSTANCE BlockSpans
    WITH NumBlocks <- 3, StageBlocks <- [r \in 1..2 |-> r]
NarrowPlan(outgoing, incoming) == Narrow!SwapPlan(outgoing, incoming)

INSTANCE BlockSpans
    WITH NumBlocks <- 8, Region <- 1..3, StageBlocks <- [r \in 1..3 |-> r]
ASSUME BlockSpansAssumption
=============================================================================
