----------------------------- MODULE BlockSpans -----------------------------
(***************************************************************************)
(* Which blocks a bank handover copies, and in which pieces: spans and the *)
(* loops of WorkerBanks._swap in                                           *)
(* experiments/radiance-public/radiance_fair_scheduler.py.                 *)
(***************************************************************************)
EXTENDS Integers, FiniteSets, SequencesExt

CONSTANTS
    NumBlocks,      \* kv_cache_config.num_blocks
    Region,         \* the KV storages, 1..n in the order they are copied
    StageBlocks,    \* per region, at least 1: max(1, stage_capacity // stride)
    BlockSets       \* the sets of blocks that spans is asked about

\* The storages are copied one after the other, and a stage takes a block.
BlockSpansAssumption ==
    /\ NumBlocks \in Nat
    /\ Cardinality(Region) \in Nat /\ Region = 1..Cardinality(Region)
    /\ StageBlocks \in [Region -> Nat \ {0}]

(***************************************************************************)
(* spans(blocks): the loop over the sorted blocks, coalescing neighbours   *)
(* into [first, last) ranges.                                              *)
(***************************************************************************)
Spans(blocks) ==
    LET upTo[n \in 0..NumBlocks] ==
          IF n = 0 THEN << >>
          ELSE LET result == upTo[n - 1]
                   block  == n - 1
               IN IF block \notin blocks THEN result
                  ELSE IF result # << >> /\ Last(result)[2] = block
                       THEN Append(Front(result), <<Last(result)[1], block + 1>>)
                       ELSE Append(result, <<block, block + 1>>)
    IN upTo[NumBlocks]

\* Mutant: the last chunk of a span is not cut at the end of the span.
ChunksOfUncut(r, span) ==
    LET size  == StageBlocks[r]
        count == (span[2] - span[1] + size - 1) \div size
        begin(i) == span[1] + (i - 1) * size
    IN [i \in 1..count |-> [region |-> r, begin |-> begin(i), end |-> begin(i) + size]]

\* range(first, last, stage_blocks), each with min(last, begin + stage_blocks)
ChunksOf(r, span) ==
    LET size  == StageBlocks[r]
        count == (span[2] - span[1] + size - 1) \div size
        begin(i) == span[1] + (i - 1) * size
        stop(i) == begin(i) + size
    IN [i \in 1..count |->
          [region |-> r, begin |-> begin(i),
           end |-> IF stop(i) < span[2] THEN stop(i) ELSE span[2]]]

\* The chunks of _swap in the order of its three nested loops.
Chunks(blocks) ==
    LET perRegion(r) == FlattenSeq([i \in DOMAIN Spans(blocks) |->
                                      ChunksOf(r, Spans(blocks)[i])])
    IN FlattenSeq([r \in Region |-> perRegion(r)])

SwapPlan(outgoing, incoming) == Chunks(outgoing \cup incoming)

(***************************************************************************)
(* The cells of a chunk: the blocks that it moves, with their region.      *)
(***************************************************************************)
Cells(chunk) == {chunk.region} \X (chunk.begin..(chunk.end - 1))

\* The chunks tile the cells: they cover these and no other, each once, and
\* every chunk fits the stage of its region.
Tiles(chunks, cells) ==
    /\ cells = UNION {Cells(chunks[i]) : i \in 1..Len(chunks)}
    /\ \A i, j \in 1..Len(chunks) : i # j => Cells(chunks[i]) \cap Cells(chunks[j]) = {}
    /\ \A i \in 1..Len(chunks) :
         chunks[i].end - chunks[i].begin \in 1..StageBlocks[chunks[i].region]

\* _swap walks every block of every region once, in chunks that fit the stage
\* and never reach past a span (where bytes of neither bank would move).
ChunksTileTheSpans ==
    \A blocks \in BlockSets : Tiles(Chunks(blocks), Region \X blocks)
=============================================================================
