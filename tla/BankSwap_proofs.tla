-------------------------- MODULE BankSwap_proofs --------------------------
(***************************************************************************)
(* BankSwap implements BankMemory, for any banks, blocks, regions, buffers *)
(* and any plan of chunks that covers each block once.                     *)
(*                                                                         *)
(* The inductive invariant says where every bank is: on the GPU, in one    *)
(* buffer that no other bank uses and whose recorded ranges are exactly    *)
(* the bank's live blocks, or nowhere with no live blocks; and, during a   *)
(* swap, that the stage holds the chunk it was filled from.                *)
(*                                                                         *)
(* The last part shows that the chunks of BlockSpans are such a plan, for  *)
(* any number of blocks and any stages.                                    *)
(***************************************************************************)
EXTENDS BankSwap, WellFoundedInduction, TLAPS

Content == Value \cup {None}

ChunkType == [region : Region, begin : Int, end : Int]

SwapType ==
    [target : Bank \cup {None}, buffer : Buffer \cup {None},
     incoming : SUBSET Block, outgoing : SUBSET Block, retired : BOOLEAN,
     plan : Seq(ChunkType), pos : Nat,
     at : {"idle", "stage", "load", "store"}]

MemoryType ==
    /\ gpu \in [Region -> [Block -> Content]]
    /\ buffers \in [Buffer -> [Region -> [Block -> Content]]]
    /\ live \in [Bank -> SUBSET Block]
    /\ ranges \in [Bank -> SUBSET Block]
    /\ image \in [Bank -> Buffer \cup {None}]
    /\ gpuBank \in Bank \cup {None}
    /\ free \subseteq Buffer
    /\ swap \in SwapType

\* A bank's image has a buffer of its own and records the bank's live blocks.
ImagesOwned ==
    /\ \A k \in Bank : image[k] # None =>
         /\ k # gpuBank /\ image[k] \notin free /\ ranges[k] = live[k]
         /\ \A j \in Bank : image[j] = image[k] => j = k
    /\ gpuBank = None => \A k \in Bank : image[k] = None

\* A bank that is neither on the GPU, nor in RAM, nor on its way, is empty.
NothingElsewhere ==
    \A k \in Bank : k # gpuBank /\ k # swap.target /\ image[k] = None => live[k] = {}

\* The swap in progress owns its buffer, its plan covers both banks once, and
\* between its first and second copy the stage mirrors the chunk.
SwapConsistent ==
    swap # NoSwap =>
        /\ gpuBank \in Bank /\ swap.target \in Bank /\ swap.target # gpuBank
        /\ image[swap.target] = None
        /\ swap.buffer \in Buffer /\ swap.buffer \notin free
        /\ \A k \in Bank : image[k] # swap.buffer
        /\ swap.incoming = live[swap.target] /\ swap.outgoing = live[gpuBank]
        /\ ExactPlan(swap.plan, swap.outgoing \cup swap.incoming)
        /\ swap.pos \in 1..(Len(swap.plan) + 1)
        /\ swap.at # "idle"
        /\ swap.at # "stage" => ~PlanDone
        /\ swap.at # "stage" => \A b \in BlocksOf(Chunk) \cap Block : stage[b] \in Content
        /\ swap.at = "load" => stage = [b \in BlocksOf(Chunk) |-> gpu[Chunk.region][b]]

SwapInv ==
    /\ MemoryType
    /\ ImagesOwned
    /\ NothingElsewhere
    /\ SwapConsistent

-----------------------------------------------------------------------------
(***************************************************************************)
(* SwapInv is inductive.                                                   *)
(***************************************************************************)
LEMMA NoSwapType ==
    NoSwap \in SwapType
BY DEF NoSwap, SwapType

\* The record of a swap under way keeps its type as its copies advance.
LEMMA SwapStepType ==
    ASSUME NEW s \in SwapType
    PROVE  /\ [s EXCEPT !.at = "load"] \in SwapType
           /\ [s EXCEPT !.at = "store"] \in SwapType
           /\ [s EXCEPT !.at = "stage", !.pos = @ + 1] \in SwapType
<1>1. s.pos + 1 \in Nat
    BY DEF SwapType
<1>2. [s EXCEPT !.at = "load"] \in SwapType /\ [s EXCEPT !.at = "store"] \in SwapType
    BY DEF SwapType
<1> DEFINE t == [s EXCEPT !.at = "stage"]
<1>3. t \in SwapType /\ t.pos = s.pos
    BY DEF SwapType
<1> HIDE DEF t
<1>4. [t EXCEPT !.pos = t.pos + 1] \in SwapType
    BY <1>3, SMTT(30) DEF SwapType
<1>5. [s EXCEPT !.at = "stage", !.pos = @ + 1] = [t EXCEPT !.pos = t.pos + 1]
    BY <1>3 DEF t, SwapType
<1> QED BY <1>2, <1>4, <1>5

\* A swap in progress has a chunk to work on unless its plan is done.
LEMMA ChunkTyped ==
    ASSUME SwapInv, swap # NoSwap, ~PlanDone
    PROVE  Chunk \in ChunkType /\ swap.pos \in 1..Len(swap.plan)
BY DEF SwapInv, MemoryType, SwapType, SwapConsistent, PlanDone, Chunk

\* Init: no images, every buffer free, nothing live.
LEMMA SwapInit == Init => SwapInv
<1> SUFFICES ASSUME Init PROVE SwapInv
    OBVIOUS
<1>1. MemoryType
    BY NoSwapType DEF Init, MemoryType, Content
<1>2. ImagesOwned /\ NothingElsewhere /\ SwapConsistent
    BY DEF Init, ImagesOwned, NothingElsewhere, SwapConsistent
<1> QED BY <1>1, <1>2 DEF SwapInv

\* Between two handovers nothing is on its way.
LEMMA IdleFacts ==
    ASSUME Idle
    PROVE  swap.target = None /\ swap.buffer = None /\ swap.at = "idle"
BY DEF Idle, NoSwap

\* Every write, release, retirement and single copy preserves SwapInv.
LEMMA SwapNext == SwapInv /\ [Next]_vars => SwapInv'
<1> SUFFICES ASSUME SwapInv, [Next]_vars PROVE SwapInv'
    OBVIOUS
<1> USE SwapAssumption
<1>1. ASSUME NEW b \in Block, NEW v \in Value, Write(b, v) PROVE SwapInv'
  <2>1. MemoryType'
      BY <1>1 DEF SwapInv, MemoryType, Write, Content
  <2>2. (ImagesOwned /\ NothingElsewhere /\ SwapConsistent)'
      BY <1>1 DEF SwapInv, MemoryType, SwapType, Write, ImagesOwned, NothingElsewhere, SwapConsistent, Idle
  <2> QED BY <2>1, <2>2 DEF SwapInv
<1>2. ASSUME NEW b \in Block, Release(b) PROVE SwapInv'
  <2>1. MemoryType'
      BY <1>2 DEF SwapInv, MemoryType, Release
  <2>2. (ImagesOwned /\ NothingElsewhere /\ SwapConsistent)'
      BY <1>2 DEF SwapInv, MemoryType, SwapType, Release, ImagesOwned, NothingElsewhere, SwapConsistent, Idle
  <2> QED BY <2>1, <2>2 DEF SwapInv
<1>3. ASSUME NEW k \in Bank, Retire(k) PROVE SwapInv'
  <2>1. MemoryType'
      BY <1>3 DEF SwapInv, MemoryType, Retire
  <2>2. (ImagesOwned /\ NothingElsewhere /\ SwapConsistent)'
      BY <1>3, IdleFacts DEF SwapInv, MemoryType, SwapType, Retire, ImagesOwned, NothingElsewhere, SwapConsistent, Idle
  <2> QED BY <2>1, <2>2 DEF SwapInv
<1>4. ASSUME NEW k \in Bank, Adopt(k) PROVE SwapInv'
  <2>1. MemoryType'
      BY <1>4 DEF SwapInv, MemoryType, Adopt
  <2>2. (ImagesOwned /\ NothingElsewhere /\ SwapConsistent)'
      BY <1>4, IdleFacts DEF SwapInv, MemoryType, SwapType, Adopt, ImagesOwned, NothingElsewhere, SwapConsistent, Idle
  <2> QED BY <2>1, <2>2 DEF SwapInv
<1>5. ASSUME NEW k \in Bank, Discard(k) PROVE SwapInv'
  <2>1. MemoryType'
      BY <1>5 DEF SwapInv, MemoryType, Discard
  <2>2. (ImagesOwned /\ NothingElsewhere /\ SwapConsistent)'
      BY <1>5, IdleFacts DEF SwapInv, MemoryType, SwapType, Discard, ImagesOwned, NothingElsewhere, SwapConsistent, Idle
  <2> QED BY <2>1, <2>2 DEF SwapInv
<1>6. ASSUME NEW k \in Bank, NEW retired \in BOOLEAN, NEW m \in Buffer, CopyOut(k, m, retired)
      PROVE  SwapInv'
  <2>1. MemoryType'
    <3>1. buffers' \in [Buffer -> [Region -> [Block -> Content]]]
        BY <1>6 DEF SwapInv, MemoryType, CopyOut
    <3>2. /\ live' \in [Bank -> SUBSET Block] /\ ranges' \in [Bank -> SUBSET Block]
          /\ image' \in [Bank -> Buffer \cup {None}] /\ free' \subseteq Buffer
        BY <1>6 DEF SwapInv, MemoryType, CopyOut, Settle
    <3> QED BY <1>6, <3>1, <3>2 DEF SwapInv, MemoryType, CopyOut
  <2>2. (ImagesOwned /\ NothingElsewhere)'
      BY <1>6, IdleFacts DEF SwapInv, MemoryType, CopyOut, Settle, ImagesOwned, NothingElsewhere
  <2>3. SwapConsistent'
      BY <1>6 DEF CopyOut, SwapConsistent, Idle
  <2> QED BY <2>1, <2>2, <2>3 DEF SwapInv
<1>7. ASSUME NEW k \in Bank, NEW retired \in BOOLEAN, StartSwap(k, retired) PROVE SwapInv'
  <2>1. ExactPlan(swap'.plan, swap'.outgoing \cup swap'.incoming)
      BY <1>7 DEF StartSwap, SwapInv, MemoryType
  <2>2. swap'.plan \in Seq(ChunkType) /\ Len(swap'.plan) \in Nat
      BY <2>1 DEF ExactPlan, ChunkType
  <2>3. MemoryType'
      BY <1>7, <2>2 DEF SwapInv, MemoryType, SwapType, StartSwap
  <2>4. (ImagesOwned /\ NothingElsewhere)'
      BY <1>7, IdleFacts DEF SwapInv, MemoryType, SwapType, StartSwap, ImagesOwned, NothingElsewhere
  <2>5. SwapConsistent'
      BY <1>7, <2>1, <2>2 DEF SwapInv, MemoryType, SwapType, StartSwap, ImagesOwned, SwapConsistent
  <2> QED BY <2>3, <2>4, <2>5 DEF SwapInv
<1>8. ASSUME StageOut PROVE SwapInv'
  <2>0. swap # NoSwap
      BY <1>8 DEF StageOut, NoSwap
  <2>1. MemoryType'
      BY <1>8 DEF SwapInv, MemoryType, SwapType, StageOut
  <2>2. (ImagesOwned /\ NothingElsewhere)'
      BY <1>8 DEF SwapInv, MemoryType, SwapType, StageOut, ImagesOwned, NothingElsewhere
  <2>3. \A b \in BlocksOf(Chunk) \cap Block : stage'[b] \in Content
      BY <1>8, <2>0, ChunkTyped DEF SwapInv, MemoryType, SwapType, StageOut, ChunkType
  <2>4. SwapConsistent'
      BY <1>8, <2>0, <2>3 DEF SwapInv, MemoryType, SwapType, StageOut, SwapConsistent, PlanDone, Chunk
  <2> QED BY <2>1, <2>2, <2>4 DEF SwapInv
<1>9. ASSUME LoadIn PROVE SwapInv'
  <2>0. swap # NoSwap
      BY <1>9 DEF LoadIn, NoSwap
  <2>1. MemoryType'
    <3>1. Chunk.region \in Region
        BY <1>9, <2>0, ChunkTyped DEF LoadIn, SwapInv, SwapConsistent, ChunkType
    <3>2. buffers[swap.buffer] \in [Region -> [Block -> Content]]
        BY <2>0 DEF SwapInv, MemoryType, SwapType, SwapConsistent
    <3>3. gpu' \in [Region -> [Block -> Content]]
        BY <1>9, <3>1, <3>2 DEF LoadIn, SwapInv, MemoryType
    <3> QED BY <1>9, <3>3 DEF SwapInv, MemoryType, SwapType, LoadIn
  <2>2. (ImagesOwned /\ NothingElsewhere)'
      BY <1>9, SMTT(30) DEF SwapInv, MemoryType, SwapType, LoadIn, ImagesOwned, NothingElsewhere
  <2>3. SwapConsistent'
      BY <1>9, <2>0 DEF SwapInv, MemoryType, SwapType, LoadIn, SwapConsistent, PlanDone, Chunk
  <2> QED BY <2>1, <2>2, <2>3 DEF SwapInv
<1>10. ASSUME StoreOut PROVE SwapInv'
  <2>0. swap # NoSwap
      BY <1>10 DEF StoreOut, NoSwap
  <2>1. MemoryType'
    <3>1. Chunk.region \in Region /\ swap.buffer \in Buffer
        BY <1>10, <2>0, ChunkTyped DEF StoreOut, SwapInv, SwapConsistent, ChunkType
    <3>2. \A b \in BlocksOf(Chunk) \cap Block : stage[b] \in Content
        BY <1>10, <2>0 DEF StoreOut, SwapInv, SwapConsistent
    <3>3. buffers' \in [Buffer -> [Region -> [Block -> Content]]]
        BY <1>10, <3>1, <3>2 DEF StoreOut, SwapInv, MemoryType
    <3>4. swap' \in SwapType
        BY <1>10, SwapStepType DEF StoreOut, SwapInv, MemoryType
    <3> QED BY <1>10, <3>3, <3>4 DEF SwapInv, MemoryType, SwapType, StoreOut
  <2>2. (ImagesOwned /\ NothingElsewhere)'
      BY <1>10 DEF SwapInv, MemoryType, SwapType, StoreOut, ImagesOwned, NothingElsewhere
  <2>3. SwapConsistent'
      BY <1>10, <2>0 DEF SwapInv, MemoryType, SwapType, StoreOut, SwapConsistent, PlanDone
  <2> QED BY <2>1, <2>2, <2>3 DEF SwapInv
<1>11. ASSUME FinishSwap PROVE SwapInv'
  <2>0. swap # NoSwap
      BY <1>11 DEF FinishSwap, NoSwap
  <2>1. MemoryType'
    <3>1. /\ live' \in [Bank -> SUBSET Block] /\ ranges' \in [Bank -> SUBSET Block]
          /\ image' \in [Bank -> Buffer \cup {None}] /\ free' \subseteq Buffer
        BY <1>11, <2>0 DEF SwapInv, MemoryType, SwapType, FinishSwap, Settle, SwapConsistent
    <3>2. gpuBank' \in Bank \cup {None}
        BY <1>11 DEF SwapInv, MemoryType, SwapType, FinishSwap
    <3> QED BY <1>11, <3>1, <3>2, NoSwapType DEF SwapInv, MemoryType, FinishSwap
  <2>2. (ImagesOwned /\ NothingElsewhere)'
      BY <1>11, <2>0 DEF SwapInv, MemoryType, FinishSwap, Settle, ImagesOwned, NothingElsewhere,
                         SwapConsistent, NoSwap
  <2>3. SwapConsistent'
      BY <1>11 DEF FinishSwap, SwapConsistent
  <2> QED BY <2>1, <2>2, <2>3 DEF SwapInv
<1>12. CASE UNCHANGED vars
  <2>1. MemoryType' /\ ImagesOwned' /\ NothingElsewhere'
      BY <1>12 DEF vars, SwapInv, MemoryType, ImagesOwned, NothingElsewhere
  <2>2. SwapConsistent'
      BY <1>12 DEF vars, SwapInv, SwapConsistent, PlanDone, Chunk
  <2> QED BY <2>1, <2>2 DEF SwapInv
<1> QED
    BY <1>1, <1>2, <1>3, <1>4, <1>5, <1>6, <1>7, <1>8, <1>9, <1>10, <1>11, <1>12 DEF Next

\* At every copy of every handover the images have buffers of their own that
\* record the bank's live blocks, and the stage mirrors its chunk between the first
\* and the second copy of it (WorkerBanks._swap).
THEOREM SwapInvariant == Spec => []SwapInv
<1>1. Init => SwapInv
    BY SwapInit
<1>2. SwapInv /\ [Next]_vars => SwapInv'
    BY SwapNext
<1> QED BY <1>1, <1>2, PTL DEF Spec

-----------------------------------------------------------------------------
(***************************************************************************)
(* Refinement: the bytes of every live block are where Held says they are. *)
(***************************************************************************)
LEMMA SameContents ==
    ASSUME live \in [Bank -> SUBSET Block], live' = live,
           \A k \in Bank, r \in Region : \A b \in live[k] : Held(k, r, b)' = Held(k, r, b)
    PROVE  Contents' = Contents
BY DEF Contents

\* What a bank gives away or loses: nothing else changes.
LEMMA ForgottenBank ==
    ASSUME live \in [Bank -> SUBSET Block], NEW f \in Bank,
           live' = [live EXCEPT ![f] = {}],
           \A k \in Bank \ {f}, r \in Region : \A b \in live[k] :
              Held(k, r, b)' = Held(k, r, b)
    PROVE  Contents' = [Contents EXCEPT ![f] = [b \in Block |-> None]]
<1>1. \A k \in Bank \ {f}, b \in Block : Contents'[k][b] = Contents[k][b]
    BY DEF Contents
<1>2. \A b \in Block : Contents'[f][b] = None
    BY DEF Contents
<1> QED BY <1>1, <1>2 DEF Contents

\* Outside a swap a bank is on the GPU or in its own buffer.
LEMMA IdleHeld ==
    ASSUME SwapInv, Idle, NEW k \in Bank, NEW r, NEW b
    PROVE  Held(k, r, b) = IF k = gpuBank THEN gpu[r][b] ELSE buffers[image[k]][r][b]
BY IdleFacts, SwapAssumption DEF Held, Loaded

\* The block of a live cell is in exactly one chunk of the plan.
LEMMA OneChunk ==
    ASSUME SwapInv, swap # NoSwap, NEW r \in Region,
           NEW b \in live[gpuBank] \cup live[swap.target]
    PROVE  \E i \in 1..Len(swap.plan) :
              /\ Holds(i, r, b)
              /\ \A j \in 1..Len(swap.plan) : Holds(j, r, b) => j = i
BY DEF SwapInv, SwapConsistent, ExactPlan, Holds

\* The refined step of each step.
LEMMA StageOutStutters ==
    ASSUME SwapInv, StageOut
    PROVE  UNCHANGED <<Contents, gpuBank>>
<1>0. swap # NoSwap /\ ~Idle /\ ~Idle'
    BY DEF StageOut, NoSwap, Idle
<1>1. ASSUME NEW k \in Bank, NEW r \in Region, NEW b \in live[k]
      PROVE  Held(k, r, b)' = Held(k, r, b)
  <2>1. ~Loaded(r, b) /\ ~Loaded(r, b)'
      BY DEF StageOut, Loaded, SwapInv, MemoryType, SwapType
  <2>2. Pending(r, b)' = Pending(r, b)
      BY DEF StageOut, Pending, Holds, SwapInv, MemoryType, SwapType
  <2>3. swap'.target = swap.target /\ swap'.buffer = swap.buffer
      BY DEF StageOut, SwapInv, MemoryType, SwapType
  <2> QED BY <1>0, <2>1, <2>2, <2>3 DEF Held, StageOut
<1> QED BY <1>1, SameContents DEF StageOut, SwapInv, MemoryType

\* The second copy of a chunk (image to GPU) changes no bank's contents: the
\* outgoing block is in the stage by then.
LEMMA LoadInStutters ==
    ASSUME SwapInv, LoadIn
    PROVE  UNCHANGED <<Contents, gpuBank>>
<1>0. swap # NoSwap /\ ~Idle /\ ~Idle'
    BY DEF LoadIn, NoSwap, Idle, SwapInv, MemoryType, SwapType
<1>1. ~PlanDone /\ ~PlanDone'
    BY <1>0 DEF LoadIn, SwapInv, MemoryType, SwapType, SwapConsistent, PlanDone
<1>2. /\ swap'.target = swap.target /\ swap'.buffer = swap.buffer /\ swap'.at = "store"
      /\ swap'.pos = swap.pos /\ swap'.plan = swap.plan
    BY DEF LoadIn, SwapInv, MemoryType, SwapType
<1>3. Chunk \in ChunkType /\ swap.pos \in 1..Len(swap.plan)
    BY <1>0, <1>1, ChunkTyped
<1>4. ASSUME NEW k \in Bank, NEW r \in Region, NEW b \in live[k]
      PROVE  Held(k, r, b)' = Held(k, r, b)
  <2>1. ~Loaded(r, b)
      BY DEF LoadIn, Loaded
  <2>2. Pending(r, b)' = Pending(r, b)
      BY <1>2 DEF Pending, Holds
  <2>3. Loaded(r, b)' <=> Chunk.region = r /\ b \in BlocksOf(Chunk)
      BY <1>1, <1>2 DEF Loaded, Holds, Chunk
  <2>4. Loaded(r, b)' => Pending(r, b)
      BY <1>3, <2>3 DEF Pending, Holds, Chunk
  <2>5. b \in Block
      BY DEF SwapInv, MemoryType
  <2>6. CASE Loaded(r, b)'
    <3>1. stage'[b] = gpu[r][b]
        BY <1>0, <2>3, <2>6 DEF SwapInv, SwapConsistent, LoadIn
    <3>2. b \in swap.incoming => gpu'[r][b] = buffers[swap.buffer][r][b]
        BY <2>3, <2>5, <2>6 DEF LoadIn, SwapInv, MemoryType
    <3>3. k = swap.target => b \in swap.incoming
        BY <1>0 DEF SwapInv, SwapConsistent
    <3> QED BY <1>0, <1>2, <2>1, <2>2, <2>4, <2>6, <3>1, <3>2, <3>3 DEF Held, LoadIn
  <2>7. CASE ~Loaded(r, b)'
    <3>1. gpu'[r][b] = gpu[r][b]
        BY <1>3, <2>3, <2>5, <2>7 DEF LoadIn, SwapInv, MemoryType, ChunkType
    <3> QED BY <1>0, <1>2, <2>1, <2>2, <2>7, <3>1 DEF Held, LoadIn
  <2> QED BY <2>6, <2>7
<1> QED BY <1>4, SameContents DEF LoadIn, SwapInv, MemoryType

\* The third copy of a chunk (stage to image) changes no bank's contents.
LEMMA StoreOutStutters ==
    ASSUME SwapInv, StoreOut
    PROVE  UNCHANGED <<Contents, gpuBank>>
<1>0. /\ swap'.target = swap.target /\ swap'.buffer = swap.buffer /\ swap'.at = "stage"
      /\ swap.at = "store"
      /\ swap'.pos = swap.pos + 1 /\ swap'.plan = swap.plan
    BY DEF StoreOut, SwapInv, MemoryType, SwapType
<1>1. swap # NoSwap /\ ~Idle /\ ~Idle'
    BY <1>0 DEF NoSwap, Idle
<1>2. ~PlanDone
    BY <1>1 DEF StoreOut, SwapInv, SwapConsistent
<1>3. Chunk \in ChunkType /\ swap.pos \in 1..Len(swap.plan) /\ Len(swap.plan) \in Nat
    BY <1>1, <1>2, ChunkTyped DEF SwapInv, MemoryType, SwapType
<1>4. ASSUME NEW k \in Bank, NEW r \in Region, NEW b \in live[k]
      PROVE  Held(k, r, b)' = Held(k, r, b)
  <2>1. ~Loaded(r, b)'
      BY <1>0 DEF Loaded
  <2>2. Loaded(r, b) <=> Holds(swap.pos, r, b)
      BY <1>2 DEF Loaded, StoreOut
  <2>3. Pending(r, b) <=> Holds(swap.pos, r, b) \/ Pending(r, b)'
      BY <1>0, <1>3, SMTT(30) DEF Pending, Holds
  <2>4. b \in Block
      BY DEF SwapInv, MemoryType
  <2>5. Holds(swap.pos, r, b) => buffers'[swap.buffer][r][b] = stage[b]
      BY <1>1, <1>3, <2>4 DEF StoreOut, Holds, Chunk, SwapInv, MemoryType, SwapConsistent
  <2>6. ~Holds(swap.pos, r, b) => buffers'[swap.buffer][r][b] = buffers[swap.buffer][r][b]
      BY <1>1, <1>3, <2>4 DEF StoreOut, Holds, Chunk, ChunkType, SwapInv, MemoryType, SwapConsistent
  <2>7. k \in {gpuBank, swap.target} /\ Holds(swap.pos, r, b) => ~Pending(r, b)'
    <3> SUFFICES ASSUME k \in {gpuBank, swap.target}, Holds(swap.pos, r, b)
                 PROVE  ~Pending(r, b)'
        OBVIOUS
    <3>1. \A j \in 1..Len(swap.plan) : Holds(j, r, b) => j = swap.pos
        BY <1>1, <1>3, OneChunk
    <3> QED BY <1>0, <1>3, <3>1 DEF Pending, Holds
  <2>8. k \notin {gpuBank, swap.target} => buffers'[image[k]] = buffers[image[k]]
      BY <1>1, <1>3 DEF StoreOut, SwapInv, MemoryType, SwapConsistent
  <2>9. CASE k = gpuBank
      BY <1>1, <1>0, <2>1, <2>2, <2>3, <2>5, <2>6, <2>7, <2>9 DEF Held, StoreOut
  <2>10. CASE k = swap.target /\ k # gpuBank
      BY <1>1, <1>0, <2>1, <2>2, <2>3, <2>6, <2>7, <2>10 DEF Held, StoreOut
  <2>11. CASE k \notin {gpuBank, swap.target}
      BY <1>0, <2>8, <2>11 DEF Held, StoreOut
  <2> QED BY <2>9, <2>10, <2>11
<1> QED BY <1>4, SameContents DEF StoreOut, SwapInv, MemoryType

\* To begin a swap changes no bank's contents.
LEMMA StartSwapStutters ==
    ASSUME SwapInv, SwapInv', NEW t \in Bank, NEW retired \in BOOLEAN, StartSwap(t, retired)
    PROVE  UNCHANGED <<Contents, gpuBank>>
<1>0. swap' # NoSwap /\ ~Idle'
    BY DEF StartSwap, NoSwap, Idle
<1>1. /\ swap'.target = t /\ swap'.buffer = image[t] /\ swap'.at = "stage" /\ swap'.pos = 1
      /\ swap'.outgoing = live[gpuBank] /\ swap'.incoming = ranges[t]
    BY DEF StartSwap
<1>2. ranges[t] = live[t]
    BY DEF StartSwap, SwapInv, ImagesOwned
<1>3. ASSUME NEW k \in Bank, NEW r \in Region, NEW b \in live[k]
      PROVE  Held(k, r, b)' = Held(k, r, b)
  <2>1. ~Loaded(r, b)'
      BY <1>1 DEF Loaded
  <2>2. k \in {gpuBank, t} => Pending(r, b)'
    <3>1. ExactPlan(swap'.plan, swap'.outgoing \cup swap'.incoming)
        BY <1>0 DEF SwapInv, SwapConsistent
    <3> QED BY <1>1, <1>2, <3>1 DEF ExactPlan, Pending, Holds
  <2>3. Held(k, r, b) = IF k = gpuBank THEN gpu[r][b] ELSE buffers[image[k]][r][b]
      BY IdleHeld DEF StartSwap
  <2>4. k # t => image'[k] = image[k]
      BY DEF StartSwap, SwapInv, MemoryType
  <2> QED BY <1>0, <1>1, <2>1, <2>2, <2>3, <2>4 DEF Held, StartSwap
<1> QED BY <1>3, SameContents DEF StartSwap, SwapInv, MemoryType

\* The pages now in the buffer become the outgoing bank's image, or are dropped.
LEMMA FinishSwapSwitches ==
    ASSUME SwapInv, SwapInv', FinishSwap
    PROVE  Memory!Next
<1>0. swap # NoSwap /\ ~Idle /\ Idle' /\ swap' = NoSwap /\ swap'.target = None
    BY DEF FinishSwap, NoSwap, Idle
<1>1. /\ gpuBank \in Bank /\ swap.target \in Bank /\ swap.target # gpuBank
      /\ image[swap.target] = None /\ swap.buffer \in Buffer
    BY <1>0 DEF SwapInv, SwapConsistent
<1>2. PICK f \in Bank : f = gpuBank
    BY <1>1
<1>3. ASSUME NEW k \in Bank, NEW r \in Region, NEW b \in live[k], k = f => ~swap.retired
      PROVE  Held(k, r, b)' = Held(k, r, b)
  <2>1. ~Loaded(r, b) /\ ~Pending(r, b)
      BY DEF FinishSwap, Loaded, Pending, PlanDone, SwapInv, MemoryType, SwapType
  <2>2. Held(k, r, b)' = IF k = swap.target THEN gpu[r][b] ELSE buffers[image'[k]][r][b]
    <3>1. Held(k, r, b)' = IF k = gpuBank' THEN gpu'[r][b] ELSE buffers'[image'[k]][r][b]
        BY <1>0, SwapAssumption DEF Held, Loaded, NoSwap
    <3> QED BY <3>1 DEF FinishSwap
  <2>3. k = f => image'[k] = swap.buffer
      BY <1>2, <1>3 DEF FinishSwap, Settle, SwapInv, MemoryType
  <2>4. k # f => image'[k] = image[k]
      BY <1>2 DEF FinishSwap, Settle, SwapInv, MemoryType
  <2> QED BY <1>0, <1>1, <1>2, <2>1, <2>2, <2>3, <2>4 DEF Held
<1>4. CASE swap.retired
  <2>1. Contents' = [Contents EXCEPT ![gpuBank] = [b \in Block |-> None]]
    <3>1. live' = [live EXCEPT ![f] = {}]
        BY <1>2, <1>4 DEF FinishSwap, Settle
    <3> QED BY <1>2, <1>3, <3>1, ForgottenBank, ZenonT(60) DEF SwapInv, MemoryType
  <2>2. Memory!Replace(swap.target)
      BY <1>1, <2>1, SwapAssumption DEF Memory!Replace, Memory!Blank, FinishSwap
  <2> QED BY <1>1, <2>2 DEF Memory!Next
<1>5. CASE ~swap.retired
  <2>1. Contents' = Contents
    <3>1. live' = live
        BY <1>5 DEF FinishSwap, Settle
    <3> QED BY <1>3, <1>5, <3>1, SameContents DEF SwapInv, MemoryType
  <2>2. Memory!Switch(swap.target)
      BY <2>1 DEF Memory!Switch, FinishSwap
  <2> QED BY <1>1, <2>2 DEF Memory!Next
<1> QED BY <1>4, <1>5

\* The copy-out to a free buffer is one switch of the private memories.
LEMMA CopyOutSwitches ==
    ASSUME SwapInv, SwapInv', NEW t \in Bank, NEW m \in Buffer, NEW retired \in BOOLEAN,
           CopyOut(t, m, retired)
    PROVE  Memory!Next
<1>1. Idle /\ Idle' /\ gpuBank' = t /\ t # gpuBank /\ image[t] = None /\ m \in free
    BY DEF CopyOut, Idle
<1>2. PICK f \in Bank : f = gpuBank
    BY DEF CopyOut, SwapInv, MemoryType
<1>3. live[t] = {}
    BY <1>1, IdleFacts, SwapAssumption DEF SwapInv, NothingElsewhere
<1>4. ASSUME NEW k \in Bank, NEW r \in Region, NEW b \in live[k], k = f => ~retired
      PROVE  Held(k, r, b)' = Held(k, r, b)
  <2>1. Held(k, r, b) = IF k = f THEN gpu[r][b] ELSE buffers[image[k]][r][b]
      BY <1>1, <1>2, IdleHeld
  <2>2. k # t
      BY <1>3
  <2>3. Held(k, r, b)' = buffers'[image'[k]][r][b]
    <3>1. swap'.target = None /\ k # gpuBank'
        BY <1>1, <2>2 DEF Idle, NoSwap
    <3> QED BY <3>1, SwapAssumption DEF Held
  <2>4. b \in Block
      BY DEF SwapInv, MemoryType
  <2>5. CASE k = f
    <3>1. image'[k] = m
        BY <1>2, <1>4, <2>5 DEF CopyOut, Settle, SwapInv, MemoryType
    <3>2. buffers'[m][r][b] = gpu[r][b]
        BY <1>2, <2>4, <2>5 DEF CopyOut, SwapInv, MemoryType
    <3> QED BY <2>1, <2>3, <2>5, <3>1, <3>2
  <2>6. CASE k # f
    <3>1. image'[k] = image[k]
        BY <1>2, <2>6 DEF CopyOut, Settle, SwapInv, MemoryType
    <3>2. image[k] # None
        BY <1>1, <1>2, <2>6, IdleFacts, SwapAssumption DEF SwapInv, NothingElsewhere
    <3>3. image[k] # m
        BY <1>1, <3>2 DEF SwapInv, ImagesOwned
    <3>4. buffers'[image[k]] = buffers[image[k]]
        BY <3>2, <3>3 DEF CopyOut, SwapInv, MemoryType
    <3> QED BY <2>1, <2>3, <2>6, <3>1, <3>4
  <2> QED BY <2>5, <2>6
<1>5. CASE retired
  <2>1. Contents' = [Contents EXCEPT ![gpuBank] = [b \in Block |-> None]]
    <3>1. live' = [live EXCEPT ![f] = {}]
        BY <1>2, <1>5 DEF CopyOut, Settle
    <3>2. \A k \in Bank \ {f}, r \in Region : \A b \in live[k] : Held(k, r, b)' = Held(k, r, b)
        BY <1>4
    <3> QED BY <1>2, <3>1, <3>2, ForgottenBank DEF SwapInv, MemoryType
  <2>2. Memory!Replace(t)
      BY <2>1 DEF Memory!Replace, Memory!Blank, CopyOut
  <2> QED BY <2>2 DEF Memory!Next
<1>6. CASE ~retired
  <2>1. Contents' = Contents
    <3>1. live' = live
        BY <1>6 DEF CopyOut, Settle
    <3> QED BY <1>4, <1>6, <3>1, SameContents DEF SwapInv, MemoryType
  <2>2. Memory!Switch(t)
      BY <2>1 DEF Memory!Switch, CopyOut
  <2> QED BY <2>2 DEF Memory!Next
<1> QED BY <1>5, <1>6

\* The first bank of the GPU is one switch of the private memories.
LEMMA AdoptSwitches ==
    ASSUME SwapInv, SwapInv', NEW t \in Bank, Adopt(t)
    PROVE  Memory!Next
<1>1. \A k \in Bank : live[k] = {}
    BY IdleFacts, SwapAssumption DEF Adopt, SwapInv, ImagesOwned, NothingElsewhere
<1>2. Contents' = Contents
    BY <1>1, SameContents DEF Adopt, SwapInv, MemoryType
<1>3. Memory!Switch(t)
    BY <1>2 DEF Memory!Switch, Adopt
<1> QED BY <1>3 DEF Memory!Next

\* A handover that discards the outgoing bank is one step of the private memories.
LEMMA DiscardReplaces ==
    ASSUME SwapInv, SwapInv', NEW t \in Bank, Discard(t)
    PROVE  Memory!Next
<1>1. Idle /\ Idle' /\ gpuBank' = t /\ t # gpuBank
    BY DEF Discard, Idle
<1>2. PICK f \in Bank : f = gpuBank
    BY DEF Discard, SwapInv, MemoryType
<1>3. live[t] = {}
    BY IdleFacts, SwapAssumption DEF Discard, SwapInv, NothingElsewhere
<1>4. ASSUME NEW k \in Bank \ {f}, NEW r \in Region, NEW b \in live[k]
      PROVE  Held(k, r, b)' = Held(k, r, b)
  <2>1. Held(k, r, b) = buffers[image[k]][r][b]
      BY <1>1, <1>2, IdleHeld
  <2>2. k # gpuBank' /\ swap'.target = None
      BY <1>1, <1>3 DEF Idle, NoSwap
  <2> QED BY <2>1, <2>2, SwapAssumption DEF Held, Discard
<1>5. Contents' = [Contents EXCEPT ![gpuBank] = [b \in Block |-> None]]
  <2>1. live' = [live EXCEPT ![f] = {}]
      BY <1>2 DEF Discard
  <2> QED BY <1>2, <1>4, <2>1, ForgottenBank DEF SwapInv, MemoryType
<1>6. Memory!Replace(t)
    BY <1>5 DEF Memory!Replace, Memory!Blank, Discard
<1> QED BY <1>6 DEF Memory!Next

\* A retired image is one step that forgets the bank's memory.
LEMMA RetireForgets ==
    ASSUME SwapInv, SwapInv', NEW f \in Bank, Retire(f)
    PROVE  Memory!Next
<1>1. Idle /\ Idle' /\ f # gpuBank
    BY DEF Retire, Idle, SwapInv, ImagesOwned
<1>2. ASSUME NEW k \in Bank \ {f}, NEW r \in Region, NEW b \in live[k]
      PROVE  Held(k, r, b)' = Held(k, r, b)
  <2>1. image'[k] = image[k]
      BY DEF Retire, SwapInv, MemoryType
  <2>2. Held(k, r, b) = IF k = gpuBank THEN gpu[r][b] ELSE buffers[image[k]][r][b]
      BY <1>1, IdleHeld
  <2>3. ~Loaded(r, b)' /\ swap'.target = None
      BY <1>1 DEF Loaded, Idle, NoSwap
  <2> QED BY <1>1, <2>1, <2>2, <2>3, SwapAssumption DEF Held, Retire
<1>3. Contents' = [Contents EXCEPT ![f] = [b \in Block |-> None]]
    BY <1>2, ForgottenBank DEF Retire, SwapInv, MemoryType
<1>4. Memory!Retire(f)
    BY <1>1, <1>3 DEF Memory!Retire, Memory!Blank, Retire
<1> QED BY <1>4 DEF Memory!Next

\* A change of one block of one bank, cell by cell and as an update.
LEMMA OneCell ==
    ASSUME NEW G, G = [k \in Bank |-> [b \in Block |-> G[k][b]]],
           NEW H, H = [k \in Bank |-> [b \in Block |-> H[k][b]]],
           NEW f \in Bank, NEW c \in Block, NEW x,
           \A k \in Bank, b \in Block : H[k][b] = IF k = f /\ b = c THEN x ELSE G[k][b]
    PROVE  H = [G EXCEPT ![f][c] = x]
<1>1. \A k \in Bank \ {f} : H[k] = G[k]
  <2> TAKE k \in Bank \ {f}
  <2>1. H[k] = [b \in Block |-> H[k][b]] /\ G[k] = [b \in Block |-> G[k][b]]
      OBVIOUS
  <2>2. [b \in Block |-> H[k][b]] = [b \in Block |-> G[k][b]]
      OBVIOUS
  <2> QED BY <2>1, <2>2
<1>2. H[f] = [G[f] EXCEPT ![c] = x]
  <2>1. H[f] = [b \in Block |-> H[f][b]] /\ G[f] = [b \in Block |-> G[f][b]]
      OBVIOUS
  <2>2. [G[f] EXCEPT ![c] = x] = [b \in Block |-> IF b = c THEN x ELSE G[f][b]]
      BY <2>1
  <2>3. [b \in Block |-> H[f][b]] = [b \in Block |-> IF b = c THEN x ELSE G[f][b]]
      OBVIOUS
  <2> QED BY <2>1, <2>2, <2>3
<1>3. [G EXCEPT ![f][c] = x] = [k \in Bank |-> IF k = f THEN [G[f] EXCEPT ![c] = x] ELSE G[k]]
    OBVIOUS
<1>4. DOMAIN H = Bank /\ H = [k \in Bank |-> H[k]]
    OBVIOUS
<1>5. \A k \in Bank : H[k] = IF k = f THEN [G[f] EXCEPT ![c] = x] ELSE G[k]
    BY <1>1, <1>2
<1>6. [k \in Bank |-> H[k]] = [k \in Bank |-> IF k = f THEN [G[f] EXCEPT ![c] = x] ELSE G[k]]
    BY <1>5
<1> QED BY <1>3, <1>4, <1>6

\* Contents is a function of banks and blocks, before and after a step.
LEMMA ContentsShape ==
    /\ Contents = [k \in Bank |-> [b \in Block |-> Contents[k][b]]]
    /\ Contents' = [k \in Bank |-> [b \in Block |-> Contents'[k][b]]]
BY DEF Contents

\* A write by the resident bank is a write to its private memory.
LEMMA WriteWrites ==
    ASSUME SwapInv, SwapInv', NEW c \in Block, NEW v \in Value, Write(c, v)
    PROVE  Memory!Next
<1> DEFINE page == [r \in Region |-> v]
<1>1. Idle /\ Idle' /\ gpuBank' = gpuBank
    BY DEF Write, Idle
<1>2. PICK f \in Bank : f = gpuBank
    BY DEF Write, SwapInv, MemoryType
<1>3. live' = [live EXCEPT ![f] = @ \cup {c}]
    BY <1>2 DEF Write
<1>4. ASSUME NEW k \in Bank, NEW r \in Region, NEW b \in Block
      PROVE  Held(k, r, b)' = IF k = f /\ b = c THEN v ELSE Held(k, r, b)
  <2>1. Held(k, r, b) = IF k = f THEN gpu[r][b] ELSE buffers[image[k]][r][b]
      BY <1>1, <1>2, IdleHeld
  <2>2. ~Loaded(r, b)' /\ swap'.target = None
      BY <1>1 DEF Loaded, Idle, NoSwap
  <2>3. Held(k, r, b)' = IF k = f THEN gpu'[r][b] ELSE buffers[image[k]][r][b]
      BY <1>1, <1>2, <2>2, SwapAssumption DEF Held, Write
  <2>4. gpu'[r][b] = IF b = c THEN v ELSE gpu[r][b]
      BY DEF Write, SwapInv, MemoryType
  <2> QED BY <2>1, <2>3, <2>4
<1>5. ASSUME NEW k \in Bank, NEW b \in Block
      PROVE  Contents'[k][b] = IF k = f /\ b = c THEN page ELSE Contents[k][b]
  <2>1. b \in live'[k] <=> b \in live[k] \/ (k = f /\ b = c)
      BY <1>3 DEF SwapInv, MemoryType
  <2>2. [r \in Region |-> Held(k, r, b)'] =
          IF k = f /\ b = c THEN page ELSE [r \in Region |-> Held(k, r, b)]
      BY <1>4
  <2>3. Contents'[k][b] = IF b \in live'[k] THEN [r \in Region |-> Held(k, r, b)'] ELSE None
      BY DEF Contents
  <2>4. Contents[k][b] = IF b \in live[k] THEN [r \in Region |-> Held(k, r, b)] ELSE None
      BY DEF Contents
  <2> HIDE DEF page
  <2> QED BY <2>1, <2>2, <2>3, <2>4
<1>6. Contents' = [Contents EXCEPT ![f][c] = page]
  <2> HIDE DEF page
  <2> QED BY <1>5, ContentsShape, OneCell
<1>7. page \in [Region -> Value] /\ Memory!Write(c, page)
    BY <1>1, <1>2, <1>6, SwapAssumption DEF Memory!Write
<1> QED BY <1>7 DEF Memory!Next

\* A release by the resident bank is a release in its private memory.
LEMMA ReleaseReleases ==
    ASSUME SwapInv, SwapInv', NEW c \in Block, Release(c)
    PROVE  Memory!Next
<1>1. PICK f \in Bank : f = gpuBank
    BY DEF Release, SwapInv, MemoryType
<1>2. live' = [live EXCEPT ![f] = @ \ {c}]
    BY <1>1 DEF Release
<1>3. ASSUME NEW k \in Bank, NEW r \in Region, NEW b \in Block
      PROVE  Held(k, r, b)' = Held(k, r, b)
    BY DEF Release, Held, Loaded, Pending, PlanDone, Holds, Idle
<1>4. ASSUME NEW k \in Bank, NEW b \in Block
      PROVE  Contents'[k][b] = IF k = f /\ b = c THEN None ELSE Contents[k][b]
  <2>1. b \in live'[k] <=> b \in live[k] /\ ~(k = f /\ b = c)
      BY <1>2 DEF SwapInv, MemoryType
  <2>2. [r \in Region |-> Held(k, r, b)'] = [r \in Region |-> Held(k, r, b)]
      BY <1>3
  <2>3. Contents'[k][b] = IF b \in live'[k] THEN [r \in Region |-> Held(k, r, b)'] ELSE None
      BY DEF Contents
  <2>4. Contents[k][b] = IF b \in live[k] THEN [r \in Region |-> Held(k, r, b)] ELSE None
      BY DEF Contents
  <2> QED BY <2>1, <2>2, <2>3, <2>4
<1>5. Contents' = [Contents EXCEPT ![f][c] = None]
    BY <1>4, ContentsShape, OneCell
<1>6. Memory!Release(c)
    BY <1>1, <1>5, SwapAssumption DEF Memory!Release, Release
<1> QED BY <1>6 DEF Memory!Next

\* Sharing the GPU is invisible to the runner: with any number of banks, blocks,
\* storages and buffers, and any chunking that covers each block once, each step
\* of WorkerBanks.before and of the copies inside _swap is a step, or a stutter,
\* of a machine in which every bank keeps private pages.
THEOREM HandoverIsPrivateMemory == Spec => PagesSurviveHandover
<1>1. Init => Memory!Init
  <2> SUFFICES ASSUME Init PROVE Memory!Init
      OBVIOUS
  <2>1. \A k \in Bank : live[k] = {}
      BY DEF Init
  <2>2. Contents = [k \in Bank |-> [b \in Block |-> None]]
      BY <2>1 DEF Contents
  <2> QED BY <2>2 DEF Init, Memory!Init, Memory!Blank
<1>2. SwapInv /\ SwapInv' /\ [Next]_vars => [Memory!Next]_<<Contents, gpuBank>>
  <2> SUFFICES ASSUME SwapInv, SwapInv', [Next]_vars
               PROVE  Memory!Next \/ UNCHANGED <<Contents, gpuBank>>
      OBVIOUS
  <2>1. CASE \E b \in Block, v \in Value : Write(b, v)
      BY <2>1, WriteWrites
  <2>2. CASE \E b \in Block : Release(b)
      BY <2>2, ReleaseReleases
  <2>3. CASE \E k \in Bank : Retire(k) \/ Adopt(k) \/ Discard(k)
      BY <2>3, RetireForgets, AdoptSwitches, DiscardReplaces
  <2>4. CASE \E k \in Bank, retired \in BOOLEAN : StartSwap(k, retired)
      BY <2>4, StartSwapStutters
  <2>5. CASE \E k \in Bank, retired \in BOOLEAN : \E m \in Buffer : CopyOut(k, m, retired)
      BY <2>5, CopyOutSwitches
  <2>6. CASE StageOut \/ LoadIn \/ StoreOut
      BY <2>6, StageOutStutters, LoadInStutters, StoreOutStutters
  <2>7. CASE FinishSwap
      BY <2>7, FinishSwapSwitches
  <2>8. CASE UNCHANGED vars
    <3>1. \A k \in Bank, r \in Region : \A b \in live[k] : Held(k, r, b)' = Held(k, r, b)
        BY <2>8 DEF vars, Held, Loaded, Pending, PlanDone, Holds, Idle
    <3> QED BY <2>8, <3>1, SameContents DEF vars, SwapInv, MemoryType
  <2> QED BY <2>1, <2>2, <2>3, <2>4, <2>5, <2>6, <2>7, <2>8 DEF Next
<1> QED BY <1>1, <1>2, SwapInvariant, PTL DEF Spec, PagesSurviveHandover, Memory!Spec

-----------------------------------------------------------------------------
\* No path through WorkerBanks.before loses or shares a pinned buffer, however
\* the handovers, discards and retirements are interleaved.
THEOREM BuffersNeverLost == Spec => []BuffersAccounted
<1> DEFINE Used == ({image[k] : k \in Bank} \cup {swap.buffer}) \ {None}
           Whole == free \cup Used = Buffer
<1>1. Init => Whole
    BY SwapAssumption DEF Init, NoSwap
<1>2. SwapInv /\ SwapInv' /\ Whole /\ [Next]_vars => Whole'
  <2> SUFFICES ASSUME SwapInv, SwapInv', Whole, [Next]_vars PROVE Whole'
      OBVIOUS
  <2> USE SwapAssumption
  <2>1. ASSUME NEW k \in Bank, Retire(k) PROVE Whole'
      BY <2>1 DEF Retire, SwapInv, MemoryType, Idle, NoSwap
  <2>2. ASSUME NEW k \in Bank, NEW retired \in BOOLEAN, StartSwap(k, retired) PROVE Whole'
      BY <2>2 DEF StartSwap, SwapInv, MemoryType, Idle, NoSwap
  <2>3. ASSUME NEW k \in Bank, NEW retired \in BOOLEAN, NEW m \in Buffer, CopyOut(k, m, retired)
        PROVE  Whole'
      BY <2>3 DEF CopyOut, Settle, SwapInv, MemoryType, ImagesOwned, Idle, NoSwap
  <2>4. ASSUME FinishSwap PROVE Whole'
      BY <2>4 DEF FinishSwap, Settle, SwapInv, MemoryType, ImagesOwned, SwapConsistent, NoSwap
  <2>5. ASSUME UNCHANGED <<free, image>>, swap'.buffer = swap.buffer PROVE Whole'
      BY <2>5
  <2>6. StageOut \/ LoadIn \/ StoreOut => UNCHANGED <<free, image>> /\ swap'.buffer = swap.buffer
    <3>1. ASSUME NEW s \in SwapType
          PROVE  /\ [s EXCEPT !.at = "load"].buffer = s.buffer
                 /\ [s EXCEPT !.at = "store"].buffer = s.buffer
                 /\ [s EXCEPT !.at = "stage", !.pos = @ + 1].buffer = s.buffer
        BY DEF SwapType
    <3> QED BY <3>1 DEF StageOut, LoadIn, StoreOut, SwapInv, MemoryType
  <2>7. (\E b \in Block, v \in Value : Write(b, v)) => UNCHANGED <<free, image, swap>>
      BY DEF Write
  <2>8. (\E b \in Block : Release(b)) => UNCHANGED <<free, image, swap>>
      BY DEF Release
  <2>9. (\E k \in Bank : Adopt(k) \/ Discard(k)) => UNCHANGED <<free, image, swap>>
      BY DEF Adopt, Discard
  <2> HIDE DEF Whole
  <2> QED BY <2>1, <2>2, <2>3, <2>4, <2>5, <2>6, <2>7, <2>8, <2>9 DEF Next, vars
<1>3. SwapInv /\ Whole => BuffersAccounted
    BY SwapAssumption DEF SwapInv, MemoryType, SwapType, ImagesOwned, SwapConsistent, NoSwap,
                          BuffersAccounted
<1> QED BY <1>1, <1>2, <1>3, SwapInvariant, PTL DEF Spec

(***************************************************************************)
(* The plan: what spans and the loops of _swap compute.  The recursions of *)
(* Spans and FlattenSeq are reasoned about by a least counterexample.      *)
(***************************************************************************)
CONSTANTS NumBlocks, StageBlocks, BlockSets

INSTANCE BlockSpans

\* A nonempty set of naturals has a least element.
LEMMA LeastIn ==
    ASSUME NEW S \in SUBSET Nat, S # {}
    PROVE  \E x \in S : \A y \in S : x <= y
<1>1. IsWellFoundedOn(OpToRel(<, Nat), Nat)
    BY NatLessThanWellFounded
<1>2. PICK x \in S : \A y \in S : ~(<<y, x>> \in OpToRel(<, Nat))
    BY <1>1, WFMin
<1>3. \A y \in S : ~(<<y, x>> \in {ss \in Nat \X Nat : ss[1] < ss[2]})
    BY <1>2 DEF OpToRel
<1>4. \A y \in S : x <= y
  <2> TAKE y \in S
  <2>1. ~(y < x)
      BY <1>3
  <2> QED BY <2>1
<1> QED BY <1>4

\* f solves a recursion up to n.
Solves(f, first, step, n) == f[0] = first /\ \A k \in 1..n : f[k] = step[k][f[k - 1]]

\* A recursion along the first N naturals has a solution.
LEMMA Recursion ==
    ASSUME NEW N \in Nat, NEW T, NEW first \in T, NEW step \in [1..N -> [T -> T]]
    PROVE  \E f \in [0..N -> T] : Solves(f, first, step, N)
<1> DEFINE Bad == {k \in 0..N : ~ \E f \in [0..k -> T] : Solves(f, first, step, k)}
<1>1. \E f \in [0..0 -> T] : Solves(f, first, step, 0)
  <2>1. [n \in 0..0 |-> first] \in [0..0 -> T] /\ Solves([n \in 0..0 |-> first], first, step, 0)
      BY DEF Solves
  <2> QED BY <2>1
<1>2. ASSUME NEW k \in 1..N, \E f \in [0..(k - 1) -> T] : Solves(f, first, step, k - 1)
      PROVE  \E f \in [0..k -> T] : Solves(f, first, step, k)
  <2>1. PICK f \in [0..(k - 1) -> T] : Solves(f, first, step, k - 1)
      BY <1>2
  <2> DEFINE g == [n \in 0..k |-> IF n = k THEN step[k][f[k - 1]] ELSE f[n]]
  <2>2. f[k - 1] \in T /\ step[k] \in [T -> T]
      OBVIOUS
  <2>3. g \in [0..k -> T]
      BY <2>2
  <2>4. g[0] = first /\ g[k] = step[k][f[k - 1]] /\ \A n \in 0..(k - 1) : g[n] = f[n]
      BY <2>1 DEF Solves
  <2>5. \A n \in 1..k : g[n] = step[n][g[n - 1]]
    <3> HIDE DEF g
    <3> QED BY <2>1, <2>4 DEF Solves
  <2> HIDE DEF g
  <2> QED BY <2>3, <2>4, <2>5 DEF Solves
<1>3. Bad = {}
  <2> SUFFICES ASSUME Bad # {} PROVE FALSE
      OBVIOUS
  <2>1. Bad \in SUBSET Nat
      OBVIOUS
  <2>2. PICK k \in Bad : \A j \in Bad : k <= j
    <3> HIDE DEF Bad
    <3> QED BY <2>1, LeastIn
  <2>3. k \in 0..N /\ ~ \E f \in [0..k -> T] : Solves(f, first, step, k)
      OBVIOUS
  <2>4. k # 0
      BY <1>1, <2>3
  <2>5. k - 1 \in 0..N /\ k - 1 \notin Bad /\ k \in 1..N
    <3> HIDE DEF Bad
    <3> QED BY <2>2, <2>3, <2>4
  <2>6. \E f \in [0..(k - 1) -> T] : Solves(f, first, step, k - 1)
      BY <2>5
  <2> QED BY <1>2, <2>3, <2>5, <2>6
<1> QED BY <1>3

(***************************************************************************)
(* Spans.                                                                  *)
(***************************************************************************)
\* What the loop of spans does with one block.
Extended(result, block, blocks) ==
    IF block \notin blocks THEN result
    ELSE IF result # << >> /\ Last(result)[2] = block
         THEN Append(Front(result), <<Last(result)[1], block + 1>>)
         ELSE Append(result, <<block, block + 1>>)

Pairs == Nat \X Nat

\* x are ranges of blocks in their order, that hold the blocks below n.
AreSpans(x, n, blocks) ==
    /\ x \in Seq(Pairs)
    /\ \A i \in 1..Len(x) : x[i][1] < x[i][2] /\ x[i][2] <= n
    /\ \A i, j \in 1..Len(x) : i < j => x[i][2] <= x[j][1]
    /\ \A b \in Nat : b \in blocks /\ b < n <=>
         \E i \in 1..Len(x) : x[i][1] <= b /\ b < x[i][2]

\* A list is its front and its last element.
LEMMA FrontLast ==
    ASSUME NEW T, NEW x \in Seq(T), x # << >>
    PROVE  /\ Len(x) \in Nat \ {0} /\ Last(x) = x[Len(x)] /\ Last(x) \in T
           /\ Front(x) \in Seq(T) /\ Len(Front(x)) = Len(x) - 1
           /\ \A i \in 1..(Len(x) - 1) : Front(x)[i] = x[i]
<1> DEFINE n == Len(x)
           f == Front(x)
<1>1. n \in Nat \ {0} /\ DOMAIN x = 1..n /\ \A i \in 1..n : x[i] \in T
    OBVIOUS
<1>2. f = SubSeq(x, 1, n - 1)
    BY DEF Front
<1>3. f \in Seq(T) /\ Len(f) = n - 1 /\ \A i \in 1..(n - 1) : f[i] = x[i]
    BY <1>1, <1>2
<1>4. Last(x) = x[n] /\ x[n] \in T
    BY <1>1 DEF Last
<1> QED BY <1>1, <1>3, <1>4

\* What Append does.
LEMMA Appended ==
    ASSUME NEW T, NEW x \in Seq(T), NEW e \in T
    PROVE  /\ Append(x, e) \in Seq(T) /\ Len(x) \in Nat /\ Len(Append(x, e)) = Len(x) + 1
           /\ Append(x, e)[Len(x) + 1] = e
           /\ \A i \in 1..Len(x) : Append(x, e)[i] = x[i]
OBVIOUS

\* A block that continues the last range extends it.
LEMMA RangeContinued ==
    ASSUME NEW n \in Nat, NEW blocks, NEW x, AreSpans(x, n, blocks),
           x # << >>, Last(x)[2] = n, n \in blocks
    PROVE  AreSpans(Append(Front(x), <<Last(x)[1], n + 1>>), n + 1, blocks)
<1> DEFINE e == <<Last(x)[1], n + 1>>
           y == Append(Front(x), e)
           k == Len(x)
<1>1. /\ x \in Seq(Pairs)
      /\ \A i \in 1..k : x[i][1] < x[i][2] /\ x[i][2] <= n
      /\ \A i, j \in 1..k : i < j => x[i][2] <= x[j][1]
      /\ \A b \in Nat : b \in blocks /\ b < n <=> \E i \in 1..k : x[i][1] <= b /\ b < x[i][2]
    BY DEF AreSpans
<1>2. /\ k \in Nat \ {0} /\ Last(x) = x[k] /\ Last(x) \in Pairs
      /\ Front(x) \in Seq(Pairs) /\ Len(Front(x)) = k - 1
      /\ \A i \in 1..(k - 1) : Front(x)[i] = x[i]
    BY <1>1, FrontLast
<1>3. e \in Pairs /\ e[1] = x[k][1] /\ e[2] = n + 1
    BY <1>2 DEF Pairs
<1>4. \A i \in 1..k : x[i] \in Pairs /\ x[i][1] \in Nat /\ x[i][2] \in Nat
    BY <1>1 DEF Pairs
<1> HIDE DEF e
<1>5. /\ y \in Seq(Pairs) /\ Len(y) = k /\ y[k] = e
      /\ \A i \in 1..(k - 1) : y[i] = x[i]
  <2>1. /\ y \in Seq(Pairs) /\ Len(y) = Len(Front(x)) + 1 /\ y[Len(Front(x)) + 1] = e
        /\ \A i \in 1..Len(Front(x)) : y[i] = Front(x)[i]
      BY <1>2, <1>3, Appended
  <2> HIDE DEF y
  <2> QED BY <1>2, <2>1
<1> HIDE DEF y
<1>6. /\ \A i \in 1..k : y[i][1] = x[i][1]
      /\ \A i \in 1..(k - 1) : y[i][2] = x[i][2]
      /\ y[k][2] = n + 1 /\ x[k][2] = n /\ k \in 1..k
    BY <1>2, <1>3, <1>5
<1> HIDE DEF k
<1>7. \A i \in 1..k : y[i][1] < y[i][2] /\ y[i][2] <= n + 1
  <2> TAKE i \in 1..k
  <2>1. i = k \/ i \in 1..(k - 1)
      BY <1>2
  <2>2. x[i][1] < x[i][2] /\ x[i][2] <= n /\ x[i][1] \in Nat /\ x[i][2] \in Nat
      BY <1>1, <1>4
  <2> QED BY <1>6, <2>1, <2>2, SMTT(30)
<1>8. \A i, j \in 1..k : i < j => y[i][2] <= y[j][1]
  <2> TAKE i, j \in 1..k
  <2> HAVE i < j
  <2>1. i \in 1..(k - 1) /\ x[i][2] <= x[j][1]
      BY <1>1, <1>2
  <2> QED BY <1>6, <2>1
<1>9. ASSUME NEW b \in Nat
      PROVE  b \in blocks /\ b < n + 1 <=> \E i \in 1..k : y[i][1] <= b /\ b < y[i][2]
  <2>1. CASE b = n
    <3>1. y[k][1] <= b /\ b < y[k][2]
        BY <1>1, <1>4, <1>6, <2>1
    <3> QED BY <1>6, <2>1, <3>1
  <2>2. CASE b # n
    <3>1. b < n + 1 <=> b < n
        BY <2>2
    <3>2. \A i \in 1..k : (y[i][1] <= b /\ b < y[i][2]) <=> (x[i][1] <= b /\ b < x[i][2])
      <4> TAKE i \in 1..k
      <4>1. i = k \/ i \in 1..(k - 1)
          BY <1>2
      <4>2. CASE i = k
          BY <1>6, <2>2, <4>2, SMTT(30)
      <4>3. CASE i \in 1..(k - 1)
          BY <1>6, <4>3
      <4> QED BY <4>1, <4>2, <4>3
    <3> QED BY <1>1, <3>1, <3>2
  <2> QED BY <2>1, <2>2
<1> QED BY <1>5, <1>7, <1>8, <1>9 DEF AreSpans, y, e, k

\* A block that does not begins a range of its own.
LEMMA RangeBegun ==
    ASSUME NEW n \in Nat, NEW blocks, NEW x, AreSpans(x, n, blocks), n \in blocks
    PROVE  AreSpans(Append(x, <<n, n + 1>>), n + 1, blocks)
<1> DEFINE e == <<n, n + 1>>
           y == Append(x, e)
           k == Len(x)
<1>1. /\ x \in Seq(Pairs)
      /\ \A i \in 1..k : x[i][1] < x[i][2] /\ x[i][2] <= n
      /\ \A i, j \in 1..k : i < j => x[i][2] <= x[j][1]
      /\ \A b \in Nat : b \in blocks /\ b < n <=> \E i \in 1..k : x[i][1] <= b /\ b < x[i][2]
    BY DEF AreSpans
<1>2. e \in Pairs /\ e[1] = n /\ e[2] = n + 1
    BY DEF Pairs
<1>3. k \in Nat /\ \A i \in 1..k : x[i] \in Pairs /\ x[i][1] \in Nat /\ x[i][2] \in Nat
    BY <1>1 DEF Pairs
<1> HIDE DEF e
<1>4. /\ y \in Seq(Pairs) /\ Len(y) = k + 1 /\ y[k + 1] = e
      /\ \A i \in 1..k : y[i] = x[i]
    BY <1>1, <1>2, Appended
<1> HIDE DEF y, k
<1>5. \A i \in 1..(k + 1) : y[i][1] < y[i][2] /\ y[i][2] <= n + 1
  <2> TAKE i \in 1..(k + 1)
  <2>1. i = k + 1 \/ i \in 1..k
      BY <1>3
  <2> QED BY <1>1, <1>2, <1>3, <1>4, <2>1
<1>6. \A i, j \in 1..(k + 1) : i < j => y[i][2] <= y[j][1]
  <2> TAKE i, j \in 1..(k + 1)
  <2> HAVE i < j
  <2>1. i \in 1..k /\ (j = k + 1 \/ j \in 1..k)
      BY <1>3
  <2> QED BY <1>1, <1>2, <1>3, <1>4, <2>1
<1>7. ASSUME NEW b \in Nat
      PROVE  b \in blocks /\ b < n + 1 <=> \E i \in 1..(k + 1) : y[i][1] <= b /\ b < y[i][2]
  <2>1. CASE b = n
    <3>1. k + 1 \in 1..(k + 1) /\ y[k + 1][1] <= b /\ b < y[k + 1][2]
        BY <1>2, <1>3, <1>4, <2>1
    <3> QED BY <2>1, <3>1
  <2>2. CASE b # n
    <3>1. b < n + 1 <=> b < n
        BY <2>2
    <3>2. \A i \in 1..k : (y[i][1] <= b /\ b < y[i][2]) <=> (x[i][1] <= b /\ b < x[i][2])
        BY <1>4
    <3>3. ~(y[k + 1][1] <= b /\ b < y[k + 1][2])
        BY <1>2, <1>4, <2>2
    <3>4. \A i \in 1..(k + 1) : i = k + 1 \/ i \in 1..k
        BY <1>3
    <3>5. \A i \in 1..k : i \in 1..(k + 1)
        BY <1>3
    <3> QED BY <1>1, <3>1, <3>2, <3>3, <3>4, <3>5
  <2> QED BY <2>1, <2>2
<1> QED BY <1>4, <1>5, <1>6, <1>7 DEF AreSpans, y, e, k

\* The values of the recursive function inside Spans.
SpansUpTo(blocks) ==
    CHOOSE upTo : upTo = [n \in 0..NumBlocks |->
        IF n = 0 THEN << >> ELSE Extended(upTo[n - 1], n - 1, blocks)]

\* Extended keeps lists of ranges lists of ranges.
LEMMA ExtendedTyped ==
    ASSUME NEW x \in Seq(Pairs), NEW n \in Nat, NEW blocks
    PROVE  Extended(x, n, blocks) \in Seq(Pairs)
<1>1. CASE n \notin blocks
    BY <1>1 DEF Extended
<1>2. CASE n \in blocks /\ x # << >> /\ Last(x)[2] = n
  <2>1. Front(x) \in Seq(Pairs) /\ Last(x) \in Pairs
      BY <1>2, FrontLast
  <2>2. <<Last(x)[1], n + 1>> \in Pairs
      BY <2>1 DEF Pairs
  <2>3. Append(Front(x), <<Last(x)[1], n + 1>>) \in Seq(Pairs)
      BY <2>1, <2>2, Appended
  <2> QED BY <1>2, <2>3 DEF Extended
<1>3. CASE n \in blocks /\ ~(x # << >> /\ Last(x)[2] = n)
  <2>1. <<n, n + 1>> \in Pairs
      BY DEF Pairs
  <2>2. Append(x, <<n, n + 1>>) \in Seq(Pairs)
      BY <2>1, Appended
  <2> QED BY <1>3, <2>2 DEF Extended
<1> QED BY <1>1, <1>2, <1>3

\* The recursion inside Spans has a solution.
LEMMA SpansRecursion ==
    ASSUME NumBlocks \in Nat, NEW blocks
    PROVE  /\ Spans(blocks) = SpansUpTo(blocks)[NumBlocks]
           /\ SpansUpTo(blocks)[0] = << >>
           /\ \A n \in 1..NumBlocks :
                SpansUpTo(blocks)[n] = Extended(SpansUpTo(blocks)[n - 1], n - 1, blocks)
<1> DEFINE step == [n \in 1..NumBlocks |-> [x \in Seq(Pairs) |-> Extended(x, n - 1, blocks)]]
           F(g) == [n \in 0..NumBlocks |->
                      IF n = 0 THEN << >> ELSE Extended(g[n - 1], n - 1, blocks)]
<1>1. step \in [1..NumBlocks -> [Seq(Pairs) -> Seq(Pairs)]]
    BY ExtendedTyped
<1>2. << >> \in Seq(Pairs)
    OBVIOUS
<1>3. PICK f \in [0..NumBlocks -> Seq(Pairs)] :
        f[0] = << >> /\ \A n \in 1..NumBlocks : f[n] = step[n][f[n - 1]]
  <2>1. \E f \in [0..NumBlocks -> Seq(Pairs)] : Solves(f, << >>, step, NumBlocks)
    <3> HIDE DEF step
    <3> QED BY <1>1, <1>2, Recursion
  <2> HIDE DEF step
  <2> QED BY <2>1 DEF Solves
<1>4. \A n \in 1..NumBlocks : f[n] = Extended(f[n - 1], n - 1, blocks)
  <2> TAKE n \in 1..NumBlocks
  <2>1. f[n - 1] \in Seq(Pairs)
      OBVIOUS
  <2> QED BY <1>3, <2>1
<1>5. f = F(f)
  <2>1. \A n \in 0..NumBlocks : n = 0 \/ n \in 1..NumBlocks
      OBVIOUS
  <2>2. \A n \in 0..NumBlocks : f[n] = F(f)[n]
      BY <1>3, <1>4, <2>1
  <2> QED BY <2>2
<1>6. SpansUpTo(blocks) = CHOOSE g : g = F(g)
    BY DEF SpansUpTo
<1>7. SpansUpTo(blocks) = F(SpansUpTo(blocks))
  <2> HIDE DEF F
  <2> QED BY <1>5, <1>6
<1>8. Spans(blocks) = SpansUpTo(blocks)[NumBlocks]
    BY DEF Spans, SpansUpTo, Extended
<1> QED
  <2> DEFINE u == SpansUpTo(blocks)
  <2>1. u = F(u)
      BY <1>7
  <2> HIDE DEF u
  <2>2. u[0] = << >> /\ \A n \in 1..NumBlocks : u[n] = Extended(u[n - 1], n - 1, blocks)
      BY <2>1
  <2> QED BY <1>8, <2>2 DEF u

\* spans(blocks) are ranges in their order that hold exactly the blocks.
LEMMA SpansHoldBlocks ==
    ASSUME NumBlocks \in Nat, NEW blocks
    PROVE  AreSpans(Spans(blocks), NumBlocks, blocks)
<1> DEFINE u == SpansUpTo(blocks)
           Bad == {n \in 0..NumBlocks : ~AreSpans(u[n], n, blocks)}
<1>1. /\ Spans(blocks) = u[NumBlocks] /\ u[0] = << >>
      /\ \A n \in 1..NumBlocks : u[n] = Extended(u[n - 1], n - 1, blocks)
    BY SpansRecursion
<1> HIDE DEF u
<1>2. AreSpans(u[0], 0, blocks)
  <2>1. u[0] \in Seq(Pairs) /\ Len(u[0]) = 0
      BY <1>1
  <2> QED BY <2>1 DEF AreSpans
<1>3. ASSUME NEW n \in Nat, NEW x, AreSpans(x, n, blocks)
      PROVE  AreSpans(Extended(x, n, blocks), n + 1, blocks)
  <2>1. CASE n \notin blocks
    <3>1. Extended(x, n, blocks) = x
        BY <2>1 DEF Extended
    <3>2. \A b \in Nat : b \in blocks /\ b < n + 1 <=> b \in blocks /\ b < n
        BY <2>1
    <3>3. \A i \in 1..Len(x) : x[i][1] < x[i][2] /\ x[i][2] <= n /\ x[i][2] \in Nat
        BY <1>3 DEF AreSpans, Pairs
    <3>4. \A i \in 1..Len(x) : x[i][2] <= n + 1
        BY <3>3
    <3>5. \A b \in Nat : b \in blocks /\ b < n + 1 <=>
             \E i \in 1..Len(x) : x[i][1] <= b /\ b < x[i][2]
        BY <1>3, <3>2 DEF AreSpans
    <3> QED BY <1>3, <3>1, <3>3, <3>4, <3>5 DEF AreSpans
  <2>2. CASE n \in blocks /\ x # << >> /\ Last(x)[2] = n
    <3>1. Extended(x, n, blocks) = Append(Front(x), <<Last(x)[1], n + 1>>)
        BY <2>2 DEF Extended
    <3> QED BY <1>3, <2>2, <3>1, RangeContinued
  <2>3. CASE n \in blocks /\ ~(x # << >> /\ Last(x)[2] = n)
    <3>1. Extended(x, n, blocks) = Append(x, <<n, n + 1>>)
        BY <2>3 DEF Extended
    <3> QED BY <1>3, <2>3, <3>1, RangeBegun
  <2> QED BY <2>1, <2>2, <2>3
<1>4. Bad = {}
  <2> SUFFICES ASSUME Bad # {} PROVE FALSE
      OBVIOUS
  <2>1. Bad \in SUBSET Nat
      OBVIOUS
  <2>2. PICK k \in Bad : \A j \in Bad : k <= j
    <3> HIDE DEF Bad
    <3> QED BY <2>1, LeastIn
  <2>3. k \in 0..NumBlocks /\ ~AreSpans(u[k], k, blocks)
      OBVIOUS
  <2>4. k # 0
      BY <1>2, <2>3
  <2>5. k - 1 \in 0..NumBlocks /\ k - 1 \notin Bad /\ k \in 1..NumBlocks /\ k - 1 \in Nat
    <3> HIDE DEF Bad
    <3> QED BY <2>2, <2>3, <2>4
  <2>6. AreSpans(u[k - 1], k - 1, blocks)
      BY <2>5
  <2>7. AreSpans(Extended(u[k - 1], k - 1, blocks), (k - 1) + 1, blocks)
      BY <1>3, <2>5, <2>6
  <2>8. (k - 1) + 1 = k /\ u[k] = Extended(u[k - 1], k - 1, blocks)
      BY <1>1, <2>5
  <2> QED BY <2>3, <2>7, <2>8
<1> QED BY <1>1, <1>4

(***************************************************************************)
(* Chunks.                                                                 *)
(***************************************************************************)
\* Tiles, cell by cell.
Tiled(c, S) ==
    /\ c \in Seq(ChunkType)
    /\ \A x : x \in S <=> \E i \in 1..Len(c) : x \in Cells(c[i])
    /\ \A i, j \in 1..Len(c) : \A x \in Cells(c[i]) : x \in Cells(c[j]) => i = j
    /\ \A i \in 1..Len(c) : c[i].end - c[i].begin \in 1..StageBlocks[c[i].region]

\* What division rounds down to.
LEMMA Quotient ==
    ASSUME NEW p \in Nat, NEW q \in Nat \ {0}
    PROVE  p \div q \in Nat /\ (p \div q) * q <= p /\ p < (p \div q) * q + q
OBVIOUS

\* Steps of size q do not overlap.
LEMMA Steps ==
    ASSUME NEW i \in Int, NEW j \in Int, i < j, NEW q \in Nat \ {0}
    PROVE  i * q \in Int /\ j * q \in Int /\ i * q + q <= j * q
OBVIOUS

\* Two lists of chunks in a row tile what either tiles.
LEMMA TiledInARow ==
    ASSUME NEW c, NEW S, NEW d, NEW T, Tiled(c, S), Tiled(d, T),
           \A x : ~(x \in S /\ x \in T)
    PROVE  Tiled(c \o d, S \cup T)
<1> DEFINE m == Len(c)
           k == Len(d)
           e == c \o d
<1>1. /\ c \in Seq(ChunkType) /\ d \in Seq(ChunkType) /\ m \in Nat /\ k \in Nat
      /\ \A x : x \in S <=> \E i \in 1..m : x \in Cells(c[i])
      /\ \A x : x \in T <=> \E i \in 1..k : x \in Cells(d[i])
      /\ \A i, j \in 1..m : \A x \in Cells(c[i]) : x \in Cells(c[j]) => i = j
      /\ \A i, j \in 1..k : \A x \in Cells(d[i]) : x \in Cells(d[j]) => i = j
      /\ \A i \in 1..m : c[i].end - c[i].begin \in 1..StageBlocks[c[i].region]
      /\ \A i \in 1..k : d[i].end - d[i].begin \in 1..StageBlocks[d[i].region]
    BY DEF Tiled
<1>2. /\ e \in Seq(ChunkType) /\ Len(e) = m + k
      /\ \A i \in 1..m : e[i] = c[i]
      /\ \A i \in 1..k : e[m + i] = d[i]
    BY <1>1
<1> HIDE DEF m, k, e
<1>3. \A i \in 1..(m + k) : i \in 1..m \/ (i - m \in 1..k /\ i = m + (i - m))
    BY <1>1
<1>4. (\A i \in 1..m : i \in 1..(m + k)) /\ (\A i \in 1..k : m + i \in 1..(m + k))
    BY <1>1
<1>5. \A i \in 1..(m + k) :
        \/ i \in 1..m /\ e[i] = c[i]
        \/ i - m \in 1..k /\ e[i] = d[i - m]
  <2> TAKE i \in 1..(m + k)
  <2>1. CASE i \in 1..m
      BY <1>2, <2>1
  <2>2. CASE i - m \in 1..k /\ i = m + (i - m)
      BY <1>2, <2>2
  <2> QED BY <1>3, <2>1, <2>2
<1>6. \A x : x \in S \cup T <=> \E i \in 1..(m + k) : x \in Cells(e[i])
  <2> TAKE x
  <2>1. ASSUME x \in S \cup T PROVE \E i \in 1..(m + k) : x \in Cells(e[i])
    <3>1. CASE x \in S
      <4>1. PICK i \in 1..m : x \in Cells(c[i])
          BY <1>1, <3>1
      <4> QED BY <1>2, <1>4, <4>1
    <3>2. CASE x \in T
      <4>1. PICK i \in 1..k : x \in Cells(d[i])
          BY <1>1, <3>2
      <4>2. m + i \in 1..(m + k) /\ e[m + i] = d[i]
          BY <1>2, <1>4
      <4> QED BY <4>1, <4>2
    <3> QED BY <2>1, <3>1, <3>2
  <2>2. ASSUME NEW i \in 1..(m + k), x \in Cells(e[i]) PROVE x \in S \cup T
    <3>1. CASE i \in 1..m /\ e[i] = c[i]
        BY <1>1, <2>2, <3>1
    <3>2. CASE i - m \in 1..k /\ e[i] = d[i - m]
        BY <1>1, <2>2, <3>2
    <3> QED BY <1>5, <3>1, <3>2
  <2> QED BY <2>1, <2>2
<1>7. ASSUME NEW i \in 1..(m + k), NEW j \in 1..(m + k), NEW x \in Cells(e[i]), x \in Cells(e[j])
      PROVE  i = j
  <2>1. CASE i \in 1..m /\ e[i] = c[i] /\ j \in 1..m /\ e[j] = c[j]
      BY <1>1, <1>7, <2>1
  <2>2. CASE i - m \in 1..k /\ e[i] = d[i - m] /\ j - m \in 1..k /\ e[j] = d[j - m]
    <3>1. i - m = j - m
        BY <1>1, <1>7, <2>2
    <3> QED BY <1>1, <3>1
  <2>3. CASE i \in 1..m /\ e[i] = c[i] /\ j - m \in 1..k /\ e[j] = d[j - m]
    <3>1. x \in S /\ x \in T
        BY <1>1, <1>7, <2>3
    <3> QED BY <3>1
  <2>4. CASE i - m \in 1..k /\ e[i] = d[i - m] /\ j \in 1..m /\ e[j] = c[j]
    <3>1. x \in S /\ x \in T
        BY <1>1, <1>7, <2>4
    <3> QED BY <3>1
  <2> QED BY <1>5, <2>1, <2>2, <2>3, <2>4
<1>8. \A i \in 1..(m + k) : e[i].end - e[i].begin \in 1..StageBlocks[e[i].region]
  <2> TAKE i \in 1..(m + k)
  <2>1. CASE i \in 1..m /\ e[i] = c[i]
      BY <1>1, <2>1
  <2>2. CASE i - m \in 1..k /\ e[i] = d[i - m]
      BY <1>1, <2>2
  <2> QED BY <1>5, <2>1, <2>2
<1>9. Tiled(e, S \cup T)
    BY <1>2, <1>6, <1>7, <1>8 DEF Tiled
<1> QED BY <1>9 DEF e

\* h joins the first n lists, one after the other.
Joins(h, seqs, n) == h[1] = seqs[1] /\ \A i \in 2..n : h[i] = h[i - 1] \o seqs[i]

\* FlattenSeq joins one list after the other.
LEMMA FlattenRecursion ==
    ASSUME NEW T, NEW n \in Nat \ {0}, NEW seqs \in [1..n -> Seq(T)]
    PROVE  \E h \in [1..n -> Seq(T)] :
             FlattenSeq(seqs) = h[n] /\ Joins(h, seqs, n)
<1> DEFINE step == [k \in 1..n |-> [x \in Seq(T) |-> IF k = 1 THEN seqs[k] ELSE x \o seqs[k]]]
           F(h) == [i \in 1..n |-> IF i = 1 THEN seqs[i] ELSE h[i - 1] \o seqs[i]]
           flat == CHOOSE h : h = F(h)
<1>1. << >> \in Seq(T) /\ step \in [1..n -> [Seq(T) -> Seq(T)]]
    OBVIOUS
<1>2. PICK f \in [0..n -> Seq(T)] : Solves(f, << >>, step, n)
  <2> HIDE DEF step
  <2> QED BY <1>1, Recursion
<1>3. \A k \in 1..n : f[k] = IF k = 1 THEN seqs[k] ELSE f[k - 1] \o seqs[k]
  <2> TAKE k \in 1..n
  <2>1. f[k] = step[k][f[k - 1]] /\ f[k - 1] \in Seq(T)
    <3> HIDE DEF step
    <3> QED BY <1>2, SMTT(30) DEF Solves
  <2>2. \A x \in Seq(T) : step[k][x] = IF k = 1 THEN seqs[k] ELSE x \o seqs[k]
      OBVIOUS
  <2> HIDE DEF step
  <2> QED BY <2>1, <2>2
<1> DEFINE g == [i \in 1..n |-> f[i]]
<1>4. g = F(g)
  <2>1. \A i \in 1..n : g[i] = F(g)[i]
    <3> TAKE i \in 1..n
    <3>1. CASE i = 1
        BY <1>3, <3>1
    <3>2. CASE i # 1
      <4>1. i - 1 \in 1..n /\ g[i - 1] = f[i - 1] /\ g[i] = f[i]
          BY <3>2
      <4> HIDE DEF g
      <4> QED BY <1>3, <3>2, <4>1
    <3> QED BY <3>1, <3>2
  <2> QED BY <2>1
<1>5. flat = F(flat)
  <2> HIDE DEF F, g
  <2> QED BY <1>4
<1>6. FlattenSeq(seqs) = flat[n]
  <2>1. Len(seqs) = n
      OBVIOUS
  <2> QED BY <2>1 DEF FlattenSeq
<1> HIDE DEF flat
<1>7. \A i \in 1..n : flat[i] = IF i = 1 THEN seqs[i] ELSE flat[i - 1] \o seqs[i]
    BY <1>5
<1>8. DOMAIN flat = 1..n /\ flat = [i \in DOMAIN flat |-> flat[i]]
    BY <1>5
<1> HIDE DEF F
<1> DEFINE Bad == {i \in 1..n : flat[i] \notin Seq(T)}
<1>9. Bad = {}
  <2> SUFFICES ASSUME Bad # {} PROVE FALSE
      OBVIOUS
  <2>1. Bad \in SUBSET Nat
      OBVIOUS
  <2>2. PICK k \in Bad : \A j \in Bad : k <= j
    <3> HIDE DEF Bad
    <3> QED BY <2>1, LeastIn
  <2>3. k \in 1..n /\ flat[k] \notin Seq(T) /\ seqs[k] \in Seq(T)
      OBVIOUS
  <2>4. k # 1
      BY <1>7, <2>3
  <2>5. k - 1 \in 1..n /\ k - 1 \notin Bad
    <3> HIDE DEF Bad
    <3> QED BY <2>2, <2>3, <2>4
  <2>6. flat[k - 1] \in Seq(T)
      BY <2>5
  <2>7. flat[k] = flat[k - 1] \o seqs[k]
      BY <1>7, <2>3, <2>4
  <2> QED BY <2>3, <2>6, <2>7
<1>10. flat \in [1..n -> Seq(T)]
  <2>1. \A i \in 1..n : flat[i] \in Seq(T)
      BY <1>9
  <2>2. flat = [i \in 1..n |-> flat[i]]
      BY <1>8
  <2> HIDE DEF Bad
  <2> QED BY <2>1, <2>2
<1>11. flat[1] = seqs[1] /\ \A i \in 2..n : flat[i] = flat[i - 1] \o seqs[i]
  <2> HIDE DEF step, g, Bad
  <2>1. 1 \in 1..n /\ \A i \in 2..n : i \in 1..n /\ i # 1
      OBVIOUS
  <2>2. ASSUME NEW i \in 2..n PROVE flat[i] = flat[i - 1] \o seqs[i]
      BY <1>7, <2>1
  <2> QED BY <1>7, <2>1, <2>2
<1> QED BY <1>6, <1>10, <1>11 DEF Joins

\* Lists that tile sets of which no two share a cell tile their union.
LEMMA FlattenTiled ==
    ASSUME NEW n \in Nat, NEW seqs, seqs = [i \in 1..n |-> seqs[i]], NEW S,
           \A i \in 1..n : Tiled(seqs[i], S[i]),
           \A i, j \in 1..n : \A x \in S[i] : x \in S[j] => i = j
    PROVE  Tiled(FlattenSeq(seqs), UNION {S[i] : i \in 1..n})
<1>1. seqs \in [1..n -> Seq(ChunkType)]
  <2>1. \A i \in 1..n : seqs[i] \in Seq(ChunkType)
      BY DEF Tiled
  <2> QED BY <2>1
<1>2. CASE n = 0
  <2>1. seqs = << >> /\ Len(seqs) = 0
      BY <1>1, <1>2
  <2>2. FlattenSeq(seqs) = << >>
      BY <2>1 DEF FlattenSeq
  <2>3. UNION {S[i] : i \in 1..n} = {}
      BY <1>2
  <2>4. << >> \in Seq(ChunkType) /\ 1..Len(<< >>) = {}
      OBVIOUS
  <2>5. Tiled(<< >>, {})
    <3> DEFINE I == 1..Len(<< >>)
    <3>1. I = {}
        BY <2>4
    <3> HIDE DEF I
    <3>2. \A x : x \in {} <=> \E i \in I : x \in Cells(<< >>[i])
        BY <3>1
    <3>3. \A i, j \in I : \A x \in Cells(<< >>[i]) : x \in Cells(<< >>[j]) => i = j
        BY <3>1
    <3>4. \A i \in I : << >>[i].end - << >>[i].begin \in 1..StageBlocks[<< >>[i].region]
        BY <3>1
    <3> QED BY <2>4, <3>2, <3>3, <3>4 DEF Tiled, I
  <2> QED BY <2>2, <2>3, <2>5
<1>3. CASE n # 0
  <2>1. PICK h \in [1..n -> Seq(ChunkType)] :
          FlattenSeq(seqs) = h[n] /\ Joins(h, seqs, n)
    <3>1. n \in Nat \ {0}
        BY <1>3
    <3> QED BY <1>1, <3>1, FlattenRecursion
  <2> DEFINE To(k) == UNION {S[i] : i \in 1..k}
             Bad == {k \in 1..n : ~Tiled(h[k], To(k))}
  <2>2. Tiled(h[1], To(1))
    <3>1. To(1) = S[1] /\ 1 \in 1..n
        BY <1>3
    <3> QED BY <2>1, <3>1 DEF Joins
  <2>3. ASSUME NEW k \in 2..n, Tiled(h[k - 1], To(k - 1))
        PROVE  Tiled(h[k], To(k))
    <3>1. k \in 1..n /\ k \notin 1..(k - 1) /\ (\A i \in 1..(k - 1) : i \in 1..n)
          /\ \A i \in 1..k : i = k \/ i \in 1..(k - 1)
        OBVIOUS
    <3>2. To(k) = To(k - 1) \cup S[k]
      <4>1. \A x : x \in To(k) <=> \E i \in 1..k : x \in S[i]
          OBVIOUS
      <4>2. \A x : x \in To(k - 1) <=> \E i \in 1..(k - 1) : x \in S[i]
          OBVIOUS
      <4>3. (\A i \in 1..(k - 1) : i \in 1..k) /\ k \in 1..k
          OBVIOUS
      <4> HIDE DEF To
      <4> QED BY <3>1, <4>1, <4>2, <4>3
    <3>3. \A x : ~(x \in To(k - 1) /\ x \in S[k])
      <4>1. \A x \in To(k - 1) : \E i \in 1..(k - 1) : x \in S[i]
          OBVIOUS
      <4> HIDE DEF To
      <4> QED BY <3>1, <4>1
    <3>4. h[k] = h[k - 1] \o seqs[k] /\ Tiled(seqs[k], S[k])
        BY <2>1, <3>1 DEF Joins
    <3> HIDE DEF To
    <3>5. Tiled(h[k - 1] \o seqs[k], To(k - 1) \cup S[k])
        BY <2>3, <3>3, <3>4, TiledInARow
    <3> QED BY <3>2, <3>4, <3>5
  <2>4. Bad = {}
    <3> HIDE DEF To
    <3> SUFFICES ASSUME Bad # {} PROVE FALSE
        OBVIOUS
    <3>1. Bad \in SUBSET Nat
        OBVIOUS
    <3>2. PICK k \in Bad : \A j \in Bad : k <= j
      <4> HIDE DEF Bad
      <4> QED BY <3>1, LeastIn
    <3>3. k \in 1..n /\ ~Tiled(h[k], To(k))
        OBVIOUS
    <3>4. k # 1
        BY <2>2, <3>3
    <3>5. k - 1 \in 1..n /\ k - 1 \notin Bad /\ k \in 2..n
      <4> HIDE DEF Bad
      <4> QED BY <3>2, <3>3, <3>4
    <3>6. Tiled(h[k - 1], To(k - 1))
        BY <3>5
    <3> QED BY <2>3, <3>3, <3>5, <3>6
  <2>5. Tiled(h[n], To(n))
    <3>1. n \in 1..n
        BY <1>3
    <3> HIDE DEF To
    <3> QED BY <2>4, <3>1
  <2> QED BY <2>1, <2>5
<1> QED BY <1>2, <1>3

\* The loop over one range in steps of the stage tiles the range.
LEMMA ChunksOfTiled ==
    ASSUME NEW r \in Region, NEW span \in Pairs, span[1] < span[2],
           StageBlocks[r] \in Nat \ {0}
    PROVE  Tiled(ChunksOf(r, span), {r} \X (span[1]..(span[2] - 1)))
<1> DEFINE a == span[1]
           z == span[2]
           size == StageBlocks[r]
           count == (z - a + size - 1) \div size
           begin(i) == a + (i - 1) * size
           end(i) == IF begin(i) + size < z THEN begin(i) + size ELSE z
           c == [i \in 1..count |-> [region |-> r, begin |-> begin(i), end |-> end(i)]]
<1>1. ChunksOf(r, span) = c
    BY DEF ChunksOf
<1>2. a \in Nat /\ z \in Nat /\ a < z /\ size \in Nat \ {0}
    BY DEF Pairs
<1>3. /\ count \in Nat /\ count * size <= z - a + size - 1
      /\ z - a + size - 1 < count * size + size
  <2> DEFINE p == z - a + size - 1
  <2>1. p \in Nat
      BY <1>2
  <2> HIDE DEF p
  <2>2. p \div size \in Nat /\ (p \div size) * size <= p /\ p < (p \div size) * size + size
      BY <1>2, <2>1, Quotient
  <2> QED BY <2>2 DEF p
<1> HIDE DEF a, z, size, count
\* Where the chunks begin: at the first block, each a stage after the one
\* before, the last one within the range and the next one past it.
<1>4. /\ \A i \in Int : begin(i) \in Int
      /\ \A i, j \in Int : i < j => begin(i) + size <= begin(j)
      /\ begin(1) = a
      /\ \A i \in Int : begin(i + 1) = begin(i) + size
  <2>1. \A i \in Int : i - 1 \in Int /\ (i - 1) * size \in Int
      BY <1>2
  <2>2. ASSUME NEW i \in Int, NEW j \in Int, i < j PROVE begin(i) + size <= begin(j)
    <3>1. i - 1 \in Int /\ j - 1 \in Int /\ i - 1 < j - 1
        BY <2>2
    <3>2. /\ (i - 1) * size \in Int /\ (j - 1) * size \in Int
          /\ (i - 1) * size + size <= (j - 1) * size
        BY <1>2, <3>1, Steps
    <3> DEFINE x == (i - 1) * size
               y == (j - 1) * size
    <3>3. begin(i) = a + x /\ begin(j) = a + y
        OBVIOUS
    <3> HIDE DEF x, y, begin
    <3>4. x \in Int /\ y \in Int /\ x + size <= y
        BY <3>2 DEF x, y
    <3> QED BY <1>2, <3>3, <3>4
  <2>3. begin(1) = a
      BY <1>2
  <2>4. ASSUME NEW i \in Int PROVE begin(i + 1) = begin(i) + size
      BY <1>2
  <2> QED BY <1>2, <2>1, <2>2, <2>3, <2>4
<1>5. /\ \A i \in 1..count : begin(i) < z
      /\ z <= begin(count + 1)
  <2>1. begin(count + 1) = a + count * size /\ begin(count) = a + count * size - size
      BY <1>2, <1>3
  <2> DEFINE x == count * size
  <2>2. x \in Int /\ x <= z - a + size - 1 /\ z - a + size - 1 < x + size
      BY <1>2, <1>3
  <2> HIDE DEF x, begin
  <2>3. begin(count + 1) = a + x /\ begin(count) = a + x - size
      BY <2>1 DEF x
  <2>4. begin(count) < z /\ z <= begin(count + 1)
      BY <1>2, <2>2, <2>3
  <2>5. ASSUME NEW i \in 1..count, i # count PROVE begin(i) < z
    <3>1. i \in Int /\ count \in Int /\ i < count
        BY <1>3, <2>5
    <3>2. begin(i) + size <= begin(count) /\ begin(i) \in Int /\ begin(count) \in Int
        BY <1>4, <3>1
    <3> QED BY <1>2, <2>4, <3>2
  <2> QED BY <2>4, <2>5
<1> HIDE DEF begin
<1>6. \A i \in 1..count :
        /\ i \in Int /\ begin(i) \in Int /\ end(i) \in Int /\ a <= begin(i) /\ end(i) <= z
        /\ begin(i) < end(i) /\ end(i) <= begin(i) + size
  <2> TAKE i \in 1..count
  <2>1. i \in Int /\ begin(i) \in Int /\ begin(i) < z
    <3> HIDE DEF c, end
    <3>1. i \in Int
        BY <1>3
    <3>2. begin(i) \in Int
        BY <1>4, <3>1
    <3>3. begin(i) < z
        BY <1>5
    <3> QED BY <3>1, <3>2, <3>3
  <2>2. a <= begin(i)
    <3>1. CASE i = 1
        BY <1>2, <1>4, <3>1
    <3>2. CASE i # 1
      <4>1. 1 < i
          BY <1>3, <3>2
      <4>2. begin(1) + size <= begin(i)
          BY <1>4, <2>1, <4>1
      <4> QED BY <1>2, <1>4, <2>1, <4>2
    <3> QED BY <3>1, <3>2
  <2> QED BY <1>2, <2>1, <2>2
<1>7. \A i, j \in 1..count : i < j => end(i) <= begin(j)
  <2> TAKE i, j \in 1..count
  <2> HAVE i < j
  <2>1. begin(i) + size <= begin(j) /\ end(i) <= begin(i) + size
      BY <1>4, <1>6
  <2> HIDE DEF end
  <2> QED BY <1>2, <1>6, <2>1
\* Every block of the range is in the last chunk that begins before it.
<1>8. ASSUME NEW b \in Int, a <= b, b < z
      PROVE  \E i \in 1..count : begin(i) <= b /\ b < end(i)
  <2> DEFINE past == {i \in Nat : b < begin(i + 1)}
  <2>1. count \in past
    <3>1. begin(count + 1) \in Int /\ b < begin(count + 1)
        BY <1>2, <1>3, <1>4, <1>5, <1>8
    <3> QED BY <1>3, <3>1
  <2>2. PICK i \in past : \A j \in past : i <= j
    <3>1. past \in SUBSET Nat /\ past # {}
      <4> HIDE DEF past
      <4>1. past # {}
          BY <2>1
      <4>2. past \in SUBSET Nat
          BY DEF past
      <4> QED BY <4>1, <4>2
    <3> HIDE DEF past
    <3> QED BY <3>1, LeastIn
  <2>3. i \in Nat /\ b < begin(i + 1) /\ i <= count
    <3>1. i <= count
      <4> HIDE DEF past
      <4> QED BY <2>1, <2>2
    <3> QED BY <3>1
  <2>4. i # 0
    <3>1. begin(0 + 1) = a
        BY <1>4
    <3>2. ~(b < a)
        BY <1>2, <1>8
    <3> QED BY <2>3, <3>1, <3>2
  <2>5. i \in 1..count /\ i - 1 \in Nat /\ i - 1 \notin past
    <3> HIDE DEF past
    <3>1. i - 1 \in Nat /\ i \in 1..count
        BY <1>3, <2>3, <2>4
    <3>2. ~(i <= i - 1)
        BY <2>3
    <3> QED BY <2>2, <3>1, <3>2
  <2>6. begin((i - 1) + 1) <= b
    <3>1. ~(b < begin((i - 1) + 1))
        BY <2>5
    <3>2. begin((i - 1) + 1) \in Int
        BY <1>4, <2>3
    <3> QED BY <1>8, <3>1, <3>2
  <2>7. (i - 1) + 1 = i /\ begin(i + 1) = begin(i) + size
      BY <1>4, <2>3
  <2>8. begin(i) <= b /\ b < end(i)
      BY <1>8, <2>3, <2>6, <2>7
  <2> QED BY <2>5, <2>8
<1> HIDE DEF end
<1>9. /\ c \in Seq(ChunkType) /\ Len(c) = count
      /\ \A i \in 1..count : c[i].region = r /\ c[i].begin = begin(i) /\ c[i].end = end(i)
  <2>1. \A i \in 1..count : [region |-> r, begin |-> begin(i), end |-> end(i)] \in ChunkType
      BY <1>6 DEF ChunkType
  <2> QED BY <1>3, <2>1
<1> HIDE DEF c
<1>10. \A i \in 1..count : Cells(c[i]) = {r} \X (begin(i)..(end(i) - 1))
    BY <1>9 DEF Cells
<1>11. \A x : x \in {r} \X (a..(z - 1)) <=> \E i \in 1..count : x \in Cells(c[i])
  <2> TAKE x
  <2>1. ASSUME x \in {r} \X (a..(z - 1)) PROVE \E i \in 1..count : x \in Cells(c[i])
    <3>1. PICK b \in a..(z - 1) : x = <<r, b>>
        BY <2>1
    <3>2. b \in Int /\ a <= b /\ b < z
        BY <1>2
    <3>3. PICK i \in 1..count : begin(i) <= b /\ b < end(i)
        BY <1>8, <3>2
    <3>4. b \in begin(i)..(end(i) - 1)
        BY <1>6, <3>2, <3>3
    <3>5. x \in Cells(c[i])
        BY <1>10, <3>1, <3>4
    <3> QED BY <3>5
  <2>2. ASSUME NEW i \in 1..count, x \in Cells(c[i]) PROVE x \in {r} \X (a..(z - 1))
    <3>1. PICK b \in begin(i)..(end(i) - 1) : x = <<r, b>>
        BY <1>10, <2>2
    <3>2. b \in a..(z - 1)
        BY <1>2, <1>6
    <3> QED BY <3>1, <3>2
  <2> QED BY <2>1, <2>2
<1>12. ASSUME NEW i \in 1..count, NEW j \in 1..count, NEW x \in Cells(c[i]), x \in Cells(c[j])
       PROVE  i = j
  <2>1. PICK b \in begin(i)..(end(i) - 1) : x = <<r, b>>
      BY <1>10
  <2>2. PICK d \in begin(j)..(end(j) - 1) : x = <<r, d>>
      BY <1>10, <1>12
  <2>3. b = d
      BY <2>1, <2>2
  <2>4. b \in Int /\ begin(i) <= b /\ b < end(i) /\ begin(j) <= b /\ b < end(j)
      BY <1>6, <2>3
  <2>5. ~(i < j) /\ ~(j < i)
      BY <1>6, <1>7, <2>4
  <2> QED BY <1>6, <2>5
<1>13. \A i \in 1..count : c[i].end - c[i].begin \in 1..size /\ c[i].region = r
  <2> TAKE i \in 1..count
  <2>1. end(i) - begin(i) \in 1..size
      BY <1>2, <1>6
  <2> QED BY <1>9, <2>1
<1>14. \A i \in 1..count : c[i].end - c[i].begin \in 1..StageBlocks[c[i].region]
    BY <1>13 DEF size
<1>15. Tiled(c, {r} \X (a..(z - 1)))
    BY <1>9, <1>11, <1>12, <1>14 DEF Tiled
<1> QED BY <1>1, <1>15 DEF a, z

\* The chunks of a region tile its blocks.
LEMMA RegionTiled ==
    ASSUME BlockSpansAssumption, NEW blocks \in SUBSET (0..(NumBlocks - 1)), NEW r \in Region
    PROVE  Tiled(FlattenSeq([i \in DOMAIN Spans(blocks) |-> ChunksOf(r, Spans(blocks)[i])]),
                 {r} \X blocks)
<1> DEFINE spans == Spans(blocks)
           n == Len(spans)
           seqs == [i \in 1..n |-> ChunksOf(r, spans[i])]
           S == [i \in 1..n |-> {r} \X (spans[i][1]..(spans[i][2] - 1))]
<1>1. NumBlocks \in Nat /\ StageBlocks[r] \in Nat \ {0}
    BY DEF BlockSpansAssumption
<1>2. AreSpans(spans, NumBlocks, blocks)
    BY <1>1, SpansHoldBlocks
<1> HIDE DEF spans
<1>3. /\ spans \in Seq(Pairs) /\ n \in Nat /\ DOMAIN spans = 1..n
      /\ \A i \in 1..n : spans[i] \in Pairs /\ spans[i][1] < spans[i][2]
      /\ \A i, j \in 1..n : i < j => spans[i][2] <= spans[j][1]
      /\ \A b \in Nat : b \in blocks /\ b < NumBlocks <=>
           \E i \in 1..n : spans[i][1] <= b /\ b < spans[i][2]
    BY <1>2 DEF AreSpans
<1> HIDE DEF n
<1>4. \A i \in 1..n : spans[i][1] \in Nat /\ spans[i][2] \in Nat
    BY <1>3 DEF Pairs
<1>5. \A i \in 1..n : Tiled(seqs[i], S[i])
  <2> TAKE i \in 1..n
  <2>1. Tiled(ChunksOf(r, spans[i]), {r} \X (spans[i][1]..(spans[i][2] - 1)))
      BY <1>1, <1>3, ChunksOfTiled
  <2> QED BY <2>1
<1>6. \A i \in 1..n : \A x \in S[i] : \E b \in Nat :
        x = <<r, b>> /\ spans[i][1] <= b /\ b < spans[i][2]
  <2> TAKE i \in 1..n
  <2> TAKE x \in S[i]
  <2>1. PICK b \in spans[i][1]..(spans[i][2] - 1) : x = <<r, b>>
      OBVIOUS
  <2>2. b \in Nat /\ spans[i][1] <= b /\ b < spans[i][2]
      BY <1>4
  <2> QED BY <2>1, <2>2
<1>7. ASSUME NEW i \in 1..n, NEW j \in 1..n, NEW x \in S[i], x \in S[j]
      PROVE  i = j
  <2> HIDE DEF S
  <2>1. PICK b \in Nat : x = <<r, b>> /\ spans[i][1] <= b /\ b < spans[i][2]
      BY <1>6
  <2>2. PICK d \in Nat : x = <<r, d>> /\ spans[j][1] <= d /\ d < spans[j][2]
      BY <1>6, <1>7
  <2>3. b = d
      BY <2>1, <2>2
  <2>4. ~(i < j) /\ ~(j < i)
      BY <1>3, <1>4, <2>1, <2>2, <2>3
  <2> QED BY <1>3, <2>4
<1>8. UNION {S[i] : i \in 1..n} = {r} \X blocks
  <2>1. ASSUME NEW i \in 1..n, NEW x \in S[i] PROVE x \in {r} \X blocks
    <3> HIDE DEF S
    <3>1. PICK b \in Nat : x = <<r, b>> /\ spans[i][1] <= b /\ b < spans[i][2]
        BY <1>6, <2>1
    <3>2. b \in blocks
        BY <1>3, <3>1
    <3> QED BY <3>1, <3>2
  <2>2. ASSUME NEW b \in blocks PROVE \E i \in 1..n : <<r, b>> \in S[i]
    <3>1. b \in Nat /\ b < NumBlocks
        BY <1>1
    <3>2. PICK i \in 1..n : spans[i][1] <= b /\ b < spans[i][2]
        BY <1>3, <3>1
    <3>3. b \in spans[i][1]..(spans[i][2] - 1)
        BY <1>4, <3>1, <3>2
    <3> QED BY <3>3
  <2> HIDE DEF S
  <2>3. ASSUME NEW x \in {r} \X blocks PROVE \E i \in 1..n : x \in S[i]
    <3> HIDE DEF seqs
    <3>1. x[2] \in blocks /\ x = <<r, x[2]>>
        OBVIOUS
    <3> QED BY <2>2, <3>1
  <2> QED BY <2>1, <2>3
<1>9. Tiled(FlattenSeq(seqs), UNION {S[i] : i \in 1..n})
  <2>1. seqs = [i \in 1..n |-> seqs[i]] /\ n \in Nat
      BY <1>3
  <2>2. \A i, j \in 1..n : \A x \in S[i] : x \in S[j] => i = j
      BY <1>7
  <2> HIDE DEF seqs, S
  <2> QED BY <1>5, <2>1, <2>2, FlattenTiled
<1>10. seqs = [i \in DOMAIN spans |-> ChunksOf(r, spans[i])]
    BY <1>3
<1> QED BY <1>8, <1>9, <1>10 DEF spans

\* The chunks of all regions tile the blocks of all regions.
LEMMA ChunksTiled ==
    ASSUME BlockSpansAssumption, NEW blocks \in SUBSET (0..(NumBlocks - 1))
    PROVE  Tiled(Chunks(blocks), Region \X blocks)
<1> DEFINE n == Cardinality(Region)
           perRegion(r) ==
             FlattenSeq([i \in DOMAIN Spans(blocks) |-> ChunksOf(r, Spans(blocks)[i])])
           seqs == [r \in 1..n |-> perRegion(r)]
           S == [r \in 1..n |-> {r} \X blocks]
<1>1. n \in Nat /\ Region = 1..n
    BY DEF BlockSpansAssumption
<1>2. \A r \in Region : Tiled(perRegion(r), {r} \X blocks)
    BY RegionTiled
<1>3. Chunks(blocks) = FlattenSeq([r \in Region |-> perRegion(r)])
    BY DEF Chunks
<1> HIDE DEF n, perRegion
<1>4. \A r \in 1..n : Tiled(seqs[r], S[r])
    BY <1>1, <1>2
<1>5. \A i, j \in 1..n : \A x \in S[i] : x \in S[j] => i = j
    OBVIOUS
<1>6. UNION {S[r] : r \in 1..n} = Region \X blocks
  <2>1. \A x : x \in UNION {S[r] : r \in 1..n} <=> \E r \in Region : x \in {r} \X blocks
      BY <1>1
  <2>2. \A x : x \in Region \X blocks <=> \E r \in Region : x \in {r} \X blocks
      OBVIOUS
  <2> QED BY <2>1, <2>2
<1>7. seqs = [r \in 1..n |-> seqs[r]]
    OBVIOUS
<1>8. Chunks(blocks) = FlattenSeq(seqs)
    BY <1>1, <1>3
<1> HIDE DEF seqs, S
<1>9. Tiled(FlattenSeq(seqs), UNION {S[r] : r \in 1..n})
    BY <1>1, <1>4, <1>5, <1>7, FlattenTiled
<1> QED BY <1>6, <1>8, <1>9

\* _swap walks every block of every region once, in chunks that fit the stage
\* and never reach past a span, for any blocks, storages and stages: what spans
\* and the loops of _swap compute.
THEOREM ChunksTile ==
    BlockSpansAssumption /\ BlockSets \subseteq SUBSET (0..(NumBlocks - 1)) => ChunksTileTheSpans
<1> SUFFICES ASSUME BlockSpansAssumption, NEW blocks \in SUBSET (0..(NumBlocks - 1))
             PROVE  Tiles(Chunks(blocks), Region \X blocks)
    BY DEF ChunksTileTheSpans
<1> DEFINE c == Chunks(blocks)
           S == Region \X blocks
<1>1. Tiled(c, S)
    BY ChunksTiled
<1> HIDE DEF c, S
<1>2. /\ \A x : x \in S <=> \E i \in 1..Len(c) : x \in Cells(c[i])
      /\ \A i, j \in 1..Len(c) : \A x \in Cells(c[i]) : x \in Cells(c[j]) => i = j
      /\ \A i \in 1..Len(c) : c[i].end - c[i].begin \in 1..StageBlocks[c[i].region]
    BY <1>1 DEF Tiled
<1>3. S = UNION {Cells(c[i]) : i \in 1..Len(c)}
    BY <1>2
<1>4. \A i, j \in 1..Len(c) : i # j => Cells(c[i]) \cap Cells(c[j]) = {}
    BY <1>2
<1>5. Tiles(c, S)
    BY <1>2, <1>3, <1>4 DEF Tiles
<1> QED BY <1>5 DEF c, S

\* The chunks that _swap walks are a plan as BankSwap assumes it, whatever blocks
\* the two banks have: SwapAssumption holds of the code.
THEOREM SwapPlanIsExact ==
    BlockSpansAssumption =>
        \A outgoing, incoming \in SUBSET (0..(NumBlocks - 1)) :
           ExactPlan(SwapPlan(outgoing, incoming), outgoing \cup incoming)
<1> SUFFICES ASSUME BlockSpansAssumption,
                    NEW outgoing \in SUBSET (0..(NumBlocks - 1)),
                    NEW incoming \in SUBSET (0..(NumBlocks - 1))
             PROVE  ExactPlan(SwapPlan(outgoing, incoming), outgoing \cup incoming)
    OBVIOUS
<1> DEFINE blocks == outgoing \cup incoming
           c == Chunks(blocks)
<1>1. blocks \in SUBSET (0..(NumBlocks - 1)) /\ blocks \in SUBSET Int
    OBVIOUS
<1>2. SwapPlan(outgoing, incoming) = c
    BY DEF SwapPlan
<1> HIDE DEF blocks
<1>3. Tiled(c, Region \X blocks)
    BY <1>1, ChunksTiled
<1> HIDE DEF c
<1>4. /\ c \in Seq(ChunkType)
      /\ \A x : x \in Region \X blocks <=> \E i \in 1..Len(c) : x \in Cells(c[i])
      /\ \A i, j \in 1..Len(c) : \A x \in Cells(c[i]) : x \in Cells(c[j]) => i = j
    BY <1>3 DEF Tiled
<1>5. \A i \in 1..Len(c) : \A r \in Region, b \in blocks :
        <<r, b>> \in Cells(c[i]) <=> c[i].region = r /\ b \in BlocksOf(c[i])
    BY DEF Cells, BlocksOf
<1>6. ASSUME NEW r \in Region, NEW b \in blocks
      PROVE  \E i \in 1..Len(c) :
               /\ c[i].region = r /\ b \in BlocksOf(c[i])
               /\ \A j \in 1..Len(c) : c[j].region = r /\ b \in BlocksOf(c[j]) => j = i
  <2>1. PICK i \in 1..Len(c) : <<r, b>> \in Cells(c[i])
      BY <1>4
  <2>2. c[i].region = r /\ b \in BlocksOf(c[i])
      BY <1>5, <2>1
  <2>3. ASSUME NEW j \in 1..Len(c), c[j].region = r, b \in BlocksOf(c[j]) PROVE j = i
    <3>1. <<r, b>> \in Cells(c[j])
        BY <1>5, <2>3
    <3> QED BY <1>4, <2>1, <3>1
  <2> QED BY <2>2, <2>3
<1>7. ExactPlan(c, blocks)
    BY <1>4, <1>6 DEF ExactPlan, ChunkType
<1> QED BY <1>2, <1>7 DEF blocks
=============================================================================
