------------------------------ MODULE BankSwap ------------------------------
(***************************************************************************)
(* How WorkerBanks moves pages between the GPU and pinned RAM:             *)
(* _copy_to_buffer, _swap and _intersections in                            *)
(* experiments/radiance-public/radiance_fair_scheduler.py.                 *)
(*                                                                         *)
(* Two banks trade places through one RAM buffer and a small stage: for    *)
(* each chunk of blocks the outgoing GPU bytes go to the stage, the        *)
(* incoming bytes come from the buffer to the GPU, and the staged bytes    *)
(* take their place in the buffer.  Each of the three copies is a step.    *)
(*                                                                         *)
(* A region is one KV storage (tensor); its block stride decides how many  *)
(* blocks fit the stage.  A block holds one value in every region.         *)
(***************************************************************************)
EXTENDS Integers, Sequences, FiniteSets

CONSTANTS
    Bank,           \* bank keys
    None,           \* Python's None
    Block,          \* physical block numbers
    Region,         \* the KV storages
    Buffer,         \* the max_banks - 1 pinned buffers
    Value,          \* contents a forward pass can write
    Plan(_, _)      \* the chunks _swap walks for outgoing and incoming blocks

BlocksOf(chunk) == chunk.begin..(chunk.end - 1)

\* The chunks cover every block of either bank, in every region, once.
ExactPlan(plan, blocks) ==
    /\ plan \in Seq([region : Region, begin : Int, end : Int])
    /\ \A r \in Region, b \in blocks :
         \E i \in 1..Len(plan) :
            /\ plan[i].region = r /\ b \in BlocksOf(plan[i])
            /\ \A j \in 1..Len(plan) :
                 plan[j].region = r /\ b \in BlocksOf(plan[j]) => j = i

ASSUME SwapAssumption ==
    /\ None \notin Bank \cup Buffer \cup Value
    /\ \A outgoing, incoming \in SUBSET Block :
         ExactPlan(Plan(outgoing, incoming), outgoing \cup incoming)

VARIABLES
    gpu,        \* gpu[r][b]: bytes of block b in region r
    buffers,    \* buffers[m][r][b]: bytes of a pinned buffer
    stage,      \* the stage, by block of the chunk it was filled from
    live,       \* live_blocks() of each bank's allocator
    gpuBank,    \* WorkerBanks.active
    image,      \* buffer of WorkerBanks.images[k], or None
    ranges,     \* blocks of WorkerBanks.images[k]["ranges"]
    free,       \* WorkerBanks.free_buffers
    swap        \* the _swap call in progress, or NoSwap

vars == <<gpu, buffers, stage, live, gpuBank, image, ranges, free, swap>>

NoSwap == [target |-> None, buffer |-> None, incoming |-> {}, outgoing |-> {},
           retired |-> FALSE, plan |-> << >>, pos |-> 1, at |-> "idle"]

Idle == swap = NoSwap

(***************************************************************************)
(* The runner and the allocator of the GPU's bank.                         *)
(***************************************************************************)
Write(b, v) ==
    /\ Idle /\ gpuBank # None
    /\ live' = [live EXCEPT ![gpuBank] = @ \cup {b}]
    /\ gpu' = [r \in Region |-> [gpu[r] EXCEPT ![b] = v]]
    /\ UNCHANGED <<buffers, stage, gpuBank, image, ranges, free, swap>>

Release(b) ==
    /\ Idle /\ gpuBank # None /\ b \in live[gpuBank]
    /\ live' = [live EXCEPT ![gpuBank] = @ \ {b}]
    /\ UNCHANGED <<gpu, buffers, stage, gpuBank, image, ranges, free, swap>>

(***************************************************************************)
(* WorkerBanks.before: the ways to reach another bank.                     *)
(***************************************************************************)
\* A bank of the frame's drop_banks: its image goes, its buffer is free.
Retire(k) ==
    /\ Idle /\ image[k] # None
    /\ free' = free \cup {image[k]}
    /\ image' = [image EXCEPT ![k] = None]
    /\ ranges' = [ranges EXCEPT ![k] = {}]
    /\ live' = [live EXCEPT ![k] = {}]
    /\ UNCHANGED <<gpu, buffers, stage, gpuBank, swap>>

Adopt(k) ==
    /\ Idle /\ gpuBank = None
    /\ gpuBank' = k
    /\ UNCHANGED <<gpu, buffers, stage, live, image, ranges, free, swap>>

Discard(k) ==
    /\ Idle /\ gpuBank # None /\ k # gpuBank /\ image[k] = None
    /\ gpuBank' = k
    /\ live' = [live EXCEPT ![gpuBank] = {}]
    /\ UNCHANGED <<gpu, buffers, stage, image, ranges, free, swap>>

\* Mutant: the buffer of a retired GPU bank is dropped instead of freed.
SettleLeaking(m, saved, retired) ==
    /\ free' = free \ {m}
    /\ image' = IF retired THEN image ELSE [image EXCEPT ![gpuBank] = m]
    /\ ranges' = IF retired THEN ranges ELSE [ranges EXCEPT ![gpuBank] = saved]
    /\ live' = IF retired THEN [live EXCEPT ![gpuBank] = {}] ELSE live

\* The outgoing bank's bytes are in m: they become its image, unless the frame
\* retires that bank, and then m is free.
Settle(m, saved, retired) ==
    /\ free' = IF retired THEN free \cup {m} ELSE free \ {m}
    /\ image' = IF retired THEN image ELSE [image EXCEPT ![gpuBank] = m]
    /\ ranges' = IF retired THEN ranges ELSE [ranges EXCEPT ![gpuBank] = saved]
    /\ live' = IF retired THEN [live EXCEPT ![gpuBank] = {}] ELSE live

\* The target has no image: only the outgoing ranges are copied.
CopyOut(k, m, retired) ==
    /\ Idle /\ gpuBank # None /\ k # gpuBank /\ image[k] = None
    /\ m \in free
    /\ buffers' = [buffers EXCEPT ![m] =
         [r \in Region |-> [b \in Block |->
            IF b \in live[gpuBank] THEN gpu[r][b] ELSE @[r][b]]]]
    /\ Settle(m, live[gpuBank], retired)
    /\ gpuBank' = k
    /\ UNCHANGED <<gpu, stage, swap>>

StartSwap(k, retired) ==
    /\ Idle /\ gpuBank # None /\ k # gpuBank /\ image[k] # None
    /\ swap' = [target |-> k, buffer |-> image[k], incoming |-> ranges[k],
                outgoing |-> live[gpuBank], retired |-> retired,
                plan |-> Plan(live[gpuBank], ranges[k]), pos |-> 1, at |-> "stage"]
    /\ image' = [image EXCEPT ![k] = None]
    /\ ranges' = [ranges EXCEPT ![k] = {}]
    /\ UNCHANGED <<gpu, buffers, stage, live, gpuBank, free>>

(***************************************************************************)
(* The body of _swap's loop, and what before() does when it returns.       *)
(***************************************************************************)
Chunk == swap.plan[swap.pos]
PlanDone == swap.pos > Len(swap.plan)

\* Mutant: the chunk is staged after the incoming blocks were loaded.
StageOutLate ==
    /\ swap.at = "stage" /\ ~PlanDone
    /\ stage' = [b \in BlocksOf(Chunk) |->
                   IF b \in swap.incoming THEN buffers[swap.buffer][Chunk.region][b]
                   ELSE gpu[Chunk.region][b]]
    /\ swap' = [swap EXCEPT !.at = "load"]
    /\ UNCHANGED <<gpu, buffers, live, gpuBank, image, ranges, free>>

StageOut ==
    /\ swap.at = "stage" /\ ~PlanDone
    /\ stage' = [b \in BlocksOf(Chunk) |-> gpu[Chunk.region][b]]
    /\ swap' = [swap EXCEPT !.at = "load"]
    /\ UNCHANGED <<gpu, buffers, live, gpuBank, image, ranges, free>>

LoadIn ==
    /\ swap.at = "load"
    /\ gpu' = [gpu EXCEPT ![Chunk.region] =
         [b \in Block |-> IF b \in BlocksOf(Chunk) \cap swap.incoming
                          THEN buffers[swap.buffer][Chunk.region][b] ELSE @[b]]]
    /\ swap' = [swap EXCEPT !.at = "store"]
    /\ UNCHANGED <<buffers, stage, live, gpuBank, image, ranges, free>>

StoreOut ==
    /\ swap.at = "store"
    /\ buffers' = [buffers EXCEPT ![swap.buffer][Chunk.region] =
         [b \in Block |-> IF b \in BlocksOf(Chunk) THEN stage[b] ELSE @[b]]]
    /\ swap' = [swap EXCEPT !.at = "stage", !.pos = @ + 1]
    /\ stage' = << >>
    /\ UNCHANGED <<gpu, live, gpuBank, image, ranges, free>>

FinishSwap ==
    /\ swap.at = "stage" /\ PlanDone
    /\ Settle(swap.buffer, swap.outgoing, swap.retired)
    /\ gpuBank' = swap.target
    /\ swap' = NoSwap
    /\ UNCHANGED <<gpu, buffers, stage>>

Init ==
    /\ gpu = [r \in Region |-> [b \in Block |-> None]]
    /\ buffers = [m \in Buffer |-> gpu]
    /\ stage = << >>
    /\ live = [k \in Bank |-> {}]
    /\ gpuBank = None
    /\ image = [k \in Bank |-> None]
    /\ ranges = [k \in Bank |-> {}]
    /\ free = Buffer
    /\ swap = NoSwap

Next ==
    \/ \E b \in Block, v \in Value : Write(b, v)
    \/ \E b \in Block : Release(b)
    \/ \E k \in Bank : Retire(k) \/ Adopt(k) \/ Discard(k)
    \/ \E k \in Bank, retired \in BOOLEAN :
         \/ StartSwap(k, retired)
         \/ \E m \in Buffer : CopyOut(k, m, retired)
    \/ StageOut \/ LoadIn \/ StoreOut \/ FinishSwap

Spec == Init /\ [][Next]_vars

-----------------------------------------------------------------------------
(***************************************************************************)
(* Refinement: every bank's pages are somewhere, whatever the swap is at.  *)
(***************************************************************************)
Holds(i, r, b) == swap.plan[i].region = r /\ b \in BlocksOf(swap.plan[i])
Pending(r, b) == \E i \in swap.pos..Len(swap.plan) : Holds(i, r, b)
Loaded(r, b) == ~PlanDone /\ swap.at = "store" /\ Holds(swap.pos, r, b)

\* Where the bytes of block b of bank k are in region r.
Held(k, r, b) ==
    IF k = gpuBank
    THEN IF Loaded(r, b) THEN stage[b]
         ELSE IF Idle \/ Pending(r, b) THEN gpu[r][b]
         ELSE buffers[swap.buffer][r][b]
    ELSE IF k = swap.target
         THEN IF Pending(r, b) /\ ~Loaded(r, b) THEN buffers[swap.buffer][r][b]
              ELSE gpu[r][b]
         ELSE buffers[image[k]][r][b]

Contents ==
    [k \in Bank |-> [b \in Block |->
        IF b \in live[k] THEN [r \in Region |-> Held(k, r, b)] ELSE None]]

Memory == INSTANCE BankMemory
    WITH Value <- [Region -> Value], mem <- Contents, current <- gpuBank

\* Sharing one GPU cache between banks is invisible to the model runner: each
\* bank finds every live block exactly as it left it, across any sequence of
\* handovers, evictions and discards, and at every copy of a swap in progress
\* no live byte of either bank exists nowhere.
PagesSurviveHandover == Memory!Spec

\* Every pinned buffer is free, holds one image, or is the one being swapped.
BuffersAccounted ==
    LET used == ({image[k] : k \in Bank} \cup {swap.buffer}) \ {None}
    IN /\ free \cap used = {} /\ free \cup used = Buffer
       /\ \A j, k \in Bank : image[j] # None /\ image[j] = image[k] => j = k
=============================================================================
