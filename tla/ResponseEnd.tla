----------------------------- MODULE ResponseEnd -----------------------------
(***************************************************************************)
(* Reuse of a response's end on the GPU: ResponseEndCache of               *)
(* experiments/radiance-public/radiance_response_end.py, with the places   *)
(* of radiance_fair_scheduler.py that call it and the block pool of vLLM   *)
(* as they use it.  One bank, whose chat runs its turns one at a time.     *)
(*                                                                         *)
(* A turn's sequence is cut into blocks; one worker step computes one.     *)
(* Each step needs an attention block and a recurrent state block, and     *)
(* older state blocks stay as snapshots.  When a response ends, the cache  *)
(* pins its attention blocks and orders a copy of its state into a block   *)
(* of its own.  The next frame of the bank carries the copy; until then    *)
(* the bank may be handed over, which loses what no reference holds.       *)
(*                                                                         *)
(* The block sizes, the arithmetic of end_boundary within a speculative    *)
(* batch, and ordinary prefix hits (a request that misses the end starts   *)
(* from nothing) are left out; an end is never block-aligned.              *)
(***************************************************************************)
EXTENDS Naturals, FiniteSets, SequencesExt

CONSTANTS
    PoolSize,       \* blocks of the bank
    PromptEnd,      \* per turn: blocks of its prompt
    End,            \* per turn: blocks of its prompt and response
    Continues,      \* turns whose prompt extends the turn before
    Unresolved,     \* turns whose end may lie in an overwritten speculative window
    Cancellable,    \* turns that may be cancelled
    MaxResets       \* bound: resets of the prefix cache

Block == 1..PoolSize
Turn == 1..Len(End)

\* Every turn fits the pool: its attention blocks and two states.  The first
\* step of a continuation fits beside the end it continues.
ASSUME EndAssumption ==
    /\ PoolSize \in Nat /\ MaxResets \in Nat
    /\ End \in Seq(1..PoolSize) /\ PromptEnd \in Seq(1..PoolSize)
    /\ Len(PromptEnd) = Len(End)
    /\ Continues \subseteq Turn \ {1} /\ Unresolved \subseteq Turn /\ Cancellable \subseteq Turn
    /\ \A r \in Turn : PromptEnd[r] <= End[r] /\ End[r] + 2 <= PoolSize
    /\ \A r \in Continues : End[r - 1] <= PromptEnd[r] /\ End[r - 1] + 4 <= PoolSize

VARIABLES
    pool,       \* the block pool: free, a FIFO queue, and ref, the ref_cnt
    content,    \* content[b]: <<turn, place>> that b holds the data of
    req,        \* the turns' requests; known: the blocks that their tokens fill
    entry,      \* the endpoint: turn, attn, state; turn 0 for none
    pending,    \* copies [src, dst, tail] not handed to the worker yet
    copyPins,   \* blocks pinned for copies
    frame,      \* what the worker has: at, turn, copies, cow (pinned sources)
    transfer,   \* blocks that a store to the next tier still reads
    resets

vars == <<pool, content, req, entry, pending, copyPins, frame, transfer, resets>>

Junk == <<0, 0>>
NoEntry == [turn |-> 0, attn |-> << >>, state |-> 0]
NewReq == [phase |-> "new", attn |-> << >>, state |-> << >>, lease |-> 0, known |-> 0]
IdleFrame == [at |-> "idle", turn |-> 0, copies |-> << >>, cow |-> << >>]

\* The turns whose text a turn's prompt begins with, and itself.
Chain(r) == {q \in 1..r : \A p \in (q + 1)..r : p \in Continues}

\* The elements of s that are in B, in their order.
Only[s \in Seq(Block)] == [B \in SUBSET Block |->
    LET upTo[n \in 0..Len(s)] ==
          IF n = 0 THEN << >>
          ELSE IF s[n] \in B THEN Append(upTo[n - 1], s[n]) ELSE upTo[n - 1]
    IN upTo[Len(s)]]

(***************************************************************************)
(* vLLM's block pool: touch, get_new_blocks, free_blocks.                  *)
(***************************************************************************)
Touch(p, bs) ==
    [free |-> Only[p.free][Block \ bs],
     ref |-> [b \in Block |-> p.ref[b] + IF b \in bs THEN 1 ELSE 0]]

Taken(p, n) == Touch(p, ToSet(SubSeq(p.free, 1, n)))

Freed(p, bs) ==
    [free |-> p.free \o Only[bs][{b \in Block : p.ref[b] = 1}],
     ref |-> [b \in Block |-> p.ref[b] - IF b \in ToSet(bs) THEN 1 ELSE 0]]

Fits(p, n) == Len(p.free) >= n

(***************************************************************************)
(* The endpoint.                                                           *)
(***************************************************************************)
Pins == Append(entry.attn, entry.state)

\* clear
Cleared(p) == IF entry = NoEntry THEN p ELSE Freed(p, Pins)

\* lookup: the endpoint's exact text begins the prompt, which goes on.
Matches(r) == entry # NoEntry /\ entry.turn \in Chain(r) \ {r}
Lease(r) == IF Matches(r) THEN entry.turn ELSE 0

\* release_unused, after lookup rejected the endpoint: no copy and no transfer
\* needs its blocks.
Unused(r) ==
    /\ entry # NoEntry /\ ~Matches(r) /\ req[r].phase = "waiting"
    /\ pending = << >> /\ copyPins = << >>
    /\ ToSet(Pins) \cap transfer = {}

\* release_after_progress: the request has completed a step from this endpoint.
Progressed(r) ==
    entry # NoEntry /\ req[r].phase = "running" /\ req[r].lease = entry.turn

\* reclaim_snapshot_history: states before the last, unless a transfer reads them.
Snapshots(r) ==
    Only[Reverse(req[r].state)][Block \ ({Last(req[r].state)} \cup transfer)]
Reclaimed(r) == Only[req[r].state][{Last(req[r].state)} \cup transfer]

\* Mutant: only an endpoint that cannot be used is released.
ReleasesUnusedOnly(r) == Unused(r)

Releases(r) == Unused(r) \/ Progressed(r)

\* _reclaim_cache_pressure: the pool after an allocation that failed.
Relieved(r) ==
    LET p == IF Releases(r) THEN Cleared(pool) ELSE pool
    IN IF req[r].state = << >> THEN p ELSE Freed(p, Snapshots(r))

(***************************************************************************)
(* schedule: one frame at a time.                                          *)
(***************************************************************************)
\* take_copies
Send(r, cow) ==
    /\ frame' = [at |-> "worker", turn |-> r, copies |-> pending, cow |-> cow]
    /\ pending' = << >>

Arrive(r) ==
    /\ frame = IdleFrame /\ req[r].phase = "new"
    /\ \A q \in 1..(r - 1) : req[q].phase = "done"
    /\ req' = [req EXCEPT ![r].phase = "waiting", ![r].known = PromptEnd[r]]
    /\ UNCHANGED <<pool, content, entry, pending, copyPins, frame, transfer, resets>>

\* Blocks that must be free at admission: the whole prompt's, or only the first
\* step's when the endpoint is continued.
Needed(r) == IF Matches(r) THEN 2 ELSE req[r].known + 2

\* A request is admitted with the endpoint's blocks, its tail and state copied on
\* write, or with nothing.
Admit(r) ==
    LET relief == ~Fits(pool, Needed(r))
        p == IF relief THEN Relieved(r) ELSE pool
        new == SubSeq(p.free, 1, 2)
    IN /\ frame = IdleFrame /\ req[r].phase = "waiting"
       /\ Fits(p, Needed(r))
       /\ pool' = IF Matches(r) THEN Taken(Touch(p, ToSet(Pins)), 2) ELSE Taken(p, 2)
       /\ entry' = IF relief /\ Releases(r) THEN NoEntry ELSE entry
       /\ req' = [req EXCEPT ![r] =
            [phase |-> "running", lease |-> Lease(r), known |-> req[r].known, state |-> <<new[2]>>,
             attn |-> IF Matches(r) THEN Append(Front(entry.attn), new[1]) ELSE <<new[1]>>]]
       /\ Send(r, IF Matches(r) THEN <<Last(entry.attn), entry.state>> ELSE << >>)
       /\ UNCHANGED <<content, copyPins, transfer, resets>>

\* It waits for another frame; what pressure released stays released.
AdmitFails(r) ==
    LET p == Relieved(r) IN
    /\ frame = IdleFrame /\ req[r].phase = "waiting"
    /\ ~Fits(pool, Needed(r)) /\ ~Fits(p, Needed(r))
    /\ pool' = p
    /\ entry' = IF Releases(r) THEN NoEntry ELSE entry
    /\ Send(0, << >>)
    /\ UNCHANGED <<content, req, copyPins, transfer, resets>>

\* A running request gets the next block, under pressure from the endpoint it
\* came from and from its own snapshots ...
Grow(r) ==
    LET relief == ~Fits(pool, 2)
        p == IF relief THEN Relieved(r) ELSE pool
    IN /\ frame = IdleFrame /\ req[r].phase = "running"
       /\ Fits(p, 2)
       /\ pool' = Taken(p, 2)
       /\ entry' = IF relief /\ Releases(r) THEN NoEntry ELSE entry
       /\ req' = [req EXCEPT ![r].attn = Append(@, p.free[1]),
            ![r].state = Append(IF relief THEN Reclaimed(r) ELSE @, p.free[2]),
            ![r].lease = IF relief THEN 0 ELSE @]
       /\ Send(r, << >>)
       /\ UNCHANGED <<content, copyPins, transfer, resets>>

\* vLLM's free: the last blocks first.
Released(p, r) == Freed(Freed(p, Reverse(req[r].attn)), Reverse(req[r].state))

\* ... or is preempted, the only one that can be.
Preempt(r) ==
    LET p == Relieved(r) IN
    /\ frame = IdleFrame /\ req[r].phase = "running"
    /\ ~Fits(pool, 2) /\ ~Fits(p, 2)
    /\ pool' = Freed(Freed(p, Reverse(req[r].attn)), Reverse(Reclaimed(r)))
    /\ entry' = IF Releases(r) THEN NoEntry ELSE entry
    /\ req' = [req EXCEPT ![r] = [NewReq EXCEPT !.phase = "waiting",
                                              !.known = Len(req[r].attn) + 1]]
    /\ Send(0, << >>)
    /\ UNCHANGED <<content, copyPins, transfer, resets>>

\* A frame without tokens delivers a finish, and the copies.
EmptyFrame ==
    /\ frame = IdleFrame /\ pending # << >>
    /\ \A r \in Turn : req[r].phase \notin {"waiting", "running"}
    /\ Send(0, << >>)
    /\ UNCHANGED <<pool, content, req, entry, copyPins, transfer, resets>>

(***************************************************************************)
(* The worker: copy_response_end, copy on write, then the forward pass.    *)
(***************************************************************************)
\* Mutant: a frame without tokens makes no copies.
AfterCopiesOfTokens ==
    [b \in Block |->
       LET cs == {c \in ToSet(frame.copies) : c.dst = b /\ frame.turn # 0}
       IN IF cs = {} THEN content[b] ELSE content[(CHOOSE c \in cs : TRUE).src]]

AfterCopies ==
    [b \in Block |->
       LET cs == {c \in ToSet(frame.copies) : c.dst = b}
       IN IF cs = {} THEN content[b] ELSE content[(CHOOSE c \in cs : TRUE).src]]

\* Block b holds place i of what a request with this prompt has computed.
Holds(data, b, i, r) == data[b][2] = i /\ data[b][1] \in Chain(r)

\* The step's inputs are what the request believes: the earlier attention
\* blocks, and the sources of a copy on write or the last state.
InputsExact(r) ==
    LET n == Len(req[r].attn)
        before == IF frame.cow # << >> THEN n ELSE n - 1
        attn == IF frame.cow # << >> THEN Append(Front(req[r].attn), frame.cow[1])
                                     ELSE Front(req[r].attn)
        state == IF frame.cow # << >> THEN frame.cow[2]
                 ELSE req[r].state[Len(req[r].state) - 1]
    IN /\ \A i \in 1..before : Holds(AfterCopies, attn[i], i, r)
       /\ before > 0 => Holds(AfterCopies, state, before, r)

\* store_response_ends: the copied ends are stored to the next tier.
Stored == transfer \cup UNION {{c.dst, c.tail} : c \in ToSet(frame.copies)}

\* The connector's fences make the frame wait for transfers of the blocks it
\* writes.
Work ==
    LET r == frame.turn
        data == IF r # 0 /\ InputsExact(r) THEN <<r, Len(req[r].attn)>> ELSE Junk
        computed == IF r = 0 THEN {} ELSE {Last(req[r].attn), Last(req[r].state)}
        copied == {c.dst : c \in ToSet(frame.copies)}
    IN /\ frame.at = "worker"
       /\ (computed \cup copied) \cap transfer = {}
       /\ content' = [b \in Block |-> IF b \in computed THEN data ELSE AfterCopies[b]]
       /\ transfer' = Stored
       /\ frame' = [frame EXCEPT !.at = "output"]
       /\ UNCHANGED <<pool, req, entry, pending, copyPins, resets>>

(***************************************************************************)
(* update_from_output                                                      *)
(***************************************************************************)
\* copies_complete, and the end of the copy on write.
Completed ==
    Freed(IF frame.copies = << >> THEN pool ELSE Freed(pool, copyPins), frame.cow)

PinsLeft == IF frame.copies = << >> THEN copyPins ELSE << >>

\* The step was the last of its response.
Ends == frame.turn # 0 /\ Len(req[frame.turn].attn) = End[frame.turn]

StepDone ==
    /\ frame.at = "output" /\ ~Ends
    /\ pool' = Completed /\ copyPins' = PinsLeft
    /\ frame' = IdleFrame
    /\ UNCHANGED <<content, req, entry, pending, transfer, resets>>

\* The request ends and its end cannot be kept: no boundary, or no free block.
EndForgotten ==
    LET r == frame.turn IN
    /\ frame.at = "output" /\ Ends
    /\ r \in Unresolved \/ ~Fits(Completed, 1)
    /\ pool' = Released(Completed, r) /\ copyPins' = PinsLeft
    /\ req' = [req EXCEPT ![r] = [NewReq EXCEPT !.phase = "done"]]
    /\ frame' = IdleFrame
    /\ UNCHANGED <<content, entry, pending, transfer, resets>>

\* Mutant: the copy's destination is pinned for the endpoint only.
CaptureOnce(p, r) ==
    Touch(Touch(Taken(p, 1), ToSet(req[r].attn)), {Last(req[r].state)})

\* remember: a fresh state block, pinned for the endpoint and again for the
\* copy, like its source; the attention blocks for the endpoint.
Capture(p, r) ==
    Touch(Touch(Taken(p, 1), ToSet(req[r].attn)), {Last(req[r].state), Head(p.free)})

\* The pinned blocks outlive the request; the older endpoint is dropped.
EndRemembered ==
    LET r == frame.turn
        fresh == Head(Completed.free)
        source == Last(req[r].state)
    IN /\ frame.at = "output" /\ Ends
       /\ Fits(Completed, 1)
       /\ \E p \in {Cleared(Capture(Completed, r))} : pool' = Released(p, r)
       /\ entry' = [turn |-> r, attn |-> req[r].attn, state |-> fresh]
       /\ pending' = Append(pending, [src |-> source, dst |-> fresh, tail |-> Last(req[r].attn)])
       /\ copyPins' = PinsLeft \o <<source, fresh>>
       /\ req' = [req EXCEPT ![r] = [NewReq EXCEPT !.phase = "done"]]
       /\ frame' = IdleFrame
       /\ UNCHANGED <<content, transfer, resets>>

(***************************************************************************)
(* Between frames.                                                         *)
(***************************************************************************)
\* A cancelled request has no completed step and keeps the older end.
Cancel(r) ==
    /\ frame = IdleFrame /\ r \in Cancellable /\ req[r].phase \in {"waiting", "running"}
    /\ pool' = Released(pool, r)
    /\ req' = [req EXCEPT ![r] = [NewReq EXCEPT !.phase = "done"]]
    /\ UNCHANGED <<content, entry, pending, copyPins, frame, transfer, resets>>

\* reset_prefix_cache
Reset ==
    /\ frame = IdleFrame /\ resets < MaxResets
    /\ pool' = Cleared(pool) /\ entry' = NoEntry
    /\ resets' = resets + 1
    /\ UNCHANGED <<content, req, pending, copyPins, frame, transfer>>

\* Another chat takes the GPU and gives it back: live_blocks come back.
Handover ==
    /\ frame = IdleFrame
    /\ content' = [b \in Block |-> IF pool.ref[b] = 0 THEN Junk ELSE content[b]]
    /\ UNCHANGED <<pool, req, entry, pending, copyPins, frame, transfer, resets>>

\* The transfers under way have ended (external).
TransferDone ==
    /\ transfer # {}
    /\ transfer' = {}
    /\ UNCHANGED <<pool, content, req, entry, pending, copyPins, frame, resets>>

-----------------------------------------------------------------------------
Init ==
    /\ pool = [free |-> [i \in Block |-> i], ref |-> [b \in Block |-> 0]]
    /\ content = [b \in Block |-> Junk]
    /\ req = [r \in Turn |-> NewReq]
    /\ entry = NoEntry /\ pending = << >> /\ copyPins = << >>
    /\ frame = IdleFrame /\ transfer = {} /\ resets = 0

Schedule ==
    \/ \E r \in Turn : Admit(r) \/ AdmitFails(r) \/ Grow(r) \/ Preempt(r)
    \/ EmptyFrame

Update == StepDone \/ EndForgotten \/ EndRemembered

Next ==
    \/ \E r \in Turn : Arrive(r) \/ Cancel(r)
    \/ Schedule \/ Work \/ Update
    \/ Reset \/ Handover \/ TransferDone

Spec == Init /\ [][Next]_vars

\* The engine goes on stepping while it has a request, and transfers end.
Fairness == WF_vars(Schedule) /\ WF_vars(Work) /\ WF_vars(Update) /\ WF_vars(TransferDone)

FairSpec == Spec /\ Fairness

(***************************************************************************)
(* Properties.                                                             *)
(***************************************************************************)
Occurrences(b, s) == Cardinality({i \in DOMAIN s : s[i] = b})

HeldBy(r) == req[r].attn \o req[r].state

\* The places of block b in the tables of the requests.
Held(b) == UNION {{r} \X {i \in DOMAIN HeldBy(r) : HeldBy(r)[i] = b} : r \in Turn}

Owners(b) ==
    Occurrences(b, Pins) + Occurrences(b, copyPins) + Occurrences(b, frame.cow)
      + Cardinality(Held(b))

\* A block's reference count is the number of its owners, requests, endpoint,
\* copies and readers; the free queue has each block without an owner once.
RefsAccounted ==
    /\ \A b \in Block : pool.ref[b] = Owners(b)
    /\ ToSet(pool.free) = {b \in Block : pool.ref[b] = 0}
    /\ Len(pool.free) = Cardinality(ToSet(pool.free))

\* A response never computes from another's data: every block of a request that
\* has been computed, and the endpoint once its copy was made, hold exactly what
\* their owner believes, whatever was cancelled, reset or handed over.
DataExact ==
    /\ \A r \in Turn :
         LET n == Len(req[r].attn)
             done == IF frame.at = "worker" /\ frame.turn = r THEN n - 1 ELSE n
         IN \A i \in 1..done : Holds(content, req[r].attn[i], i, r)
    /\ entry # NoEntry =>
         /\ \A i \in DOMAIN entry.attn : Holds(content, entry.attn[i], i, entry.turn)
         /\ \/ content[entry.state] = <<entry.turn, Len(entry.attn)>>
            \/ \E c \in ToSet(pending \o frame.copies) : c.dst = entry.state

\* A request is admitted and runs to its end, although an endpoint it cannot
\* use, the one it came from, or its own snapshots fill the pool: no wait
\* without end, and no preemption and replay without end.
EveryTurnEnds == \A r \in Turn : req[r].phase = "waiting" ~> req[r].phase = "done"
=============================================================================
