# vLLM Coherence: a TLA+ verification project

vLLM Coherence serves one Qwen model from one AMD R9700 to several chats.
Exactly one chat's KV cache (a *bank*) is on the GPU; the other banks the
scheduler keeps are packed images in pinned RAM; behind them are vLLM's CPU
offload and per-chat snapshots on disk. A Pi client extension lets a chat reserve
the GPU for an answer. The code that decides who runs, moves the banks and keeps
the books about them is what this project models: it is concurrent, it is spread
over a scheduler process, a GPU worker and several clients, and its mistakes show
up only in particular orders of events.

Paths in the comments of the modules are relative to the repository. Line numbers
of each definition are in `PROJECT.json` ("map").

## 1. The system

| Part | State | Operations | Talks to |
|---|---|---|---|
| **FairScheduler** (`experiments/radiance-public/radiance_fair_scheduler.py`) | requests and their status, the queues, parked responses, the selected response, the pending switch, held finishes, service times | `schedule`, `_choose`, `_make_room`, `_retire_bank`, `_parent_step`, `update_from_output`, `add_request`, `finish_requests` | vLLM's scheduler (its parent), CacheBanks, ToolHandover, AnswerPriorities; the worker, through the bank metadata of each frame |
| **CacheBanks** (same file) | one allocator per bank, the active one, owner of each request, requests whose bank has no allocator yet | `activate`, `retire`, routing of allocator calls | FairScheduler |
| **WorkerBanks** (same file) | the GPU's bank, RAM images, free pinned buffers, stage | `before` (drop, stay, discard, copy out, swap), `_swap`, `spans` | the frame; GPU and pinned memory |
| **ToolHandover** (same file) | token, deadline and outcome of a response that may end in a tool call | `select`, `finish`, `resolve`, `remaining` | `_choose`; the HTTP parser |
| **AnswerPriorities** (same file), `radiance_request_guard.py`, `integrations/pi/qwen-radiance-priority.mjs` | one row per chat with a 60 s lease and a one hour tombstone; per window: setting, answer, sequence, request queue, heartbeat timer | `update`, `level`; start, release, heartbeat, `/priority` | Pi windows over HTTP, `_choose` |
| **ChatStore** (`src/qwen_r9700_lab/radiance_cache.py`) | `chat.json`, generation directories, block files, the chat's lock | `write_many`, `read_many`, `prepare_publication`, `publish`, `collect`, `activate` | the chat tier, the compaction client |
| **Chat file-system tier** (`radiance_chat_tier.py`) | requests and their jobs, tail records in RAM, control files | admit, store, complete, publish, flush, evict, answer | ChatStore, vLLM's offload connector |
| **Response-end cache** (`radiance_response_end.py`, `radiance_response_offload.py`) | the response end kept on the GPU, copies not made yet, pinned blocks | capture, look up, copy, release under pressure | allocator, connector |
| **vLLM patches** (`patch_streaming_snapshot.py`, `patch_chat_snapshot.py`, `patch_dflash_response_cache.py`) | finished requests whose tail is unpublished | lookup waits, barrier flush | vLLM's connector |
| **Live commit** (`src/qwen_r9700_lab/live_commit_controller.py`, `..._runtime_gate.py`, `..._scheduler_authority.py`, `..._vllm_driver.py`) | the evidence journal, the canonical root, the open round, the advance permit, receipts and quarantine | begin, abort, commit (candidate, serial, compare, intent, publish, receipt), consume the advance, finalize; recovery at start | the engine; the executors and physical roots behind the driver |
| **Token continuation**, **conformance harness** (GPU lease, queue, supervisor), **transactional compaction** (Pi) | protocol state of their own | | |
| **Persistent cache** (`src/qwen_r9700_lab/persistent_cache.py`) | payload files, manifests, branch refs, quarantine runs | import, seal, retire, collect, recover, purge | operator; the engine's writer, which must be stopped |
| Request phases and telemetry, backend control, memory allocation, kernels and their qualification | observations, I/O, arithmetic | | |

How they interact. An engine iteration is `schedule()`, then the worker executes
the frame (`WorkerBanks.before`, forward pass), then `update_from_output`. Client
events (new requests, aborts, priority updates, tool outcomes) are handled between
those steps. A change of bank takes two frames: a *barrier frame* with no tokens on
the old bank, whose execution finishes every store job that still reads its pages,
and then the *handover frame*, before whose forward pass the worker exchanges the
banks.

What is hard: events between the barrier and the handover frame; decisions taken
on a clock or a lease that is read twice; finishes that must reach the worker
although their bank is in RAM; two sides (allocators, pinned buffers) counting the
same resource; responses that are interrupted, parked, cancelled and resumed;
generations of a compacted chat replacing each other while the old one still has
work; copying two banks over each other through one buffer; priority requests that
arrive late, twice or not at all; a process that dies, or a machine that loses power,
between any two file operations of a publication or a collection; store jobs that
complete in any order while requests fail and chats are compacted; blocks with
several owners that each let go at another moment; a commit whose intent, root swap
and receipt can each be the last thing that happened. `PROJECT.json` ("hazards") lists each at its line.

What makes the parts correct:

- *scheduler and worker*: the worker never gets a frame it must refuse; both agree
  on where every bank is; no buffer leaks; a bank with a live request is never
  dropped; the pages a store job reads are not overwritten; a selected response
  keeps the GPU; a parked response can be resumed; every request is served and
  every finish delivered;
- *worker memory*: sharing is invisible. Each bank finds every live block as it
  left it;
- *priorities*: a released answer never holds the GPU again, and what the user was told
  is in force is in force, until the engine accepts an update of another window of the
  chat; a reservation ends when its windows are gone;
- *store*: what `chat.json` names is complete on the medium through every crash;
  collection never removes a named block; a retired generation is never written;
- *tier*: a head is complete, never older than its predecessor and never a failed
  request's; a flush answered as done left nothing behind but a snapshot that was given up
  as incomplete; a due tail is published unless it was replaced, given up or compacted;
  every flush is answered;
- *response end*: reference counts add up; nobody computes from another's data;
  the endpoint never keeps a request from running;
- *persistent cache*: a payload that a ref names, or that was collected and not
  purged, is on stable storage; an interrupted collection is settled;
- *live commit*: released tokens are the serial transition's and are never taken back;
  a candidate that was wrong once never runs again; a death at any moment can be
  recovered from.

## 2. Modules

| Module | Models | Kind |
|---|---|---|
| `WorkerBanks` | `WorkerBanks.before`: the GPU's bank, images, free buffers, and the three exceptions it can raise | component |
| `FairScheduler` | the scheduler and CacheBanks, extended from `WorkerBanks`: one composed system that runs engine iterations | composition |
| `FairScheduler_proofs` | that scheduler and worker agree, and, by a second invariant on top of the first, who owns the GPU, the slots and the banks | proofs |
| `BlockSpans` | `spans` and the nested loops of `_swap`: the chunks | pure algorithm |
| `BankSwap` | the bytes: writes, releases, retirement, and each copy of `_swap` and `_copy_to_buffer` | component |
| `BankMemory` | what `BankSwap` promises: a private memory per bank | abstract specification |
| `BankSwap_proofs` | refinement, buffer accounting, and that the chunks of `BlockSpans` are an exact plan | proofs |
| `AnswerPriorities` | the registry | component |
| `PriorityControl` | Pi windows, the transport and the registry | composition |
| `PriorityControl_proofs` | inductive invariant and theorems | proofs |
| `ChatStore` | the files of one chat, one file operation a step, with what is visible and what is on the medium kept apart | component |
| `SnapshotStore` | what `ChatStore` promises: one snapshot, replaced only by a commit, complete on the medium | abstract specification |
| `ChatStore_proofs` | inductive invariant, theorems and the refinement | proofs |
| `ChatTier` | the tier's scheduler side, pool, publisher and owners, over chats whose store calls are one step each | composition |
| `ChatTier_proofs` | inductive invariant and theorems | proofs |
| `ResponseEnd` | one bank's endpoint, the frames that use it and vLLM's block pool | component |
| `ResponseEnd_proofs` | inductive invariant and theorems | proofs |
| `CacheLifecycle` | the persistent cache: import, seal, retirement, collection, recovery, purge | component |
| `CacheLifecycle_proofs` | inductive invariant and theorems | proofs |
| `LiveCommit` | the gate, the controller, the journal and the scheduler's root authority, over driver calls and file writes that may fail | composition |
| `LiveCommit_proofs` | two inductive invariants, with and without faults, and theorems | proofs |
| `MC_Fair`, `MC_Swap`, `MC_Priority`, `MC_Store`, `MC_Tier`, `MC_End`, `MC_Cache`, `MC_Live` | instances for TLC | models |

**FairScheduler.** `Schedule` is `schedule()`: `Handover` when a switch is pending;
otherwise `Step`, with a decision from `Decisions` (`_choose`), which either runs on
the resident bank (`RunResident`) or starts a switch (`StartSwitch`). Where the code
raises there is a fault action (`HandoverFault`, `StepFault`, `Raise` in the worker)
that records the exception in `raised`; an exception ends the engine. `ParentStep`
is `_parent_step`: vLLM's own scheduler (external: it is modelled from what this
code asks of it and relies on) restricted to one bank, and the finishes it may
deliver. `BeforeForward` is the worker's half; `UpdateFromOutput` ends the
iteration. `AddRequest`, `FinishRequest`, `SetLevel`, `ResolveGrace` and
`PassDeferralLimit` are what clients and clocks do. Times are only ever compared,
so a time stamp is its rank (`StampNow`, `KeepStamps`). Ties that Python breaks by
hash order are left open. Request identifiers are reused once they are gone, so
behaviours are infinite although the state space is finite.

The lease of a priority is read twice in one call of `schedule()`: `_choose` reads
it, and the check before parking reads it again. `StepFault` therefore lets the
second reading be 0.

**BankSwap.** A block has a value in every region (KV storage). `_swap` is
`StartSwap`, then for each chunk `StageOut`, `LoadIn`, `StoreOut`, then
`FinishSwap`. The chunks come from the constant operator `Plan`, of which only
`ExactPlan` is assumed: every block of either bank is in one chunk of each region.
`MC_Swap` gives it `SwapPlan` of `BlockSpans`, and TLC evaluates the assumption for
all pairs of block sets of the instance; `SwapPlanIsExact` proves it for any.

**PriorityControl.** A window is the state object of the extension, with the queue
of requests that its promise chain holds. `net` is every request that was submitted
and may still be executed: requests are lost, delayed past the window's timeout,
reordered and executed twice. The registry's two deadlines are modelled by their
order ("held", "lapsed", "stale"). Several windows may show one chat; the history
variables `released` and `overruled` say what the engine still owes to a window after it
has accepted another window's update of the chat. A tombstone does not expire while an update of
its chat is on its way: an hour against the seconds an HTTP request lives.

**ChatStore.** `atomic_write` is a rename and then an fsync of the directory, two
steps (`Rename` and `SyncBlock`, `SaveMetadata` and `SyncMetadata`); the temporary
file is complete and synced before it has a name. `files` and `meta` are what a
process sees, `filesDisk` and `metaDisk` what is on the medium; a loss of power keeps
any part of the difference. The chat's `flock` is the variable `excl` (exclusive) or
a busy worker (shared). `publish`, `collect`, start-up recovery and `activate` share
one path: save the metadata, delete what is doomed in any order, sync. Any of them
may fail with an `OSError` (`ExclusiveFails`), the engine may die (`EngineDies`), a
file may be damaged from outside (`Damage`). Assumed: damage changes the fingerprint
(inode, size, times) of a file; the fsync of a directory right after a block's rename
does not fail; start-up collection succeeds (its `OSError` is retried by the tier).

**ChatTier.** The state of a chat on disk is the set of its blocks and the request
its head was made by; each call of the store is one atomic step, as `ChatStore` shows
it may be seen. Blocks are named by the turn that computes them: a turn has a prefix,
shared with later turns of its generation unless one rewrites the text, and a tail.
`NewGeneration`, `NewTurn` and `Bypass` are `on_new_request`; `Finish` (or `Cancel`,
`FinishUnstored`) is `set_snapshot_head`, `submit_store` and `on_request_finished`;
the pool's jobs end in any order; the publisher's pass is `Select`, `Build`,
`Install`, then the flushes: `FlushDue`, `Evict`, `FlushExplicit`, each followed by
`WriteTail`, `Prepare`, `Publish`. What the publisher does outside the mutex is a step
of its own, and the two checks for a request that came meanwhile are `Overtaken` and
`PublishOvertaken`.

**ResponseEnd.** A block is named by what it holds the data of (`content`), so that
a wrong block shows as wrong data. Attention grows by a block per step, the recurrent
state gets a block per step, the older ones being snapshots. A frame carries
the endpoint's pending copies; the worker makes them before the forward pass, which
computes exact data only from exact inputs (`InputsExact`). `Relieved` is
`_reclaim_cache_pressure`. The pool's free queue is a queue, because the order in
which blocks are reused decides what is overwritten.

**CacheLifecycle.** `fs` is what the file system shows and `disk` what survives a
loss of power, for the active tree and each run's tree. `_copy_unlink_durable` is
`CopyTemp`, `CopyRename`, `CopySync`, `Unlink`, `SyncUnlink`. The publication of one
metadata document is one step: nothing else happens while the lifecycle lock is held,
and a fault leaves the document there or not. `Kill` is a process that dies or gives
up, `PowerLoss` also loses what was not synced, and bytes that were never synced may
be anything. `exposed` is a history variable, explained below.

**LiveCommit.** `mem` holds the fields of the gate and its controller, `auth` those of
the root authority, `job` the locals of `run_round` or `_recover_intent` with the step
they are at; the gate's lock makes the calls sequential. `Begin`, `Abort`, `Commit`,
`ConsumeVerifiedAdvance` and `Finalize` are the gate's methods. `Commit` starts
`run_round`: `RunCandidate` (or `CandidateFails` and `RestoreCandidate`), `RunSerial`
(or `SerialFails`), `Compare`, `WriteIntent`, `PublishPrivate`, `DestroyPrivate`,
`WriteReceipt`; whatever raises goes to "failed", where `Cleanup` is the gate's
handler. `files` is the journal, whose file names contain the hash of their content,
so that a file is its content; a write that fails, or a process that dies in it, leaves
nothing, a part (`torn`) or all. `Receipts` is what `load_receipts` returns, the
receipts in the order of their rounds; that each round has one is the first thing the
constructor checks (`OneReceiptARound`). `Load` is the constructor with everything it refuses
(`Loadable`), `RecoverPublication`, `RecoverEvidence` and `WriteRecovery` are
`_recover_intent`. The driver is known from its calls only: a restore restores or
fails, the recovery oracle says "committed" of a root that is the selected one, and
the canonical root outlives the process, which is what a recovery is for.

## 3. What is checked

Every property has a mutant in `PROJECT.json`: a plausible mistake in a mapped
definition that makes TLC report that property.

| Run | Instance | Shows |
|---|---|---|
| `fair_banks` | 3 chats, 2 banks, one chat with two generations, holds (priority 1), an urgent answer, cancellations of the compacted chat's requests | evictions, discards, successors and cancellations never make the worker refuse a frame (`WorkerNeverRefuses`), leak a buffer (`BuffersConserved`) or overwrite pages that are read (`HandoverDrained`); a successor and its predecessor: `BanksAgree`, `OneGenerationPerChat`, `LiveRequestKeepsBank`, `BusyBankNeverRetired` |
| `fair_park` | 3 chats, 3 banks, 2 runner-state slots, urgent chat | interrupted responses are parked, cancelled and resumed: `OwnershipNeverBroken`, `SlotsSuffice`, `ParkedCanResume`, `SelectedResponseKeepsGpu` |
| `fair_served` | 2 chats, 2 banks, tool continuations, fairness | `EveryRequestServed`, `EveryFinishDelivered` |
| `swap` | 2 banks, 3 blocks, 2 regions with stages of 1 and 2 blocks, 1 buffer | `PagesSurviveHandover` (refinement of `BankMemory`), `BuffersAccounted`; and, for all 256 sets of 8 blocks and stages of 1, 2, 3: `ChunksTileTheSpans` |
| `priority` | 1 window, 2 answers, settings 0 and 2, made idle or busy; or 2 windows, of 2 chats with room for 1 row or of one chat | `ReleasedStaysReleased`, also at the limit and the purge of the registry; `ConfirmedInForce`; under fairness `ReservationsEnd` |
| `store` | 3 generations, 2 block names, 1 worker, 1 damaged file | crashes, losses of power, I/O errors and compactions at every file operation: `SnapshotNeverLost` (refinement of `SnapshotStore`), `GenerationExists`, `RetiredNeverWritten` |
| `tier` | two turns of a chat that may be compacted, the second replacing the text and meeting errors, a turn of another chat whose tail is due, room for one record | `HeadOnDisk`, `TailRestorable`, `HeadNeverRegresses`, `FlushAnswerTrue`; under fairness `EveryFlushAnswered`, `EveryDueTailFlushed` |
| `response_end` | 5 turns, a pool of 6 blocks, a reset, cancellations, handovers | `RefsAccounted`, `DataExact`; under fairness `EveryTurnEnds` |
| `quarantine` | 2 payload names, 2 contents, 2 runs, 2 seals, 2 faults | `LiveNeverLost`, `CollectedUntilPurged`, `RunsReadable`; under fairness `InterruptedRunSettles` |
| `live_commit` | 2 rounds, 2 names for their private roots, 3 deaths, 1 failing call or write | `ReleasedIsVerified`, `QuarantineHolds`, `DeathAloneRecovers` |

Two runs end in a counterexample: the code does not do what a comment or a document of
the repository says.

| Run | Counterexample |
|---|---|
| `fair_live_generation` | The least recently used idle bank is the active one. It is chosen as the victim, the barrier frame runs, a request for that very bank arrives, and the handover frame finds it busy: `schedule()` raises and the engine ends. |
| `tier_flush` | A complete request was not stored whole (an I/O error, or no room in the CPU tier). The owner asks for a flush; `_force_identity` first runs `_publish_ready`, which drops the snapshot it finds incomplete, by the `ValueError` of `_build_tail_record` (line 633) or by the rejected `publish` of a due record (line 559). Then it finds no record and answers `already_durable` (696-706): `FlushMeansDurable` is violated. `docs/radiance-chat-storage.md:60` says that the compactor "forces the old generation's RAM tail to disk and waits for full-head verification". The previous head stays readable; a `rejected` answer of `_flush_record` itself is reported as an error. |

`EveryRequestServed` is checked with a bank for each chat. With more continuously
busy chats than banks it does not hold: `_make_room` refuses while every bank has a
live request, and an overdue chat without a bank is passed over at each boundary.

### Observations

Met while modelling, and not stated as runs. Each is a state the model reaches, or
excludes by a named assumption.

- *Lease read twice* (`radiance_fair_scheduler.py:1560`). `_choose` and the check
  before parking each read the priority lease. When it ends in between, "only higher
  priority 2 may interrupt a response" is raised about a decision that was right when
  it was taken. `StepFault` has this exception.
- *Held finishes* (`radiance_fair_scheduler.py:1494`). When the queued request of a
  bank in RAM is cancelled, its finish waits until that bank is active; the
  connector's lookup for the selected response waits for all finishes, and the
  selected response is never left. `fair_served` checks `EveryFinishDelivered`
  without cancellations.
- *Two windows of one chat* (`radiance_fair_scheduler.py:1049`). The registry has one
  row per chat, and every session of a chat has a nonce of its own
  (`qwen-radiance-priority.mjs:49`). A second window's update, accepted once the first
  window's answer is released, replaces the tombstone of that release, and the first
  window's delayed start is accepted after it. The comment at line 1044 ("so delayed
  start/heartbeat messages cannot resurrect a released answer") does not hold then;
  `released` drops what the accepted update overrules, and `ReleasedStaysReleased` and
  `ConfirmedInForce` say what holds up to it.
- *No heartbeat after a failed command* (`qwen-radiance-priority.mjs:102`). An answer
  that starts while `/priority 0` waits is restored and confirmed when the command
  fails, but nothing renews its lease.
- *An incomplete successor replaces a complete tail*
  (`radiance_chat_tier.py:623`). A request whose prefix was never offered to the tier
  is successful, and its record displaces an older one that could have been
  published. `impaired` excepts such generations from `TailRestorable`; `FlushAnswerTrue`
  excepts in them what the publisher gave up (`givenUp`).
- *A retired generation's record* (`radiance_chat_tier.py:545`, `676`). A record whose
  generation the command line has retired can never be written. When it is the oldest
  it is chosen again at every pass, and no other record is evicted.
- *A continuation that does not fit beside its endpoint*
  (`radiance_response_end.py:399`). An endpoint that matches is not unused, and has
  made no progress, so pressure does not release it: a first step that needs its
  blocks waits for ever. `EndAssumption` leaves four blocks.
- *Two names* (`persistent_cache.py:3346-3349`). `_copy_unlink_durable` syncs the
  destination "before any source removal" (line 2987), but the recovery that finds
  both names removes one without syncing the other. If the process died between the
  rename and its fsync, or the engine stored a collected page again, a later loss of
  power can lose the payload. `exposed` excepts exactly these payloads from
  `LiveNeverLost` and `CollectedUntilPurged`.
- *Temporaries in the active tree* (`persistent_cache.py:2943`). A recovery that dies
  while it restores a payload leaves `.move-*.tmp` in the active tree. No operation
  removes it, and every later collection refuses it.
- *Hard-linked imports* (`persistent_cache.py:1596`). An import that dies before it
  unlinks its temporary leaves a payload with link count 2, which every later hash
  refuses; for metadata the comment at line 758 describes how that window is avoided.
- *Intents that come back* (`live_commit_controller.py:587`). An intent is named by the
  hash of its content, and the names of the private roots (`Roots`) are the callers'
  choice. If they repeat, a round that was rolled back and is tried again can write the
  very same intent; when the process then dies after the publication, the next start
  takes it for resolved, and the canonical root has a state that no receipt leads to.
  The history variable `revived` collects these intents; `DeathAloneRecovers` excepts
  them, and without the exception the run finds its violation with three deaths.
- *A retried round* (`live_commit_controller.py:655`, `708`). A failed publication
  leaves its intent. When the process goes on and commits the round with another
  intent, the next start meets an unresolved intent of an old round and refuses, as it
  refuses two unresolved ones.
- *Cut files* (`live_commit_controller.py:345`). The journal writes evidence under its
  final name. A death in the write of an intent, receipt or recovery leaves a file that
  every later start refuses. `DeathAloneRecovers` excepts cut files (`torn`).
- *Before the first receipt* (`live_commit_controller.py:1019`). The chain check needs a
  receipt: in round 0 any canonical state is accepted as the beginning.
- *Quarantine in memory* (`live_commit_controller.py:1044`, `1093`). A candidate that
  failed is quarantined durably only by a receipt or a rollback; a counterexample file
  alone is not read at the next start, so `QuarantineHolds` speaks of those two.
- *Quarantine without a counterexample* (`live_commit_controller.py:1122`). When the
  candidate fails and the serial transition fails after it, no counterexample is
  written; every later round of that process ends in "quarantined execution lacks a
  counterexample".
- *Tokens of a recovered round* (`live_commit_controller.py:805`). A round that a start
  recovers as committed has a receipt, but its permit went with the process: its tokens
  are never released, so `released` may have gaps.
- *Finalize after a rollback* (`live_commit_validation.py:869`). The quarantine of a
  rollback is in no receipt, so the ledger is refused until a further round commits.

### Bounds

- `MaxBanks` is 2 or 3. The launcher uses 3; 2 is the smallest pool in which three
  chats must evict, and with 3 banks and 2 slots the slots, not the banks, are the
  limit, as in production.
- One request per bank at a time, as Pi sends them. Two requests of one chat exist
  in `fair_banks` (one per generation).
- `MaxOverdue` bounds how many requests may be past the deferral limit; it is 0
  where only safety is asked (it orders the candidates, and each order is also
  reached through service times; and it ends a grace window, which may end at any
  time anyway) and the number of requests in the liveness run.
- `Bounds` says, for each set of open windows, what they begin: starts, commands and
  heartbeats stop at the bound, releases and corrections do not. For one window, three
  numbered requests and two answers let a start, a release and a second answer overlap
  with a failed command; two windows have one number and one answer each, enough for a
  release and a delayed start of one to meet an update of the other.
- `RegistryLimit` is 1 instead of 4096: with two chats the registry is full at once.
- `swap` has three blocks so that the two banks can share, own and lack a block, in
  a region whose last chunk is cut and one whose chunks are single blocks.
- `store`: one snapshot is replaced by another, of the same or of the next
  generation, while the first still has to survive; one block is shared and one is
  not. `MaxDamage` damages one file, `MaxRetiredDamaged` stops damage and compaction
  from alternating for ever.
- `tier`: the second turn of a chat replaces the text of the first, so that its head
  lacks blocks of the durable one, and may be cancelled, lose blocks or meet errors
  (`Troubled`); `MaxTailChats` is 1, so the second record forces an eviction.
- `response_end`: the pool holds one endpoint and one growing request, not a second
  endpoint; the prompts make a turn continue, replace and outgrow the endpoint.
- `quarantine`: one payload can be live and one garbage; two runs let a payload be
  collected, restored and collected again; two faults interrupt a collection and then
  its recovery.
- `live_commit`: the second round extends a receipt, the first has none before it;
  `Roots` has two names, interchangeable (symmetry), so that a round may take the names of
  an earlier one or others; three deaths interrupt a round, its recovery and the round
  that is tried again, one call or write fails. Several faults in one history are not in
  this run; `ReleasedStaysVerified` and `QuarantineStays` are proved for any number.
- The runs with a bounded history (`priority`, `tier`, `response_end`, `quarantine`,
  `live_commit`, which may also refuse its journal) end when the bounds are used up, so deadlock is not an
  error there. Everywhere else it is checked.

### Fairness

`EngineLoops`: the engine's busy loop steps while there is work and finishes what
it began (weak fairness of the three phases). The rest states, as "infinitely
often", what the runtime guarantees: the parent admits a bank's requests in
arrival order, a response has at most `max_tokens` rounds, the store jobs of a
finished request complete, and clocks advance (deferral limit, tool grace). The
choice of a bank is *not* assumed fair: it is what the run checks. In
`PriorityControl` only the clock is fair: a lease that is not renewed runs out.
Windows may stop at any time, requests may never arrive.

In `ChatTier` requests that run end, the pool works off its jobs, and the publisher
goes on with what it began (weak fairness); its passes look at every chat, record and
control file again and again, and I/O errors are transient, so that what is tried
infinitely often succeeds (strong fairness of the steps that can fail or be
overtaken). Nothing is assumed of the owners or of new requests. In `ResponseEnd` the
engine goes on stepping and transfers end. In `CacheLifecycle` an operation runs on
until it ends or dies, and an interrupted run is recovered: `garbage_collect` refuses
to do anything else first.

## 4. What is proved

All for every value of the constants (any chats, generations, requests, banks,
slots; any blocks, regions, buffers, plans; any rounds, runs, kills, losses of power
and faults). Every invariant below was an invariant of a TLC run before its proof was
begun; the proofs have one lemma per action, and under it one step per part of the
invariant that the action can disturb.

**Scheduler and worker** (`FairScheduler_proofs`). `InductiveInvariant` is
`Spec => []IInv`, and from it `TypeCorrect`, `WorkerAccepts`, `BanksAlwaysAgree`,
`PoolConserved`, `OneGeneration` and the action property `BusyBanksSafe`.

`BanksAgree` speaks of the states between iterations and is not inductive. `IInv`
adds to the four invariants an `Agreement` with one part for each moment of a
switch:

- `Settled`: no frame under way, both sides agree;
- `FrameFits`: a frame is under way. It is a resident frame, a discarding one or a
  swapping one, and its retirement set is exactly the difference between the two
  sides;
- `ActiveAllocated`: when the active bank has an allocator;
- `SwitchPrepared`: what `_choose` left for the handover frame: the target is not
  resident, a successor implies a discard, no other generation of the chat has a
  bank, and after the handover the allocators fit `MaxBanks`.

The central lemmas: `RoomMade` (what `_make_room` retires is enough for what
`SwitchPrepared` says, with the active bank counted once), `RetiredAreIdle`,
`HandoverAgrees`, `StartSwitchAgrees`, `BeforeForwardAgrees` (a frame that fits is
accepted, and both sides agree afterwards) and `DropsConserve` (buffers of dropped
images return to the pool). Assumptions: `WorkerAssumption` and
`SchedulerAssumption` (types of the constants, finitely many keys and requests, at
least two banks).

**Ownership** (`FairScheduler_proofs`, on top of `IInv`). `OwnershipHolds`,
`LiveRequestsKeepBanks`, `HandoversDrained`, `SlotsAlwaysSuffice`,
`ParkedAlwaysResumable` and the action property `SelectedResponseKeeps`. Each of the
properties speaks of one table, and none is inductive: a response is parked or resumed
from what the other tables say. `OInv` adds to them

- `SlotStates` and `SlotLeft`: at most one response runs, of the active bank, and the
  responses that stay parked over a switch leave a slot for it;
- `ParkedApart`: at most one parked response per bank, and none of a bank that the
  active one supersedes;
- `QueuedOwned`: only a queued request can lack an allocator;
- `SwitchDrained`: a pending switch has its barrier frame under way or no store jobs.

`SlotsSuffice` needs that there is a slot at all: `SchedulerAssumption` says
`RunnerStateSlots >= 1`. With it the count is right for any number of banks and slots:
a handover parks the response that leaves and takes the one that comes out of the
parked ones, and `StayParked` is what remains in between.

**Bank memory** (`BankSwap_proofs`). `HandoverIsPrivateMemory` is
`Spec => PagesSurviveHandover`: with the contents of a bank read from wherever its
bytes are at the moment (GPU, stage or buffer: `Held`), each copy of a swap is a
stuttering step, and the last one, like a copy-out or a discard, is one step of the
private memories. `BuffersNeverLost` is `Spec => []BuffersAccounted`. The invariant
`SwapInv` says that images have buffers of their own whose recorded ranges are the
bank's live blocks, that a bank which is nowhere has no live blocks, and that
between the first and the second copy the stage mirrors its chunk. The assumption
on `Plan` is `ExactPlan` (`SwapAssumption`).

`SwapPlanIsExact` discharges that assumption for the code: the plan of `BlockSpans` is
exact for any number of blocks, regions and stage sizes. `ChunksTile` states the stronger
`ChunksTileTheSpans`: the chunks cover the live blocks of every region and nothing else,
each once, and fit the stage. The argument follows the code: `SpansHoldBlocks` (after n
blocks the ranges are in order and hold exactly the blocks below n; `RangeContinued` and
`RangeBegun` are the two branches of the loop), `ChunksOfTiled` (steps of the stage's
size, the last cut at the end of the range), `FlattenTiled` (lists that tile disjoint
cells tile their union). `Recursion` says that a recursion along the first naturals has a
solution, and a least counterexample takes the place of induction. Assumption:
`BlockSpansAssumption` (regions 1..n, a stage holds a block).

**The chat's files** (`ChatStore_proofs`). `TypeCorrect`, `GenerationStays`,
`RetiredStays` and `SnapshotKept`, which is `Spec => SnapshotNeverLost`: the files
implement `SnapshotStore`, with its variables read from `meta`, `metaDisk` and
`filesDisk`. That the snapshot is complete on the medium is not inductive: a commit
makes the metadata on the medium and the visible one differ for a while. `Inv` adds:

- `Manifests`: the snapshots that both versions of `chat.json` name are held in both
  views of the directory, and their generations have directories in both;
- `Durable`: a visible block that is not on the medium belongs to a worker that is
  about to sync it, to an engine that died (start-up collects it) or to a retired
  generation;
- `Workers` and `Candidate`: workers exclude an exclusive holder and write the
  current generation; what the publisher verified is as it was;
- `Intent`: what the holder of the exclusive lock will save is the metadata as it is,
  a verified head or the next generation, and it deletes only while both versions of
  `chat.json` are equal.

Assumption: `StoreAssumption`.

**Priorities** (`PriorityControl_proofs`). `ReleasedForGood` and
`ConfirmedStaysInForce`, for any chats, settings, answers, commands, heartbeats and
losses, and any number of windows per chat. Two windows of one chat number their updates
independently, so what the engine owes a window ends with the update of another one that
it accepts (see Observations, *Two windows*): `Mine` says that the row is the window's
own, and `Overruling` that otherwise `released` and `overruled` have recorded it. `WInv`
describes a window, the updates on their way and the registry's row together: `Numbered` (updates
leave in the order of their numbers), `Ordered` (after an update that ends an answer
none continues it), `Outlived` (a row that has outlived its tombstone is older than
everything on its way), `Gone` (of a released answer only updates older than the row
are left) and `Told` (the last update says what the window shows, and once confirmed so
does the row).

**The tier** (`ChatTier_proofs`). `HeadStaysOnDisk`, `TailsStayRestorable` and the
action properties `HeadsNeverRegress` and `FlushAnswersTrue`. The publisher works
outside the mutex on what it selected before, and what makes that safe is an order:
`TInv` says that a chat's requests come and leave in sequence (`Arrival`, `Departure`,
`Succession`), so that what the publisher selected is older than what arrived since
(`SelectedStill`, `Candidate`), a record older than the requests that run, and the head
not newer than the record (`RecordsGood`, `Settled`). `Flushed` says that the record
being flushed stays in place while its generation is current, `RequestHeld` and
`RecordHeld` which blocks of a good request are on disk at which point, and
`CollectOnly` that a pass after an error loses nothing good. `FlushAnswersTrue` rests on
a second invariant, `GInv`: a good request that has left is at or below the durable
head, in a record, or at or below a request of its generation that the publisher gave
up (`givenUp`); that the generation is then impaired follows from `TInv`. That exception
is the answer `tier_flush` shows. Assumption: `TierAssumption`.

**The response end** (`ResponseEnd_proofs`). `RefsAccountedHolds`, `DataExactHolds`
and `InputsExactHold`, that every forward pass computes from exact inputs (with the type
invariant, `EndTypeCorrect`). Neither property is inductive. That a
block can be given back needs that no table names it twice; that an endpoint is intact
needs that nobody computes into a block that a copy still reads; and both need to know
which two blocks the copy that was ordered pins. `EInv` adds

- `OneTurn`, `FrameFits`: one turn has blocks, and the frame under way is its own;
- `OneCopy`, `CopyPrivate`, `NoneTwice`: the one copy that is ordered or under way, its
  pins, and that nobody but the endpoint names its destination;
- `RefsAre`: the counts by owner (endpoint, copy, copy on write, tables), which take the
  place of the sums of `RefsAccounted`: a block counts at most one for each;
- `FreshOutputs`: what a step computes into belongs to its turn alone;
- `EntryState`, `StateComputed`, `StepStarts`: the endpoint's state is in its block or in
  the source of its copy, the last state of a turn is the state at its last place, and
  a step starts from the endpoint (`FromEntry`) or from the turn's own state (`FromState`);
- `TablesExact`, `EntryExact`: the places computed so far hold their data.

The lemmas: `OnlyFacts` (what the recursive filter keeps, by a least counterexample),
`Counted...` (what `touch`, `get_new_blocks` and `free_blocks` do to the counts by owner)
and `InputsAreExact`, from which `Work` extends `TablesExact` by one place. Assumption:
`EndAssumption`.

**The persistent cache** (`CacheLifecycle_proofs`). `LiveIsNeverLost`,
`CollectedStaysUntilPurged` and `RunsStayReadable`, for any number of payloads, refs,
runs, kills and losses of power. That a payload survives the unlink of one of its names
depends on what the operation did before: `CInv` adds what each operation has
established at each of its steps (`Underway`), that the other name is synced (`Synced`,
with the one step between a rename or unlink and its fsync), that at most one run is
incomplete (`OneIncomplete`), and that a complete run holds its payloads by its own
names alone (`CompleteHeld`). The payloads excepted by `exposed` (Observations, *Two
names*) are excepted here too.

**Live commit** (`LiveCommit_proofs`). Two invariants. `LInv` holds under any faults
and gives `ReleasedStaysVerified` and `QuarantineStays`: whatever names an intent or a
counterexample was written after it (`Journal`), what a round or a recovery knows at
each step (`RoundKnows`, `RecoveryKnows`), and that *every state the canonical root may
be set to* leads on from the tokens released last (`StatesKept`): the snapshot of an
open round, the state before an intent that is recovered, the state of the last
receipt. The central lemma is `ChainLeadsOn`: in a chain of receipts each state leads
on from the earlier ones (a least counterexample takes the place of an induction); from
it, `LoadedKeeps`: a journal that the constructor accepts leads on from the released
tokens, although nothing in the memory of the new process says so.

`DInv` holds while the history is clean (no failing call, no cut file) and gives
`DeathAloneIsRecovered`, for any names of the private roots. *Clean* includes that no
resolved intent was written again (`revived`), without which the property is false
(Observations, *Intents that come back*). Its parts: the receipts
form the chain the constructor demands (`ChainHolds`), the one intent without receipt or
recovery is that of the call under way and extends the chain (`Interrupted`), and where
the canonical root stands at each moment of a round and of a recovery (`RootStands`,
`RecoveryStands`).

Assumptions of these proofs on the constants are the named ones of the modules. Beside
the types, they say that the marker `None` is not one of the documents, rows, updates
or jobs that it stands for the absence of.

**Only model-checked.** Every invariant, action property and refinement of the passing
runs is stated by a theorem. What remains with TLC is liveness under fairness, which
is outside the prover's reach: `EveryRequestServed`, `EveryFinishDelivered`,
`ReservationsEnd`, `EveryFlushAnswered`, `EveryDueTailFlushed`, `EveryTurnEnds`,
`InterruptedRunSettles`; and the counterexamples of `fair_live_generation` and
`tier_flush`.

## 5. What is not modelled

Components with status `not_modelled` in `PROJECT.json`, each with its reason:
telemetry (`RequestPhases`, round timing) decides nothing; kernels and their
qualification, and the campaigns that compare them, are floating-point arithmetic and
reports about it, by far the largest part of the repository's lines; backend control
and memory allocation are I/O. Of the modelled parts: the arithmetic of the tool-handover window (only
whether it is open and what is known of the outcome), the routing of allocator
calls by `CacheBanks.__getattr__`, `prepare_handover_pool` (the buffers are there
from the start: the server is not ready before), and everything inside vLLM. Of the
tier: load jobs and lookups (they read), the byte limit beside the limit on chats,
`shutdown` and the collection of whole namespaces. Of the response end: the token
arithmetic of `end_boundary` (an endpoint that cannot be resolved is the constant
`Unresolved`) and the slices of `copy_response_end`. Of the persistent cache: the
validation of selections, bindings and geometry, an ancestry longer than the parent,
and the reports that change nothing. Of the live commit: the identity and capability
checks, the normalisation of documents, the fatal and ledger files (nothing reads them
back), the rotation of the two spare roots, and the physical roots and executors behind
the driver.

## 6. Plan

In this order:

1. `ToolHandover`: tokens, deadlines, late and repeated acknowledgements; then
   `grace` in `FairScheduler` becomes its abstraction.
2. The conformance GPU lease and queue; token continuation; transactional compaction in Pi.
3. `ChatTier` over an abstract store that is shown to be implemented by `ChatStore`,
   and `LocalEndpoint` of `FairScheduler` as the state of `ResponseEnd`.

Theorem to add: that the invariant of `ChatTier` needs of the store only what
`SnapshotStore` promises.
