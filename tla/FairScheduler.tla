--------------------------- MODULE FairScheduler ---------------------------
(***************************************************************************)
(* The response-boundary scheduler that shares one GPU between chats:      *)
(* FairScheduler and CacheBanks in                                         *)
(* experiments/radiance-public/radiance_fair_scheduler.py, composed with   *)
(* the GPU worker (WorkerBanks) that carries out its frames.               *)
(*                                                                         *)
(* One engine step is Schedule (the scheduler picks a bank and builds a    *)
(* frame), BeforeForward (the worker moves cache banks and runs the frame) *)
(* and UpdateFromOutput.  Clients add requests, abort them, change         *)
(* priorities and report tool outcomes between steps; aborts are also      *)
(* taken while a frame is executing.                                       *)
(*                                                                         *)
(* A bank switch takes two frames: a zero-token barrier frame on the old   *)
(* bank, which drains its store jobs, then the handover frame.             *)
(***************************************************************************)
EXTENDS WorkerBanks

CONSTANTS
    Chat,               \* chat identities
    ChatOf,             \* the chat of a bank key
    Req,                \* request identities; one is reused after it is gone
    KeyOf,              \* bank_key(request)
    RunnerStateSlots,   \* V2 request-state slots (2 in the qualified runtime)
    Priorities,         \* the priority levels clients of each chat ever set
    ToolChats,          \* chats whose responses carry a tool-handover token
    LocalEndpoint,      \* requests that continue a response end kept on the GPU
    Cancellable,        \* requests whose client may abort them
    MaxOverdue          \* bound: requests that pass the deferral limit at a time

ASSUME SchedulerAssumption ==
    /\ ChatOf \in [Key -> Chat]
    /\ KeyOf \in [Req -> Key]
    /\ None \notin Req
    /\ RunnerStateSlots \in Nat \ {0}
    /\ Priorities \in [Chat -> SUBSET (0..2)]
    /\ LocalEndpoint \subseteq Req /\ Cancellable \subseteq Req
    /\ IsFiniteSet(Key)
    /\ IsFiniteSet(Req)

VARIABLES
    status,         \* state of each request of self.requests ("absent": not there)
    running,        \* self.running
    parked,         \* values of self.parked: RUNNING, interrupted by priority 2
    finishedIds,    \* self.finished_req_ids: finish not yet sent to the worker
    owners,         \* keys of banks.owners (request r is owned by KeyOf[r])
    unallocated,    \* banks.unallocated: queued, their bank has no allocator yet
    bankless,       \* self.bankless_finished
    managers,       \* keys of banks.managers
    active,         \* banks.active
    pendingSwitch,  \* self.pending_switch
    pendingDiscard, \* self.pending_discard
    lastServed,     \* rank of self.last_served (0: never served)
    overdue,        \* rank of queued_at among requests over the deferral limit
    response,       \* self.response_request while it is not finished
    grace,          \* ToolHandover.remaining() > 0, and what is known of the outcome
    level,          \* AnswerPriorities.level of each chat
    phase,          \* where the engine step is
    frame,          \* the scheduler output being executed
    unpublished,    \* finished requests the connector has not published yet
    stores          \* banks with connector store jobs that still read GPU pages

schedVars == <<status, running, parked, finishedIds, owners, unallocated,
               bankless, managers, active, pendingSwitch, pendingDiscard,
               lastServed, overdue, response, grace, level>>
engineVars == <<phase, frame, unpublished, stores>>
vars == <<schedVars, engineVars, workerVars, raised>>

Status == {"absent", "waiting", "remote", "preempted", "running", "finished"}
Grace == {"none", "outcome", "tool"}
SchedulerErrors == {"running_at_handover", "live_generation", "not_priority_2",
                    "parked_ownership", "no_successor_request"}
Frame == [bank : Key \cup {None}, drops : SUBSET Key, barrier : BOOLEAN,
          discard : BOOLEAN, save : BOOLEAN, sched : Req \cup {None}]
NoFrame == [bank |-> None, drops |-> {}, barrier |-> FALSE, discard |-> FALSE,
            save |-> FALSE, sched |-> None]

(***************************************************************************)
(* Time stamps.  time.monotonic() values are only ever compared, so a      *)
(* stamp is its rank among the recorded ones; 0 is "not recorded".         *)
(***************************************************************************)
KeepStamps(f, S) ==
    [x \in DOMAIN f |->
        IF x \in S /\ f[x] > 0
        THEN Cardinality({y \in S \cap DOMAIN f : 0 < f[y] /\ f[y] <= f[x]})
        ELSE 0]

StampNow(f, x) ==
    LET g == KeepStamps(f, DOMAIN f \ {x})
    IN [g EXCEPT ![x] = Cardinality({y \in DOMAIN g : g[y] > 0}) + 1]

(***************************************************************************)
(* Reading the scheduler's state.                                          *)
(***************************************************************************)
OwnerOf(r) == IF r \in owners THEN KeyOf[r] ELSE None

\* supersedes(): another generation of the same chat
Supersedes(candidate, existing) ==
    /\ candidate # None /\ existing # None /\ candidate # existing
    /\ ChatOf[candidate] = ChatOf[existing]

Level(k) == IF k = None THEN 0 ELSE level[ChatOf[k]]

Waiting == {r \in Req : status[r] \in {"waiting", "remote", "preempted"}}
WaitingOn(k) == {r \in Waiting : OwnerOf(r) = k}
ParkedOn(k) == {r \in parked : OwnerOf(r) = k}
Live == {r \in Req : status[r] # "absent"} \cup finishedIds

\* Mutant: a finished request waiting for delayed cleanup is not busy.
BusyBanksUnfinished ==
    {OwnerOf(r) : r \in {q \in Req : status[q] \notin {"absent", "finished"}}} \ {None}

BusyBanks == {OwnerOf(r) : r \in Live} \ {None}

Contenders == {OwnerOf(r) : r \in Waiting \cup parked} \ {None}
Others == {k \in Contenders : k # active /\ ~Supersedes(k, active)}
OverdueKeys == {OwnerOf(r) : r \in {q \in Waiting : overdue[q] > 0}} \ {None}

(***************************************************************************)
(* _make_room(target).  RoomFor is its result; Retirements the sets of     *)
(* banks it may retire when the result is true.  A false result retires    *)
(* nothing: retiring an older generation always makes room.                *)
(***************************************************************************)
\* Mutant: older generations of the chat are not looked for.
ReplacedNone(t) == {}

Replaced(t) == {k \in managers : Supersedes(t, k)}
Surviving(t) == managers \ (Replaced(t) \ {active})

\* Mutant: off by one in the capacity test.
FitsWithoutOffByOne(t) ==
    \/ t \in Surviving(t)
    \/ Cardinality(Surviving(t)) <= MaxBanks
    \/ active \in Replaced(t) /\ Cardinality(Surviving(t)) - 1 < MaxBanks

FitsWithout(t) ==
    \/ t \in Surviving(t)
    \/ Cardinality(Surviving(t)) < MaxBanks
    \/ active \in Replaced(t) /\ Cardinality(Surviving(t)) - 1 < MaxBanks

\* Mutant: the early return for a live older generation is missing.
RoomForUnguarded(t) ==
    FitsWithout(t) \/ (active \notin Replaced(t) /\ Surviving(t) \ BusyBanks # {})

RoomFor(t) ==
    /\ Replaced(t) \cap BusyBanks = {}
    /\ FitsWithout(t) \/ (active \notin Replaced(t) /\ Surviving(t) \ BusyBanks # {})

Oldest(S) == {k \in S : \A j \in S : lastServed[k] <= lastServed[j]}

Retirements(t) ==
    IF FitsWithout(t)
    THEN {Replaced(t) \ {active}}
    ELSE {(Replaced(t) \ {active}) \cup {v} : v \in Oldest(Surviving(t) \ BusyBanks)}

(***************************************************************************)
(* _choose().  A decision names the bank to serve, the response it selects *)
(* and the banks retired to make room.  Decisions is the set of outcomes:  *)
(* ties that Python breaks by the key's hash are left open.                *)
(***************************************************************************)
NextResponse(k) ==
    IF WaitingOn(k) # {} THEN WaitingOn(k)
    ELSE IF ParkedOn(k) # {} THEN ParkedOn(k) ELSE {None}

Serve(k) == [target : {k}, response : NextResponse(k), retired : Retirements(k),
             grace : {"none"}]
Stay(responses, g) == [target : {active}, response : responses, retired : {{}}, grace : {g}]

\* Mutant: the runner-state slots are not counted.
UrgentReadyAnySlot ==
    {k \in Others :
        /\ Level(k) = 2 /\ Level(active) < 2
        /\ \A r \in WaitingOn(active) : status[r] # "remote"
        /\ RoomFor(k)}

UrgentReady ==
    {k \in Others :
        /\ Level(k) = 2 /\ Level(active) < 2
        /\ \A r \in WaitingOn(active) : status[r] # "remote"
        /\ \/ ParkedOn(k) # {}
           \/ Cardinality(running) + Cardinality(parked) < RunnerStateSlots
        /\ RoomFor(k)}

PriorityHold ==
    Level(active) > 0 /\ \A k \in Others : Level(k) < Level(active)

\* Mutant: ownership starts when the response runs, not when it is selected.
AtBoundaryOnceRunning == UrgentReady = {} /\ running = {}

\* Only at a response boundary is another bank considered on equal terms.
AtBoundary == UrgentReady = {} /\ running = {} /\ response = None

Successors == {k \in Contenders : Supersedes(k, active) /\ RoomFor(k)}

\* Mutant: an overdue chat does not end the grace.
InGraceOverdue ==
    /\ grace # "none"
    /\ ~ \E k \in Others : Level(k) > Level(active)

InGrace ==
    /\ grace # "none"
    /\ ~ \E k \in Others : Level(k) > Level(active)
    /\ OverdueKeys \subseteq {active}

Candidates == (Contenders \cup {OwnerOf(r) : r \in finishedIds}) \ {None}

SortKey(k) ==
    <<2 - Level(k),
      IF k \in OverdueKeys THEN 0 ELSE 1,
      IF k \in OverdueKeys
      THEN CHOOSE m \in {overdue[r] : r \in WaitingOn(k)} :
             m > 0 /\ \A r \in WaitingOn(k) : overdue[r] > 0 => m <= overdue[r]
      ELSE lastServed[k],
      IF k = active THEN 1 ELSE 0>>

SortsBefore(j, k) ==
    \E i \in 1..4 : /\ SortKey(j)[i] < SortKey(k)[i]
                    /\ \A h \in 1..(i - 1) : SortKey(j)[h] = SortKey(k)[h]

Ready == {k \in Candidates : RoomFor(k)}
FirstReady == {k \in Ready : \A j \in Ready : ~SortsBefore(j, k)}

HoldDecisions ==
    IF Successors # {}
    THEN UNION {Serve(k) : k \in Successors}
    ELSE Stay(IF WaitingOn(active) # {} THEN WaitingOn(active) ELSE {None}, "none")

GraceDecisions ==
    IF grace = "tool" /\ WaitingOn(active) # {}
    THEN Stay(WaitingOn(active), "none")
    ELSE Stay({None}, grace)

OpenDecisions ==
    IF \/ \E r \in WaitingOn(active) : status[r] \in {"remote", "preempted"}
       \/ Ready = {}
    THEN Stay({None}, "none")
    ELSE UNION {Serve(k) : k \in FirstReady}

Decisions ==
    IF UrgentReady # {} THEN UNION {Serve(k) : k \in Oldest(UrgentReady)}
    ELSE IF ~AtBoundary THEN Stay({response}, grace)
    ELSE IF PriorityHold THEN HoldDecisions
    ELSE IF InGrace THEN GraceDecisions
    ELSE OpenDecisions

(***************************************************************************)
(* The parent scheduler's step, restricted by _parent_step to the requests *)
(* of bank b.  `run` is self.running when it starts; sched is the request  *)
(* that gets tokens.  The parent is vLLM's Scheduler.schedule: with a zero *)
(* budget it admits nothing; a running request is scheduled, or preempted  *)
(* when its blocks cannot be allocated; otherwise one waiting request may  *)
(* be admitted, or go to (come back from) a connector load.  A request     *)
(* whose prefix is looked up in the connector waits until every finished   *)
(* request has published its tail (patch_streaming_snapshot.py).           *)
(***************************************************************************)
LookupAnswers(r) ==
    \/ status[r] = "remote"
    \/ r \in LocalEndpoint
    \/ unpublished \subseteq {r}

\* Mutant: the active bank's own finishes are held too.
DeliveredBankless(b) == {r \in finishedIds : r \in bankless}

Delivered(b) == {r \in finishedIds : OwnerOf(r) = b \/ r \in bankless}

AdmitNothing(run) == running' = run /\ UNCHANGED status

ParentSchedule(b, run, zero, sched) ==
    \/ zero /\ sched = None /\ AdmitNothing(run)
    \/ ~zero /\ run # {} /\ sched \in run /\ AdmitNothing(run)
    \/ /\ ~zero /\ run # {} /\ sched = None
       /\ running' = {}
       /\ status' = [r \in Req |-> IF r \in run THEN "preempted" ELSE status[r]]
    \/ /\ ~zero /\ run = {} /\ sched \in WaitingOn(b) /\ LookupAnswers(sched)
       /\ running' = {sched}
       /\ status' = [status EXCEPT ![sched] = "running"]
    \/ /\ ~zero /\ run = {} /\ sched = None
       /\ running' = {}
       /\ \E moved \in SUBSET {r \in WaitingOn(b) : LookupAnswers(r)} :
            status' = [r \in Req |->
                IF r \notin moved THEN status[r]
                ELSE IF status[r] = "remote" THEN "waiting" ELSE "remote"]

\* Mutant: a barrier frame keeps the token budget.
ParentStepFullBudget(b, run, zero, sched) ==
    /\ ParentSchedule(b, run, FALSE, sched)
    /\ finishedIds' = finishedIds \ Delivered(b)
    /\ bankless' = bankless \ Delivered(b)
    /\ UNCHANGED stores

ParentStep(b, run, zero, sched) ==
    /\ ParentSchedule(b, run, zero, sched)
    /\ finishedIds' = finishedIds \ Delivered(b)
    /\ bankless' = bankless \ Delivered(b)
    /\ stores' = IF sched # None \/ Delivered(b) # {} THEN stores \cup ({b} \ {None}) ELSE stores

\* Mutant: the bank is recorded as the owner instead of the request.
RecordServiceBank(selected, g, served) ==
    /\ response' = IF running' = {} THEN selected ELSE active'
    /\ grace' = IF running' = {} THEN g ELSE "none"
    /\ lastServed' = IF running' = {} THEN served ELSE StampNow(served, active')

\* The end of schedule(): an admitted response owns the GPU and is served.
RecordService(selected, g, served) ==
    /\ response' = IF running' = {} THEN selected ELSE CHOOSE r \in running' : TRUE
    /\ grace' = IF running' = {} THEN g ELSE "none"
    /\ lastServed' = IF running' = {} THEN served ELSE StampNow(served, active')

\* banks.activate(key): the bank gets an allocator and its queued requests with it
Activate(k) ==
    /\ active' = k
    /\ unallocated' = {r \in unallocated : OwnerOf(r) # k}

\* Mutant: the resumed response stays in the parked table.
StillParkedAll(keys) == parked

\* parked.pop(key) for each of the keys
StillParked(keys) == {r \in parked : OwnerOf(r) \notin keys}

\* _retire_bank drops finished requests of the bank from the owner table.
OwnersWithout(gone) == {r \in owners : KeyOf[r] \notin gone \/ r \in Live}

\* The engine loop steps while the scheduler has requests (the parked ones
\* included), finishes to send, or the connector has tails to publish.
HasWork == Waiting \cup running \cup parked \cup finishedIds \cup unpublished # {}

Crash(error) ==
    /\ raised' = error
    /\ UNCHANGED <<schedVars, engineVars, workerVars>>

EngineStep == phase = "ready" /\ raised = "none" /\ HasWork

(***************************************************************************)
(* schedule() with a switch pending: the handover frame.                   *)
(***************************************************************************)
DiscardPrevious == pendingDiscard \/ Supersedes(pendingSwitch, active)

HandoverFault ==
    /\ EngineStep /\ pendingSwitch # None
    /\ CASE running # {} -> Crash("running_at_handover")
         [] running = {} /\ DiscardPrevious /\ active \in BusyBanks
              -> Crash("live_generation")
         [] OTHER -> FALSE

Handover(sched) ==
    /\ EngineStep /\ pendingSwitch # None
    /\ running = {}
    /\ ~(DiscardPrevious /\ active \in BusyBanks)
    /\ LET gone   == IF DiscardPrevious THEN {active} ELSE {}
           resume == ParkedOn(pendingSwitch)
       IN /\ managers' = (managers \ gone) \cup {pendingSwitch}
          /\ owners' = OwnersWithout(gone)
          /\ Activate(pendingSwitch)
          /\ parked' = StillParked(gone \cup {pendingSwitch})
          /\ pendingSwitch' = None
          /\ pendingDiscard' = FALSE
          /\ ParentStep(pendingSwitch, resume, FALSE, sched)
          /\ RecordService(response, grace, KeepStamps(lastServed, Key \ gone))
          /\ frame' = [bank |-> pendingSwitch, drops |-> gone, barrier |-> FALSE,
                       discard |-> DiscardPrevious,
                       save |-> ~DiscardPrevious /\ active \in managers,
                       sched |-> sched]
    /\ phase' = "scheduled"
    /\ UNCHANGED <<overdue, level, unpublished, workerVars, raised>>

(***************************************************************************)
(* schedule() with no switch pending: choose a bank, then either run on    *)
(* the resident bank or start a switch with a barrier frame.               *)
(***************************************************************************)
SweptOverdue == IF AtBoundary THEN KeepStamps(overdue, Waiting) ELSE overdue

\* _worker_metadata: a frame on the bank the GPU already holds.
ResidentFrame(bank, retired, sched) ==
    [bank |-> bank, drops |-> retired, barrier |-> FALSE, discard |-> FALSE,
     save |-> FALSE, sched |-> sched]

RunResident(d, sched) ==
    LET first == active = None /\ d.target # None
    IN /\ first \/ d.target = active
       /\ managers' = (managers \ d.retired) \cup (IF first THEN {d.target} ELSE {})
       /\ IF first THEN Activate(d.target) ELSE UNCHANGED <<active, unallocated>>
       /\ ParentStep(d.target, running, d.grace = "outcome", sched)
       /\ RecordService(d.response, d.grace, KeepStamps(lastServed, Key \ d.retired))
       /\ frame' = ResidentFrame(d.target, d.retired, sched)
       /\ UNCHANGED <<parked, pendingSwitch, pendingDiscard>>

\* Mutants: the frame is not marked as a barrier; the retired banks are not
\* sent to the worker.
UnmarkedBarrierFrame(retired, sched) == [ResidentFrame(active, retired, sched) EXCEPT !.barrier = FALSE]
BarrierFrameKeepingDrops(retired, sched) == [ResidentFrame(active, {}, sched) EXCEPT !.barrier = TRUE]

\* The zero-token frame on the old bank, ahead of the handover.
BarrierFrame(retired, sched) == [ResidentFrame(active, retired, sched) EXCEPT !.barrier = TRUE]

\* A running response is parked: it keeps its blocks and runner-state slot.
StartSwitch(d, sched) ==
    /\ active # None /\ d.target # active
    /\ UNCHANGED <<active, unallocated>>
    /\ managers' = managers \ d.retired
    /\ parked' = StillParked(d.retired) \cup running
    /\ pendingSwitch' = d.target
    /\ pendingDiscard' = (active \in d.retired \/ Supersedes(d.target, active))
    /\ ParentStep(active, {}, TRUE, sched)
    /\ RecordService(d.response, d.grace, KeepStamps(lastServed, Key \ d.retired))
    /\ frame' = BarrierFrame(d.retired, sched)

\* schedule() reads the priority leases again before it parks a response: the
\* lease that made the target urgent can run out between the two readings.
MayPark(d, levelNow) ==
    running # {} =>
        /\ levelNow = 2 /\ levelNow > Level(active)
        /\ Cardinality(running) = 1
        /\ ParkedOn(active) = {}

Step(d, sched) ==
    /\ EngineStep /\ pendingSwitch = None
    /\ d \in Decisions
    /\ \/ RunResident(d, sched)
       \/ StartSwitch(d, sched) /\ MayPark(d, Level(d.target))
    /\ owners' = OwnersWithout(d.retired)
    /\ overdue' = SweptOverdue
    /\ phase' = "scheduled"
    /\ UNCHANGED <<level, unpublished, workerVars, raised>>

StepFault ==
    /\ EngineStep /\ pendingSwitch = None
    /\ \/ /\ AtBoundary /\ PriorityHold
          /\ \E k \in Successors : WaitingOn(k) = {}
          /\ Crash("no_successor_request")
       \/ \E d \in Decisions : \E levelNow \in {Level(d.target), 0} :
            /\ active # None /\ d.target # active /\ ~MayPark(d, levelNow)
            /\ IF levelNow = 2 /\ levelNow > Level(active)
               THEN Crash("parked_ownership")
               ELSE Crash("not_priority_2")

Schedule ==
    \/ \E sched \in Req \cup {None} : Handover(sched)
    \/ \E d \in Decisions, sched \in Req \cup {None} : Step(d, sched)
    \/ HandoverFault
    \/ StepFault

(***************************************************************************)
(* The worker executes the frame: bank movement, then the forward pass. A  *)
(* barrier frame finishes every store job built so far.                    *)
(***************************************************************************)
BeforeForward ==
    /\ phase = "scheduled" /\ raised = "none"
    /\ Before(frame)
    /\ phase' = "executed"
    /\ stores' = IF frame.barrier THEN {} ELSE stores
    /\ UNCHANGED <<schedVars, frame, unpublished>>

(***************************************************************************)
(* update_from_output: the scheduled response may finish; store jobs may   *)
(* complete.  With its jobs done, a finished request leaves self.requests; *)
(* the connector forgets it once its finish was also in a frame.           *)
(***************************************************************************)
Outcome == {"continue", "tool_capable_stop", "end"}

UpdateFromOutput(outcome, delayed, cleaned) ==
    LET r == frame.sched
    IN /\ phase = "executed" /\ raised = "none"
       /\ outcome # "continue" => r # None /\ r \in running
       /\ outcome = "tool_capable_stop" => ChatOf[KeyOf[r]] \in ToolChats
       /\ cleaned \subseteq {q \in Req : status[q] = "finished"} \cup (unpublished \ finishedIds)
       /\ status' = [q \in Req |->
            IF q \in cleaned /\ status[q] = "finished" THEN "absent"
            ELSE IF outcome # "continue" /\ q = r
                 THEN IF delayed THEN "finished" ELSE "absent"
                 ELSE status[q]]
       /\ IF outcome = "continue"
          THEN /\ unpublished' = unpublished \ (cleaned \ finishedIds)
               /\ UNCHANGED <<running, finishedIds, response, grace>>
          ELSE /\ unpublished' = (unpublished \ (cleaned \ finishedIds)) \cup {r}
               /\ running' = running \ {r}
               /\ finishedIds' = finishedIds \cup {r}
               /\ response' = IF response = r THEN None ELSE response
               /\ grace' = IF outcome = "tool_capable_stop" THEN "outcome" ELSE "none"
       /\ phase' = "ready"
       /\ frame' = NoFrame
       /\ stores' \in {stores, {}}
       /\ UNCHANGED <<parked, owners, unallocated, bankless, managers, active,
                      pendingSwitch, pendingDiscard, lastServed, overdue, level,
                      workerVars, raised>>

(***************************************************************************)
(* What clients do.                                                        *)
(***************************************************************************)
AddRequest(r, admitted) ==
    /\ phase = "ready" /\ raised = "none"
    /\ status[r] = "absent" /\ r \notin finishedIds \cup unpublished
    /\ overdue' = [overdue EXCEPT ![r] = 0]
    /\ IF admitted
       THEN /\ status' = [status EXCEPT ![r] = "waiting"]
            /\ owners' = owners \cup {r}
            /\ unallocated' = IF KeyOf[r] \in managers THEN unallocated
                              ELSE unallocated \cup {r}
       ELSE /\ owners' = owners \ {r}
            /\ unallocated' = unallocated \ {r}
            /\ UNCHANGED status
    /\ UNCHANGED <<running, parked, finishedIds, bankless, managers, active,
                   pendingSwitch, pendingDiscard, lastServed, response, grace,
                   level, engineVars, workerVars, raised>>

\* finish_requests: a request whose bank was never allocated loses its owner
\* entry, so that its cleanup is sent whatever bank is active.
FinishRequest(r, delayed) ==
    /\ phase \in {"ready", "executed"} /\ raised = "none"
    /\ r \in Cancellable
    /\ status[r] \in {"waiting", "remote", "preempted", "running"}
    /\ delayed => r \notin unallocated
    /\ status' = [status EXCEPT ![r] = IF delayed THEN "finished" ELSE "absent"]
    /\ running' = running \ {r}
    /\ parked' = parked \ {r}
    /\ finishedIds' = finishedIds \cup {r}
    /\ unpublished' = unpublished \cup {r}
    /\ bankless' = IF r \in unallocated THEN bankless \cup {r} ELSE bankless
    /\ owners' = IF r \in unallocated THEN owners \ {r} ELSE owners
    /\ unallocated' = unallocated \ {r}
    /\ response' = IF response = r THEN None ELSE response
    /\ grace' = IF response = r THEN "none" ELSE grace
    /\ UNCHANGED <<managers, active, pendingSwitch, pendingDiscard, lastServed,
                   overdue, level, phase, frame, stores, workerVars, raised>>

\* A priority update, or the end of its lease.
SetLevel(c, l) ==
    /\ phase = "ready" /\ raised = "none"
    /\ l # level[c]
    /\ level' = [level EXCEPT ![c] = l]
    /\ UNCHANGED <<status, running, parked, finishedIds, owners, unallocated,
                   bankless, managers, active, pendingSwitch, pendingDiscard,
                   lastServed, overdue, response, grace, engineVars,
                   workerVars, raised>>

\* The parser's outcome arrives, or the grace window ends.
ResolveGrace(g) ==
    /\ phase = "ready" /\ raised = "none"
    /\ \/ grace = "outcome" /\ g \in {"tool", "none"}
       \/ grace = "tool" /\ g = "none"
    /\ grace' = g
    /\ UNCHANGED <<status, running, parked, finishedIds, owners, unallocated,
                   bankless, managers, active, pendingSwitch, pendingDiscard,
                   lastServed, overdue, response, level, engineVars,
                   workerVars, raised>>

\* A waiting request passes max_tool_deferral_seconds.
PassDeferralLimit(r) ==
    /\ phase = "ready" /\ raised = "none"
    /\ r \in Waiting /\ overdue[r] = 0
    /\ Cardinality({q \in Req : overdue[q] > 0}) < MaxOverdue
    /\ overdue' = StampNow(overdue, r)
    /\ UNCHANGED <<status, running, parked, finishedIds, owners, unallocated,
                   bankless, managers, active, pendingSwitch, pendingDiscard,
                   lastServed, response, grace, level, engineVars,
                   workerVars, raised>>

\* An exception ended the engine: nothing happens any more.
EngineDead == raised # "none" /\ UNCHANGED vars

Init ==
    /\ status = [r \in Req |-> "absent"]
    /\ running = {} /\ parked = {} /\ finishedIds = {}
    /\ owners = {} /\ unallocated = {} /\ bankless = {}
    /\ managers = {} /\ active = None
    /\ pendingSwitch = None /\ pendingDiscard = FALSE
    /\ lastServed = [k \in Key |-> 0]
    /\ overdue = [r \in Req |-> 0]
    /\ response = None /\ grace = "none"
    /\ level = [c \in Chat |-> 0]
    /\ phase = "ready"
    /\ frame = NoFrame
    /\ unpublished = {} /\ stores = {}
    /\ raised = "none"
    /\ WorkerInit

Next ==
    \/ Schedule
    \/ BeforeForward
    \/ \E outcome \in Outcome, delayed \in BOOLEAN, cleaned \in SUBSET Req :
         UpdateFromOutput(outcome, delayed, cleaned)
    \/ \E r \in Req, admitted \in BOOLEAN : AddRequest(r, admitted)
    \/ \E r \in Req, delayed \in BOOLEAN : FinishRequest(r, delayed)
    \/ \E c \in Chat : \E l \in Priorities[c] : SetLevel(c, l)
    \/ \E g \in Grace : ResolveGrace(g)
    \/ \E r \in Req : PassDeferralLimit(r)
    \/ EngineDead

Spec == Init /\ [][Next]_vars

-----------------------------------------------------------------------------
(***************************************************************************)
(* Safety.                                                                 *)
(***************************************************************************)
\* Every variable holds a value of its type.
TypeOK ==
    /\ status \in [Req -> Status]
    /\ running \subseteq Req /\ parked \subseteq Req
    /\ finishedIds \subseteq Req /\ owners \subseteq Req
    /\ unallocated \subseteq Req /\ bankless \subseteq Req
    /\ managers \subseteq Key /\ active \in Key \cup {None}
    /\ pendingSwitch \in Key \cup {None} /\ pendingDiscard \in BOOLEAN
    /\ lastServed \in [Key -> Nat] /\ overdue \in [Req -> Nat]
    /\ response \in Req \cup {None} /\ grace \in Grace
    /\ level \in [Chat -> 0..2]
    /\ phase \in {"ready", "scheduled", "executed"}
    /\ frame \in Frame
    /\ unpublished \subseteq Req /\ stores \subseteq Key
    /\ gpuBank \in Key \cup {None} /\ images \subseteq Key /\ free \in Nat
    /\ raised \in {"none"} \cup SchedulerErrors \cup WorkerErrors

\* The scheduler never sends the worker a frame it must refuse: a handover
\* always finds a RAM buffer ("RAM chat-cache capacity exhausted"), a discarded
\* GPU bank is always in the frame's retirement set, and a bank that replaces
\* it never has a stale RAM image left from an earlier life.
WorkerNeverRefuses == raised \notin WorkerErrors

\* The engine never reaches the other "impossible" states schedule() guards
\* against: a response running at the handover frame, a second response parked
\* for one bank, a successor generation chosen with no request of its own.
OwnershipNeverBroken ==
    raised \notin {"running_at_handover", "parked_ownership", "no_successor_request"}

\* Scheduler and worker agree on where every cache bank is.  Between engine
\* steps the GPU holds the active bank, and each other bank with an allocator
\* has exactly one RAM image; no image outlives its allocator.
BanksAgree ==
    phase = "ready" /\ raised = "none" =>
        /\ gpuBank = active
        /\ images = managers \ {active}

\* Every pinned buffer is either free or holds one image, at most MaxBanks
\* banks have allocators (one of them on the GPU), and none leaks over any
\* sequence of swaps, discards and evictions.
BuffersConserved ==
    /\ Cardinality(images) + free = MaxBanks - 1
    /\ Cardinality(managers) <= MaxBanks

\* At most one generation of a chat has a bank: a compacted chat's predecessor
\* is gone from the allocators before its successor gets one.
OneGenerationPerChat ==
    \A j, k \in managers : ~Supersedes(j, k)

\* A request that ever got an allocator keeps it until its cleanup has been
\* sent to the worker: its bank is not retired under it.  (A queued request
\* without one is in `unallocated`, and only then.)
LiveRequestKeepsBank ==
    \A r \in Live : r \in owners => (KeyOf[r] \in managers <=> r \notin unallocated)

\* The runner has RunnerStateSlots request states: the running response and
\* the parked ones never need more, and at most one response runs, on the
\* active bank.
SlotsSuffice ==
    /\ Cardinality(running) + Cardinality(parked) <= RunnerStateSlots
    /\ Cardinality(running) <= 1
    /\ \A r \in running : OwnerOf(r) = active

\* A parked response can be resumed: it is still RUNNING, it is the only one
\* of its bank, the bank is not the resident one (except inside its own
\* handover window) and no other generation of its chat took the GPU.
ParkedCanResume ==
    \A r \in parked :
        /\ status[r] = "running" /\ r \notin running
        /\ OwnerOf(r) \in managers
        /\ \A q \in parked : OwnerOf(q) = OwnerOf(r) => q = r
        /\ OwnerOf(r) = active => pendingSwitch # None
        /\ ~Supersedes(OwnerOf(r), active)

\* When the worker is about to overwrite the GPU bank, no connector store job
\* still reads its pages, and a bank that is kept has its pages saved.
HandoverDrained ==
    phase = "scheduled" /\ raised = "none" /\ gpuBank # None /\ frame.bank # gpuBank =>
        /\ gpuBank \notin stores
        /\ frame.discard \/ frame.save

(***************************************************************************)
(* What a step may never do.                                               *)
(***************************************************************************)
\* The GPU leaves a selected response only for a higher priority 2, and only
\* while none of its bank's requests is receiving pages: no other chat, tool
\* timer or overdue request can start a switch before the response ends.
SelectedResponseKeepsGpu ==
    [][ (pendingSwitch = None /\ pendingSwitch' # None /\ response # None)
          => /\ Level(pendingSwitch') = 2 /\ Level(active) < 2
             /\ \A r \in WaitingOn(active) : status[r] # "remote" ]_vars

\* A bank is retired only when no request of it is live, so no cache with a
\* queued, running, parked or still-cleaning-up request is ever dropped.
BusyBankNeverRetired ==
    [][ \A k \in managers \ managers' : \A r \in Live : OwnerOf(r) # k ]_vars

\* Comment at line 1351: "Never let a successor overwrite a generation whose
\* request or delayed connector cleanup is still live."  schedule() checks it
\* a second time at the handover frame and raises; this says that check never
\* fails.
LiveGenerationNeverReplaced == raised # "live_generation"

-----------------------------------------------------------------------------
(***************************************************************************)
(* Liveness.  What the rest of the runtime guarantees: the engine loop     *)
(* steps while there is work; and, as "infinitely often": the parent admits*)
(* requests of a bank in arrival order, so one that it could admit in      *)
(* every frame gets its turn; a response has a bounded number of rounds    *)
(* (max_tokens); the store jobs of a finished request complete; time       *)
(* passes.                                                                 *)
(***************************************************************************)
EngineLoops ==
    /\ WF_phase(EngineStep /\ phase' = "scheduled")
    /\ WF_phase(phase = "scheduled" /\ raised = "none" /\ phase' = "executed")
    /\ WF_phase(phase = "executed" /\ raised = "none" /\ phase' = "ready")

AdmissibleInFrame(r) ==
    /\ phase = "scheduled" /\ ~frame.barrier /\ grace # "outcome"
    /\ r \in WaitingOn(frame.bank) /\ LookupAnswers(r)

Fairness ==
    /\ EngineLoops
    /\ \A r \in Req :
        /\ []<>AdmissibleInFrame(r) => []<>(frame.sched = r)
        /\ []<>(frame.sched = r) => []<>(status[r] \in {"absent", "finished"})
        /\ []<>(r \notin finishedIds /\ (r \in unpublished \/ status[r] = "finished"))
             => []<>(r \notin unpublished /\ status[r] # "finished")
        /\ []<>(r \notin Waiting \/ overdue[r] > 0)
    /\ []<>(grace = "none")

FairSpec == Spec /\ Fairness

EngineStopped == raised # "none"

\* No request starves: whatever other chats keep sending, and however quickly
\* their tool continuations return, a queued request is admitted or withdrawn
\* (unless an exception ended the engine).
EveryRequestServed ==
    \A r \in Req : r \in Waiting ~> (r \notin Waiting \/ EngineStopped)

\* The end of every request reaches the worker, also when its bank was swapped
\* out in the meantime, so its connector state is released.
EveryFinishDelivered ==
    \A r \in Req : r \in finishedIds ~> (r \notin finishedIds \/ EngineStopped)
=============================================================================
