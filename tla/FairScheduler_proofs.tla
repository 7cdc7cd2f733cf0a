------------------------ MODULE FairScheduler_proofs ------------------------
(***************************************************************************)
(* Proofs about FairScheduler, for any number of chats, generations,       *)
(* requests, banks and runner-state slots.                                 *)
(*                                                                         *)
(* BanksAgree only speaks of the states between two engine steps.  The     *)
(* inductive invariant IInv adds what holds while a frame is on its way to *)
(* the worker (FrameFits), what the first activation and a retirement do   *)
(* to the active bank (ActiveAllocated), and what _choose promised the     *)
(* handover frame when it set pending_switch (SwitchPrepared).             *)
(***************************************************************************)
EXTENDS FairScheduler, FiniteSetTheorems, TLAPS

\* The worker holds every bank the scheduler has an allocator for.
Settled ==
    /\ gpuBank = active
    /\ images = managers \ {active}

\* A frame on the bank the GPU holds, or the first frame ever.
ResidentFits ==
    /\ gpuBank \in {active, None}
    /\ images \ frame.drops = managers \ {active}

\* A frame that overwrites an obsolete GPU bank.
DiscardFits ==
    /\ gpuBank # active /\ gpuBank # None
    /\ frame.discard /\ frame.drops = {gpuBank}
    /\ active \notin images /\ gpuBank \notin images
    /\ images = managers \ {active}

\* A frame that exchanges the GPU bank with a RAM image or a fresh bank.
SwapFits ==
    /\ gpuBank # active /\ gpuBank # None
    /\ ~frame.discard /\ frame.drops = {}
    /\ gpuBank \notin images /\ active \in managers
    /\ (images \ {active}) \cup {gpuBank} = managers \ {active}

FrameFits ==
    /\ frame.bank = active
    /\ ResidentFits \/ DiscardFits \/ SwapFits

ActiveAllocated ==
    /\ active = None => managers = {} /\ images = {} /\ pendingSwitch = None /\ gpuBank = None
    /\ active # None /\ (pendingSwitch = None \/ ~pendingDiscard) => active \in managers

\* The bank the pending handover will give up.
Outgoing == IF pendingDiscard THEN {active} ELSE {}

SwitchPrepared ==
    pendingSwitch # None =>
        /\ pendingSwitch # active
        /\ Supersedes(pendingSwitch, active) => pendingDiscard
        /\ pendingDiscard => pendingSwitch \notin managers
        /\ \A j \in managers : Supersedes(pendingSwitch, j) => j = active
        /\ Cardinality((managers \ Outgoing) \cup {pendingSwitch}) <= MaxBanks

Agreement ==
    raised = "none" =>
        /\ phase # "scheduled" => Settled
        /\ phase = "scheduled" => FrameFits
        /\ ActiveAllocated
        /\ SwitchPrepared

IInv ==
    /\ TypeOK
    /\ BuffersConserved
    /\ OneGenerationPerChat
    /\ WorkerNeverRefuses
    /\ Agreement

-----------------------------------------------------------------------------
(***************************************************************************)
(* Lemmas about the operators the scheduler is built from.                 *)
(***************************************************************************)
\* A rank among recorded time stamps is a natural number: last_served and
\* queued_at keep their types whatever is recorded or forgotten.
LEMMA KeepStampsType ==
    ASSUME NEW D, IsFiniteSet(D), NEW f \in [D -> Nat], NEW S
    PROVE  KeepStamps(f, S) \in [D -> Nat]
<1> SUFFICES ASSUME NEW x \in D
             PROVE  Cardinality({y \in S \cap D : 0 < f[y] /\ f[y] <= f[x]}) \in Nat
    BY DEF KeepStamps
<1>1. {y \in S \cap D : 0 < f[y] /\ f[y] <= f[x]} \subseteq D
    OBVIOUS
<1> QED BY <1>1, FS_Subset, FS_CardinalityType

\* Time stamps are ranks, so a new one leaves them natural numbers.
LEMMA StampNowType ==
    ASSUME NEW D, IsFiniteSet(D), NEW f \in [D -> Nat], NEW x
    PROVE  StampNow(f, x) \in [D -> Nat]
<1> DEFINE g == KeepStamps(f, DOMAIN f \ {x})
<1>1. g \in [D -> Nat]
    BY KeepStampsType
<1> DEFINE recorded == {y \in DOMAIN g : g[y] > 0}
<1>2. recorded \subseteq D
    BY <1>1
<1>3. StampNow(f, x) = [g EXCEPT ![x] = Cardinality(recorded) + 1]
    BY DEF StampNow
<1> HIDE DEF g, recorded
<1>4. Cardinality(recorded) \in Nat
    BY <1>2, FS_Subset, FS_CardinalityType
<1>5. StampNow(f, x) = [y \in D |-> IF y = x THEN Cardinality(recorded) + 1 ELSE g[y]]
    BY <1>1, <1>3
<1> QED BY <1>1, <1>4, <1>5

\* The bank of a request is a key, or None once its owner entry is gone.
LEMMA OwnerType ==
    ASSUME NEW r \in Req
    PROVE  OwnerOf(r) \in Key \cup {None}
BY SchedulerAssumption DEF OwnerOf

\* Every outcome of _choose keeps the resident bank without retiring any, or
\* names a bank for which _make_room succeeded.
LEMMA DecisionShape ==
    ASSUME TypeOK, NEW d \in Decisions
    PROVE  /\ d.response \in Req \cup {None}
           /\ d.grace \in Grace
           /\ \/ d.target = active /\ d.retired = {}
              \/ /\ d.target \in Key /\ RoomFor(d.target)
                 /\ d.retired \in Retirements(d.target)
<1> DEFINE Good(e) == /\ e.response \in Req \cup {None}
                      /\ e.grace \in Grace
                      /\ \/ e.target = active /\ e.retired = {}
                         \/ /\ e.target \in Key /\ RoomFor(e.target)
                            /\ e.retired \in Retirements(e.target)
<1>1. ASSUME NEW k \in Key, RoomFor(k), NEW e \in Serve(k)
      PROVE  Good(e)
  <2>1. NextResponse(k) \subseteq Req \cup {None}
      BY DEF NextResponse, WaitingOn, ParkedOn, Waiting, TypeOK
  <2>2. e.target = k /\ e.response \in NextResponse(k) /\ e.retired \in Retirements(k)
        /\ e.grace = "none"
      BY <1>1 DEF Serve
  <2> QED BY <1>1, <2>1, <2>2 DEF Grace
<1>2. ASSUME NEW R \in SUBSET (Req \cup {None}), NEW g \in Grace, NEW e \in Stay(R, g)
      PROVE  Good(e)
    BY <1>2 DEF Stay
<1>3. Contenders \subseteq Key /\ Candidates \subseteq Key
  <2>1. Waiting \cup parked \cup finishedIds \subseteq Req
      BY DEF Waiting, TypeOK
  <2> QED BY <2>1, OwnerType DEF Contenders, Candidates
<1>4. WaitingOn(active) \subseteq Req /\ response \in Req \cup {None} /\ grace \in Grace
      /\ "none" \in Grace
    BY DEF WaitingOn, Waiting, TypeOK, Grace
<1>5. UrgentReady \subseteq {k \in Key : RoomFor(k)}
    BY <1>3 DEF UrgentReady, Others
<1>6. Successors \subseteq {k \in Key : RoomFor(k)} /\ FirstReady \subseteq {k \in Key : RoomFor(k)}
    BY <1>3 DEF Successors, FirstReady, Ready
<1>7. CASE d \in UNION {Serve(k) : k \in Oldest(UrgentReady)}
  <2>1. PICK k \in Oldest(UrgentReady) : d \in Serve(k)
      BY <1>7
  <2>2. k \in Key /\ RoomFor(k)
      BY <1>5 DEF Oldest
  <2> QED BY <1>1, <2>1, <2>2
<1>8. CASE d \in Stay({response}, grace)
    BY <1>2, <1>4, <1>8
<1>9. CASE d \in HoldDecisions
  <2>1. CASE Successors # {}
    <3>1. PICK k \in Successors : d \in Serve(k)
        BY <1>9, <2>1 DEF HoldDecisions
    <3> QED BY <1>1, <1>6, <3>1
  <2>2. CASE Successors = {}
    <3>1. d \in Stay(IF WaitingOn(active) # {} THEN WaitingOn(active) ELSE {None}, "none")
        BY <1>9, <2>2 DEF HoldDecisions
    <3> QED BY <1>2, <1>4, <3>1
  <2> QED BY <2>1, <2>2
<1>10. CASE d \in GraceDecisions
  <2>1. d \in Stay(WaitingOn(active), "none") \/ d \in Stay({None}, grace)
      BY <1>10 DEF GraceDecisions
  <2> QED BY <1>2, <1>4, <2>1
<1>11. CASE d \in OpenDecisions
  <2>1. d \in Stay({None}, "none") \/ \E k \in FirstReady : d \in Serve(k)
      BY <1>11 DEF OpenDecisions
  <2> QED BY <1>1, <1>2, <1>4, <1>6, <2>1
<1> QED BY <1>7, <1>8, <1>9, <1>10, <1>11 DEF Decisions

-----------------------------------------------------------------------------
(***************************************************************************)
(* Type correctness.                                                       *)
(***************************************************************************)
LEMMA ParentStepType ==
    ASSUME TypeOK, NEW b \in Key \cup {None}, NEW run \in SUBSET Req, NEW zero,
           NEW sched \in Req \cup {None}, ParentStep(b, run, zero, sched)
    PROVE  /\ status' \in [Req -> Status]
           /\ running' \subseteq Req /\ finishedIds' \subseteq Req
           /\ bankless' \subseteq Req /\ stores' \subseteq Key
<1>1. ParentSchedule(b, run, zero, sched)
    BY DEF ParentStep
<1>2. running' \subseteq Req
    BY <1>1 DEF ParentSchedule, AdmitNothing, WaitingOn, Waiting
<1>3. status' \in [Req -> Status]
    BY <1>1 DEF ParentSchedule, AdmitNothing, Status, TypeOK
<1>4. finishedIds' \subseteq Req /\ bankless' \subseteq Req /\ stores' \subseteq Key
    BY DEF ParentStep, TypeOK
<1> QED BY <1>2, <1>3, <1>4

\* The service record keeps its types.
LEMMA RecordServiceType ==
    ASSUME TypeOK, running' \subseteq Req, NEW selected \in Req \cup {None},
           NEW g \in Grace, NEW served \in [Key -> Nat],
           RecordService(selected, g, served)
    PROVE  /\ response' \in Req \cup {None} /\ grace' \in Grace
           /\ lastServed' \in [Key -> Nat]
<1>1. StampNow(served, active') \in [Key -> Nat]
    BY StampNowType, SchedulerAssumption
<1>2. running' # {} => (CHOOSE r \in running' : TRUE) \in Req
    OBVIOUS
<1> QED BY <1>1, <1>2 DEF RecordService, Grace

\* Only banks that have an allocator are retired.
LEMMA RetirementsType ==
    ASSUME NEW t, NEW R \in Retirements(t)
    PROVE  R \subseteq managers
BY DEF Retirements, Replaced, Surviving, Oldest

\* The initial state is type correct.
LEMMA InitTypeOK == Init => TypeOK
<1> SUFFICES ASSUME Init PROVE TypeOK
    OBVIOUS
<1>1. free \in Nat
    BY WorkerAssumption DEF Init, WorkerInit
<1>2. frame \in Frame
    BY DEF Init, Frame, NoFrame
<1>3. /\ gpuBank \in Key \cup {None} /\ images \subseteq Key
      /\ level \in [Chat -> 0..2] /\ lastServed \in [Key -> Nat] /\ overdue \in [Req -> Nat]
      /\ status \in [Req -> Status]
    BY DEF Init, WorkerInit, Status
<1> QED BY <1>1, <1>2, <1>3 DEF Init, TypeOK, Grace

\* The handover frame keeps the types.
LEMMA HandoverType ==
    ASSUME TypeOK, active # None, NEW sched \in Req \cup {None}, Handover(sched)
    PROVE  TypeOK'
<1> DEFINE gone == IF DiscardPrevious THEN {active} ELSE {}
<1>1. pendingSwitch \in Key
    BY DEF Handover, TypeOK
<1>2. ParkedOn(pendingSwitch) \in SUBSET Req
    BY DEF ParkedOn, TypeOK
<1>3. ParentStep(pendingSwitch, ParkedOn(pendingSwitch), FALSE, sched)
    BY DEF Handover
<1>4. /\ status' \in [Req -> Status]
      /\ running' \subseteq Req /\ finishedIds' \subseteq Req
      /\ bankless' \subseteq Req /\ stores' \subseteq Key
    BY <1>1, <1>2, <1>3, ParentStepType
<1>5. KeepStamps(lastServed, Key \ gone) \in [Key -> Nat]
    BY KeepStampsType, SchedulerAssumption DEF TypeOK
<1>6. RecordService(response, grace, KeepStamps(lastServed, Key \ gone))
    BY DEF Handover
<1>7. response' \in Req \cup {None} /\ grace' \in Grace /\ lastServed' \in [Key -> Nat]
    BY <1>4, <1>5, <1>6, RecordServiceType DEF TypeOK
<1>8. /\ managers' = (managers \ gone) \cup {pendingSwitch}
      /\ owners' = OwnersWithout(gone)
      /\ active' = pendingSwitch
      /\ unallocated' \subseteq unallocated
      /\ parked' \subseteq parked
      /\ pendingSwitch' = None /\ pendingDiscard' = FALSE
      /\ phase' = "scheduled"
      /\ UNCHANGED <<overdue, level, unpublished, workerVars, raised>>
    BY DEF Handover, Activate, StillParked
<1>9. frame' \in Frame
  <2>1. frame' = [bank |-> pendingSwitch, drops |-> gone, barrier |-> FALSE,
                  discard |-> DiscardPrevious,
                  save |-> ~DiscardPrevious /\ active \in managers, sched |-> sched]
      BY DEF Handover
  <2>2. gone \subseteq Key
      BY DEF TypeOK
  <2>3. DiscardPrevious \in BOOLEAN /\ (~DiscardPrevious /\ active \in managers) \in BOOLEAN
      BY DEF DiscardPrevious, Supersedes, TypeOK
  <2> HIDE DEF gone
  <2> QED BY <1>1, <2>1, <2>2, <2>3 DEF Frame
<1> HIDE DEF gone
<1> QED BY <1>1, <1>4, <1>7, <1>8, <1>9 DEF TypeOK, OwnersWithout, workerVars

\* A decision, with the frame or the switch it leads to, keeps the types.
LEMMA StepType ==
    ASSUME TypeOK, NEW d \in Decisions, NEW sched \in Req \cup {None}, Step(d, sched)
    PROVE  TypeOK'
<1> DEFINE served == KeepStamps(lastServed, Key \ d.retired)
<1>1. d.response \in Req \cup {None} /\ d.grace \in Grace /\ d.target \in Key \cup {None}
    BY DecisionShape DEF TypeOK
<1>2. d.retired \subseteq managers /\ d.retired \subseteq Key
    BY DecisionShape, RetirementsType DEF TypeOK
<1>3. served \in [Key -> Nat]
    BY KeepStampsType, SchedulerAssumption DEF TypeOK
<1>4. /\ owners' \subseteq owners
      /\ phase' = "scheduled"
      /\ UNCHANGED <<level, unpublished, workerVars, raised>>
    BY DEF Step, OwnersWithout
<1>5. overdue' \in [Req -> Nat]
    BY KeepStampsType, SchedulerAssumption DEF Step, SweptOverdue, TypeOK
<1>6. /\ status' \in [Req -> Status]
      /\ running' \subseteq Req /\ finishedIds' \subseteq Req
      /\ bankless' \subseteq Req /\ stores' \subseteq Key
      /\ RecordService(d.response, d.grace, served)
      /\ managers' \subseteq Key /\ active' \in Key \cup {None}
      /\ unallocated' \subseteq Req /\ parked' \subseteq Req
      /\ pendingSwitch' \in Key \cup {None} /\ pendingDiscard' \in BOOLEAN
      /\ frame' \in Frame
  <2>1. CASE RunResident(d, sched)
    <3>1. ParentStep(d.target, running, d.grace = "outcome", sched)
        BY <2>1 DEF RunResident
    <3>2. running \in SUBSET Req
        BY DEF TypeOK
    <3>3. frame' = ResidentFrame(d.target, d.retired, sched)
        BY <2>1 DEF RunResident
    <3>4. frame' \in Frame
        BY <1>1, <1>2, <3>3 DEF ResidentFrame, Frame
    <3>5. /\ managers' \subseteq Key /\ active' \in Key \cup {None}
          /\ unallocated' \subseteq Req /\ UNCHANGED <<parked, pendingSwitch, pendingDiscard>>
          /\ RecordService(d.response, d.grace, served)
        BY <1>1, <2>1 DEF RunResident, Activate, TypeOK
    <3> HIDE DEF served
    <3> QED BY <1>1, <3>1, <3>2, <3>4, <3>5, ParentStepType DEF TypeOK
  <2>2. CASE StartSwitch(d, sched)
    <3>1. ParentStep(active, {}, TRUE, sched)
        BY <2>2 DEF StartSwitch
    <3>2. frame' = BarrierFrame(d.retired, sched)
        BY <2>2 DEF StartSwitch
    <3>3. frame' \in Frame
        BY <1>2, <3>2 DEF BarrierFrame, ResidentFrame, Frame, TypeOK
    <3>4. /\ managers' \subseteq Key /\ UNCHANGED <<active, unallocated>>
          /\ parked' \subseteq Req /\ pendingSwitch' = d.target /\ pendingDiscard' \in BOOLEAN
          /\ RecordService(d.response, d.grace, served)
        BY <2>2 DEF StartSwitch, StillParked, Supersedes, TypeOK
    <3> HIDE DEF served
    <3> QED BY <1>1, <3>1, <3>3, <3>4, ParentStepType DEF TypeOK
  <2> QED BY <2>1, <2>2 DEF Step
<1> HIDE DEF served
<1>7. response' \in Req \cup {None} /\ grace' \in Grace /\ lastServed' \in [Key -> Nat]
    BY <1>1, <1>3, <1>6, RecordServiceType
<1> QED BY <1>4, <1>5, <1>6, <1>7 DEF TypeOK, workerVars

\* WorkerBanks.before keeps the types.
LEMMA BeforeForwardType ==
    ASSUME TypeOK, BeforeForward
    PROVE  TypeOK'
<1>1. /\ UNCHANGED <<schedVars, frame, unpublished>>
      /\ phase' = "executed" /\ stores' \subseteq Key
    BY DEF BeforeForward, TypeOK
<1>2. frame \in Frame /\ images \subseteq Key /\ free \in Nat /\ gpuBank \in Key \cup {None}
    BY DEF TypeOK
<1>3. IsFiniteSet(images)
    BY <1>2, FS_Subset, SchedulerAssumption
<1>4. Cardinality(images \cap frame.drops) \in Nat
    BY <1>3, FS_Intersection, FS_CardinalityType
<1>5. Spare(frame) \in Nat
    BY <1>2, <1>4 DEF Spare
<1>6. /\ gpuBank' \in Key \cup {None} /\ images' \subseteq Key /\ free' \in Nat
      /\ raised' \in {raised} \cup WorkerErrors
  <2>1. CASE frame.bank = None /\ UNCHANGED <<workerVars, raised>>
      BY <1>2, <2>1 DEF workerVars
  <2>2. CASE StayOrAdopt(frame)
      BY <1>2, <1>5, <2>2 DEF StayOrAdopt, Kept, Frame
  <2>3. CASE DiscardActive(frame)
      BY <1>2, <1>5, <2>3 DEF DiscardActive, Kept, Frame, Raise, WorkerErrors
  <2>4. CASE SwapBanks(frame)
    <3>1. CASE frame.bank \notin Kept(frame) /\ Spare(frame) = 0
        BY <1>2, <1>5, <2>4, <3>1 DEF SwapBanks, Raise, Kept, WorkerErrors
    <3>2. CASE ~(frame.bank \notin Kept(frame) /\ Spare(frame) = 0)
      <4> DEFINE saved == {gpuBank} \ frame.drops
      <4>1. saved = {} \/ saved = {gpuBank}
          OBVIOUS
      <4>2. Cardinality(saved) \in 0..1
        <5>1. Cardinality({gpuBank}) = 1 /\ Cardinality({}) = 0
            BY FS_EmptySet, FS_Singleton
        <5> HIDE DEF saved
        <5> QED BY <4>1, <5>1
      <4>3. IF frame.bank \in Kept(frame)
            THEN Cardinality(Kept(frame) \cap {frame.bank}) = 1
            ELSE Cardinality(Kept(frame) \cap {frame.bank}) = 0
        <5>1. Kept(frame) \cap {frame.bank} =
                IF frame.bank \in Kept(frame) THEN {frame.bank} ELSE {}
            OBVIOUS
        <5> QED BY <5>1, FS_EmptySet, FS_Singleton
      <4>4. /\ gpuBank' = frame.bank
            /\ images' = (Kept(frame) \ {frame.bank}) \cup saved
            /\ free' = Spare(frame) + Cardinality(Kept(frame) \cap {frame.bank})
                         - Cardinality(saved)
            /\ UNCHANGED raised
            /\ gpuBank # None
          BY <2>4, <3>2 DEF SwapBanks
      <4>5. free' \in Nat
        <5> HIDE DEF saved
        <5> QED BY <1>5, <3>2, <4>2, <4>3, <4>4
      <4>6. images' \subseteq Key /\ gpuBank' \in Key \cup {None}
          BY <1>2, <4>4 DEF Kept, Frame
      <4> QED BY <4>4, <4>5, <4>6
    <3> QED BY <3>1, <3>2
  <2> QED BY <2>1, <2>2, <2>3, <2>4 DEF BeforeForward, Before
<1> QED BY <1>1, <1>6 DEF TypeOK, schedVars

\* The end of an iteration keeps the types.
LEMMA UpdateType ==
    ASSUME TypeOK, NEW outcome \in Outcome, NEW delayed \in BOOLEAN, NEW cleaned \in SUBSET Req,
           UpdateFromOutput(outcome, delayed, cleaned)
    PROVE  TypeOK'
<1>1. status' \in [Req -> Status]
    BY DEF UpdateFromOutput, TypeOK, Status
<1>2. /\ unpublished' \subseteq Req /\ running' \subseteq Req /\ finishedIds' \subseteq Req
      /\ response' \in Req \cup {None} /\ grace' \in Grace /\ stores' \subseteq Key
    BY DEF UpdateFromOutput, TypeOK, Grace, Outcome
<1>3. frame' \in Frame /\ phase' = "ready"
    BY DEF UpdateFromOutput, NoFrame, Frame
<1> QED BY <1>1, <1>2, <1>3 DEF UpdateFromOutput, TypeOK, workerVars

\* What clients and clocks do between the engine's steps keeps the types.
LEMMA ClientType ==
    ASSUME TypeOK,
           \/ \E r \in Req, admitted \in BOOLEAN : AddRequest(r, admitted)
           \/ \E r \in Req, delayed \in BOOLEAN : FinishRequest(r, delayed)
           \/ \E c \in Chat : \E l \in Priorities[c] : SetLevel(c, l)
           \/ \E g \in Grace : ResolveGrace(g)
           \/ \E r \in Req : PassDeferralLimit(r)
    PROVE  TypeOK'
<1>1. ASSUME NEW r \in Req, NEW admitted \in BOOLEAN, AddRequest(r, admitted)
      PROVE  TypeOK'
  <2>1. status' \in [Req -> Status] /\ overdue' \in [Req -> Nat]
      BY <1>1 DEF AddRequest, TypeOK, Status
  <2>2. owners' \subseteq Req /\ unallocated' \subseteq Req
      BY <1>1 DEF AddRequest, TypeOK
  <2> QED BY <1>1, <2>1, <2>2 DEF AddRequest, TypeOK, engineVars, workerVars
<1>2. ASSUME NEW r \in Req, NEW delayed \in BOOLEAN, FinishRequest(r, delayed)
      PROVE  TypeOK'
  <2>1. status' \in [Req -> Status] /\ response' \in Req \cup {None} /\ grace' \in Grace
      BY <1>2 DEF FinishRequest, TypeOK, Status, Grace
  <2>2. /\ running' \subseteq Req /\ parked' \subseteq Req /\ finishedIds' \subseteq Req
        /\ unpublished' \subseteq Req /\ bankless' \subseteq Req /\ owners' \subseteq Req
        /\ unallocated' \subseteq Req
      BY <1>2 DEF FinishRequest, TypeOK
  <2> QED BY <1>2, <2>1, <2>2 DEF FinishRequest, TypeOK, workerVars
<1>3. ASSUME NEW c \in Chat, NEW l \in Priorities[c], SetLevel(c, l)
      PROVE  TypeOK'
  <2>1. level' \in [Chat -> 0..2]
      BY <1>3, SchedulerAssumption DEF SetLevel, TypeOK
  <2> QED BY <1>3, <2>1 DEF SetLevel, TypeOK, engineVars, workerVars
<1>4. ASSUME NEW g \in Grace, ResolveGrace(g)
      PROVE  TypeOK'
    BY <1>4 DEF ResolveGrace, TypeOK, engineVars, workerVars
<1>5. ASSUME NEW r \in Req, PassDeferralLimit(r)
      PROVE  TypeOK'
  <2>1. overdue' \in [Req -> Nat]
      BY <1>5, StampNowType, SchedulerAssumption DEF PassDeferralLimit, TypeOK
  <2> QED BY <1>5, <2>1 DEF PassDeferralLimit, TypeOK, engineVars, workerVars
<1> QED BY <1>1, <1>2, <1>3, <1>4, <1>5

\* schedule() raising leaves everything else as it was.
LEMMA FaultLeavesState ==
    ASSUME HandoverFault \/ StepFault
    PROVE  /\ raised' \in SchedulerErrors
           /\ UNCHANGED <<schedVars, engineVars, workerVars>>
<1>1. CASE HandoverFault
    BY <1>1 DEF HandoverFault, Crash, SchedulerErrors
<1>2. CASE StepFault
    BY <1>2 DEF StepFault, Crash, SchedulerErrors
<1> QED BY <1>1, <1>2

\* Every step keeps the types, given that a pending switch has a bank to leave.
LEMMA TypePreserved ==
    ASSUME TypeOK, raised = "none" => (pendingSwitch # None => active # None), [Next]_vars
    PROVE  TypeOK'
<1>1. ASSUME NEW sched \in Req \cup {None}, Handover(sched)
      PROVE  TypeOK'
  <2>1. active # None
      BY <1>1 DEF Handover, EngineStep
  <2> QED BY <1>1, <2>1, HandoverType
<1>2. ASSUME NEW d \in Decisions, NEW sched \in Req \cup {None}, Step(d, sched)
      PROVE  TypeOK'
    BY <1>2, StepType
<1>3. CASE HandoverFault \/ StepFault
    BY <1>3, FaultLeavesState DEF TypeOK, schedVars, engineVars, workerVars
<1>4. CASE BeforeForward
    BY <1>4, BeforeForwardType
<1>5. ASSUME NEW outcome \in Outcome, NEW delayed \in BOOLEAN, NEW cleaned \in SUBSET Req,
             UpdateFromOutput(outcome, delayed, cleaned)
      PROVE  TypeOK'
    BY <1>5, UpdateType
<1>6. CASE UNCHANGED vars
    BY <1>6 DEF TypeOK, vars, schedVars, engineVars, workerVars
<1> QED BY <1>1, <1>2, <1>3, <1>4, <1>5, <1>6, ClientType DEF Next, Schedule, EngineDead

-----------------------------------------------------------------------------
(***************************************************************************)
(* Scheduler and worker agree.                                             *)
(***************************************************************************)
\* Steps that touch neither the bank tables nor the worker.
LEMMA QuietStep ==
    ASSUME IInv, raised' = raised,
           UNCHANGED <<managers, active, pendingSwitch, pendingDiscard, workerVars>>,
           raised = "none" => /\ phase # "scheduled" /\ phase' # "scheduled"
    PROVE  BuffersConserved' /\ OneGenerationPerChat' /\ WorkerNeverRefuses' /\ Agreement'
BY DEF IInv, BuffersConserved, OneGenerationPerChat, WorkerNeverRefuses, Agreement,
       Settled, ActiveAllocated, SwitchPrepared, Outgoing, Supersedes, workerVars

\* Two generations of a chat exclude each other in either order.
LEMMA SupersedesSymmetric ==
    ASSUME NEW j, NEW k, Supersedes(j, k)
    PROVE  Supersedes(k, j)
BY DEF Supersedes

\* Every set of banks is finite.
LEMMA BanksFinite ==
    ASSUME TypeOK
    PROVE  IsFiniteSet(managers) /\ IsFiniteSet(images)
BY FS_Subset, SchedulerAssumption DEF TypeOK

\* The handover frame: the promises SwitchPrepared makes are what the worker
\* and the allocator table need.
LEMMA HandoverAgrees ==
    ASSUME IInv, NEW sched \in Req \cup {None}, Handover(sched)
    PROVE  BuffersConserved' /\ OneGenerationPerChat' /\ WorkerNeverRefuses' /\ Agreement'
<1>1. /\ raised = "none" /\ phase = "ready" /\ pendingSwitch # None
      /\ Settled /\ ActiveAllocated /\ SwitchPrepared
    BY DEF Handover, EngineStep, IInv, Agreement
<1>2. active # None /\ pendingDiscard \in BOOLEAN /\ None \notin managers
    BY <1>1, WorkerAssumption DEF ActiveAllocated, IInv, TypeOK
<1>3. DiscardPrevious <=> pendingDiscard
    BY <1>1 DEF DiscardPrevious, SwitchPrepared
<1>4. /\ managers' = (managers \ Outgoing) \cup {pendingSwitch}
      /\ active' = pendingSwitch /\ pendingSwitch' = None /\ pendingDiscard' = FALSE
      /\ phase' = "scheduled"
      /\ UNCHANGED <<workerVars, raised>>
    BY <1>3 DEF Handover, Activate, Outgoing
<1>5. frame'.bank = pendingSwitch /\ frame'.drops = Outgoing /\ frame'.discard = pendingDiscard
  <2>1. DiscardPrevious \in BOOLEAN /\ pendingDiscard \in BOOLEAN
      BY <1>2 DEF DiscardPrevious, Supersedes
  <2>2. DiscardPrevious = pendingDiscard
      BY <1>3, <2>1, Zenon
  <2> QED BY <2>2 DEF Handover, Outgoing
<1>6. BuffersConserved'
    BY <1>1, <1>4 DEF BuffersConserved, IInv, SwitchPrepared, workerVars
<1>7. OneGenerationPerChat'
  <2> SUFFICES ASSUME NEW j \in managers', NEW k \in managers', Supersedes(j, k)
               PROVE  FALSE
      BY DEF OneGenerationPerChat, Supersedes
  <2>1. j # k
      BY DEF Supersedes
  <2>2. CASE j \in managers \ Outgoing /\ k \in managers \ Outgoing
      BY <2>2 DEF IInv, OneGenerationPerChat
  <2>3. ASSUME NEW other \in managers \ Outgoing, Supersedes(pendingSwitch, other)
        PROVE  FALSE
    <3>1. other = active
        BY <1>1, <2>3 DEF SwitchPrepared
    <3>2. pendingDiscard
        BY <1>1, <2>3, <3>1 DEF SwitchPrepared
    <3> QED BY <3>1, <3>2 DEF Outgoing
  <2> QED BY <1>4, <2>1, <2>2, <2>3, SupersedesSymmetric
<1>8. FrameFits'
  <2>1. CASE pendingDiscard
    <3>1. DiscardFits'
        BY <1>1, <1>2, <1>4, <1>5, <2>1 DEF DiscardFits, SwitchPrepared, Settled, Outgoing, workerVars
    <3> QED BY <1>4, <1>5, <3>1 DEF FrameFits
  <2>2. CASE ~pendingDiscard
    <3>1. active \in managers
        BY <1>1, <1>2, <2>2 DEF ActiveAllocated
    <3>2. SwapFits'
        BY <1>1, <1>2, <1>4, <1>5, <2>2, <3>1
           DEF SwapFits, SwitchPrepared, Settled, Outgoing, workerVars
    <3> QED BY <1>4, <1>5, <3>2 DEF FrameFits
  <2> QED BY <2>1, <2>2
<1>9. ActiveAllocated' /\ SwitchPrepared'
    BY <1>1, <1>4 DEF ActiveAllocated, SwitchPrepared
<1> QED BY <1>4, <1>6, <1>7, <1>8, <1>9 DEF WorkerNeverRefuses, IInv, Agreement

\* _make_room never retires a bank with a live request.
LEMMA RetiredAreIdle ==
    ASSUME NEW t, RoomFor(t), NEW R \in Retirements(t)
    PROVE  R \cap BusyBanks = {}
BY DEF RoomFor, Retirements, Oldest

\* A bank that has an allocator needs no room.
LEMMA ResidentNeedsNoRoom ==
    ASSUME OneGenerationPerChat, NEW t \in managers, NEW R \in Retirements(t)
    PROVE  R = {}
<1>1. Replaced(t) = {}
    BY DEF Replaced, OneGenerationPerChat
<1>2. FitsWithout(t)
    BY <1>1 DEF FitsWithout, Surviving
<1> QED BY <1>1, <1>2 DEF Retirements

\* Nor does the first bank.
LEMMA FirstNeedsNoRoom ==
    ASSUME managers = {}, NEW t, NEW R \in Retirements(t)
    PROVE  R = {}
<1>1. Replaced(t) = {} /\ Surviving(t) = {}
    BY DEF Replaced, Surviving
<1>2. Cardinality(Surviving(t)) < MaxBanks
    BY <1>1, FS_EmptySet, WorkerAssumption
<1>3. FitsWithout(t)
    BY <1>2 DEF FitsWithout
<1> QED BY <1>1, <1>3 DEF Retirements

\* What a successful _make_room(t) leaves for the handover frame: no other
\* generation of t's chat but possibly the active one, and room for t once
\* an obsolete active bank is given up.
LEMMA RoomMade ==
    ASSUME TypeOK, Cardinality(managers) <= MaxBanks, OneGenerationPerChat,
           active \in managers, NEW t \in Key, t # active, NEW R \in Retirements(t)
    PROVE  LET obsolete == active \in R \/ Supersedes(t, active)
               left == (managers \ R) \ (IF obsolete THEN {active} ELSE {})
           IN /\ obsolete => t \notin managers
              /\ \A j \in managers \ R : Supersedes(t, j) => j = active
              /\ Cardinality(left \cup {t}) <= MaxBanks
<1> DEFINE obsolete == active \in R \/ Supersedes(t, active)
           left == (managers \ R) \ (IF obsolete THEN {active} ELSE {})
           S == Surviving(t)
<1>1. IsFiniteSet(managers) /\ MaxBanks \in Nat
    BY BanksFinite, WorkerAssumption
<1>2. S \subseteq managers /\ active \in S /\ t \notin Replaced(t)
    BY DEF Surviving, Replaced, Supersedes
<1>3. IsFiniteSet(S) /\ Cardinality(S) \in Nat /\ Cardinality(S) <= Cardinality(managers)
      /\ Cardinality(managers) \in Nat
    BY <1>1, <1>2, FS_Subset, FS_CardinalityType
<1>4. t \in managers => t \in S /\ FitsWithout(t)
    BY <1>2 DEF Surviving, FitsWithout
<1>5. managers \ R \subseteq S
    BY DEF Retirements, Surviving
<1>6. obsolete => t \notin managers
  <2>1. Supersedes(t, active) => t \notin managers
      BY DEF OneGenerationPerChat
  <2>2. active \in R => ~FitsWithout(t)
      BY DEF Retirements
  <2> QED BY <1>4, <2>1, <2>2
<1>7. \A j \in managers \ R : Supersedes(t, j) => j = active
    BY <1>5 DEF Surviving, Replaced
<1>8. Cardinality(left \cup {t}) <= MaxBanks
  <2>1. left \subseteq S
      BY <1>5
  <2>2. /\ Cardinality(left) \in Nat /\ Cardinality(left) <= Cardinality(S)
        /\ Cardinality(left \cup {t}) \in Nat
        /\ Cardinality(left \cup {t}) <= Cardinality(left) + 1
        /\ \A v \in S \ left : Cardinality(left) <= Cardinality(S) - 1
    <3> HIDE DEF left, S
    <3>1. IsFiniteSet(left) /\ Cardinality(left) \in Nat /\ Cardinality(left) <= Cardinality(S)
        BY <1>3, <2>1, FS_Subset, FS_CardinalityType
    <3>2. Cardinality(left \cup {t}) <= Cardinality(left) + 1 /\ Cardinality(left \cup {t}) \in Nat
      <4>1. /\ IsFiniteSet(left \cup {t})
            /\ t \in left => Cardinality(left \cup {t}) = Cardinality(left)
            /\ t \notin left => Cardinality(left \cup {t}) = Cardinality(left) + 1
          BY <3>1, FS_AddElement
      <4> QED BY <3>1, <4>1, FS_CardinalityType
    <3>3. ASSUME NEW v \in S \ left PROVE Cardinality(left) <= Cardinality(S) - 1
      <4>1. Cardinality(S \ {v}) = Cardinality(S) - 1 /\ IsFiniteSet(S \ {v})
          BY <1>3, FS_RemoveElement
      <4>2. left \subseteq S \ {v}
          BY <2>1
      <4> QED BY <4>1, <4>2, FS_Subset
    <3> QED BY <3>1, <3>2, <3>3
  <2>3. CASE t \in S
    <3>1. ~obsolete /\ left \cup {t} \subseteq managers
        BY <1>2, <1>4, <1>6, <2>3 DEF Retirements
    <3> QED BY <1>1, <1>3, <3>1, FS_Subset, FS_CardinalityType
  <2>4. CASE Cardinality(S) < MaxBanks
    <3> HIDE DEF left, S
    <3> QED BY <1>1, <1>3, <2>2, <2>4
  <2>5. CASE active \in Replaced(t)
    <3>1. Supersedes(t, active)
        BY <2>5 DEF Replaced
    <3>2. active \in S \ left
        BY <1>2, <3>1
    <3> HIDE DEF left, S, obsolete
    <3> QED BY <1>1, <1>3, <2>2, <3>2
  <2>6. CASE ~FitsWithout(t)
    <3>1. PICK v \in S : v \in R
        BY <2>6 DEF Retirements, Oldest
    <3>2. v \in S \ left
        BY <3>1
    <3> HIDE DEF left, S, obsolete
    <3> QED BY <1>1, <1>3, <2>2, <3>2
  <2> QED BY <2>3, <2>4, <2>5, <2>6 DEF FitsWithout
<1> QED BY <1>6, <1>7, <1>8

\* A frame on the resident bank retires nothing; the first frame adopts its bank.
LEMMA RunResidentAgrees ==
    ASSUME IInv, EngineStep, pendingSwitch = None, NEW d \in Decisions, NEW sched,
           RunResident(d, sched), UNCHANGED <<workerVars, raised>>, phase' = "scheduled"
    PROVE  BuffersConserved' /\ OneGenerationPerChat' /\ WorkerNeverRefuses' /\ Agreement'
<1>1. TypeOK /\ raised = "none" /\ Settled /\ ActiveAllocated /\ OneGenerationPerChat
      /\ BuffersConserved /\ WorkerNeverRefuses
    BY DEF EngineStep, IInv, Agreement
<1>2. MaxBanks \in Nat /\ MaxBanks >= 2 /\ None \notin Key
    BY WorkerAssumption
<1>3. frame'.bank = d.target /\ frame'.drops = d.retired
    BY DEF RunResident, ResidentFrame
<1>4. UNCHANGED <<pendingSwitch, pendingDiscard>>
    BY DEF RunResident
<1>5. CASE active = None /\ d.target # None
  <2>1. managers = {} /\ images = {} /\ gpuBank = None
      BY <1>1, <1>5 DEF ActiveAllocated
  <2>2. d.target \in Key /\ d.retired = {}
      BY <1>1, <1>5, <2>1, DecisionShape, FirstNeedsNoRoom
  <2>3. managers' = {d.target} /\ active' = d.target
      BY <1>5, <2>1, <2>2 DEF RunResident, Activate
  <2>4. BuffersConserved'
    <3>1. Cardinality(managers') = 1
        BY <2>3, FS_Singleton
    <3> QED BY <1>1, <1>2, <3>1 DEF BuffersConserved, workerVars
  <2>5. OneGenerationPerChat'
      BY <2>3 DEF OneGenerationPerChat, Supersedes
  <2>6. FrameFits'
      BY <1>3, <2>1, <2>2, <2>3 DEF FrameFits, ResidentFits, workerVars
  <2>7. ActiveAllocated' /\ SwitchPrepared'
      BY <1>2, <1>4, <2>2, <2>3 DEF ActiveAllocated, SwitchPrepared
  <2> QED BY <1>1, <2>4, <2>5, <2>6, <2>7 DEF WorkerNeverRefuses, Agreement
<1>6. CASE ~(active = None /\ d.target # None)
  <2>1. d.target = active /\ active' = active
      BY <1>6 DEF RunResident
  <2>2. d.retired = {}
    <3>1. active # None => active \in managers
        BY <1>1 DEF ActiveAllocated
    <3>2. d.retired = {} \/ (active \in Key /\ d.retired \in Retirements(active))
        BY <1>1, <2>1, DecisionShape
    <3> QED BY <1>1, <1>2, <3>1, <3>2, ResidentNeedsNoRoom
  <2>3. managers' = managers
      BY <1>6, <2>2 DEF RunResident
  <2>4. FrameFits'
      BY <1>1, <1>3, <2>1, <2>2, <2>3 DEF FrameFits, ResidentFits, Settled, workerVars
  <2>5. BuffersConserved' /\ OneGenerationPerChat'
      BY <1>1, <2>3 DEF BuffersConserved, OneGenerationPerChat, Supersedes, workerVars
  <2>6. ActiveAllocated' /\ SwitchPrepared'
      BY <1>1, <1>4, <2>1, <2>3 DEF ActiveAllocated, SwitchPrepared, workerVars
  <2> QED BY <1>1, <2>4, <2>5, <2>6 DEF WorkerNeverRefuses, Agreement
<1> QED BY <1>5, <1>6

\* The barrier frame stays on the old bank and carries the retired banks.
LEMMA StartSwitchAgrees ==
    ASSUME IInv, EngineStep, pendingSwitch = None, NEW d \in Decisions, NEW sched,
           StartSwitch(d, sched), UNCHANGED <<workerVars, raised>>, phase' = "scheduled"
    PROVE  BuffersConserved' /\ OneGenerationPerChat' /\ WorkerNeverRefuses' /\ Agreement'
<1>1. TypeOK /\ raised = "none" /\ Settled /\ ActiveAllocated /\ OneGenerationPerChat
      /\ BuffersConserved /\ WorkerNeverRefuses
    BY DEF EngineStep, IInv, Agreement
<1>2. active # None /\ active \in managers /\ d.target # active
    BY <1>1 DEF StartSwitch, ActiveAllocated
<1>3. d.target \in Key /\ d.retired \in Retirements(d.target)
    BY <1>1, <1>2, DecisionShape
<1>4. /\ managers' = managers \ d.retired /\ active' = active
      /\ pendingSwitch' = d.target
      /\ pendingDiscard' = (active \in d.retired \/ Supersedes(d.target, active))
      /\ frame'.bank = active /\ frame'.drops = d.retired
    BY DEF StartSwitch, BarrierFrame, ResidentFrame
<1>5. BuffersConserved'
  <2>1. IsFiniteSet(managers) /\ managers' \subseteq managers
      BY <1>1, <1>4, BanksFinite
  <2>2. Cardinality(managers') <= Cardinality(managers)
        /\ Cardinality(managers') \in Nat /\ Cardinality(managers) \in Nat
      BY <2>1, FS_Subset, FS_CardinalityType
  <2> QED BY <1>1, <2>2, WorkerAssumption DEF BuffersConserved, workerVars
<1>6. OneGenerationPerChat'
    BY <1>1, <1>4 DEF OneGenerationPerChat, Supersedes
<1>7. FrameFits'
    BY <1>1, <1>4 DEF FrameFits, ResidentFits, Settled, workerVars
<1>8. SwitchPrepared'
  <2>1. Cardinality(managers) <= MaxBanks
      BY <1>1 DEF BuffersConserved
  <2>2. /\ pendingDiscard' => d.target \notin managers
        /\ \A j \in managers \ d.retired : Supersedes(d.target, j) => j = active
        /\ Cardinality(((managers \ d.retired) \ (IF pendingDiscard' THEN {active} ELSE {}))
                         \cup {d.target}) <= MaxBanks
      BY <1>1, <1>2, <1>3, <1>4, <2>1, RoomMade
  <2>3. Supersedes(d.target, active) => pendingDiscard'
      BY <1>4
  <2> QED BY <1>2, <1>4, <2>2, <2>3 DEF SwitchPrepared, Outgoing, Supersedes
<1>9. ActiveAllocated'
    BY <1>2, <1>3, <1>4, WorkerAssumption DEF ActiveAllocated
<1> QED BY <1>1, <1>5, <1>6, <1>7, <1>8, <1>9 DEF WorkerNeverRefuses, Agreement

\* Returning the buffers of retired images conserves the pool.
LEMMA DropsConserve ==
    ASSUME TypeOK, NEW md
    PROVE  Cardinality(Kept(md)) + Spare(md) = Cardinality(images) + free
<1>1. IsFiniteSet(images) /\ free \in Nat
    BY BanksFinite DEF TypeOK
<1>2. Cardinality(images \ md.drops) = Cardinality(images) - Cardinality(images \cap md.drops)
    BY <1>1, FS_Difference
<1>3. /\ Cardinality(images) \in Nat /\ Cardinality(images \cap md.drops) \in Nat
      /\ Cardinality(images \ md.drops) \in Nat
    BY <1>1, FS_CardinalityType, FS_Intersection, FS_Difference
<1> QED BY <1>1, <1>2, <1>3 DEF Kept, Spare

\* The worker carries out every frame the scheduler builds.
LEMMA BeforeForwardAgrees ==
    ASSUME IInv, BeforeForward
    PROVE  BuffersConserved' /\ OneGenerationPerChat' /\ WorkerNeverRefuses' /\ Agreement'
<1>1. TypeOK /\ raised = "none" /\ FrameFits /\ ActiveAllocated /\ SwitchPrepared
      /\ OneGenerationPerChat /\ BuffersConserved
    BY DEF BeforeForward, IInv, Agreement
<1>2. Before(frame) /\ phase' = "executed"
      /\ UNCHANGED <<managers, active, pendingSwitch, pendingDiscard>>
    BY DEF BeforeForward, schedVars
<1>3. /\ IsFiniteSet(images) /\ free \in Nat /\ Cardinality(images) \in Nat
      /\ MaxBanks \in Nat
    BY <1>1, BanksFinite, FS_CardinalityType, WorkerAssumption DEF TypeOK
<1>4. Cardinality(images) + free = MaxBanks - 1 /\ Cardinality(managers) <= MaxBanks
    BY <1>1 DEF BuffersConserved
<1>5. /\ UNCHANGED raised
      /\ gpuBank' = active /\ images' = managers \ {active}
      /\ Cardinality(images') + free' = MaxBanks - 1
  <2>1. CASE active = None
    <3>1. UNCHANGED <<workerVars, raised>>
        BY <1>1, <1>2, <2>1
           DEF FrameFits, Before, StayOrAdopt, DiscardActive, SwapBanks
    <3> QED BY <1>1, <1>4, <2>1, <3>1 DEF ActiveAllocated, workerVars
  <2>2. CASE active # None /\ ResidentFits
    <3>1. StayOrAdopt(frame)
        BY <1>1, <1>2, <2>2 DEF FrameFits, Before, ResidentFits, DiscardActive, SwapBanks
    <3>2. images' = Kept(frame) /\ free' = Spare(frame) /\ gpuBank' = active /\ UNCHANGED raised
        BY <1>1, <3>1 DEF StayOrAdopt, FrameFits
    <3>3. Kept(frame) = managers \ {active}
        BY <2>2 DEF ResidentFits, Kept
    <3> QED BY <1>1, <1>4, <3>2, <3>3, DropsConserve
  <2>3. CASE active # None /\ DiscardFits
    <3>1. DiscardActive(frame)
        BY <1>1, <1>2, <2>3 DEF FrameFits, Before, DiscardFits, StayOrAdopt, SwapBanks
    <3>2. gpuBank \in frame.drops /\ frame.bank \notin Kept(frame) /\ frame.bank = active
        BY <1>1, <2>3 DEF DiscardFits, FrameFits, Kept
    <3>3. images' = Kept(frame) /\ free' = Spare(frame) /\ gpuBank' = active /\ UNCHANGED raised
        BY <3>1, <3>2 DEF DiscardActive
    <3>4. Kept(frame) = managers \ {active}
        BY <2>3 DEF DiscardFits, Kept
    <3> QED BY <1>1, <1>4, <3>3, <3>4, DropsConserve
  <2>4. CASE active # None /\ SwapFits
    <3>1. SwapBanks(frame)
        BY <1>1, <1>2, <2>4 DEF FrameFits, Before, SwapFits, StayOrAdopt, DiscardActive
    <3>2. /\ frame.drops = {} /\ frame.bank = active /\ gpuBank \notin images /\ gpuBank # active
          /\ (images \ {active}) \cup {gpuBank} = managers \ {active}
        BY <1>1, <2>4 DEF FrameFits, SwapFits
    <3>3. Kept(frame) = images /\ {gpuBank} \ frame.drops = {gpuBank}
        BY <3>2 DEF Kept
    <3>4. Spare(frame) = free
      <4>1. images \cap frame.drops = {}
          BY <3>2
      <4> QED BY <1>3, <4>1, FS_EmptySet DEF Spare
    <3>5. active \notin images => free >= 1
      <4> SUFFICES ASSUME active \notin images PROVE free >= 1
          OBVIOUS
      <4>1. active \in managers
          BY <2>4 DEF SwapFits
      <4>2. managers = (images \cup {gpuBank}) \cup {active}
          BY <3>2, <4>1
      <4>3. Cardinality(images \cup {gpuBank}) = Cardinality(images) + 1
            /\ IsFiniteSet(images \cup {gpuBank})
          BY <1>3, <3>2, FS_AddElement
      <4>4. active \notin images \cup {gpuBank}
          BY <3>2
      <4>5. Cardinality(managers) = Cardinality(images) + 2
        <5>1. Cardinality((images \cup {gpuBank}) \cup {active}) = Cardinality(images \cup {gpuBank}) + 1
            BY <4>3, <4>4, FS_AddElement
        <5> QED BY <1>3, <4>2, <4>3, <5>1
      <4> QED BY <1>3, <1>4, <4>5
    <3>6. /\ gpuBank' = active /\ images' = (images \ {active}) \cup {gpuBank}
          /\ free' = free + Cardinality(images \cap {active}) - Cardinality({gpuBank})
          /\ UNCHANGED raised
      <4>1. ~(frame.bank \notin Kept(frame) /\ Spare(frame) = 0)
          BY <1>3, <3>2, <3>3, <3>4, <3>5
      <4> QED BY <3>1, <3>2, <3>3, <3>4, <4>1 DEF SwapBanks
    <3>7. Cardinality(images') + free' = Cardinality(images) + free
      <4>1. /\ Cardinality({gpuBank}) = 1 /\ Cardinality({active}) = 1 /\ Cardinality({}) = 0
          BY FS_Singleton, FS_EmptySet
      <4>2. CASE active \in images
        <5>1. Cardinality(images \ {active}) = Cardinality(images) - 1 /\ IsFiniteSet(images \ {active})
            BY <1>3, <4>2, FS_RemoveElement
        <5>2. Cardinality(images') = Cardinality(images)
          <6>1. Cardinality((images \ {active}) \cup {gpuBank}) = Cardinality(images \ {active}) + 1
              BY <3>2, <5>1, FS_AddElement
          <6> QED BY <1>3, <3>6, <5>1, <6>1
        <5>3. images \cap {active} = {active}
            BY <4>2
        <5> QED BY <1>3, <3>6, <4>1, <5>2, <5>3
      <4>3. CASE active \notin images
        <5>1. images' = images \cup {gpuBank} /\ images \cap {active} = {}
            BY <3>6, <4>3
        <5>2. Cardinality(images') = Cardinality(images) + 1
          <6>1. Cardinality(images \cup {gpuBank}) = Cardinality(images) + 1
              BY <1>3, <3>2, FS_AddElement
          <6> QED BY <5>1, <6>1
        <5>3. Cardinality(images \cap {active}) = 0
            BY <4>1, <5>1
        <5>4. free' = free - 1
            BY <1>3, <3>6, <4>1, <5>3
        <5> QED BY <1>3, <5>2, <5>4
      <4> QED BY <4>2, <4>3
    <3> QED BY <1>4, <3>2, <3>6, <3>7
  <2> QED BY <1>1, <2>1, <2>2, <2>3, <2>4 DEF FrameFits
<1>6. BuffersConserved' /\ OneGenerationPerChat'
    BY <1>1, <1>2, <1>5 DEF BuffersConserved, OneGenerationPerChat, Supersedes
<1>7. Settled' /\ SwitchPrepared'
    BY <1>1, <1>2, <1>5 DEF Settled, SwitchPrepared, Outgoing, Supersedes
<1>8. ActiveAllocated'
    BY <1>1, <1>2, <1>5 DEF ActiveAllocated
<1> QED BY <1>1, <1>2, <1>5, <1>6, <1>7, <1>8 DEF WorkerNeverRefuses, IInv, Agreement

-----------------------------------------------------------------------------
\* The initial state satisfies the inductive invariant.
LEMMA InitIInv == Init => IInv
<1> SUFFICES ASSUME Init PROVE IInv
    OBVIOUS
<1>1. TypeOK
    BY InitTypeOK
<1>2. Cardinality({}) = 0
    BY FS_EmptySet
<1>3. BuffersConserved
    BY <1>2, WorkerAssumption DEF Init, WorkerInit, BuffersConserved
<1>4. OneGenerationPerChat /\ WorkerNeverRefuses
    BY DEF Init, OneGenerationPerChat, WorkerNeverRefuses, WorkerErrors
<1>5. Agreement
    BY DEF Init, WorkerInit, Agreement, Settled, ActiveAllocated, SwitchPrepared
<1> QED BY <1>1, <1>3, <1>4, <1>5 DEF IInv

\* Every step preserves the inductive invariant.
LEMMA NextIInv == IInv /\ [Next]_vars => IInv'
<1> SUFFICES ASSUME IInv, [Next]_vars PROVE IInv'
    OBVIOUS
<1> DEFINE Rest == BuffersConserved /\ OneGenerationPerChat /\ WorkerNeverRefuses /\ Agreement
<1>1. TypeOK'
    BY TypePreserved DEF IInv, Agreement, ActiveAllocated
<1>2. ASSUME NEW sched \in Req \cup {None}, Handover(sched)
      PROVE  Rest'
    BY <1>2, HandoverAgrees
<1>3. ASSUME NEW d \in Decisions, NEW sched \in Req \cup {None}, Step(d, sched)
      PROVE  Rest'
  <2>1. EngineStep /\ pendingSwitch = None /\ UNCHANGED <<workerVars, raised>> /\ phase' = "scheduled"
        /\ (RunResident(d, sched) \/ StartSwitch(d, sched))
      BY <1>3 DEF Step
  <2> QED BY <2>1, RunResidentAgrees, StartSwitchAgrees
<1>4. ASSUME HandoverFault \/ StepFault PROVE Rest'
  <2>1. raised' \in SchedulerErrors /\ UNCHANGED <<schedVars, engineVars, workerVars>>
      BY <1>4, FaultLeavesState
  <2>2. raised' # "none" /\ raised' \notin WorkerErrors
      BY <2>1 DEF SchedulerErrors, WorkerErrors
  <2> QED BY <2>1, <2>2
          DEF IInv, BuffersConserved, OneGenerationPerChat, Supersedes, WorkerNeverRefuses,
              Agreement, schedVars, workerVars
<1>5. ASSUME BeforeForward PROVE Rest'
    BY <1>5, BeforeForwardAgrees
<1>6. ASSUME NEW outcome \in Outcome, NEW delayed \in BOOLEAN, NEW cleaned \in SUBSET Req,
             UpdateFromOutput(outcome, delayed, cleaned)
      PROVE  Rest'
    BY <1>6, QuietStep DEF UpdateFromOutput
<1>7. ASSUME NEW r \in Req, NEW b \in BOOLEAN, AddRequest(r, b) \/ FinishRequest(r, b)
      PROVE  Rest'
    BY <1>7, QuietStep DEF AddRequest, FinishRequest, engineVars
<1>8. ASSUME NEW c \in Chat, NEW l \in Priorities[c], SetLevel(c, l)
      PROVE  Rest'
    BY <1>8, QuietStep DEF SetLevel, engineVars
<1>9. ASSUME NEW g \in Grace, ResolveGrace(g)
      PROVE  Rest'
    BY <1>9, QuietStep DEF ResolveGrace, engineVars
<1>10. ASSUME NEW r \in Req, PassDeferralLimit(r)
       PROVE  Rest'
    BY <1>10, QuietStep DEF PassDeferralLimit, engineVars
<1>11. ASSUME UNCHANGED vars PROVE Rest'
    BY <1>11 DEF IInv, BuffersConserved, OneGenerationPerChat, Supersedes, WorkerNeverRefuses,
                 Agreement, Settled, FrameFits, ResidentFits, DiscardFits, SwapFits,
                 ActiveAllocated, SwitchPrepared, Outgoing, vars, schedVars, engineVars, workerVars
<1>12. Rest'
  <2> HIDE DEF Rest
  <2> QED BY <1>2, <1>3, <1>4, <1>5, <1>6, <1>7, <1>8, <1>9, <1>10, <1>11
          DEF Next, Schedule, EngineDead
<1> QED BY <1>1, <1>12 DEF IInv

\* The scheduler and the worker stay in the states IInv describes, whatever
\* clients, priorities, tool outcomes and store jobs do.
THEOREM InductiveInvariant == Spec => []IInv
BY InitIInv, NextIInv, PTL DEF Spec

\* Every variable of scheduler, engine and worker keeps its type.
THEOREM TypeCorrect == Spec => []TypeOK
<1>1. IInv => TypeOK
    BY DEF IInv
<1> QED BY <1>1, InductiveInvariant, PTL

\* WorkerBanks.before never raises: no frame of the scheduler finds the RAM
\* pool exhausted, discards a bank that is not retired, or replaces it by one
\* that still has a RAM image.
THEOREM WorkerAccepts == Spec => []WorkerNeverRefuses
<1>1. IInv => WorkerNeverRefuses
    BY DEF IInv
<1> QED BY <1>1, InductiveInvariant, PTL

\* Between engine steps the GPU holds the active bank and RAM exactly the
\* others.
THEOREM BanksAlwaysAgree == Spec => []BanksAgree
<1>1. IInv => BanksAgree
    BY DEF IInv, Agreement, Settled, BanksAgree
<1> QED BY <1>1, InductiveInvariant, PTL

\* No pinned buffer is ever lost or used twice, and max_cached_chats is
\* respected.
THEOREM PoolConserved == Spec => []BuffersConserved
<1>1. IInv => BuffersConserved
    BY DEF IInv
<1> QED BY <1>1, InductiveInvariant, PTL

\* A compacted chat's predecessor has lost its allocator when the successor
\* gets one.
THEOREM OneGeneration == Spec => []OneGenerationPerChat
<1>1. IInv => OneGenerationPerChat
    BY DEF IInv
<1> QED BY <1>1, InductiveInvariant, PTL

\* No step retires the bank of a live request.
THEOREM BusyBanksSafe == Spec => BusyBankNeverRetired
<1> DEFINE Safe == \A k \in managers \ managers' : \A r \in Live : OwnerOf(r) # k
<1>1. ASSUME TypeOK, [Next]_vars PROVE [Safe]_vars
  <2> SUFFICES ASSUME NEW k \in managers \ managers', NEW r \in Live, OwnerOf(r) = k
               PROVE  FALSE
      OBVIOUS
  <2>0. k \in BusyBanks
      BY <1>1, WorkerAssumption DEF BusyBanks, TypeOK
  <2>1. ASSUME NEW sched \in Req \cup {None}, Handover(sched)
        PROVE  k \notin BusyBanks
      BY <2>1 DEF Handover
  <2>2. ASSUME NEW d \in Decisions, NEW sched \in Req \cup {None}, Step(d, sched)
        PROVE  k \notin BusyBanks
    <3>1. managers \ d.retired \subseteq managers'
        BY <2>2 DEF Step, RunResident, StartSwitch
    <3>2. d.retired \cap BusyBanks = {}
        BY <1>1, DecisionShape, RetiredAreIdle
    <3> QED BY <3>1, <3>2
  <2>3. ~ UNCHANGED managers
      OBVIOUS
  <2> QED BY <1>1, <2>0, <2>1, <2>2, <2>3, FaultLeavesState
          DEF Next, Schedule, BeforeForward, UpdateFromOutput, AddRequest, FinishRequest, SetLevel,
              ResolveGrace, PassDeferralLimit, EngineDead, vars, schedVars
<1> QED BY <1>1, TypeCorrect, PTL DEF Spec, BusyBankNeverRetired
-----------------------------------------------------------------------------
(***************************************************************************)
(* Who owns the GPU, its request-state slots and the banks, on top of      *)
(* IInv.                                                                   *)
(*                                                                         *)
(* The properties that runs check speak of one table each (the slots, the  *)
(* parked responses, the allocators, the store jobs).  None of them is     *)
(* inductive alone: a response is parked, resumed or given a bank from     *)
(* what the other tables say.  OInv is the strengthening that is.          *)
(***************************************************************************)

\* A response that runs or is parked is RUNNING; at most one response runs,
\* it is of the active bank, and none runs while a switch is pending.
SlotStates ==
    /\ \A r \in running \cup parked : status[r] = "running"
    /\ running \cap parked = {}
    /\ \A q, r \in running : q = r
    /\ \A r \in running : r \in owners /\ KeyOf[r] = active
    /\ pendingSwitch # None => running = {}

\* Responses that stay parked when the pending switch is carried out.
StayParked == {r \in parked : OwnerOf(r) # pendingSwitch}

\* They leave a slot for the response that will run next.
SlotLeft == Cardinality(StayParked) < RunnerStateSlots

\* A queued request has an owner entry, and only a queued one can lack an
\* allocator.
QueuedOwned == unallocated \subseteq Waiting /\ Waiting \subseteq owners

\* At most one response is parked per bank; the active bank has one only
\* while a switch away from it is pending.
ParkedApart ==
    \A r \in parked :
        /\ r \in owners
        /\ \A q \in parked : KeyOf[q] = KeyOf[r] => q = r
        /\ KeyOf[r] = active => pendingSwitch # None
        /\ ~Supersedes(KeyOf[r], active)

\* A pending switch has a barrier frame under way, or its stores are drained.
SwitchDrained ==
    pendingSwitch # None =>
        /\ phase = "scheduled" => frame.barrier /\ frame.bank = active
        /\ phase # "scheduled" => stores = {}

OInv ==
    /\ SlotStates
    /\ SlotLeft
    /\ QueuedOwned
    /\ ParkedApart
    /\ LiveRequestKeepsBank
    /\ SwitchDrained
    /\ HandoverDrained
    /\ OwnershipNeverBroken

-----------------------------------------------------------------------------
(***************************************************************************)
(* Lemmas about the scheduler's steps.                                     *)
(***************************************************************************)
\* What vLLM's own schedule() may do to the requests it is shown: a request
\* that runs afterwards ran before or was admitted from the queue of the bank,
\* at most one does, and nothing else changes its state.
LEMMA ParentEffect ==
    ASSUME TypeOK, NEW b, NEW run \in SUBSET Req, NEW zero \in BOOLEAN,
           NEW sched \in Req \cup {None},
           \A q, r \in run : q = r,
           \A r \in run : status[r] = "running",
           ParentStep(b, run, zero, sched)
    PROVE  /\ \A r \in Req : status'[r] = "absent" <=> status[r] = "absent"
           /\ \A r \in Req \ (run \cup WaitingOn(b)) : status'[r] = status[r]
           /\ \A r \in running' : status'[r] = "running" /\ r \in run \cup WaitingOn(b)
           /\ \A q, r \in running' : q = r
           /\ zero => running' = run /\ status' = status
           /\ finishedIds' \subseteq finishedIds
           /\ stores' \subseteq stores \cup ({b} \ {None})
<1>1. ParentSchedule(b, run, zero, sched)
    BY DEF ParentStep
<1>2. finishedIds' \subseteq finishedIds /\ stores' \subseteq stores \cup ({b} \ {None})
    BY DEF ParentStep
<1>3. WaitingOn(b) \subseteq Req /\ \A r \in WaitingOn(b) : status[r] # "absent" /\ r \notin run
    BY DEF WaitingOn, Waiting
<1>4. None \notin WaitingOn(b) /\ None \notin run
    BY <1>3, SchedulerAssumption
<1>5. status \in [Req -> Status]
    BY DEF TypeOK
<1>6. CASE AdmitNothing(run)
    BY <1>2, <1>6 DEF AdmitNothing
<1>7. CASE ~zero /\ running' = {} /\
           status' = [r \in Req |-> IF r \in run THEN "preempted" ELSE status[r]]
    BY <1>2, <1>3, <1>7
<1>8. CASE /\ ~zero /\ run = {} /\ sched \in WaitingOn(b)
           /\ running' = {sched}
           /\ status' = [status EXCEPT ![sched] = "running"]
    BY <1>2, <1>3, <1>5, <1>8
<1>9. CASE /\ ~zero /\ running' = {}
           /\ \E moved \in SUBSET {r \in WaitingOn(b) : LookupAnswers(r)} :
                status' = [r \in Req |->
                    IF r \notin moved THEN status[r]
                    ELSE IF status[r] = "remote" THEN "waiting" ELSE "remote"]
    BY <1>2, <1>3, <1>9
<1> QED BY <1>1, <1>6, <1>7, <1>8, <1>9 DEF ParentSchedule

\* A parked response is live, and its bank has an allocator.
LEMMA ParkedAllocated ==
    ASSUME TypeOK, OInv, NEW r \in parked
    PROVE  r \in Live /\ r \in owners /\ OwnerOf(r) = KeyOf[r] /\ KeyOf[r] \in managers
           /\ r \notin Waiting
<1>1. r \in Req /\ status[r] = "running" /\ r \in owners
    BY DEF TypeOK, OInv, SlotStates, ParkedApart
<1>2. r \in Live /\ r \notin Waiting /\ r \notin unallocated
    BY <1>1 DEF Live, Waiting, OInv, QueuedOwned
<1> QED BY <1>1, <1>2 DEF OInv, LiveRequestKeepsBank, OwnerOf

\* Responses that stay parked are finitely many, and fewer of them still leave
\* the slot.
LEMMA FewerParked ==
    ASSUME TypeOK, SlotLeft, NEW S \in SUBSET StayParked
    PROVE  Cardinality(S) < RunnerStateSlots
<1>1. StayParked \subseteq Req
    BY DEF StayParked, TypeOK
<1>2. IsFiniteSet(StayParked)
    BY <1>1, FS_Subset, SchedulerAssumption
<1>3. /\ Cardinality(S) <= Cardinality(StayParked)
      /\ Cardinality(S) \in Nat /\ Cardinality(StayParked) \in Nat
    BY <1>2, FS_Subset, FS_CardinalityType
<1> QED BY <1>3, SchedulerAssumption DEF SlotLeft

-----------------------------------------------------------------------------
(***************************************************************************)
(* The handover frame.                                                     *)
(***************************************************************************)
LEMMA HandoverOwns ==
    ASSUME IInv, OInv, NEW sched \in Req \cup {None}, Handover(sched)
    PROVE  OInv'
<1> DEFINE ps == pendingSwitch
           gone == IF DiscardPrevious THEN {active} ELSE {}
           resume == ParkedOn(ps)
<1>1. /\ TypeOK /\ raised = "none" /\ phase = "ready" /\ ps # None /\ ps \in Key
      /\ Settled /\ ActiveAllocated /\ SwitchPrepared
    BY DEF Handover, EngineStep, IInv, Agreement, TypeOK
<1>2. active # None /\ ps # active
    BY <1>1 DEF ActiveAllocated, SwitchPrepared
<1>3. /\ running = {} /\ (DiscardPrevious => active \notin BusyBanks)
      /\ managers' = (managers \ gone) \cup {ps}
      /\ owners' = OwnersWithout(gone)
      /\ active' = ps
      /\ unallocated' = {r \in unallocated : OwnerOf(r) # ps}
      /\ parked' = StillParked(gone \cup {ps})
      /\ pendingSwitch' = None
      /\ ParentStep(ps, resume, FALSE, sched)
      /\ frame'.bank = ps /\ frame'.discard = DiscardPrevious
      /\ frame'.save = (~DiscardPrevious /\ active \in managers)
      /\ phase' = "scheduled" /\ raised' = raised /\ gpuBank' = gpuBank
    BY DEF Handover, Activate, workerVars
<1>4. /\ resume \subseteq parked /\ resume \in SUBSET Req
      /\ \A q, r \in resume : q = r
      /\ \A r \in resume : status[r] = "running" /\ r \in owners /\ KeyOf[r] = ps
  <2>1. resume \subseteq parked /\ resume \in SUBSET Req
      BY <1>1 DEF ParkedOn, TypeOK
  <2>2. \A r \in resume : r \in owners /\ KeyOf[r] = ps
      BY <1>1 DEF ParkedOn, OwnerOf
  <2> QED BY <2>1, <2>2 DEF OInv, ParkedApart, SlotStates
<1>5. /\ \A r \in Req : status'[r] = "absent" <=> status[r] = "absent"
      /\ \A r \in Req \ (resume \cup WaitingOn(ps)) : status'[r] = status[r]
      /\ \A r \in running' : status'[r] = "running" /\ r \in resume \cup WaitingOn(ps)
      /\ \A q, r \in running' : q = r
      /\ finishedIds' \subseteq finishedIds
      /\ stores' \subseteq stores \cup ({ps} \ {None})
  <2> HIDE DEF resume, ps
  <2> QED BY <1>1, <1>3, <1>4, ParentEffect
<1>6. Live' \subseteq Live /\ \A r \in Live : r \in owners' <=> r \in owners
    BY <1>3, <1>5 DEF Live, OwnersWithout
<1>7. \A r \in Live : r \in owners => KeyOf[r] \notin gone
    BY <1>2, <1>3 DEF BusyBanks, OwnerOf
<1>8. WaitingOn(ps) \subseteq Waiting \cap owners /\ \A r \in WaitingOn(ps) : KeyOf[r] = ps
    BY <1>1 DEF WaitingOn, OwnerOf
<1>9. /\ Waiting \subseteq Live /\ Waiting \subseteq Req /\ parked \cap Waiting = {}
      /\ parked \subseteq Live /\ parked \subseteq Req
    BY <1>1 DEF Live, Waiting, OInv, SlotStates, TypeOK
<1>10. parked' = StayParked /\ \A r \in parked' : r \in owners /\ KeyOf[r] # ps
  <2>1. \A r \in parked : r \in owners /\ OwnerOf(r) = KeyOf[r] /\ KeyOf[r] \notin gone
      BY <1>7, <1>9 DEF OInv, ParkedApart, OwnerOf
  <2> QED BY <1>3, <2>1 DEF StillParked, StayParked
<1>11. SlotStates'
  <2>1. \A r \in parked' : r \in parked /\ r \notin resume \cup WaitingOn(ps)
      BY <1>4, <1>8, <1>10 DEF StayParked
  <2>2. \A r \in parked' : status'[r] = "running"
      BY <1>5, <1>9, <2>1 DEF OInv, SlotStates
  <2>3. \A r \in running' : r \in owners' /\ KeyOf[r] = active'
    <3>1. resume \cup WaitingOn(ps) \subseteq Live \cap owners
        BY <1>4, <1>8, <1>9
    <3> QED BY <1>3, <1>4, <1>5, <1>6, <1>8, <3>1
  <2> QED BY <1>3, <1>5, <2>1, <2>2, <2>3 DEF SlotStates
<1>12. SlotLeft'
  <2>1. StayParked' \subseteq StayParked
      BY <1>10 DEF StayParked
  <2> QED BY <1>1, <2>1, FewerParked DEF OInv, SlotLeft
<1>13. QueuedOwned'
  <2>1. ASSUME NEW r \in unallocated' PROVE r \in Waiting'
    <3>1. r \in Waiting /\ r \in owners /\ KeyOf[r] # ps
        BY <1>3 DEF OInv, QueuedOwned, OwnerOf
    <3>2. status'[r] = status[r]
        BY <1>4, <1>5, <1>8, <1>9, <3>1
    <3> QED BY <1>9, <3>1, <3>2 DEF Waiting
  <2>2. ASSUME NEW r \in Waiting' PROVE r \in owners'
    <3>1. r \in resume \cup Waiting
        BY <1>5, <1>8 DEF Waiting
    <3> QED BY <1>4, <1>6, <1>9, <3>1 DEF OInv, QueuedOwned
  <2> QED BY <2>1, <2>2 DEF QueuedOwned
<1>14. ParkedApart'
  <2> SUFFICES ASSUME NEW r \in parked'
               PROVE  /\ r \in owners'
                      /\ \A q \in parked' : KeyOf[q] = KeyOf[r] => q = r
                      /\ KeyOf[r] # active'
                      /\ ~Supersedes(KeyOf[r], active')
      BY DEF ParkedApart, Supersedes
  <2>1. r \in parked /\ r \in owners /\ KeyOf[r] # ps /\ r \in Live
      BY <1>9, <1>10 DEF StayParked
  <2>2. KeyOf[r] \in managers /\ KeyOf[r] \notin gone
      BY <1>1, <1>7, <2>1, ParkedAllocated
  <2>3. ~Supersedes(ps, KeyOf[r])
    <3>1. SUFFICES ASSUME Supersedes(ps, KeyOf[r]) PROVE FALSE
        OBVIOUS
    <3>2. KeyOf[r] = active
        BY <1>1, <2>2, <3>1 DEF SwitchPrepared
    <3>3. DiscardPrevious
        BY <3>1, <3>2 DEF DiscardPrevious
    <3> QED BY <2>2, <3>2, <3>3
  <2>4. ~Supersedes(KeyOf[r], ps)
      BY <2>3, SupersedesSymmetric
  <2> QED BY <1>3, <1>6, <1>10, <2>1, <2>4 DEF OInv, ParkedApart, StayParked
<1>15. LiveRequestKeepsBank'
  <2> SUFFICES ASSUME NEW r \in Live', r \in owners'
               PROVE  KeyOf[r] \in managers' <=> r \notin unallocated'
      BY DEF LiveRequestKeepsBank
  <2>1. r \in Live /\ r \in owners /\ KeyOf[r] \notin gone /\ OwnerOf(r) = KeyOf[r]
      BY <1>6, <1>7 DEF OwnerOf
  <2> QED BY <1>3, <2>1 DEF OInv, LiveRequestKeepsBank
<1>16. SwitchDrained'
    BY <1>3 DEF SwitchDrained
<1>17. HandoverDrained'
  <2>1. stores' \subseteq {ps} /\ gpuBank' = active
      BY <1>1, <1>3, <1>5 DEF OInv, SwitchDrained, Settled
  <2>2. ~DiscardPrevious => active \in managers
      BY <1>1, <1>2 DEF ActiveAllocated, DiscardPrevious
  <2> QED BY <1>2, <1>3, <2>1, <2>2 DEF HandoverDrained
<1>18. OwnershipNeverBroken'
    BY <1>3 DEF OInv, OwnershipNeverBroken
<1> QED BY <1>11, <1>12, <1>13, <1>14, <1>15, <1>16, <1>17, <1>18 DEF OInv

-----------------------------------------------------------------------------
(***************************************************************************)
(* Frames without a switch, and the barrier frame that starts one.         *)
(***************************************************************************)
\* Another bank is chosen only for an urgent chat or at a response boundary.
LEMMA SwitchReason ==
    ASSUME NEW d \in Decisions, d.target # active
    PROVE  d.target \in UrgentReady \/ AtBoundary
<1>1. CASE UrgentReady # {}
  <2>1. PICK k \in Oldest(UrgentReady) : d \in Serve(k)
      BY <1>1 DEF Decisions
  <2> QED BY <2>1 DEF Oldest, Serve
<1>2. CASE UrgentReady = {} /\ ~AtBoundary
    BY <1>2 DEF Decisions, Stay
<1> QED BY <1>1, <1>2

\* A resident chat is selected: no bank moves.
LEMMA RunResidentOwns ==
    ASSUME IInv, OInv, EngineStep, pendingSwitch = None, NEW d \in Decisions,
           NEW sched \in Req \cup {None}, RunResident(d, sched),
           owners' = OwnersWithout(d.retired),
           UNCHANGED <<workerVars, raised>>, phase' = "scheduled"
    PROVE  OInv'
<1> DEFINE b == d.target
<1>1. TypeOK /\ raised = "none" /\ phase = "ready" /\ Settled /\ ActiveAllocated
      /\ OneGenerationPerChat
    BY DEF EngineStep, IInv, Agreement
<1>2. /\ d.retired = {}
      /\ active' = b /\ b \in Key \cup {None}
      /\ managers' = managers \cup ({b} \ {None})
      /\ active = None => managers = {} /\ running = {} /\ parked = {}
      /\ unallocated' = {r \in unallocated : OwnerOf(r) # b}
      /\ active \in {b, None}
  <2>1. ASSUME active = None
        PROVE  managers = {} /\ running = {} /\ parked = {}
    <3>1. managers = {}
        BY <1>1, <2>1 DEF ActiveAllocated
    <3>2. parked = {}
        BY <1>1, <3>1, ParkedAllocated
    <3>3. running = {}
        BY <1>1, <2>1, WorkerAssumption, SchedulerAssumption DEF OInv, SlotStates, TypeOK
    <3> QED BY <3>1, <3>2, <3>3
  <2>2. CASE active = None /\ b # None
    <3>1. b \in Key /\ d.retired \in Retirements(b)
        BY <1>1, <2>2, DecisionShape
    <3>2. d.retired = {}
        BY <2>1, <2>2, <3>1, FirstNeedsNoRoom
    <3> QED BY <2>1, <2>2, <3>1, <3>2 DEF RunResident, Activate
  <2>3. CASE active = b
    <3>1. b # None => b \in managers
        BY <1>1, <2>3 DEF ActiveAllocated
    <3>2. d.retired = {}
        BY <1>1, <2>3, <3>1, DecisionShape, ResidentNeedsNoRoom, WorkerAssumption
    <3>3. managers' = managers /\ active' = active /\ unallocated' = unallocated
        BY <2>3, <3>2 DEF RunResident
    <3>4. \A r \in unallocated : OwnerOf(r) # b
      <4> SUFFICES ASSUME NEW r \in unallocated, OwnerOf(r) = b PROVE FALSE
          OBVIOUS
      <4>1. r \in Waiting /\ r \in owners /\ r \in Live /\ r \in Req
          BY DEF OInv, QueuedOwned, Waiting, Live
      <4>2. KeyOf[r] = b /\ b \in managers
          BY <3>1, <4>1, SchedulerAssumption, WorkerAssumption DEF OwnerOf
      <4> QED BY <4>1, <4>2 DEF OInv, LiveRequestKeepsBank
    <3> QED BY <1>1, <2>1, <2>3, <3>1, <3>2, <3>3, <3>4 DEF TypeOK
  <2> QED BY <2>2, <2>3 DEF RunResident
<1>3. /\ owners' = owners /\ parked' = parked /\ pendingSwitch' = pendingSwitch
      /\ ParentStep(b, running, d.grace = "outcome", sched)
      /\ frame'.bank = b
      /\ raised' = raised /\ gpuBank' = gpuBank
    BY <1>2 DEF OwnersWithout, RunResident, ResidentFrame, workerVars
<1>4. /\ running \in SUBSET Req
      /\ \A q, r \in running : q = r
      /\ \A r \in running : status[r] = "running" /\ r \in owners /\ KeyOf[r] = b
    BY <1>1, <1>2 DEF TypeOK, OInv, SlotStates
<1>5. /\ \A r \in Req : status'[r] = "absent" <=> status[r] = "absent"
      /\ \A r \in Req \ (running \cup WaitingOn(b)) : status'[r] = status[r]
      /\ \A r \in running' : status'[r] = "running" /\ r \in running \cup WaitingOn(b)
      /\ \A q, r \in running' : q = r
      /\ finishedIds' \subseteq finishedIds
  <2>1. (d.grace = "outcome") \in BOOLEAN
      OBVIOUS
  <2> HIDE DEF b
  <2> QED BY <1>1, <1>3, <1>4, <2>1, ParentEffect
<1>6. Live' \subseteq Live
    BY <1>5 DEF Live
<1>7. /\ Waiting \subseteq Live /\ Waiting \subseteq Req /\ Waiting \subseteq owners
      /\ parked \cap Waiting = {} /\ running \cap Waiting = {} /\ parked \subseteq Req
      /\ running \cap parked = {}
    BY <1>1 DEF Live, Waiting, OInv, SlotStates, QueuedOwned, TypeOK
<1>8. WaitingOn(b) \subseteq Waiting /\ \A r \in WaitingOn(b) : KeyOf[r] = b
    BY <1>7 DEF WaitingOn, OwnerOf
<1>9. SlotStates'
  <2>1. \A r \in parked : status'[r] = "running" /\ r \notin running'
      BY <1>5, <1>7, <1>8 DEF OInv, SlotStates
  <2>2. \A r \in running' : r \in owners' /\ KeyOf[r] = active'
      BY <1>2, <1>3, <1>4, <1>5, <1>7, <1>8
  <2> QED BY <1>3, <1>5, <2>1, <2>2 DEF SlotStates
<1>10. SlotLeft'
  <2>1. StayParked' \subseteq StayParked
      BY <1>3 DEF StayParked, OwnerOf
  <2> QED BY <1>1, <2>1, FewerParked DEF OInv, SlotLeft
<1>11. QueuedOwned'
  <2>1. ASSUME NEW r \in unallocated' PROVE r \in Waiting'
    <3>1. r \in Waiting /\ r \notin WaitingOn(b)
        BY <1>2 DEF OInv, QueuedOwned, WaitingOn
    <3>2. status'[r] = status[r]
        BY <1>5, <1>7, <3>1
    <3> QED BY <1>7, <3>1, <3>2 DEF Waiting
  <2>2. ASSUME NEW r \in Waiting' PROVE r \in owners'
    <3>1. r \in running \cup Waiting
        BY <1>5, <1>8 DEF Waiting
    <3> QED BY <1>3, <1>4, <1>7, <3>1
  <2> QED BY <2>1, <2>2 DEF QueuedOwned
<1>12. ParkedApart'
    BY <1>2, <1>3 DEF OInv, ParkedApart, Supersedes
<1>13. LiveRequestKeepsBank'
  <2> SUFFICES ASSUME NEW r \in Live', r \in owners'
               PROVE  KeyOf[r] \in managers' <=> r \notin unallocated'
      BY DEF LiveRequestKeepsBank
  <2>1. r \in Live /\ r \in owners /\ OwnerOf(r) = KeyOf[r] /\ KeyOf[r] \in Key
      BY <1>1, <1>3, <1>6, SchedulerAssumption DEF OwnerOf, TypeOK
  <2> QED BY <1>2, <2>1, WorkerAssumption DEF OInv, LiveRequestKeepsBank
<1>14. SwitchDrained'
    BY <1>3 DEF SwitchDrained
<1>15. HandoverDrained'
    BY <1>1, <1>2, <1>3 DEF HandoverDrained, Settled
<1>16. OwnershipNeverBroken'
    BY <1>3 DEF OInv, OwnershipNeverBroken
<1> QED BY <1>9, <1>10, <1>11, <1>12, <1>13, <1>14, <1>15, <1>16 DEF OInv

\* A switch parks the resident chat only when its pipeline is drained.
LEMMA StartSwitchOwns ==
    ASSUME IInv, OInv, EngineStep, pendingSwitch = None, NEW d \in Decisions,
           NEW sched \in Req \cup {None}, StartSwitch(d, sched), MayPark(d, Level(d.target)),
           owners' = OwnersWithout(d.retired),
           UNCHANGED <<workerVars, raised>>, phase' = "scheduled"
    PROVE  OInv'
<1> DEFINE t == d.target
<1>1. TypeOK /\ raised = "none" /\ phase = "ready" /\ Settled /\ ActiveAllocated
    BY DEF EngineStep, IInv, Agreement
<1>2. active # None /\ t # active
    BY DEF StartSwitch
<1>3. t \in Key /\ t # None /\ d.retired \cap BusyBanks = {}
    BY <1>1, <1>2, DecisionShape, RetiredAreIdle, WorkerAssumption
<1>4. /\ active' = active /\ unallocated' = unallocated
      /\ managers' = managers \ d.retired
      /\ parked' = StillParked(d.retired) \cup running
      /\ pendingSwitch' = t
      /\ ParentStep(active, {}, TRUE, sched)
      /\ frame'.bank = active /\ frame'.barrier
      /\ raised' = raised /\ gpuBank' = gpuBank
    BY DEF StartSwitch, BarrierFrame, ResidentFrame, workerVars
<1>5. running' = {} /\ status' = status /\ finishedIds' \subseteq finishedIds
  <2>1. ParentSchedule(active, {}, TRUE, sched) /\ finishedIds' \subseteq finishedIds
      BY <1>4 DEF ParentStep
  <2> QED BY <2>1 DEF ParentSchedule, AdmitNothing
<1>6. Live' \subseteq Live /\ \A r \in Live : r \in owners' <=> r \in owners
    BY <1>5 DEF Live, OwnersWithout
<1>7. \A r \in Live : r \in owners => KeyOf[r] \notin d.retired
  <2> SUFFICES ASSUME NEW r \in Live, r \in owners PROVE KeyOf[r] \in BusyBanks
      BY <1>3
  <2>1. r \in Req /\ OwnerOf(r) = KeyOf[r] /\ KeyOf[r] # None
      BY <1>1, SchedulerAssumption, WorkerAssumption DEF OwnerOf, TypeOK
  <2> QED BY <2>1 DEF BusyBanks
<1>8. /\ Waiting \subseteq Live /\ Waiting \subseteq owners
      /\ parked \cup running \subseteq Live \cap owners
    BY <1>1 DEF Live, Waiting, OInv, SlotStates, QueuedOwned, ParkedApart, TypeOK
<1>9. parked' = parked \cup running
    BY <1>4, <1>7, <1>8 DEF StillParked, OwnerOf
<1>10. \A r \in parked \cup running : r \in owners' /\ KeyOf[r] \in Key
    BY <1>1, <1>6, <1>8, SchedulerAssumption DEF TypeOK
<1>11. SlotStates'
    BY <1>5, <1>9 DEF OInv, SlotStates
<1>12. SlotLeft'
  <2>1. StayParked' = {r \in parked \cup running : KeyOf[r] # t}
      BY <1>4, <1>9, <1>10 DEF StayParked, OwnerOf
  <2>2. StayParked = parked
    <3>1. \A r \in parked : OwnerOf(r) # pendingSwitch
        BY <1>8, <1>10, WorkerAssumption DEF OwnerOf
    <3> QED BY <3>1 DEF StayParked
  <2>3. CASE running = {}
    <3>1. StayParked' \subseteq StayParked
        BY <2>1, <2>2, <2>3
    <3> QED BY <1>1, <3>1, FewerParked DEF OInv, SlotLeft
  <2>4. CASE running # {}
    <3>1. /\ IsFiniteSet(parked) /\ IsFiniteSet(running)
          /\ Cardinality(parked) \in Nat /\ Cardinality(running) \in Nat
        BY <1>1, FS_Subset, FS_CardinalityType, SchedulerAssumption DEF TypeOK
    <3>2. Cardinality(running) = 1 /\ Cardinality(parked) < RunnerStateSlots
        BY <2>2, <2>4 DEF MayPark, OInv, SlotLeft
    <3>3. t \in UrgentReady
        BY <1>2, <2>4, SwitchReason DEF AtBoundary
    <3>4. CASE Cardinality(running) + Cardinality(parked) < RunnerStateSlots
      <4>1. IsFiniteSet(parked \cup running)
            /\ Cardinality(parked \cup running) <= Cardinality(parked) + Cardinality(running)
        <5>1. IsFiniteSet(parked \cap running) /\ Cardinality(parked \cap running) \in Nat
            BY <3>1, FS_Intersection, FS_CardinalityType
        <5>2. /\ IsFiniteSet(parked \cup running)
              /\ Cardinality(parked \cup running) =
                   Cardinality(parked) + Cardinality(running) - Cardinality(parked \cap running)
            BY <3>1, FS_Union
        <5> QED BY <3>1, <5>1, <5>2
      <4>2. StayParked' \subseteq parked \cup running
          BY <2>1
      <4>3. Cardinality(StayParked') <= Cardinality(parked \cup running)
            /\ Cardinality(StayParked') \in Nat /\ Cardinality(parked \cup running) \in Nat
          BY <4>1, <4>2, FS_Subset, FS_CardinalityType
      <4> QED BY <3>1, <3>4, <4>1, <4>3, SchedulerAssumption DEF SlotLeft
    <3>5. CASE ParkedOn(t) # {}
      <4>1. PICK p \in parked : KeyOf[p] = t
          BY <1>3, <3>5 DEF ParkedOn, OwnerOf
      <4>2. PICK x \in running : running = {x}
          BY <2>4 DEF OInv, SlotStates
      <4>3. StayParked' \subseteq (parked \ {p}) \cup {x}
          BY <2>1, <4>1, <4>2
      <4>4. IsFiniteSet(parked \ {p}) /\ Cardinality(parked \ {p}) = Cardinality(parked) - 1
          BY <3>1, <4>1, FS_RemoveElement
      <4>5. IsFiniteSet((parked \ {p}) \cup {x})
            /\ Cardinality((parked \ {p}) \cup {x}) <= Cardinality(parked)
        <5> DEFINE rest == parked \ {p}
        <5>1. /\ IsFiniteSet(rest \cup {x})
              /\ x \in rest => Cardinality(rest \cup {x}) = Cardinality(rest)
              /\ x \notin rest => Cardinality(rest \cup {x}) = Cardinality(rest) + 1
            BY <4>4, FS_AddElement
        <5>2. Cardinality(rest) = Cardinality(parked) - 1
            BY <4>4
        <5> HIDE DEF rest
        <5>3. Cardinality(rest \cup {x}) <= Cardinality(parked)
            BY <3>1, <5>1, <5>2
        <5> QED BY <5>1, <5>3 DEF rest
      <4>6. Cardinality(StayParked') <= Cardinality((parked \ {p}) \cup {x})
            /\ Cardinality(StayParked') \in Nat /\ Cardinality((parked \ {p}) \cup {x}) \in Nat
          BY <4>3, <4>5, FS_Subset, FS_CardinalityType
      <4> QED BY <3>1, <3>2, <4>5, <4>6, SchedulerAssumption DEF SlotLeft
    <3> QED BY <3>3, <3>4, <3>5 DEF UrgentReady
  <2> QED BY <2>3, <2>4
<1>13. QueuedOwned'
    BY <1>4, <1>5, <1>6, <1>8 DEF OInv, QueuedOwned, Waiting
<1>14. ParkedApart'
  <2>1. \A r \in running : KeyOf[r] = active /\ \A q \in parked : KeyOf[q] # active
      BY <1>8, <1>9 DEF OInv, SlotStates, ParkedApart
  <2>2. \A q, r \in parked \cup running : KeyOf[q] = KeyOf[r] => q = r
      BY <2>1 DEF OInv, ParkedApart, SlotStates
  <2>3. \A r \in parked \cup running : ~Supersedes(KeyOf[r], active')
      BY <1>4, <2>1 DEF OInv, ParkedApart, Supersedes
  <2> QED BY <1>3, <1>4, <1>9, <1>10, <2>2, <2>3 DEF ParkedApart, Supersedes
<1>15. LiveRequestKeepsBank'
    BY <1>4, <1>6, <1>7 DEF OInv, LiveRequestKeepsBank
<1>16. SwitchDrained' /\ HandoverDrained'
    BY <1>1, <1>4 DEF SwitchDrained, HandoverDrained, Settled
<1>17. OwnershipNeverBroken'
    BY <1>4 DEF OInv, OwnershipNeverBroken
<1> QED BY <1>11, <1>12, <1>13, <1>14, <1>15, <1>16, <1>17 DEF OInv

\* schedule() never raises one of the ownership errors.
LEMMA FaultsKeepOwnership ==
    ASSUME IInv, OInv, HandoverFault \/ StepFault
    PROVE  OwnershipNeverBroken'
<1>1. CASE HandoverFault
  <2>1. running = {}
      BY <1>1 DEF HandoverFault, OInv, SlotStates
  <2> QED BY <1>1, <2>1 DEF HandoverFault, Crash, OwnershipNeverBroken
<1>2. CASE StepFault
  <2>1. TypeOK /\ pendingSwitch = None
      BY <1>2 DEF IInv, StepFault
  <2>2. ASSUME NEW k \in Successors, WaitingOn(k) = {} PROVE FALSE
    <3>1. k \in Contenders /\ Supersedes(k, active)
        BY DEF Successors
    <3>2. PICK r \in Waiting \cup parked : OwnerOf(r) = k
        BY <3>1 DEF Contenders
    <3>3. r \in parked
        BY <2>2, <3>2 DEF WaitingOn
    <3>4. Supersedes(KeyOf[r], active)
        BY <2>1, <3>1, <3>2, <3>3, ParkedAllocated
    <3> QED BY <3>3, <3>4 DEF OInv, ParkedApart
  <2>3. ASSUME NEW d \in Decisions, NEW levelNow, levelNow = 2 /\ levelNow > Level(active)
        PROVE  MayPark(d, levelNow)
    <3>1. running # {} => Cardinality(running) = 1
      <4> SUFFICES ASSUME running # {} PROVE Cardinality(running) = 1
          OBVIOUS
      <4>1. PICK x \in running : running = {x}
          BY DEF OInv, SlotStates
      <4> QED BY <4>1, FS_Singleton
    <3>2. ParkedOn(active) = {}
      <4> SUFFICES ASSUME NEW r \in parked, OwnerOf(r) = active PROVE FALSE
          BY DEF ParkedOn
      <4>1. KeyOf[r] = active
          BY <2>1, ParkedAllocated
      <4> QED BY <2>1, <4>1 DEF OInv, ParkedApart
    <3> QED BY <2>3, <3>1, <3>2 DEF MayPark
  <2> QED BY <1>2, <2>2, <2>3 DEF StepFault, Crash, OwnershipNeverBroken
<1> QED BY <1>1, <1>2

-----------------------------------------------------------------------------
(***************************************************************************)
(* The worker, the output and the clients.                                 *)
(***************************************************************************)
LEMMA BeforeForwardOwns ==
    ASSUME IInv, OInv, BeforeForward
    PROVE  OInv'
<1>1. UNCHANGED schedVars /\ phase' = "executed" /\ Before(frame)
      /\ (frame.barrier => stores' = {}) /\ phase = "scheduled" /\ raised = "none"
    BY DEF BeforeForward
<1>2. raised' \in {"none"} \cup WorkerErrors
    BY <1>1 DEF Before, StayOrAdopt, DiscardActive, SwapBanks, Raise, WorkerErrors
<1>3. SlotStates' /\ SlotLeft' /\ QueuedOwned' /\ ParkedApart' /\ LiveRequestKeepsBank'
    BY <1>1 DEF OInv, SlotStates, SlotLeft, StayParked, OwnerOf, QueuedOwned, Waiting, ParkedApart,
                Supersedes, LiveRequestKeepsBank, Live, schedVars
<1>4. SwitchDrained' /\ HandoverDrained'
    BY <1>1 DEF OInv, SwitchDrained, HandoverDrained, schedVars
<1>5. OwnershipNeverBroken'
    BY <1>2 DEF OwnershipNeverBroken, WorkerErrors
<1> QED BY <1>3, <1>4, <1>5 DEF OInv

\* Between engine steps the tables of banks stay as they are, and no frame
\* is on its way to the worker.
LEMMA BetweenFrames ==
    ASSUME OInv, phase # "scheduled", phase' # "scheduled", pendingSwitch' = pendingSwitch,
           stores' \subseteq stores, raised' = raised
    PROVE  SwitchDrained' /\ HandoverDrained' /\ OwnershipNeverBroken'
BY DEF OInv, SwitchDrained, HandoverDrained, OwnershipNeverBroken

\* The output of a forward: a finished request gives up its chat's hold on the bank.
LEMMA UpdateOwns ==
    ASSUME IInv, OInv, NEW outcome \in Outcome, NEW delayed \in BOOLEAN, NEW cleaned \in SUBSET Req,
           UpdateFromOutput(outcome, delayed, cleaned)
    PROVE  OInv'
<1> DEFINE x == frame.sched
           ends == outcome # "continue"
<1>1. TypeOK
    BY DEF IInv
<1>2. /\ phase = "executed" /\ phase' = "ready" /\ raised' = raised
      /\ UNCHANGED <<parked, owners, unallocated, managers, active, pendingSwitch>>
      /\ stores' \subseteq stores
      /\ ends => x \in running
      /\ running' = IF ends THEN running \ {x} ELSE running
      /\ finishedIds' = IF ends THEN finishedIds \cup {x} ELSE finishedIds
    BY DEF UpdateFromOutput
<1>3. status' = [q \in Req |->
            IF q \in cleaned /\ status[q] = "finished" THEN "absent"
            ELSE IF ends /\ q = x THEN IF delayed THEN "finished" ELSE "absent"
                 ELSE status[q]]
    BY DEF UpdateFromOutput
<1>4. \A r \in running \cup parked : r \in Req /\ status[r] = "running"
    BY <1>1 DEF OInv, SlotStates, TypeOK
<1>5. ends => x \notin parked /\ x \in Req
    BY <1>2, <1>4 DEF OInv, SlotStates
<1>6. \A r \in Req : status'[r] # status[r] => status[r] \in {"finished", "running"}
                        /\ status'[r] \in {"finished", "absent"}
    BY <1>2, <1>3, <1>4
<1>7. Live' \subseteq Live
    BY <1>2, <1>3, <1>4 DEF Live
<1>8. Waiting' = Waiting
    BY <1>6 DEF Waiting
<1>9. SlotStates'
    BY <1>2, <1>3, <1>4, <1>5 DEF OInv, SlotStates
<1>10. SlotLeft' /\ ParkedApart' /\ QueuedOwned'
    BY <1>2, <1>8 DEF OInv, SlotLeft, StayParked, OwnerOf, ParkedApart, Supersedes, QueuedOwned
<1>11. LiveRequestKeepsBank'
    BY <1>2, <1>7 DEF OInv, LiveRequestKeepsBank
<1>12. SwitchDrained' /\ HandoverDrained' /\ OwnershipNeverBroken'
    BY <1>2, BetweenFrames
<1> QED BY <1>9, <1>10, <1>11, <1>12 DEF OInv

\* A request arrives: its chat is queued, or is the owner already.
LEMMA AddRequestOwns ==
    ASSUME IInv, OInv, NEW r \in Req, NEW admitted \in BOOLEAN, AddRequest(r, admitted)
    PROVE  OInv'
<1>1. TypeOK
    BY DEF IInv
<1>2. /\ phase = "ready" /\ status[r] = "absent" /\ r \notin finishedIds
      /\ UNCHANGED <<running, parked, finishedIds, managers, active, pendingSwitch, phase, stores,
                     raised>>
    BY DEF AddRequest, engineVars
<1>3. /\ \A q \in Req \ {r} : status'[q] = status[q]
      /\ owners' \ {r} = owners \ {r} /\ unallocated' \ {r} = unallocated \ {r}
    BY <1>1 DEF AddRequest, TypeOK
<1>4. \/ /\ status'[r] = "waiting" /\ r \in owners'
         /\ r \in unallocated' <=> KeyOf[r] \notin managers
      \/ status'[r] = "absent" /\ r \notin owners' /\ r \notin unallocated'
  <2>1. r \notin unallocated
      BY <1>2 DEF OInv, QueuedOwned, Waiting
  <2> QED BY <1>1, <1>2, <2>1 DEF AddRequest, TypeOK
<1>5. r \notin running \cup parked /\ running \cup parked \subseteq Req
    BY <1>1, <1>2 DEF OInv, SlotStates, TypeOK
<1>6. SlotStates'
    BY <1>2, <1>3, <1>5 DEF OInv, SlotStates
<1>7. StayParked' = StayParked
    BY <1>2, <1>3, <1>5 DEF StayParked, OwnerOf
<1>8. SlotLeft' /\ ParkedApart'
    BY <1>2, <1>3, <1>5, <1>7 DEF OInv, SlotLeft, ParkedApart, Supersedes
<1>9. QueuedOwned'
    BY <1>1, <1>3, <1>4 DEF OInv, QueuedOwned, Waiting, TypeOK
<1>10. LiveRequestKeepsBank'
    BY <1>1, <1>2, <1>3, <1>4 DEF OInv, LiveRequestKeepsBank, Live, TypeOK
<1>11. SwitchDrained' /\ HandoverDrained' /\ OwnershipNeverBroken'
    BY <1>2, BetweenFrames
<1> QED BY <1>6, <1>8, <1>9, <1>10, <1>11 DEF OInv

\* A request is aborted or finished.
LEMMA FinishRequestOwns ==
    ASSUME IInv, OInv, NEW r \in Req, NEW delayed \in BOOLEAN, FinishRequest(r, delayed)
    PROVE  OInv'
<1>1. TypeOK
    BY DEF IInv
<1>2. /\ phase # "scheduled" /\ status[r] # "absent"
      /\ running' = running \ {r} /\ parked' = parked \ {r}
      /\ finishedIds' = finishedIds \cup {r}
      /\ owners' = IF r \in unallocated THEN owners \ {r} ELSE owners
      /\ unallocated' = unallocated \ {r}
      /\ UNCHANGED <<managers, active, pendingSwitch, phase, stores, raised>>
    BY DEF FinishRequest
<1>3. status'[r] \in {"absent", "finished"} /\ \A q \in Req \ {r} : status'[q] = status[q]
    BY <1>1 DEF FinishRequest, TypeOK
<1>4. running \cup parked \cup owners \cup unallocated \cup finishedIds \subseteq Req
    BY <1>1 DEF TypeOK
<1>5. SlotStates'
    BY <1>2, <1>3, <1>4 DEF OInv, SlotStates
<1>6. StayParked' \subseteq StayParked
    BY <1>2 DEF StayParked, OwnerOf
<1>7. SlotLeft'
    BY <1>1, <1>6, FewerParked DEF OInv, SlotLeft
<1>8. ParkedApart'
    BY <1>2 DEF OInv, ParkedApart, Supersedes
<1>9. QueuedOwned'
    BY <1>2, <1>3, <1>4 DEF OInv, QueuedOwned, Waiting
<1>10. LiveRequestKeepsBank'
    BY <1>2, <1>3, <1>4 DEF OInv, LiveRequestKeepsBank, Live
<1>11. SwitchDrained' /\ HandoverDrained' /\ OwnershipNeverBroken'
    BY <1>2, BetweenFrames
<1> QED BY <1>5, <1>7, <1>8, <1>9, <1>10, <1>11 DEF OInv

\* Steps that touch none of the tables OInv speaks of.
LEMMA QuietOwns ==
    ASSUME OInv,
           UNCHANGED <<status, running, parked, finishedIds, owners, unallocated, managers, active,
                       pendingSwitch, phase, frame, stores, gpuBank>>,
           OwnershipNeverBroken', raised' # "none" \/ raised' = raised
    PROVE  OInv'
BY DEF OInv, SlotStates, SlotLeft, StayParked, OwnerOf, QueuedOwned, Waiting, ParkedApart,
       Supersedes, LiveRequestKeepsBank, Live, SwitchDrained, HandoverDrained

-----------------------------------------------------------------------------
\* Nothing is resident and nothing runs.
LEMMA InitOInv == Init => OInv
<1> SUFFICES ASSUME Init PROVE OInv
    OBVIOUS
<1>1. StayParked = {} /\ Waiting = {}
    BY DEF Init, StayParked, Waiting
<1>2. SlotLeft
    BY <1>1, FS_EmptySet, SchedulerAssumption DEF SlotLeft
<1>3. SlotStates /\ QueuedOwned /\ ParkedApart /\ SwitchDrained /\ HandoverDrained
    BY <1>1 DEF Init, SlotStates, QueuedOwned, ParkedApart, SwitchDrained, HandoverDrained
<1>4. LiveRequestKeepsBank /\ OwnershipNeverBroken
    BY DEF Init, LiveRequestKeepsBank, OwnershipNeverBroken
<1> QED BY <1>2, <1>3, <1>4 DEF OInv

\* Every action keeps the ownership invariant.
LEMMA NextOInv == IInv /\ OInv /\ [Next]_vars => OInv'
<1> SUFFICES ASSUME IInv, OInv, [Next]_vars PROVE OInv'
    OBVIOUS
<1>1. ASSUME NEW sched \in Req \cup {None}, Handover(sched)
      PROVE  OInv'
    BY <1>1, HandoverOwns
<1>2. ASSUME NEW d \in Decisions, NEW sched \in Req \cup {None}, Step(d, sched)
      PROVE  OInv'
  <2>1. EngineStep /\ pendingSwitch = None /\ UNCHANGED <<workerVars, raised>> /\ phase' = "scheduled"
        /\ owners' = OwnersWithout(d.retired)
        /\ (RunResident(d, sched) \/ (StartSwitch(d, sched) /\ MayPark(d, Level(d.target))))
      BY <1>2 DEF Step
  <2> QED BY <2>1, RunResidentOwns, StartSwitchOwns
<1>3. ASSUME HandoverFault \/ StepFault PROVE OInv'
  <2>1. raised' \in SchedulerErrors /\ UNCHANGED <<schedVars, engineVars, workerVars>>
      BY <1>3, FaultLeavesState
  <2>2. OwnershipNeverBroken'
      BY <1>3, FaultsKeepOwnership
  <2> QED BY <2>1, <2>2, QuietOwns DEF SchedulerErrors, schedVars, engineVars, workerVars
<1>4. ASSUME BeforeForward PROVE OInv'
    BY <1>4, BeforeForwardOwns
<1>5. ASSUME NEW outcome \in Outcome, NEW delayed \in BOOLEAN, NEW cleaned \in SUBSET Req,
             UpdateFromOutput(outcome, delayed, cleaned)
      PROVE  OInv'
    BY <1>5, UpdateOwns
<1>6. ASSUME NEW r \in Req, NEW b \in BOOLEAN, AddRequest(r, b) \/ FinishRequest(r, b)
      PROVE  OInv'
    BY <1>6, AddRequestOwns, FinishRequestOwns
<1>7. ASSUME \/ \E c \in Chat : \E l \in Priorities[c] : SetLevel(c, l)
             \/ \E g \in Grace : ResolveGrace(g)
             \/ \E r \in Req : PassDeferralLimit(r)
             \/ UNCHANGED vars
      PROVE  OInv'
  <2>1. /\ UNCHANGED <<status, running, parked, finishedIds, owners, unallocated, managers, active,
                       pendingSwitch, phase, frame, stores, gpuBank>>
        /\ raised' = raised
      BY <1>7 DEF SetLevel, ResolveGrace, PassDeferralLimit, engineVars, workerVars, vars, schedVars
  <2>2. OwnershipNeverBroken'
      BY <2>1 DEF OInv, OwnershipNeverBroken
  <2> QED BY <2>1, <2>2, QuietOwns
<1> QED BY <1>1, <1>2, <1>3, <1>4, <1>5, <1>6, <1>7 DEF Next, Schedule, EngineDead

\* The tables of slots, parked responses, owners and store jobs stay in the
\* states OInv describes.
THEOREM OwnershipInvariant == Spec => []OInv
BY InductiveInvariant, InitOInv, NextOInv, PTL DEF Spec

\* schedule() never finds a response running at the handover frame, a second
\* response to park for one bank, or a successor generation with no request.
THEOREM OwnershipHolds == Spec => []OwnershipNeverBroken
<1>1. OInv => OwnershipNeverBroken
    BY DEF OInv
<1> QED BY <1>1, OwnershipInvariant, PTL

\* A live request keeps the allocator it got, until its cleanup was sent.
THEOREM LiveRequestsKeepBanks == Spec => []LiveRequestKeepsBank
<1>1. OInv => LiveRequestKeepsBank
    BY DEF OInv
<1> QED BY <1>1, OwnershipInvariant, PTL

\* When the worker overwrites a GPU bank no store job reads it any more, and
\* its pages are saved unless it is obsolete.
THEOREM HandoversDrained == Spec => []HandoverDrained
<1>1. OInv => HandoverDrained
    BY DEF OInv
<1> QED BY <1>1, OwnershipInvariant, PTL

\* The running and the parked responses fit in the runner's request-state
\* slots, for any number of slots.
THEOREM SlotsAlwaysSuffice == Spec => []SlotsSuffice
<1>1. ASSUME TypeOK, OInv PROVE SlotsSuffice
  <2>1. /\ IsFiniteSet(parked) /\ IsFiniteSet(running)
        /\ Cardinality(parked) \in Nat /\ Cardinality(running) \in Nat
      BY <1>1, FS_Subset, FS_CardinalityType, SchedulerAssumption DEF TypeOK
  <2>2. Cardinality(running) <= 1 /\ (running = {} => Cardinality(running) = 0)
    <3>1. running = {} \/ \E x \in running : running = {x}
        BY <1>1 DEF OInv, SlotStates
    <3>2. Cardinality({}) = 0 /\ \A x \in running : Cardinality({x}) = 1
        BY FS_EmptySet, FS_Singleton
    <3> QED BY <3>1, <3>2
  <2>3. \A r \in running : OwnerOf(r) = active
      BY <1>1 DEF OInv, SlotStates, OwnerOf
  <2>4. Cardinality(StayParked) < RunnerStateSlots /\ Cardinality(StayParked) \in Nat
    <3>1. IsFiniteSet(StayParked)
        BY <2>1, FS_Subset DEF StayParked
    <3> QED BY <1>1, <3>1, FS_CardinalityType DEF OInv, SlotLeft
  <2>5. CASE pendingSwitch = None
    <3>1. StayParked = parked
      <4>1. \A r \in parked : KeyOf[r] \in Key /\ r \in owners
          BY <1>1, SchedulerAssumption DEF OInv, ParkedApart, TypeOK
      <4> QED BY <2>5, <4>1, WorkerAssumption DEF StayParked, OwnerOf
    <3> QED BY <2>1, <2>2, <2>3, <2>4, <3>1, SchedulerAssumption DEF SlotsSuffice
  <2>6. CASE pendingSwitch # None
    <3>1. running = {}
        BY <1>1, <2>6 DEF OInv, SlotStates
    <3>2. Cardinality(parked) <= Cardinality(StayParked) + 1
      <4>1. parked = StayParked \/ \E x \in parked : parked = StayParked \cup {x}
        <5>1. \A q, r \in parked \ StayParked : q = r
            BY <1>1, <2>6 DEF OInv, ParkedApart, StayParked, OwnerOf
        <5>2. StayParked \subseteq parked
            BY DEF StayParked
        <5>3. CASE parked \ StayParked # {}
          <6>1. PICK x \in parked : x \notin StayParked
              BY <5>3
          <6>2. \A r \in parked : r \in StayParked \cup {x}
              BY <5>1, <6>1
          <6>3. parked = StayParked \cup {x}
              BY <5>2, <6>1, <6>2
          <6> QED BY <6>1, <6>3
        <5> QED BY <5>2, <5>3
      <4>2. IsFiniteSet(StayParked)
          BY <2>1, FS_Subset DEF StayParked
      <4>3. ASSUME NEW x PROVE Cardinality(StayParked \cup {x}) <= Cardinality(StayParked) + 1
        <5>1. /\ x \in StayParked => Cardinality(StayParked \cup {x}) = Cardinality(StayParked)
              /\ x \notin StayParked => Cardinality(StayParked \cup {x}) = Cardinality(StayParked) + 1
            BY <4>2, FS_AddElement
        <5> QED BY <2>4, <5>1
      <4>4. CASE parked = StayParked
          BY <2>4, <4>4
      <4>5. ASSUME NEW x \in parked, parked = StayParked \cup {x}
            PROVE  Cardinality(parked) <= Cardinality(StayParked) + 1
          BY <4>3, <4>5, Zenon
      <4> QED BY <4>1, <4>4, <4>5
    <3> QED BY <2>1, <2>2, <2>3, <2>4, <3>1, <3>2, SchedulerAssumption DEF SlotsSuffice
  <2> QED BY <2>5, <2>6
<1> QED BY <1>1, TypeCorrect, OwnershipInvariant, PTL

\* A parked response can always be resumed.
THEOREM ParkedAlwaysResumable == Spec => []ParkedCanResume
<1>1. ASSUME TypeOK, OInv PROVE ParkedCanResume
  <2> SUFFICES ASSUME NEW r \in parked
               PROVE  /\ status[r] = "running" /\ r \notin running
                      /\ OwnerOf(r) \in managers
                      /\ \A q \in parked : OwnerOf(q) = OwnerOf(r) => q = r
                      /\ OwnerOf(r) = active => pendingSwitch # None
                      /\ ~Supersedes(OwnerOf(r), active)
      BY DEF ParkedCanResume
  <2>1. \A q \in parked : OwnerOf(q) = KeyOf[q] /\ KeyOf[q] \in managers
      BY <1>1, ParkedAllocated
  <2> QED BY <1>1, <2>1 DEF OInv, SlotStates, ParkedApart
<1> QED BY <1>1, TypeCorrect, OwnershipInvariant, PTL

\* No step starts a switch away from a selected response except for a chat of
\* priority 2 above the active one's, with no page load of its bank under way.
THEOREM SelectedResponseKeeps == Spec => SelectedResponseKeepsGpu
<1> DEFINE A == (pendingSwitch = None /\ pendingSwitch' # None /\ response # None)
                  => /\ Level(pendingSwitch') = 2 /\ Level(active) < 2
                     /\ \A r \in WaitingOn(active) : status[r] # "remote"
<1>1. ASSUME [Next]_vars PROVE [A]_vars
  <2> SUFFICES ASSUME pendingSwitch = None, pendingSwitch' # None, response # None
               PROVE  /\ Level(pendingSwitch') = 2 /\ Level(active) < 2
                      /\ \A r \in WaitingOn(active) : status[r] # "remote"
      OBVIOUS
  <2>1. PICK d \in Decisions, sched \in Req \cup {None} : Step(d, sched)
    <3>1. ~ UNCHANGED pendingSwitch
        OBVIOUS
    <3>2. ~(HandoverFault \/ StepFault)
        BY <3>1, FaultLeavesState DEF schedVars
    <3> QED BY <1>1, <3>1, <3>2
            DEF Next, Schedule, Handover, BeforeForward, UpdateFromOutput, AddRequest,
                FinishRequest, SetLevel, ResolveGrace, PassDeferralLimit, EngineDead, vars, schedVars
  <2>2. d.target # active /\ pendingSwitch' = d.target
      BY <2>1 DEF Step, RunResident, StartSwitch
  <2>3. d.target \in UrgentReady
      BY <2>2, SwitchReason DEF AtBoundary
  <2> QED BY <2>2, <2>3 DEF UrgentReady
<1> QED BY <1>1, PTL DEF Spec, SelectedResponseKeepsGpu
=============================================================================
