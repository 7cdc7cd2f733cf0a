----------------------------- MODULE LiveCommit -----------------------------
(***************************************************************************)
(* Live commits: LiveCommitRuntimeGate, LiveCommitController, the durable  *)
(* evidence journal and the scheduler's root authority.                    *)
(*                                                                         *)
(* A round executes the candidate and the serial transition in private     *)
(* roots, compares them, records its intent durably, swaps the canonical   *)
(* root and records a receipt; only then are its tokens released.  Driver  *)
(* calls and file writes may fail and the process may die at any of them.  *)
(*                                                                         *)
(* A canonical state is the sequence of its committed batches: "s" is what *)
(* the serial transition commits, "x" what a wrong candidate computes, "m" *)
(* what an executor wrote over the canonical root.  A file is its content. *)
(***************************************************************************)
EXTENDS Naturals, Sequences, FiniteSets, SequencesExt

CONSTANTS
    None,
    Roots,          \* names that callers give the private roots of a round
    MaxRounds,      \* bound: receipts of the session
    MaxCrashes,     \* bound: deaths of the process
    MaxFaults       \* bound: failing driver calls and file writes

State == Seq({"s", "x", "m"})

CounterexampleType ==
    [kind : {"counterexample"}, round : Nat, before : State, cand : State \cup {None},
     serial : State \cup {None}, why : {"fault", "difference", "rollback"}]

IntentType ==
    [kind : {"intent"}, round : Nat, before : State, cand : State \cup {None}, serial : State,
     by : {"candidate", "serial"}, selected : State,
     mode : {"validated_candidate", "candidate_fault_serial", "quarantined_serial"},
     counterexample : CounterexampleType \cup {None}, enabled : BOOLEAN, roots : Roots]

RoundType ==
    [step : {"candidate", "restore", "serial", "compare", "intent", "publish", "destroy",
             "receipt", "failed"},
     roots : Roots, round : Nat, n : {0, 1}, before : State, cand : State \cup {None},
     serial : State \cup {None}, fault : BOOLEAN, intent : IntentType \cup {None}]

RecoveryType ==
    [step : {"recover", "evidence", "recovery"}, intent : IntentType,
     how : {None, "committed", "rolled_back"}]

ASSUME LiveAssumption ==
    /\ MaxRounds \in Nat /\ MaxCrashes \in Nat /\ MaxFaults \in Nat
    /\ None \notin State /\ None \notin CounterexampleType /\ None \notin IntentType
    /\ None \notin RoundType /\ None \notin RecoveryType

VARIABLES
    files,      \* the journal: evidence files that are complete
    torn,       \* and those of which only a part was written
    canonical,  \* the canonical root's state; the driver keeps it over a restart
    auth,       \* SchedulerRootAuthority: the open round, the advance permit
    up,         \* the gate and its controller have been constructed
    mem,        \* their fields
    job,        \* the locals of run_round, or of _recover_intent
    crashes, faults,
    released,   \* history: the intents whose tokens went to the engine
    revived     \* history: the resolved intents that were written again

vars == <<files, torn, canonical, auth, up, mem, job, crashes, faults, released, revived>>

(***************************************************************************)
(* DurableEvidenceJournal.                                                 *)
(***************************************************************************)
Of(kind) == {f \in files : f.kind = kind}

\* Mutant: an intent is resolved by a recovery only.
ResolvedByRecovery == {f.of : f \in Of("recovery")}

Resolved == {f.of : f \in Of("receipt") \cup Of("recovery")}

Counterexample(j, why) ==
    [kind |-> "counterexample", round |-> j.round, before |-> j.before, cand |-> j.cand,
     serial |-> j.serial, why |-> why]

Receipt(i) == [kind |-> "receipt", of |-> i]

Recovery(i, how, c) == [kind |-> "recovery", of |-> i, how |-> how, counterexample |-> c]

\* _publish returns: the file is complete, or was already there.
Write(f) ==
    /\ f \notin torn
    /\ files' = files \cup {f}
    /\ UNCHANGED torn

\* _publish raises: a torn file of that name exists, or the write, the fsync of
\* the file or that of the directory fails, with nothing, a part or all of it there.
WriteFails(f) ==
    /\ f \notin files
    /\ \/ f \in torn /\ UNCHANGED <<files, torn, faults>>
       \/ /\ f \notin torn /\ faults < MaxFaults /\ faults' = faults + 1
          /\ \/ UNCHANGED <<files, torn>>
             \/ torn' = torn \cup {f} /\ UNCHANGED files
             \/ files' = files \cup {f} /\ UNCHANGED torn

(***************************************************************************)
(* The process.                                                            *)
(***************************************************************************)
NoRound ==
    [open |-> FALSE, pending |-> None, recorded |-> [candidate |-> None, serial |-> None]]

Fresh ==
    [receipts |-> << >>, quarantined |-> FALSE, counterexample |-> None,
     open |-> None, pending |-> None, closed |-> FALSE]

Idle == up /\ job = None

At(step) == job # None /\ job.step = step

Step(step) == job' = [job EXCEPT !.step = step]

Fault == faults < MaxFaults /\ faults' = faults + 1

\* The state the receipts lead to; before the first one, any state is.
Extends(state, receipts) ==
    receipts # << >> => state = Last(receipts).selected

(***************************************************************************)
(* SchedulerRootAuthority: what it lets the driver do.                     *)
(***************************************************************************)
\* A permit that nobody has consumed refuses the next round.
BeginRound ==
    /\ ~auth.open /\ auth.pending = None
    /\ auth' = [NoRound EXCEPT !.open = TRUE]

RecordPrivateTransition(role, state) ==
    /\ auth.open /\ auth.recorded[role] = None
    /\ auth' = [auth EXCEPT !.recorded[role] = state]

AbortRound == auth' = [auth EXCEPT !.open = FALSE]

\* One assignment swaps the canonical root, closes the round and issues the
\* permit; whatever can fail comes before it.
Publish(i) ==
    /\ auth.open /\ auth.pending = None
    /\ auth.recorded[i.by] = i.selected
    /\ canonical' = i.selected
    /\ auth' = [NoRound EXCEPT !.pending = i]

ConsumeAdvance(i) ==
    /\ auth.pending = i
    /\ auth' = [auth EXCEPT !.pending = None]

(***************************************************************************)
(* The gate opens, aborts and commits a round.                             *)
(***************************************************************************)
\* begin_provisional_round
Begin ==
    /\ Idle /\ ~mem.closed /\ mem.open = None /\ mem.pending = None
    /\ Len(mem.receipts) < MaxRounds
    /\ BeginRound
    /\ mem' = [mem EXCEPT !.open = canonical]
    /\ UNCHANGED <<files, torn, canonical, up, job, crashes, faults, released, revived>>

\* abort_provisional_round
Abort ==
    /\ Idle /\ mem.open # None
    /\ AbortRound
    /\ mem' = [mem EXCEPT !.open = None]
    /\ UNCHANGED <<files, torn, canonical, up, job, crashes, faults, released, revived>>

\* run_round up to the first execution; n is 0 when no token is committed.
Started(n, r) ==
    [roots |-> r,
     step |-> IF ~Extends(canonical, mem.receipts) THEN "failed"
              ELSE IF mem.quarantined THEN "serial" ELSE "candidate",
     round |-> Len(mem.receipts) + 1, n |-> n, before |-> canonical,
     cand |-> None, serial |-> None, fault |-> FALSE, intent |-> None]

\* commit: nothing but the round's own steps changes the canonical state while
\* the round is open, so the probe agrees with the snapshot.
Commit(n, r) ==
    /\ Idle /\ ~mem.closed /\ mem.open # None
    /\ job' = Started(n, r)
    /\ UNCHANGED <<files, torn, canonical, auth, up, mem, crashes, faults, released, revived>>

\* The handler of commit: _abort_private_and_restore.  A round that was published
\* cannot be aborted any more, nor one whose canonical root was overwritten, so
\* the snapshot is restored; whether that closes the round and takes the advance
\* permit back is up to the driver.
Cleanup ==
    /\ At("failed")
    /\ \/ canonical' = mem.open /\ UNCHANGED faults
       \/ (~auth.open \/ canonical # mem.open) /\ Fault /\ UNCHANGED canonical
    /\ \E kept \in {None, auth.pending}, open \in {FALSE, auth.open /\ canonical # mem.open} :
         auth' = [NoRound EXCEPT !.pending = kept, !.open = open]
    /\ mem' = [mem EXCEPT !.open = None]
    /\ job' = None
    /\ UNCHANGED <<files, torn, up, crashes, released, revived>>

(***************************************************************************)
(* run_round.                                                              *)
(***************************************************************************)
Result(batch) == IF job.n = 0 THEN job.before ELSE Append(job.before, batch)

RunCandidate ==
    /\ At("candidate")
    /\ \E state \in {Result("s"), Append(job.before, "x")} :
         /\ RecordPrivateTransition("candidate", state)
         /\ job' = [job EXCEPT !.cand = state, !.step = "serial"]
    /\ UNCHANGED <<files, torn, canonical, up, mem, crashes, faults, released, revived>>

Overwritten == {canonical, Append(canonical, "m")}

\* The executor raises, or the probe after it finds another canonical state.
CandidateFails ==
    /\ At("candidate") /\ Fault
    /\ canonical' \in Overwritten
    /\ Step("restore")
    /\ UNCHANGED <<files, torn, auth, up, mem, crashes, released, revived>>

\* cleanup_failed_private and _restore: an error there leaves the round before
\* the candidate is quarantined.
RestoreCandidate ==
    /\ At("restore")
    /\ \/ /\ canonical' = job.before
          /\ mem' = [mem EXCEPT !.quarantined = TRUE]
          /\ job' = [job EXCEPT !.fault = TRUE, !.step = "serial"]
          /\ UNCHANGED faults
       \/ Fault /\ Step("failed") /\ UNCHANGED <<canonical, mem>>
    /\ UNCHANGED <<files, torn, auth, up, crashes, released, revived>>

RunSerial ==
    /\ At("serial")
    /\ RecordPrivateTransition("serial", Result("s"))
    /\ job' = [job EXCEPT !.serial = Result("s"), !.step = "compare"]
    /\ UNCHANGED <<files, torn, canonical, up, mem, crashes, faults, released, revived>>

SerialFails ==
    /\ At("serial") /\ Fault
    /\ canonical' \in Overwritten
    /\ Step("failed")
    /\ UNCHANGED <<files, torn, auth, up, mem, crashes, released, revived>>

\* Mutant: the candidate is selected whenever there is one.
SelectedUnverified == IF job.cand # None THEN "candidate" ELSE "serial"

\* The candidate if it equals the serial transition, which wins otherwise.
Selected == IF job.cand = job.serial THEN "candidate" ELSE "serial"

Differs == job.cand # None /\ job.cand # job.serial

Evidence ==
    IF job.fault THEN Counterexample(job, "fault")
    ELSE IF Differs THEN Counterexample(job, "difference") ELSE None

\* The comparison, and the counterexample before any fallback to the serial
\* state.  The quarantine is in force before the evidence is written.
Compare ==
    /\ At("compare")
    /\ LET quarantined == [mem EXCEPT !.quarantined = @ \/ Differs]
       IN \/ /\ Evidence = None
             /\ Step(IF job.cand = None /\ mem.counterexample = None THEN "failed" ELSE "intent")
             /\ UNCHANGED <<files, torn, faults, mem>>
          \/ /\ Evidence # None /\ Write(Evidence)
             /\ mem' = [quarantined EXCEPT !.counterexample = Evidence]
             /\ Step("intent")
             /\ UNCHANGED faults
          \/ /\ Evidence # None /\ WriteFails(Evidence)
             /\ mem' = quarantined
             /\ Step("failed")
    /\ UNCHANGED <<canonical, auth, up, crashes, released, revived>>

\* The publication intent and the receipt template it carries.
Intent ==
    [kind |-> "intent", round |-> job.round, before |-> job.before, cand |-> job.cand,
     serial |-> job.serial, by |-> Selected,
     selected |-> IF Selected = "candidate" THEN job.cand ELSE job.serial,
     mode |-> IF job.cand # None THEN "validated_candidate"
              ELSE IF job.fault THEN "candidate_fault_serial" ELSE "quarantined_serial",
     counterexample |-> IF job.cand = job.serial THEN None ELSE mem.counterexample,
     enabled |-> ~mem.quarantined, roots |-> job.roots]

WriteIntent ==
    /\ At("intent")
    /\ revived' = revived \cup ({Intent} \cap Resolved)
    /\ \/ /\ Write(Intent)
          /\ job' = [job EXCEPT !.intent = Intent,
                                !.step = IF job.n = 0 THEN "destroy" ELSE "publish"]
          /\ UNCHANGED faults
       \/ WriteFails(Intent) /\ Step("failed")
    /\ UNCHANGED <<canonical, auth, up, mem, crashes, released>>

PublishPrivate ==
    /\ At("publish")
    /\ \/ Publish(job.intent) /\ Step("destroy") /\ UNCHANGED faults
       \/ Fault /\ Step("failed") /\ UNCHANGED <<canonical, auth>>
    /\ UNCHANGED <<files, torn, up, mem, crashes, released, revived>>

DestroyPrivate ==
    /\ At("destroy")
    /\ \/ Step("receipt") /\ UNCHANGED faults
       \/ Fault /\ Step("failed")
    /\ UNCHANGED <<files, torn, canonical, auth, up, mem, crashes, released, revived>>

\* What commit does with the receipt: a round without tokens is aborted, one with
\* tokens waits for their release.
Committed(i) ==
    /\ mem' = [mem EXCEPT !.receipts = Append(@, i), !.open = None,
                          !.pending = IF job.n = 0 THEN None ELSE i]
    /\ AbortRound
    /\ job' = None

WriteReceipt ==
    /\ At("receipt")
    /\ \/ Write(Receipt(job.intent)) /\ Committed(job.intent) /\ UNCHANGED faults
       \/ WriteFails(Receipt(job.intent)) /\ Step("failed") /\ UNCHANGED <<mem, auth>>
    /\ UNCHANGED <<canonical, up, crashes, released, revived>>

ConsumeVerifiedAdvance ==
    /\ Idle /\ ~mem.closed /\ mem.open = None /\ mem.pending # None
    /\ ConsumeAdvance(mem.pending)
    /\ released' = Append(released, mem.pending)
    /\ mem' = [mem EXCEPT !.pending = None]
    /\ UNCHANGED <<files, torn, canonical, up, job, crashes, faults, revived>>

\* seal_ledger refuses a verdict that the receipts do not show.
Sealed ==
    /\ mem.receipts # << >>
    /\ mem.quarantined = (\E k \in DOMAIN mem.receipts : ~mem.receipts[k].enabled)

Finalize ==
    /\ Idle /\ ~mem.closed /\ mem.open = None /\ mem.pending = None
    /\ Sealed
    /\ mem' = [mem EXCEPT !.closed = TRUE]
    /\ UNCHANGED <<files, torn, canonical, auth, up, job, crashes, faults, released, revived>>

(***************************************************************************)
(* Death and construction.                                                 *)
(***************************************************************************)
Rollback == Counterexample(job.intent, "rollback")

RecoveryEvidence == IF job.how = "committed" THEN Receipt(job.intent) ELSE Rollback

\* The file that is being written.
Writing ==
    CASE At("compare")  -> {Evidence} \ {None}
      [] At("intent")   -> {Intent}
      [] At("receipt")  -> {Receipt(job.intent)}
      [] At("evidence") -> {RecoveryEvidence}
      [] At("recovery") -> {Recovery(job.intent, job.how,
                                     IF job.how = "committed" THEN job.intent.counterexample
                                     ELSE Rollback)}
      [] OTHER          -> {}

Down ==
    /\ up' = FALSE
    /\ job' = None
    /\ mem' = Fresh
    /\ auth' = NoRound

\* The process is killed; a file may be left with a part of its bytes.
Crash ==
    /\ up \/ job # None
    /\ crashes < MaxCrashes /\ crashes' = crashes + 1
    /\ Down
    /\ \E part \in SUBSET (Writing \ files) : torn' = torn \cup part
    /\ UNCHANGED <<files, canonical, faults, released, revived>>

Unresolved == Of("intent") \ Resolved

RolledBack == {f \in Of("recovery") : f.how = "rolled_back"}

Receipted == {f.of : f \in Of("receipt")}

\* load_receipts: in the order of their rounds.
Receipts ==
    [k \in {i.round : i \in Receipted} |-> CHOOSE i \in Receipted : i.round = k]

\* Each round up to the last has one receipt.
OneReceiptARound ==
    /\ \A i, j \in Receipted : i.round = j.round => i = j
    /\ {i.round : i \in Receipted} = 1..Cardinality(Receipted)

\* The receipts form one chain, and none re-enables a quarantined candidate.
ReceiptsChain ==
    /\ OneReceiptARound
    /\ \A k \in DOMAIN Receipts :
        /\ k > 1 => Receipts[k].before = Receipts[k - 1].selected
        /\ (\E m \in 1..(k - 1) : ~Receipts[m].enabled) =>
             Receipts[k].mode = "quarantined_serial"

OneRecoveryEach == \A f, g \in Of("recovery") : f.of = g.of => f = g

\* A committed recovery has its receipt, a rolled-back one has none.
RecoveriesAgree == \A f \in Of("recovery") : f.of \in Receipted <=> f.how = "committed"

\* At most one publication was interrupted, and it is the next of the chain.
OneInterrupted ==
    /\ Cardinality(Unresolved) <= 1
    /\ \A i \in Unresolved : i.round = Len(Receipts) + 1 /\ Extends(i.before, Receipts)

\* Everything the constructor checks before it asks the driver.
Loadable ==
    /\ \A f \in torn : f.kind = "counterexample"
    /\ ReceiptsChain /\ OneRecoveryEach /\ RecoveriesAgree /\ OneInterrupted

\* Mutant: the quarantine is read from the receipts only.
QuarantinedByReceipt == \E i \in Receipted : ~i.enabled

Quarantined == (\E i \in Receipted : ~i.enabled) \/ RolledBack # {}

\* The counterexample of the last receipt that has one, or of a rollback.
Remembered ==
    LET told == {k \in DOMAIN Receipts : Receipts[k].counterexample # None}
    IN IF RolledBack # {} THEN {f.counterexample : f \in RolledBack}
       ELSE IF told = {} THEN {None}
       ELSE {Receipts[k].counterexample :
               k \in {l \in told : \A m \in told : m <= l}}

\* LiveCommitController.__init__
Load ==
    /\ ~up /\ job = None /\ Loadable
    /\ \E c \in Remembered :
         mem' = [Fresh EXCEPT !.receipts = Receipts, !.quarantined = Quarantined,
                              !.counterexample = c]
    /\ IF Unresolved = {} THEN up' = TRUE /\ job' = None
       ELSE /\ \E i \in Unresolved : job' = [step |-> "recover", intent |-> i, how |-> None]
            /\ UNCHANGED up
    /\ UNCHANGED <<files, torn, canonical, auth, crashes, faults, released, revived>>

\* _recover_intent: the driver finds the publication done, or undoes it, or fails,
\* with or without having undone it.
RecoverPublication ==
    /\ At("recover")
    /\ \/ /\ \E how \in {"committed", "rolled_back"} :
               /\ how = "committed" => canonical = job.intent.selected
               /\ canonical' = IF how = "committed" THEN canonical ELSE job.intent.before
               /\ job' = [job EXCEPT !.how = how, !.step = "evidence"]
          /\ UNCHANGED <<auth, up, mem, faults>>
       \/ /\ Fault /\ Down
          /\ canonical' \in {canonical, job.intent.before}
    /\ UNCHANGED <<files, torn, crashes, released, revived>>

RecoverEvidence ==
    /\ At("evidence")
    /\ \/ /\ Write(RecoveryEvidence)
          /\ mem' = IF job.how = "committed"
                    THEN [mem EXCEPT !.receipts = Append(@, job.intent),
                                     !.quarantined = @ \/ ~job.intent.enabled,
                                     !.counterexample = IF job.intent.enabled THEN @
                                                        ELSE job.intent.counterexample]
                    ELSE [mem EXCEPT !.quarantined = TRUE, !.counterexample = Rollback]
          /\ Step("recovery")
          /\ UNCHANGED <<faults, up, auth>>
       \/ WriteFails(RecoveryEvidence) /\ Down
    /\ UNCHANGED <<canonical, crashes, released, revived>>

WriteRecovery ==
    /\ At("recovery")
    /\ \E f \in Writing :
         \/ Write(f) /\ up' = TRUE /\ job' = None /\ UNCHANGED <<faults, mem, auth>>
         \/ WriteFails(f) /\ Down
    /\ UNCHANGED <<canonical, crashes, released, revived>>

Init ==
    /\ files = {} /\ torn = {}
    /\ canonical = << >>
    /\ auth = NoRound /\ up = FALSE /\ mem = Fresh /\ job = None
    /\ crashes = 0 /\ faults = 0
    /\ released = << >>
    /\ revived = {}

Next ==
    \/ Begin \/ Abort \/ \E n \in {0, 1}, r \in Roots : Commit(n, r)
    \/ RunCandidate \/ CandidateFails \/ RestoreCandidate
    \/ RunSerial \/ SerialFails \/ Compare
    \/ WriteIntent \/ PublishPrivate \/ DestroyPrivate \/ WriteReceipt \/ Cleanup
    \/ ConsumeVerifiedAdvance \/ Finalize
    \/ Crash \/ Load \/ RecoverPublication \/ RecoverEvidence \/ WriteRecovery

Spec == Init /\ [][Next]_vars

(***************************************************************************)
(* Properties.                                                             *)
(***************************************************************************)
\* Tokens that went to the engine are the serial ones, one round after the other;
\* their receipt is on disk, and the counterexample too where the candidate lost;
\* no later failure, death or recovery takes the state they led to back
\* (consume_verified_advance, _recover_intent).
ReleasedIsVerified ==
    /\ \A k \in DOMAIN released :
         LET i == released[k]
         IN /\ Receipt(i) \in files
            /\ i.selected = Append(i.before, "s")
            /\ i.cand # i.selected => i.counterexample \in files
            /\ k > 1 => IsPrefix(released[k - 1].selected, i.before)
    /\ released # << >> => IsPrefix(Last(released).selected, canonical)

\* A candidate that a receipt or a rolled-back recovery has quarantined is never
\* executed again, in this process or a later one (run_round, __init__).
QuarantineHolds ==
    At("candidate") => RolledBack = {} /\ \A i \in Receipted : i.enabled

\* Killing the process alone, at whatever moments and however often, neither
\* makes the constructor refuse the journal nor leaves a canonical state that the
\* receipts do not lead to, unless a file was cut, or an intent that a recovery had
\* resolved was written again: with the names of the roots repeated, a round that
\* was rolled back and is tried again has the same intent (_recover_intent, 587).
DeathAloneRecovers ==
    faults = 0 /\ torn = {} /\ revived = {} =>
        /\ ~up /\ job = None => Loadable
        /\ Idle /\ mem.open = None =>
             canonical = IF mem.receipts = << >> THEN << >> ELSE Last(mem.receipts).selected

=============================================================================
