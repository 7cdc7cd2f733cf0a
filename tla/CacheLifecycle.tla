--------------------------- MODULE CacheLifecycle ---------------------------
(* The persistent cache (persistent_cache.py): payloads written by the engine *)
(* are sealed into generations that branch refs name; garbage collection      *)
(* moves what no ref names into a quarantine run, recovery reconciles a run   *)
(* that was interrupted, and a purge deletes a completed one.  Every          *)
(* operation holds the exclusive lifecycle lock and works file by file.       *)
(*                                                                            *)
(* fs is what the file system shows, disk what survives a power loss.  The    *)
(* publication of one metadata document (a temporary file, a rename, the      *)
(* fsync of its directory) is one step: nothing happens in between, and a     *)
(* fault inside it leaves the document either there or not.                   *)
EXTENDS Integers, FiniteSets, FiniteSetsExt

CONSTANTS
    None,
    Blob,           \* payload names, ordered as the sorted relative paths
    Content,        \* payload bytes of the right size
    Short,          \* a file of the wrong size
    Branch,
    Selections,     \* the sets of payloads a runtime selects for a generation
    Captured,       \* what the captured source of an import holds
    MaxRuns, MaxSeals, MaxWrites, MaxImports, MaxRestores, MaxFaults

ASSUME CacheAssumption ==
    /\ Blob \subseteq Nat /\ IsFiniteSet(Blob)
    /\ Selections \subseteq (SUBSET Blob) \ {{}}
    /\ Captured \in [Blob -> Content]
    /\ MaxRuns \in Nat

VARIABLES
    fs,             \* the payload trees: 0 is the active tree, r that of run r
    disk,           \* ... on stable storage
    unsynced,       \* active payloads whose bytes were never fsynced
    plan,           \* plan.json of each run: the bytes of each candidate
    markers,        \* its marker files
    manifests,      \* generation manifests, never deleted
    refs,           \* the live head of each branch
    retired,        \* retired ref documents
    temps,          \* trees in which a temporary file was left
    linked,         \* payloads left with a second (temporary) name
    op,             \* the operation that holds the exclusive lock
    exposed,        \* history: payloads of which a recovery met a name not yet synced
    used            \* how many writes, imports, seals, restores, faults there were

payloadVars == <<fs, disk, unsynced>>
runVars == <<plan, markers>>
refVars == <<manifests, refs, retired>>
leftVars == <<temps, linked>>
countVars == <<exposed, used>>
vars == <<fs, disk, unsynced, plan, markers, manifests, refs, retired, temps,
          linked, op, exposed, used>>

Run == 1..MaxRuns
Tree == {0} \cup Run
Value == Content \cup {None, Short}

Idle == [kind |-> "idle", run |-> 0, todo |-> {}, live |-> {}, stage |-> "next",
         head |-> None]

Init ==
    /\ fs = [t \in Tree |-> [b \in Blob |-> None]]
    /\ disk = fs
    /\ unsynced = {}
    /\ plan = [r \in Run |-> [b \in Blob |-> None]]
    /\ markers = [r \in Run |-> {}]
    /\ manifests = {}
    /\ refs = [br \in Branch |-> None]
    /\ retired = {}
    /\ temps = {}
    /\ linked = {}
    /\ op = Idle
    /\ exposed = {}
    /\ used = [writes |-> 0, imports |-> 0, seals |-> 0, restores |-> 0, faults |-> 0]

Use(what, bound) == used[what] < bound /\ used' = [used EXCEPT ![what] = @ + 1]

-----------------------------------------------------------------------------
(* What an operation reads first.                                             *)

\* A run has a plan exactly when it has candidates: an empty plan is not written.
Candidates(r) == {b \in Blob : plan[r][b] # None}
Complete(r) == "complete" \in markers[r]
Incomplete(r) == Candidates(r) # {} /\ ~Complete(r)

\* The payloads a live ref names, with the bytes its manifest records.
Heads == {refs[br] : br \in Branch} \ {None}
Marked == {b \in Blob : \E m \in Heads : m.blobs[b] # None}
Holds(b) == \A m \in Heads : m.blobs[b] \in {None, fs[0][b]}
Verified(bs) == bs \cap linked = {} /\ \A b \in bs : Holds(b)
Authenticated(m) == m \in manifests /\ m.parent \in manifests \cup {None}
Authentic == \A m \in Heads : Authenticated(m)

\* The states of a run's directory that are refused as unsafe.
Readable(r) ==
    /\ Candidates(r) = {} => markers[r] = {} /\ \A b \in Blob : fs[r][b] = None
    /\ Complete(r) => "deferred" \notin markers[r]
    /\ markers[r] \cap {"purging", "purged"} # {} => Complete(r)
    /\ "purged" \in markers[r] => "purging" \in markers[r]

\* The bytes at a name are the ones the plan recorded.
Planned(r, t, b) == fs[t][b] = plan[r][b] /\ (t = 0 => b \notin linked)
LocationsValid(r, b) ==
    /\ fs[0][b] # None \/ fs[r][b] # None
    /\ \A t \in {0, r} : fs[t][b] # None => Planned(r, t, b)
OnlyQuarantined(r) ==
    \A b \in Candidates(r) : LocationsValid(r, b) /\ fs[0][b] = None

\* Mutant: what the engine wrote is sealed or planned without an fsync.
SyncNothing(bs) == UNCHANGED <<disk, unsynced>>
\* Hashing for a durable claim fsyncs the payloads and their directories.
SyncActive(bs) ==
    /\ disk' = [disk EXCEPT ![0] =
            [b \in Blob |-> IF b \in bs THEN fs[0][b] ELSE disk[0][b]]]
    /\ unsynced' = unsynced \ bs

-----------------------------------------------------------------------------
(* The engine (external): it runs only while no operation holds the lock, and *)
(* its writer renames a file into place without an fsync.                     *)

EngineWrite(b, c) ==
    /\ op = Idle
    /\ fs[0][b] = None
    /\ Use("writes", MaxWrites)
    /\ fs' = [fs EXCEPT ![0][b] = c]
    /\ unsynced' = unsynced \cup {b}
    /\ exposed' = IF \E r \in Run : Incomplete(r) /\ b \in Candidates(r)
                  THEN exposed \cup {b} ELSE exposed
    /\ UNCHANGED <<disk, op, runVars, refVars, leftVars>>

-----------------------------------------------------------------------------
(* Import of captured payloads.                                               *)

ImportStart(bs) ==
    LET present == {b \in bs : fs[0][b] # None}
    IN  /\ op = Idle
        /\ \A b \in present : fs[0][b] = Captured[b] /\ b \notin linked
        /\ Use("imports", MaxImports)
        /\ unsynced' = unsynced \ present
        /\ op' = [Idle EXCEPT !.kind = "import", !.todo = bs \ present]
        /\ UNCHANGED <<fs, disk, exposed, runVars, refVars, leftVars>>

\* The next payload of the operation: candidates are worked off in order.
Current == Min(op.todo)
Working(kinds, stage) == op.kind \in kinds /\ op.todo # {} /\ op.stage = stage
Stage(s) == op' = [op EXCEPT !.stage = s]
Done(b) == op' = [op EXCEPT !.todo = @ \ {b}, !.stage = "next"]
Finished(kind) == op.kind = kind /\ op.todo = {}

ImportCopy ==
    /\ Working({"import"}, "next")
    /\ Stage("temp")
    /\ UNCHANGED <<payloadVars, runVars, refVars, leftVars, countVars>>

\* The temporary is hard-linked to the payload's name ...
ImportLink ==
    /\ Working({"import"}, "temp")
    /\ fs' = [fs EXCEPT ![0][Current] = Captured[Current]]
    /\ disk' = [disk EXCEPT ![0][Current] = Captured[Current]]
    /\ Stage("linked")
    /\ UNCHANGED <<unsynced, runVars, refVars, leftVars, countVars>>

\* ... and removed.
ImportUnlink ==
    /\ Working({"import"}, "linked")
    /\ Done(Current)
    /\ UNCHANGED <<payloadVars, runVars, refVars, leftVars, countVars>>

ImportEnd ==
    /\ Finished("import")
    /\ op' = Idle
    /\ UNCHANGED <<payloadVars, runVars, refVars, leftVars, countVars>>

-----------------------------------------------------------------------------
(* Seal: the payloads are made durable, then the manifest, then the ref.      *)

NextManifest(br, bs) ==
    [branch |-> br,
     gen |-> IF refs[br] = None THEN 1 ELSE refs[br].gen + 1,
     blobs |-> [b \in Blob |-> IF b \in bs THEN fs[0][b] ELSE None],
     parent |-> refs[br]]

SealStart(br, bs) ==
    /\ op = Idle
    /\ \A b \in bs : fs[0][b] \in Content /\ b \notin linked
    /\ refs[br] # None => Authenticated(refs[br])
    /\ Use("seals", MaxSeals)
    /\ SyncActive(bs)
    /\ op' = [Idle EXCEPT !.kind = "seal", !.head = NextManifest(br, bs)]
    /\ UNCHANGED <<fs, exposed, runVars, refVars, leftVars>>

SealManifest ==
    /\ op.kind = "seal" /\ op.stage = "next"
    /\ manifests' = manifests \cup {op.head}
    /\ Stage("manifest")
    /\ UNCHANGED <<refs, retired, payloadVars, runVars, leftVars, countVars>>

SealRef ==
    /\ op.kind = "seal" /\ op.stage = "manifest"
    /\ refs' = [refs EXCEPT ![op.head.branch] = op.head]
    /\ op' = Idle
    /\ UNCHANGED <<manifests, retired, payloadVars, runVars, leftVars, countVars>>

-----------------------------------------------------------------------------
(* Retirement: the retired copy is published before the live name goes.       *)

RetireStart(br) ==
    /\ op = Idle
    /\ refs[br] # None
    /\ retired' = retired \cup {refs[br]}
    /\ op' = [Idle EXCEPT !.kind = "retire", !.head = refs[br]]
    /\ UNCHANGED <<manifests, refs, payloadVars, runVars, leftVars, countVars>>

RetireUnlink ==
    /\ op.kind = "retire"
    /\ refs' = [refs EXCEPT ![op.head.branch] = None]
    /\ op' = Idle
    /\ UNCHANGED <<manifests, retired, payloadVars, runVars, leftVars, countVars>>

\* Bytes that are still somewhere, and would survive a power loss there.
Kept(b, c) ==
    \E t \in Tree : fs[t][b] = c /\ disk[t][b] = c /\ (t = 0 => b \notin unsynced)

\* The operator (external) puts a retired ref back, its payloads being kept.
RestoreRef(m) ==
    /\ op = Idle
    /\ refs[m.branch] = None
    /\ \A b \in Blob : m.blobs[b] # None => Kept(b, m.blobs[b])
    /\ Use("restores", MaxRestores)
    /\ refs' = [refs EXCEPT ![m.branch] = m]
    /\ UNCHANGED <<manifests, retired, op, exposed, payloadVars, runVars, leftVars>>

-----------------------------------------------------------------------------
(* One payload moved or removed (_copy_unlink_durable): the destination is    *)
(* copied, renamed into place and made durable before the source is unlinked. *)

\* A live candidate belongs in the active tree, any other in the run's; a purge
\* only takes out of the run's.
Source(b) == IF op.kind = "purge" \/ b \in op.live THEN op.run ELSE 0
Destination(b) == IF b \in op.live THEN 0 ELSE op.run

CopyTemp ==
    /\ Working({"gc", "recover"}, "next")
    /\ fs[Destination(Current)][Current] = None
    /\ Planned(op.run, Source(Current), Current)
    /\ Stage("temp")
    /\ UNCHANGED <<payloadVars, runVars, refVars, leftVars, countVars>>

CopyRename ==
    /\ Working({"gc", "recover"}, "temp")
    /\ fs' = [fs EXCEPT ![Destination(Current)][Current] = plan[op.run][Current]]
    /\ Stage("renamed")
    /\ UNCHANGED <<disk, unsynced, runVars, refVars, leftVars, countVars>>

CopySync ==
    /\ Working({"gc", "recover"}, "renamed")
    /\ disk' = [disk EXCEPT ![Destination(Current)][Current] =
                    fs[Destination(Current)][Current]]
    /\ Stage("synced")
    /\ UNCHANGED <<fs, unsynced, runVars, refVars, leftVars, countVars>>

\* Mutant: the source goes before the destination is synced.
RemovableRenamed ==
    \/ op.stage = "renamed"
    \/ op.stage = "next" /\ op.kind = "purge"
\* Mutant: a recovery does not know the state with both names.
RemovableMoved ==
    \/ op.stage = "synced"
    \/ op.stage = "next" /\ op.kind = "purge"
\* A recovery that finds both names removes the redundant one, a purge every name.
Removable ==
    \/ op.stage = "synced"
    \/ /\ op.stage = "next"
       /\ op.kind = "purge" \/ /\ op.kind = "recover"
                               /\ fs[Source(Current)][Current] # None
                               /\ fs[Destination(Current)][Current] # None

Unlink ==
    /\ op.kind \in {"gc", "recover", "purge"} /\ op.todo # {}
    /\ Removable
    /\ fs' = [fs EXCEPT ![Source(Current)][Current] = None]
    /\ Stage("unlinked")
    /\ UNCHANGED <<disk, unsynced, runVars, refVars, leftVars, countVars>>

SyncUnlink ==
    /\ Working({"gc", "recover", "purge"}, "unlinked")
    /\ disk' = [disk EXCEPT ![Source(Current)][Current] = None]
    /\ Done(Current)
    /\ UNCHANGED <<fs, unsynced, runVars, refVars, leftVars, countVars>>

-----------------------------------------------------------------------------
(* Garbage collection: the plan is published before the first payload moves.  *)

Garbage == {b \in Blob : fs[0][b] # None} \ Marked

GcStart(r) ==
    /\ op = Idle
    /\ \A q \in Run : Readable(q) /\ ~Incomplete(q)
    /\ Authentic /\ Verified(Marked)
    /\ 0 \notin temps
    /\ \A b \in Blob : fs[0][b] # Short
    /\ Garbage # {} /\ Garbage \cap linked = {}
    /\ Candidates(r) = {} /\ \A q \in Run : q < r => Candidates(q) # {}
    /\ SyncActive(Garbage)
    /\ plan' = [plan EXCEPT ![r] = [b \in Blob |->
                    IF b \in Garbage THEN fs[0][b] ELSE None]]
    /\ op' = [Idle EXCEPT !.kind = "gc", !.run = r, !.todo = Garbage]
    /\ UNCHANGED <<fs, markers, refVars, leftVars, countVars>>

Publish(r, marker) == markers' = [markers EXCEPT ![r] = @ \cup {marker}]

GcComplete ==
    /\ Finished("gc")
    /\ OnlyQuarantined(op.run)
    /\ Publish(op.run, "complete")
    /\ op' = Idle
    /\ UNCHANGED <<plan, payloadVars, refVars, leftVars, countVars>>

-----------------------------------------------------------------------------
(* Recovery of an interrupted run, against the refs as they are now.          *)

Agrees(r, b) == \A m \in Heads : m.blobs[b] \in {None, plan[r][b]}
Recoverable(r) ==
    /\ Authentic /\ Verified(Marked \ Candidates(r))
    /\ \A b \in Candidates(r) : Agrees(r, b) /\ LocationsValid(r, b)
StillLive(r) == Candidates(r) \cap Marked

RecoverStart(r) ==
    /\ op = Idle
    /\ Incomplete(r)
    /\ Recoverable(r)
    /\ op' = [Idle EXCEPT !.kind = "recover", !.run = r, !.todo = Candidates(r),
                          !.live = StillLive(r)]
    /\ temps' = temps \ {r}
    /\ UNCHANGED <<linked, payloadVars, runVars, refVars, countVars>>

\* The candidate already is where it belongs, and only there.
RecoverSkip ==
    /\ Working({"recover"}, "next")
    /\ fs[Source(Current)][Current] = None
    /\ Done(Current)
    /\ UNCHANGED <<payloadVars, runVars, refVars, leftVars, countVars>>

\* A run with live candidates stays incomplete.
RecoverDefer ==
    /\ Finished("recover") /\ op.live # {}
    /\ Verified(Marked) /\ \A b \in op.live : fs[op.run][b] = None
    /\ Publish(op.run, "deferred")
    /\ op' = Idle
    /\ UNCHANGED <<plan, payloadVars, refVars, leftVars, countVars>>

\* The deferred marker of an earlier recovery goes before the run is complete.
RecoverUndefer ==
    /\ Finished("recover") /\ op.live = {}
    /\ Verified(Marked) /\ OnlyQuarantined(op.run)
    /\ "deferred" \in markers[op.run]
    /\ markers' = [markers EXCEPT ![op.run] = @ \ {"deferred"}]
    /\ UNCHANGED <<plan, op, payloadVars, refVars, leftVars, countVars>>

\* Mutant: the run is completed with the deferred marker in place.
RecoverCompleteDeferred ==
    /\ Finished("recover") /\ op.live = {}
    /\ Verified(Marked) /\ OnlyQuarantined(op.run)
    /\ Publish(op.run, "complete")
    /\ op' = Idle
    /\ UNCHANGED <<plan, payloadVars, refVars, leftVars, countVars>>
RecoverComplete ==
    /\ Finished("recover") /\ op.live = {}
    /\ Verified(Marked) /\ OnlyQuarantined(op.run)
    /\ "deferred" \notin markers[op.run]
    /\ Publish(op.run, "complete")
    /\ op' = Idle
    /\ UNCHANGED <<plan, payloadVars, refVars, leftVars, countVars>>

-----------------------------------------------------------------------------
(* Purge of a completed run.                                                  *)

\* A payload may be missing only if an earlier purge was interrupted.
PurgeReady(r, b) ==
    /\ fs[0][b] = None
    /\ fs[r][b] = plan[r][b] \/ (fs[r][b] = None /\ "purging" \in markers[r])

PurgeStart(r) ==
    /\ op = Idle
    /\ Complete(r) /\ markers[r] \cap {"deferred", "purged"} = {}
    /\ r \notin temps
    /\ Authentic /\ Verified(Marked) /\ StillLive(r) = {}
    /\ \A b \in Candidates(r) : PurgeReady(r, b)
    /\ Publish(r, "purging")
    /\ op' = [Idle EXCEPT !.kind = "purge", !.run = r,
                          !.todo = {b \in Candidates(r) : fs[r][b] # None}]
    /\ UNCHANGED <<plan, payloadVars, refVars, leftVars, countVars>>

PurgeComplete ==
    /\ Finished("purge")
    /\ Publish(op.run, "purged")
    /\ op' = Idle
    /\ UNCHANGED <<plan, payloadVars, refVars, leftVars, countVars>>

-----------------------------------------------------------------------------
(* Faults.                                                                    *)

\* What the operation leaves behind when it dies.
LeaveTemps ==
    /\ temps' = IF op.stage \in {"temp", "linked"}
                THEN temps \cup {IF op.kind = "import" THEN 0 ELSE Destination(Current)}
                ELSE temps
    /\ linked' = IF op.stage = "linked" THEN linked \cup {Current} ELSE linked
    /\ op' = Idle

\* The process dies, or gives up on an error, and the machine stays up.
Kill ==
    /\ op # Idle
    /\ Use("faults", MaxFaults)
    /\ LeaveTemps
    /\ exposed' = IF op.stage \in {"renamed", "unlinked"} THEN exposed \cup {Current}
                                                        ELSE exposed
    /\ UNCHANGED <<payloadVars, runVars, refVars>>

\* After a power loss a name is as it was or as it was last synced; bytes that
\* were never synced may be anything.
Survives(t, b) ==
    {fs[t][b], disk[t][b]}
        \cup (IF t = 0 /\ b \in unsynced THEN Content \cup {Short} ELSE {})
Unsettled == {n \in Tree \X Blob : Cardinality(Survives(n[1], n[2])) > 1}

PowerLoss ==
    /\ Use("faults", MaxFaults)
    /\ \E left \in [Unsettled -> Value] :
        /\ \A n \in Unsettled : left[n] \in Survives(n[1], n[2])
        /\ fs' = [t \in Tree |-> [b \in Blob |->
                    IF <<t, b>> \in Unsettled THEN left[<<t, b>>] ELSE fs[t][b]]]
        /\ disk' = fs'
    /\ unsynced' = {}
    /\ LeaveTemps
    /\ UNCHANGED <<exposed, runVars, refVars>>

-----------------------------------------------------------------------------
Proceed ==
    \/ ImportCopy \/ ImportLink \/ ImportUnlink \/ ImportEnd
    \/ SealManifest \/ SealRef
    \/ RetireUnlink
    \/ CopyTemp \/ CopyRename \/ CopySync \/ Unlink \/ SyncUnlink
    \/ GcComplete
    \/ RecoverSkip \/ RecoverDefer \/ RecoverUndefer \/ RecoverComplete
    \/ PurgeComplete

Next ==
    \/ \E b \in Blob, c \in Content : EngineWrite(b, c)
    \/ \E bs \in Selections : ImportStart(bs)
    \/ \E br \in Branch, bs \in Selections : SealStart(br, bs)
    \/ \E br \in Branch : RetireStart(br)
    \/ \E m \in retired : RestoreRef(m)
    \/ \E r \in Run : GcStart(r) \/ RecoverStart(r) \/ PurgeStart(r)
    \/ Proceed
    \/ Kill
    \/ PowerLoss

Spec == Init /\ [][Next]_vars

\* An operation runs on until it ends or dies, and an interrupted run is
\* recovered: no other collection is possible before.
FairSpec == Spec /\ WF_vars(Proceed) /\ \A r \in Run : WF_vars(RecoverStart(r))

-----------------------------------------------------------------------------
(* Properties.                                                                *)

\* A payload that a live ref names is on stable storage with the bytes its
\* manifest records, in the active tree or in a quarantine run, whatever
\* collection, recovery or purge was interrupted and retried.  Excepted are the
\* payloads of which a recovery met a name that was not synced: a process died
\* between a rename and its fsync, or the engine stored again what an incomplete
\* run had collected.  A recovery that finds two names does not sync the one it
\* keeps before it removes the other (recover_quarantine, _remove_redundant_name).
LiveNeverLost ==
    \A m \in Heads, b \in Blob \ exposed : m.blobs[b] # None => Kept(b, m.blobs[b])

\* Until its purge has begun, a collected payload is on stable storage, under
\* its active or its quarantined name (_copy_unlink_durable, recover_quarantine),
\* with the same exception.
CollectedUntilPurged ==
    \A r \in Run : "purging" \notin markers[r] =>
        \A b \in Candidates(r) \ exposed : \E t \in {0, r} :
            fs[t][b] = plan[r][b] /\ disk[t][b] = plan[r][b]

\* No fault leaves a run directory that _incomplete_run_ids refuses: every later
\* garbage collection would be refused with it.
RunsReadable == \A r \in Run : Readable(r)

\* What stops a recovery for good: other bytes under the name of a candidate, or
\* a live payload of another run that is not in the active tree.
Stuck(r) == ~Recoverable(r)
Settled(r) ==
    \A b \in Candidates(r) :
        IF b \in Marked THEN fs[0][b] = plan[r][b] /\ fs[r][b] = None
                        ELSE fs[0][b] = None /\ fs[r][b] = plan[r][b]

\* An interrupted collection does not stay in between: it is completed, or every
\* candidate is where the refs want it and the run deferred, or its recovery is
\* refused because of what was written or restored meanwhile.
InterruptedRunSettles ==
    \A r \in Run : Incomplete(r) ~>
        (Complete(r) \/ Stuck(r) \/ (Settled(r) /\ "deferred" \in markers[r]))
=============================================================================
