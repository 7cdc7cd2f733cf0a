------------------------ MODULE CacheLifecycle_proofs ------------------------
(***************************************************************************)
(* Proofs about CacheLifecycle, for any payloads, branches and runs and    *)
(* any number of writes, imports, seals, restores, kills and power losses. *)
(*                                                                         *)
(* The three invariants the run checks are not inductive: that a payload   *)
(* survives the unlink of one of its names depends on what the operation   *)
(* that unlinks it did before (Underway), on the other name being synced   *)
(* (Synced), and on no second incomplete run counting on the same active   *)
(* name (OneIncomplete, CompleteHeld).                                     *)
(***************************************************************************)
EXTENDS CacheLifecycle, WellFoundedInduction, TLAPS

OpShape(o) ==
    o = [kind |-> o.kind, run |-> o.run, todo |-> o.todo, live |-> o.live, stage |-> o.stage,
         head |-> o.head]

\* The payload trees are functions, the operation a record.
Shape ==
    /\ fs \in [Tree -> [Blob -> Value]]
    /\ disk \in [Tree -> [Blob -> Value]]
    /\ unsynced \subseteq Blob
    /\ plan \in [Run -> [Blob -> Value]]
    /\ markers \in [Run -> SUBSET {"complete", "deferred", "purging", "purged"}]
    /\ refs = [br \in Branch |-> refs[br]]
    /\ OpShape(op) /\ op.todo \subseteq Blob

\* A run's directory holds planned payloads only.
OnlyPlanned ==
    \A r \in Run, b \in Blob : plan[r][b] = None => fs[r][b] = None /\ disk[r][b] = None

\* A collection is not started while another is incomplete.
OneIncomplete == \A q, r \in Run : Incomplete(q) /\ Incomplete(r) => q = r

\* The step between a rename or an unlink and its fsync.
Settling(t, b) ==
    /\ op.kind \in {"gc", "recover"} /\ op.todo # {} /\ b = Current
    /\ \/ op.stage = "renamed" /\ t = Destination(b)
       \/ op.stage = "unlinked" /\ t = Source(b)

\* Everything else that an incomplete run has moved, or will move, is synced.
Synced ==
    \A r \in Run : Incomplete(r) =>
        \A b \in Candidates(r) \ exposed :
            /\ b \notin unsynced
            /\ \A t \in {0, r} : fs[t][b] = disk[t][b] \/ Settling(t, b)

\* Once a collection is complete, its quarantined names alone hold the payloads.
CompleteHeld ==
    \A r \in Run : Complete(r) /\ "purging" \notin markers[r] =>
        \A b \in Candidates(r) \ exposed :
            fs[r][b] = plan[r][b] /\ disk[r][b] = plan[r][b]

\* What the steps of an operation have established so far.
ImportUnderway ==
    op.kind = "import" => \A b \in op.todo : fs[0][b] = None \/ (op.stage = "linked" /\ b = Current)
SealUnderway ==
    op.kind = "seal" => \A b \in Blob : op.head.blobs[b] # None =>
        fs[0][b] = op.head.blobs[b] /\ disk[0][b] = op.head.blobs[b] /\ b \notin unsynced

InPlace(r, t, b) == fs[t][b] = plan[r][b]
StageHolds(r, b) ==
    /\ op.stage \in {"next", "temp", "renamed", "synced", "unlinked"}
    /\ op.stage = "temp" => fs[Destination(b)][b] = None /\ InPlace(r, Source(b), b)
    /\ op.stage \in {"renamed", "synced"} => InPlace(r, Destination(b), b) /\ InPlace(r, Source(b), b)
    /\ op.stage = "unlinked" => InPlace(r, Destination(b), b) /\ fs[Source(b)][b] = None
MoveUnderway ==
    op.kind \in {"gc", "recover"} =>
        /\ op.run \in Run /\ Incomplete(op.run)
        /\ op.todo \subseteq Candidates(op.run)
        /\ \A b \in op.todo : \A t \in {0, op.run} : fs[t][b] \in {None, plan[op.run][b]}
        /\ op.todo # {} => StageHolds(op.run, Current)
GcUnderway ==
    op.kind = "gc" => op.live = {} /\ op.todo \cap Marked = {} /\ markers[op.run] = {}
RecoverUnderway ==
    op.kind = "recover" =>
        op.live = StillLive(op.run) /\ \A b \in Candidates(op.run) : Agrees(op.run, b)
PurgeUnderway ==
    op.kind = "purge" =>
        /\ op.run \in Run /\ Candidates(op.run) # {}
        /\ op.todo \subseteq Candidates(op.run) /\ op.todo \cap Marked = {}
        /\ {"complete", "purging"} \subseteq markers[op.run] /\ "deferred" \notin markers[op.run]
Underway ==
    /\ ImportUnderway /\ SealUnderway /\ MoveUnderway /\ GcUnderway /\ RecoverUnderway
    /\ PurgeUnderway

CInv ==
    /\ Shape /\ OnlyPlanned /\ OneIncomplete /\ Synced /\ CompleteHeld /\ Underway
    /\ LiveNeverLost /\ CollectedUntilPurged /\ RunsReadable

-----------------------------------------------------------------------------
(***************************************************************************)
(* Lemmas about the operators the lifecycle is built from.                 *)
(***************************************************************************)
\* A set of payloads that is not empty has a first one.
LEMMA MinIn ==
    ASSUME NEW S \in SUBSET Nat, S # {}
    PROVE  Min(S) \in S
<1>1. IsWellFoundedOn(OpToRel(<, Nat), Nat)
    BY NatLessThanWellFounded
<1>2. PICK x \in S : \A y \in S : ~(<<y, x>> \in OpToRel(<, Nat))
    BY <1>1, WFMin
<1>3. \A y \in S : ~(<<y, x>> \in {ss \in Nat \X Nat : ss[1] < ss[2]})
    BY <1>2 DEF OpToRel
<1>4. \A y \in S : x <= y
  <2> TAKE y \in S
  <2>1. ~(y < x)
      BY <1>3
  <2> QED BY <2>1
<1> QED BY <1>4 DEF Min

\* The payload an operation works on is one of those it has to do.
LEMMA CurrentTodo ==
    ASSUME Shape, op.todo # {}
    PROVE  Current \in op.todo /\ Current \in Blob
<1>1. op.todo \in SUBSET Nat /\ op.todo \subseteq Blob
    BY CacheAssumption DEF Shape
<1> QED BY <1>1, MinIn DEF Current

\* The tree of a run is not the active tree.
LEMMA TreeFacts == 0 \in Tree /\ 0 \notin Run /\ \A r \in Run : r \in Tree /\ r # 0
BY CacheAssumption DEF Tree, Run

\* One name of one payload changes.
LEMMA OneName ==
    ASSUME NEW f \in [Tree -> [Blob -> Value]], NEW t \in Tree, NEW b \in Blob, NEW v \in Value,
           NEW g, g = [f EXCEPT ![t][b] = v]
    PROVE  /\ g \in [Tree -> [Blob -> Value]]
           /\ \A u \in Tree, c \in Blob : g[u][c] = IF u = t /\ c = b THEN v ELSE f[u][c]
OBVIOUS

\* What the plans, markers and refs say depends on nothing else.
LEMMA RunsSame ==
    ASSUME UNCHANGED <<plan, markers>>
    PROVE  \A r \in Run : /\ Candidates(r)' = Candidates(r)
                          /\ Complete(r)' <=> Complete(r)
                          /\ Incomplete(r)' <=> Incomplete(r)
BY DEF Candidates, Complete, Incomplete

\* What the refs mark, and whether a plan agrees with them.
LEMMA RefsSame ==
    ASSUME UNCHANGED <<plan, refs>>
    PROVE  /\ Heads' = Heads /\ Marked' = Marked
           /\ \A r \in Run : /\ StillLive(r)' = StillLive(r)
                             /\ \A b \in Blob : Agrees(r, b)' <=> Agrees(r, b)
BY DEF Heads, Marked, Candidates, StillLive, Agrees

\* What a step of a move (_copy_unlink_durable) works on.
LEMMA MoveFacts ==
    ASSUME CInv, op.kind \in {"gc", "recover"}, op.todo # {}
    PROVE  LET r == op.run
               c == Current
           IN  /\ c \in op.todo /\ c \in Blob /\ r \in Run /\ c \in Candidates(r)
               /\ Incomplete(r) /\ ~Complete(r) /\ plan[r][c] # None /\ plan[r][c] \in Value
               /\ \/ Source(c) = 0 /\ Destination(c) = r /\ c \notin Marked
                  \/ Source(c) = r /\ Destination(c) = 0
               /\ \A m \in Heads : m.blobs[c] # None => m.blobs[c] = plan[r][c]
               /\ StageHolds(r, c)
<1> DEFINE r == op.run
           c == Current
<1>1. c \in op.todo /\ c \in Blob
    BY CurrentTodo DEF CInv
<1>2. r \in Run /\ c \in Candidates(r) /\ Incomplete(r) /\ StageHolds(r, c)
    BY <1>1 DEF CInv, Underway, MoveUnderway
<1>3. ~Complete(r) /\ plan[r][c] # None /\ plan[r][c] \in Value
    BY <1>2 DEF Incomplete, Candidates, CInv, Shape
<1>4. CASE op.kind = "gc"
  <2>1. op.live = {} /\ c \notin Marked
      BY <1>1, <1>4 DEF CInv, Underway, GcUnderway
  <2>2. \A m \in Heads : m.blobs[c] = None
      BY <1>1, <2>1 DEF Marked
  <2> QED BY <1>1, <1>2, <1>3, <1>4, <2>1, <2>2 DEF Source, Destination
<1>5. CASE op.kind = "recover"
  <2>1. op.live = Candidates(r) \cap Marked /\ Agrees(r, c)
      BY <1>2, <1>5 DEF CInv, Underway, RecoverUnderway, StillLive
  <2>2. \A m \in Heads : m.blobs[c] # None => m.blobs[c] = plan[r][c]
      BY <2>1 DEF Agrees
  <2> QED BY <1>1, <1>2, <1>3, <1>5, <2>1, <2>2 DEF Source, Destination
<1> QED BY <1>4, <1>5

-----------------------------------------------------------------------------
(***************************************************************************)
(* Steps that leave the payloads and the documents alone.                  *)
(***************************************************************************)
\* What holds of the payloads, whatever operation is under way.
RunPayloads ==
    /\ OnlyPlanned /\ OneIncomplete /\ Synced /\ CompleteHeld
    /\ CollectedUntilPurged /\ RunsReadable

\* The runs keep what they hold when no file changes, if a name that was not
\* synced is then recorded as exposed.
LEMMA RunPayloadsKept ==
    ASSUME CInv, UNCHANGED <<fs, disk, plan, markers>>,
           unsynced' \subseteq unsynced, exposed \subseteq exposed',
           \A t \in Tree, b \in Blob : Settling(t, b) => b \in exposed'
    PROVE  RunPayloads'
<1> USE RunsSame
<1>1. OnlyPlanned' /\ OneIncomplete' /\ CompleteHeld' /\ CollectedUntilPurged'
    BY DEF CInv, OnlyPlanned, OneIncomplete, CompleteHeld, CollectedUntilPurged
<1>2. RunsReadable'
    BY DEF CInv, RunsReadable, Readable
<1>3. Synced'
  <2> SUFFICES ASSUME NEW r \in Run, Incomplete(r), NEW b \in Candidates(r) \ exposed'
               PROVE  b \notin unsynced' /\ \A t \in {0, r} : fs'[t][b] = disk'[t][b]
      BY DEF Synced
  <2>1. b \in Blob /\ b \notin exposed /\ r \in Tree /\ 0 \in Tree
      BY TreeFacts DEF Candidates
  <2> QED BY <2>1 DEF CInv, Synced
<1> QED BY <1>1, <1>2, <1>3 DEF RunPayloads

\* So do the live refs, if they stay the same.
LEMMA LiveKept ==
    ASSUME CInv, UNCHANGED <<fs, disk>>, Heads' \subseteq Heads,
           unsynced' \subseteq unsynced, exposed \subseteq exposed'
    PROVE  LiveNeverLost'
BY DEF CInv, LiveNeverLost, Kept

\* The two together, for a step that writes no file.
LEMMA PayloadsKept ==
    ASSUME CInv, UNCHANGED <<fs, disk, plan, markers, refs>>,
           unsynced' \subseteq unsynced, exposed \subseteq exposed',
           \A t \in Tree, b \in Blob : Settling(t, b) => b \in exposed'
    PROVE  RunPayloads' /\ LiveNeverLost'
BY RunPayloadsKept, LiveKept, RefsSame

\* An operation ends, or dies, without a trace in the payloads.
LEMMA IdleUnderway ==
    ASSUME op'.kind \in {"idle", "retire"}
    PROVE  Underway'
BY DEF Underway, ImportUnderway, SealUnderway, MoveUnderway, GcUnderway, RecoverUnderway,
       PurgeUnderway

\* The lock holder goes on to the next stage, or to the next payload.
LEMMA StageEffect ==
    ASSUME OpShape(op), NEW s, Stage(s)
    PROVE  /\ op'.kind = op.kind /\ op'.run = op.run /\ op'.todo = op.todo /\ op'.live = op.live
           /\ op'.head = op.head /\ op'.stage = s /\ OpShape(op)'
BY DEF OpShape, Stage

\* It goes on to the next payload.
LEMMA DoneEffect ==
    ASSUME OpShape(op), NEW b, Done(b)
    PROVE  /\ op'.kind = op.kind /\ op'.run = op.run /\ op'.todo = op.todo \ {b}
           /\ op'.live = op.live /\ op'.head = op.head /\ op'.stage = "next" /\ OpShape(op)'
BY DEF OpShape, Done

\* It gives the lock back.
LEMMA IdleEffect ==
    ASSUME op' = Idle
    PROVE  op'.kind = "idle" /\ op'.todo = {} /\ OpShape(op)'
BY DEF OpShape, Idle

\* The steps of an import (import_fixed_slot_generation) that change no name.
LEMMA ImportSteps ==
    ASSUME CInv, (\E bs \in Selections : ImportStart(bs)) \/ ImportCopy \/ ImportUnlink \/ ImportEnd
    PROVE  CInv'
<1>1. Shape /\ OpShape(op)
    BY DEF CInv, Shape
<1>2. /\ UNCHANGED <<fs, disk, plan, markers, refs, exposed>> /\ unsynced' \subseteq unsynced
      /\ op.kind \in {"idle", "import"}
      /\ op'.kind \in {"idle", "import"} /\ OpShape(op)' /\ op'.todo \subseteq Blob
      /\ \A b \in op'.todo : fs[0][b] = None
  <2>1. CASE \E bs \in Selections : ImportStart(bs)
    <3>1. PICK bs \in Selections : ImportStart(bs)
        BY <2>1, SMTT(30)
    <3>2. /\ op = Idle /\ UNCHANGED <<fs, disk, exposed, runVars, refVars>>
          /\ unsynced' = unsynced \ {b \in bs : fs[0][b] # None}
          /\ op' = [Idle EXCEPT !.kind = "import", !.todo = bs \ {b \in bs : fs[0][b] # None}]
        BY <3>1 DEF ImportStart
    <3>3. /\ op.kind = "idle" /\ op'.kind = "import" /\ OpShape(op)'
          /\ op'.todo = bs \ {b \in bs : fs[0][b] # None}
        BY <3>2 DEF Idle, OpShape
    <3>4. bs \subseteq Blob
        BY CacheAssumption
    <3> QED BY <3>2, <3>3, <3>4 DEF runVars, refVars
  <2>2. CASE ImportCopy \/ ImportUnlink
    <3>1. op.kind = "import" /\ UNCHANGED <<payloadVars, runVars, refVars, countVars>>
        BY <2>2 DEF ImportCopy, ImportUnlink, Working
    <3>2. /\ op'.kind = op.kind /\ OpShape(op)' /\ op'.todo \subseteq op.todo
          /\ \A b \in op'.todo : fs[0][b] = None
      <4>1. CASE ImportCopy
        <5>1. op.stage = "next" /\ Stage("temp")
            BY <4>1 DEF ImportCopy, Working
        <5> QED BY <1>1, <3>1, <5>1, StageEffect DEF CInv, Underway, ImportUnderway
      <4>2. CASE ImportUnlink
        <5>1. Done(Current)
            BY <4>2 DEF ImportUnlink
        <5> QED BY <1>1, <3>1, <5>1, DoneEffect DEF CInv, Underway, ImportUnderway
      <4> QED BY <2>2, <4>1, <4>2
    <3> QED BY <1>1, <3>1, <3>2 DEF payloadVars, runVars, refVars, countVars, Shape
  <2>3. CASE ImportEnd
    <3>1. op' = Idle /\ op.kind = "import" /\ UNCHANGED <<payloadVars, runVars, refVars, countVars>>
        BY <2>3 DEF ImportEnd, Finished
    <3> QED BY <3>1, IdleEffect DEF payloadVars, runVars, refVars, countVars
  <2> QED BY <2>1, <2>2, <2>3
<1>3. RunPayloads' /\ LiveNeverLost'
    BY <1>2, PayloadsKept DEF Settling
<1>4. Shape'
    BY <1>1, <1>2 DEF Shape
<1>5. Underway'
    BY <1>2 DEF Underway, ImportUnderway, SealUnderway, MoveUnderway, GcUnderway, RecoverUnderway,
                PurgeUnderway
<1> QED BY <1>3, <1>4, <1>5 DEF CInv, RunPayloads

\* The manifest of a generation is published before its ref.
LEMMA SealManifestKeeps ==
    ASSUME CInv, SealManifest
    PROVE  CInv'
<1>1. /\ op.kind = "seal" /\ Stage("manifest") /\ OpShape(op)
      /\ UNCHANGED <<fs, disk, unsynced, plan, markers, refs, exposed>>
    BY DEF SealManifest, payloadVars, runVars, countVars, CInv, Shape
<1>2. op'.kind = op.kind /\ op'.todo = op.todo /\ op'.head = op.head /\ OpShape(op)'
    BY <1>1, StageEffect
<1>3. RunPayloads' /\ LiveNeverLost'
    BY <1>1, PayloadsKept DEF Settling
<1>4. Shape'
    BY <1>1, <1>2 DEF CInv, Shape
<1>5. Underway'
    BY <1>1, <1>2 DEF CInv, Underway, ImportUnderway, SealUnderway, MoveUnderway, GcUnderway,
                      RecoverUnderway, PurgeUnderway
<1> QED BY <1>3, <1>4, <1>5 DEF CInv, RunPayloads

\* The retired copy of a ref is published before the live name goes.
LEMMA RetireStartKeeps ==
    ASSUME CInv, NEW br \in Branch, RetireStart(br)
    PROVE  CInv'
<1>1. /\ op = Idle /\ op' = [Idle EXCEPT !.kind = "retire", !.head = refs[br]]
      /\ UNCHANGED <<fs, disk, unsynced, plan, markers, refs, exposed>>
    BY DEF RetireStart, payloadVars, runVars, countVars
<1>2. op.kind = "idle" /\ op'.kind = "retire" /\ op'.todo = {} /\ OpShape(op)'
    BY <1>1 DEF Idle, OpShape
<1>3. RunPayloads' /\ LiveNeverLost'
    BY <1>1, <1>2, PayloadsKept DEF Settling
<1>4. Shape'
    BY <1>1, <1>2 DEF CInv, Shape
<1> QED BY <1>2, <1>3, <1>4, IdleUnderway DEF CInv, RunPayloads

-----------------------------------------------------------------------------
(***************************************************************************)
(* Steps that change the refs.                                             *)
(***************************************************************************)
\* A ref document is replaced: only the new one joins the heads.
LEMMA NewHead ==
    ASSUME Shape, NEW br, NEW m, refs' = [refs EXCEPT ![br] = m]
    PROVE  Heads' \subseteq Heads \cup ({m} \ {None}) /\ refs' = [x \in Branch |-> refs'[x]]
<1>1. refs = [x \in Branch |-> refs[x]]
    BY DEF Shape
<1>2. \A x \in Branch : refs'[x] \in {refs[x], m}
    BY <1>1
<1>3. refs' = [x \in Branch |-> refs'[x]]
    BY <1>1
<1> QED BY <1>2, <1>3 DEF Heads

\* The ref names a generation whose payloads the seal has made durable.
LEMMA SealRefKeeps ==
    ASSUME CInv, SealRef
    PROVE  CInv'
<1>1. /\ op.kind = "seal" /\ op' = Idle /\ Shape
      /\ refs' = [refs EXCEPT ![op.head.branch] = op.head]
      /\ UNCHANGED <<fs, disk, unsynced, plan, markers, exposed>>
    BY DEF SealRef, payloadVars, runVars, countVars, CInv
<1>2. op'.kind = "idle" /\ op'.todo = {} /\ OpShape(op)'
    BY <1>1, IdleEffect
<1>3. Heads' \subseteq Heads \cup {op.head} /\ refs' = [x \in Branch |-> refs'[x]]
    BY <1>1, NewHead
<1>4. RunPayloads'
    BY <1>1, RunPayloadsKept DEF Settling
<1>5. LiveNeverLost'
  <2> SUFFICES ASSUME NEW m \in Heads', NEW b \in Blob \ exposed, m.blobs[b] # None
               PROVE  Kept(b, m.blobs[b])'
      BY <1>1 DEF LiveNeverLost
  <2>1. CASE m \in Heads
    <3>1. Kept(b, m.blobs[b])
        BY <2>1 DEF CInv, LiveNeverLost
    <3> QED BY <1>1, <3>1 DEF Kept
  <2>2. CASE m = op.head
    <3>1. fs[0][b] = m.blobs[b] /\ disk[0][b] = m.blobs[b] /\ b \notin unsynced
        BY <1>1, <2>2 DEF CInv, Underway, SealUnderway
    <3> QED BY <1>1, <3>1, TreeFacts DEF Kept
  <2> QED BY <1>3, <2>1, <2>2
<1>6. Shape'
    BY <1>1, <1>2, <1>3 DEF Shape
<1> QED BY <1>2, <1>4, <1>5, <1>6, IdleUnderway DEF CInv, RunPayloads

\* A ref that goes leaves less to keep.
LEMMA RetireUnlinkKeeps ==
    ASSUME CInv, RetireUnlink
    PROVE  CInv'
<1>1. /\ op.kind = "retire" /\ op' = Idle /\ Shape
      /\ refs' = [refs EXCEPT ![op.head.branch] = None]
      /\ UNCHANGED <<fs, disk, unsynced, plan, markers, exposed>>
    BY DEF RetireUnlink, payloadVars, runVars, countVars, CInv
<1>2. op'.kind = "idle" /\ op'.todo = {} /\ OpShape(op)'
    BY <1>1, IdleEffect
<1>3. Heads' \subseteq Heads /\ refs' = [x \in Branch |-> refs'[x]]
    BY <1>1, NewHead
<1>4. RunPayloads' /\ LiveNeverLost'
    BY <1>1, <1>3, RunPayloadsKept, LiveKept DEF Settling
<1>5. Shape'
    BY <1>1, <1>2, <1>3 DEF Shape
<1> QED BY <1>2, <1>4, <1>5, IdleUnderway DEF CInv, RunPayloads

\* A ref that is put back names payloads that are kept.
LEMMA RestoreRefKeeps ==
    ASSUME CInv, NEW m \in retired, RestoreRef(m)
    PROVE  CInv'
<1>1. /\ op = Idle /\ op' = op /\ Shape
      /\ refs' = [refs EXCEPT ![m.branch] = m]
      /\ \A b \in Blob : m.blobs[b] # None => Kept(b, m.blobs[b])
      /\ UNCHANGED <<fs, disk, unsynced, plan, markers, exposed>>
    BY DEF RestoreRef, payloadVars, runVars, CInv
<1>2. op.kind = "idle" /\ op'.kind = "idle"
    BY <1>1 DEF Idle
<1>3. Heads' \subseteq Heads \cup {m} /\ refs' = [x \in Branch |-> refs'[x]]
    BY <1>1, NewHead
<1>4. RunPayloads'
    BY <1>1, <1>2, RunPayloadsKept DEF Settling
<1>5. LiveNeverLost'
  <2> SUFFICES ASSUME NEW n \in Heads', NEW b \in Blob \ exposed, n.blobs[b] # None
               PROVE  Kept(b, n.blobs[b])'
      BY <1>1 DEF LiveNeverLost
  <2>1. Kept(b, n.blobs[b])
      BY <1>1, <1>3 DEF CInv, LiveNeverLost
  <2> QED BY <1>1, <2>1 DEF Kept
<1>6. Shape'
    BY <1>1, <1>3 DEF Shape
<1> QED BY <1>2, <1>4, <1>5, <1>6, IdleUnderway DEF CInv, RunPayloads

-----------------------------------------------------------------------------
(***************************************************************************)
(* Names that appear in the active tree, and payloads that are synced.     *)
(***************************************************************************)
\* A name where there was none hides no payload: the engine's write, which is
\* not synced, exposes a candidate of an incomplete run; an import is synced.
LEMMA NameAppears ==
    ASSUME CInv, NEW c \in Blob, NEW v \in Value, fs[0][c] = None,
           fs' = [fs EXCEPT ![0][c] = v], op.kind \in {"idle", "import"},
           UNCHANGED <<plan, markers, refs>>, exposed \subseteq exposed',
           \/ /\ disk' = disk /\ unsynced' = unsynced \cup {c}
              /\ (\E r \in Run : Incomplete(r) /\ c \in Candidates(r)) => c \in exposed'
           \/ disk' = [disk EXCEPT ![0][c] = v] /\ unsynced' = unsynced
    PROVE  /\ fs' \in [Tree -> [Blob -> Value]] /\ disk' \in [Tree -> [Blob -> Value]]
           /\ \A b \in Blob : fs'[0][b] = IF b = c THEN v ELSE fs[0][b]
           /\ RunPayloads' /\ LiveNeverLost'
<1>1. /\ fs \in [Tree -> [Blob -> Value]] /\ disk \in [Tree -> [Blob -> Value]]
      /\ unsynced \subseteq Blob
    BY DEF CInv, Shape
<1>2. /\ fs' \in [Tree -> [Blob -> Value]]
      /\ \A t \in Tree, b \in Blob : fs'[t][b] = IF t = 0 /\ b = c THEN v ELSE fs[t][b]
    BY <1>1, TreeFacts, OneName
<1>3. /\ disk' \in [Tree -> [Blob -> Value]]
      /\ \A t \in Tree, b \in Blob : t # 0 \/ b # c => disk'[t][b] = disk[t][b]
      /\ \A b \in Blob : b # c => (b \in unsynced' <=> b \in unsynced)
      /\ \/ disk'[0][c] = v /\ unsynced' = unsynced
         \/ (\E r \in Run : Incomplete(r) /\ c \in Candidates(r)) => c \in exposed'
  <2>1. CASE disk' = [disk EXCEPT ![0][c] = v] /\ unsynced' = unsynced
    <3>1. /\ disk' \in [Tree -> [Blob -> Value]]
          /\ \A t \in Tree, b \in Blob : disk'[t][b] = IF t = 0 /\ b = c THEN v ELSE disk[t][b]
        BY <1>1, <2>1, TreeFacts, OneName
    <3> QED BY <2>1, <3>1, TreeFacts
  <2>2. CASE /\ disk' = disk /\ unsynced' = unsynced \cup {c}
             /\ (\E r \in Run : Incomplete(r) /\ c \in Candidates(r)) => c \in exposed'
      BY <1>1, <2>2
  <2> QED BY <2>1, <2>2
<1>4. \A t \in Tree, b \in Blob : ~Settling(t, b)
    BY DEF Settling
<1>5. \A r \in Run, b \in Blob : fs'[r][b] = fs[r][b] /\ disk'[r][b] = disk[r][b]
    BY <1>2, <1>3, TreeFacts
<1>6. OnlyPlanned' /\ OneIncomplete' /\ CompleteHeld' /\ RunsReadable'
  <2>1. OnlyPlanned' /\ OneIncomplete'
      BY <1>5, RunsSame DEF CInv, OnlyPlanned, OneIncomplete
  <2>2. CompleteHeld'
      BY <1>5, RunsSame DEF CInv, CompleteHeld, Candidates
  <2>3. RunsReadable'
      BY <1>5, RunsSame DEF CInv, RunsReadable, Readable
  <2> QED BY <2>1, <2>2, <2>3
<1>7. Synced'
  <2> SUFFICES ASSUME NEW r \in Run, Incomplete(r), NEW b \in Candidates(r) \ exposed'
               PROVE  b \notin unsynced' /\ \A t \in {0, r} : fs'[t][b] = disk'[t][b]
      BY RunsSame DEF Synced
  <2>1. /\ b \in Blob /\ b \notin unsynced
        /\ \A t \in {0, r} : t \in Tree /\ fs[t][b] = disk[t][b]
      BY <1>4, TreeFacts DEF CInv, Synced, Candidates
  <2>2. CASE b # c
      BY <1>2, <1>3, <2>1, <2>2
  <2>3. CASE b = c
    <3>1. disk'[0][c] = v /\ unsynced' = unsynced
        BY <1>3, <2>3
    <3> QED BY <1>2, <1>5, <2>1, <2>3, <3>1, TreeFacts
  <2> QED BY <2>2, <2>3
<1>8. CollectedUntilPurged'
  <2> SUFFICES ASSUME NEW r \in Run, "purging" \notin markers[r], NEW b \in Candidates(r) \ exposed'
               PROVE  \E t \in {0, r} : fs'[t][b] = plan[r][b] /\ disk'[t][b] = plan[r][b]
      BY RunsSame DEF CollectedUntilPurged
  <2>1. b \in Blob /\ plan[r][b] # None
      BY DEF Candidates
  <2>2. PICK t \in {0, r} : fs[t][b] = plan[r][b] /\ disk[t][b] = plan[r][b]
      BY DEF CInv, CollectedUntilPurged
  <2>3. t \in Tree /\ (t # 0 \/ b # c)
      BY <2>1, <2>2, TreeFacts
  <2> QED BY <1>2, <1>3, <2>1, <2>2, <2>3
<1>9. LiveNeverLost'
  <2> SUFFICES ASSUME NEW m \in Heads, NEW b \in Blob \ exposed', m.blobs[b] # None
               PROVE  Kept(b, m.blobs[b])'
      BY RefsSame DEF LiveNeverLost
  <2>1. PICK t \in Tree : fs[t][b] = m.blobs[b] /\ disk[t][b] = m.blobs[b]
                          /\ (t = 0 => b \notin unsynced)
      BY DEF CInv, LiveNeverLost, Kept
  <2>2. t # 0 \/ b # c
      BY <2>1
  <2> QED BY <1>2, <1>3, <2>1, <2>2 DEF Kept
<1> QED BY <1>2, <1>3, <1>6, <1>7, <1>8, <1>9, TreeFacts DEF RunPayloads

\* The engine stores a payload under a free name.
LEMMA EngineWriteKeeps ==
    ASSUME CInv, NEW b \in Blob, NEW c \in Content, EngineWrite(b, c)
    PROVE  CInv'
<1>1. /\ op = Idle /\ op' = op /\ fs[0][b] = None
      /\ fs' = [fs EXCEPT ![0][b] = c] /\ disk' = disk /\ unsynced' = unsynced \cup {b}
      /\ exposed \subseteq exposed'
      /\ (\E r \in Run : Incomplete(r) /\ b \in Candidates(r)) => b \in exposed'
      /\ UNCHANGED <<plan, markers, refs>>
    BY DEF EngineWrite, runVars, refVars
<1>2. op.kind = "idle" /\ op'.kind = "idle" /\ c \in Value
    BY <1>1 DEF Idle, Value
<1>3. /\ fs' \in [Tree -> [Blob -> Value]] /\ disk' \in [Tree -> [Blob -> Value]]
      /\ RunPayloads' /\ LiveNeverLost'
    BY <1>1, <1>2, NameAppears
<1>4. Shape'
    BY <1>1, <1>3 DEF CInv, Shape
<1> QED BY <1>2, <1>3, <1>4, IdleUnderway DEF CInv, RunPayloads

\* An imported payload gets its name, already synced.
LEMMA ImportLinkKeeps ==
    ASSUME CInv, ImportLink
    PROVE  CInv'
<1>1. /\ op.kind = "import" /\ op.todo # {} /\ op.stage = "temp" /\ Stage("linked")
      /\ fs' = [fs EXCEPT ![0][Current] = Captured[Current]]
      /\ disk' = [disk EXCEPT ![0][Current] = Captured[Current]]
      /\ UNCHANGED <<unsynced, plan, markers, refs, exposed>>
      /\ Shape /\ OpShape(op)
    BY DEF ImportLink, Working, runVars, refVars, countVars, CInv, Shape
<1>2. /\ op'.kind = op.kind /\ op'.todo = op.todo /\ op'.stage = "linked" /\ OpShape(op)'
    BY <1>1, StageEffect
<1>3. Current \in op.todo /\ Current \in Blob /\ Current' = Current
    BY <1>1, <1>2, CurrentTodo DEF Current
<1>4. Captured[Current] \in Value /\ fs[0][Current] = None
    BY <1>1, <1>3, CacheAssumption DEF Value, CInv, Underway, ImportUnderway
<1>5. /\ fs' \in [Tree -> [Blob -> Value]] /\ disk' \in [Tree -> [Blob -> Value]]
      /\ \A b \in Blob : fs'[0][b] = IF b = Current THEN Captured[Current] ELSE fs[0][b]
      /\ RunPayloads' /\ LiveNeverLost'
  <2> HIDE DEF Current
  <2> QED BY <1>1, <1>3, <1>4, NameAppears
<1>6. Shape'
    BY <1>1, <1>2, <1>5 DEF Shape
<1>7. ImportUnderway'
  <2>1. \A b \in op.todo : b \in Blob /\ fs[0][b] = None
      BY <1>1 DEF CInv, Shape, Underway, ImportUnderway
  <2> QED BY <1>2, <1>3, <1>5, <2>1 DEF ImportUnderway
<1>8. Underway'
    BY <1>1, <1>2, <1>7 DEF Underway, SealUnderway, MoveUnderway, GcUnderway, RecoverUnderway,
                            PurgeUnderway
<1> QED BY <1>5, <1>6, <1>8 DEF CInv, RunPayloads

\* Hashing payloads for a durable claim syncs their active names.
LEMMA SyncEffect ==
    ASSUME Shape, NEW bs, SyncActive(bs)
    PROVE  /\ disk' \in [Tree -> [Blob -> Value]] /\ unsynced' \subseteq Blob
           /\ \A t \in Tree, b \in Blob :
                disk'[t][b] = IF t = 0 /\ b \in bs THEN fs[0][b] ELSE disk[t][b]
           /\ unsynced' = unsynced \ bs
BY TreeFacts DEF Shape, SyncActive

\* An fsync loses no payload of a live ref.
LEMMA SyncKeepsLive ==
    ASSUME CInv, NEW bs, SyncActive(bs), UNCHANGED <<fs, plan, refs, exposed>>
    PROVE  LiveNeverLost'
<1>1. /\ \A t \in Tree, b \in Blob :
           disk'[t][b] = IF t = 0 /\ b \in bs THEN fs[0][b] ELSE disk[t][b]
      /\ unsynced' = unsynced \ bs
    BY SyncEffect DEF CInv
<1> SUFFICES ASSUME NEW m \in Heads, NEW b \in Blob \ exposed, m.blobs[b] # None
             PROVE  Kept(b, m.blobs[b])'
    BY RefsSame DEF LiveNeverLost
<1>2. PICK t \in Tree : fs[t][b] = m.blobs[b] /\ disk[t][b] = m.blobs[b]
                        /\ (t = 0 => b \notin unsynced)
    BY DEF CInv, LiveNeverLost, Kept
<1> QED BY <1>1, <1>2 DEF Kept

\* A seal fsyncs what it is going to name.
LEMMA SealStartKeeps ==
    ASSUME CInv, NEW br \in Branch, NEW bs \in Selections, SealStart(br, bs)
    PROVE  CInv'
<1>1. /\ op = Idle /\ op' = [Idle EXCEPT !.kind = "seal", !.head = NextManifest(br, bs)]
      /\ SyncActive(bs) /\ Shape
      /\ UNCHANGED <<fs, plan, markers, refs, exposed>>
    BY DEF SealStart, runVars, refVars, CInv
<1>2. /\ op.kind = "idle" /\ op'.kind = "seal" /\ op'.todo = {} /\ OpShape(op)'
      /\ op'.head = NextManifest(br, bs)
    BY <1>1 DEF Idle, OpShape
<1>3. /\ disk' \in [Tree -> [Blob -> Value]] /\ unsynced' \subseteq Blob
      /\ \A t \in Tree, b \in Blob :
           disk'[t][b] = IF t = 0 /\ b \in bs THEN fs[0][b] ELSE disk[t][b]
      /\ unsynced' = unsynced \ bs
    BY <1>1, SyncEffect
<1>4. LiveNeverLost'
    BY <1>1, SyncKeepsLive
<1>5. \A r \in Run, b \in Blob : disk'[r][b] = disk[r][b]
    BY <1>3, TreeFacts
<1>6. OnlyPlanned' /\ OneIncomplete'
    BY <1>1, <1>5, RunsSame DEF CInv, OnlyPlanned, OneIncomplete
<1>7. CompleteHeld'
    BY <1>1, <1>5, RunsSame DEF CInv, CompleteHeld, Candidates
<1>8. RunsReadable'
    BY <1>1, RunsSame DEF CInv, RunsReadable, Readable
<1>9. Synced'
  <2> SUFFICES ASSUME NEW r \in Run, Incomplete(r), NEW b \in Candidates(r) \ exposed
               PROVE  b \notin unsynced' /\ \A t \in {0, r} : fs[t][b] = disk'[t][b]
      BY <1>1, RunsSame DEF Synced
  <2>1. /\ b \in Blob /\ b \notin unsynced
        /\ \A t \in {0, r} : t \in Tree /\ fs[t][b] = disk[t][b]
      BY <1>2, TreeFacts DEF CInv, Synced, Candidates, Settling
  <2> QED BY <1>3, <2>1
<1>10. CollectedUntilPurged'
  <2> SUFFICES ASSUME NEW r \in Run, "purging" \notin markers[r], NEW b \in Candidates(r) \ exposed
               PROVE  \E t \in {0, r} : fs[t][b] = plan[r][b] /\ disk'[t][b] = plan[r][b]
      BY <1>1, RunsSame DEF CollectedUntilPurged
  <2>1. PICK t \in {0, r} : fs[t][b] = plan[r][b] /\ disk[t][b] = plan[r][b]
      BY DEF CInv, CollectedUntilPurged
  <2>2. t \in Tree /\ b \in Blob
      BY TreeFacts DEF Candidates
  <2> QED BY <1>3, <2>1, <2>2
<1>11. Shape'
    BY <1>1, <1>2, <1>3 DEF Shape
<1>12. SealUnderway'
  <2>1. \A b \in Blob : op'.head.blobs[b] = IF b \in bs THEN fs[0][b] ELSE None
      BY <1>2 DEF NextManifest
  <2> QED BY <1>1, <1>3, <2>1, TreeFacts DEF SealUnderway
<1>13. Underway'
    BY <1>2, <1>12 DEF Underway, ImportUnderway, MoveUnderway, GcUnderway, RecoverUnderway,
                       PurgeUnderway
<1> QED BY <1>4, <1>6, <1>7, <1>8, <1>9, <1>10, <1>11, <1>13 DEF CInv

-----------------------------------------------------------------------------
(***************************************************************************)
(* Faults.                                                                 *)
(***************************************************************************)
LEMMA KillKeeps ==
    ASSUME CInv, Kill
    PROVE  CInv'
<1>1. /\ op' = Idle /\ UNCHANGED <<fs, disk, unsynced, plan, markers, refs>>
      /\ exposed \subseteq exposed'
      /\ op.stage \in {"renamed", "unlinked"} => Current \in exposed'
    BY DEF Kill, LeaveTemps, payloadVars, runVars, refVars
<1>2. op'.kind = "idle" /\ op'.todo = {} /\ OpShape(op)'
    BY <1>1, IdleEffect
<1>3. RunPayloads' /\ LiveNeverLost'
    BY <1>1, PayloadsKept DEF Settling
<1>4. Shape'
    BY <1>1, <1>2 DEF CInv, Shape
<1> QED BY <1>2, <1>3, <1>4, IdleUnderway DEF CInv, RunPayloads

\* A power loss: what was synced is still there.
LEMMA PowerLossKeeps ==
    ASSUME CInv, PowerLoss
    PROVE  CInv'
<1>1. /\ op' = Idle /\ unsynced' = {} /\ disk' = fs' /\ UNCHANGED <<plan, markers, refs, exposed>>
    BY DEF PowerLoss, LeaveTemps, runVars, refVars
<1>2. op'.kind = "idle" /\ op'.todo = {} /\ OpShape(op)'
    BY <1>1, IdleEffect
<1>3. fs' \in [Tree -> [Blob -> Value]] /\ \A t \in Tree, b \in Blob : fs'[t][b] \in Survives(t, b)
  <2>1. PICK left \in [Unsettled -> Value] :
          /\ \A n \in Unsettled : left[n] \in Survives(n[1], n[2])
          /\ fs' = [t \in Tree |-> [b \in Blob |->
                      IF <<t, b>> \in Unsettled THEN left[<<t, b>>] ELSE fs[t][b]]]
      BY DEF PowerLoss
  <2>2. fs \in [Tree -> [Blob -> Value]]
      BY DEF CInv, Shape
  <2>3. ASSUME NEW t \in Tree, NEW b \in Blob
        PROVE  fs'[t][b] \in Value /\ fs'[t][b] \in Survives(t, b)
    <3>1. CASE <<t, b>> \in Unsettled
      <4>1. fs'[t][b] = left[<<t, b>>] /\ left[<<t, b>>] \in Value
          BY <2>1, <3>1
      <4>2. left[<<t, b>>] \in Survives(<<t, b>>[1], <<t, b>>[2])
          BY <2>1, <3>1
      <4>3. <<t, b>>[1] = t /\ <<t, b>>[2] = b
          OBVIOUS
      <4> QED BY <4>1, <4>2, <4>3
    <3>2. CASE <<t, b>> \notin Unsettled
        BY <2>1, <2>2, <3>2 DEF Survives
    <3> QED BY <3>1, <3>2
  <2>4. fs' = [t \in Tree |-> [b \in Blob |-> fs'[t][b]]]
      BY <2>1
  <2> QED BY <2>3, <2>4
<1>4. \A t \in Tree, b \in Blob :
        t # 0 \/ b \notin unsynced => fs'[t][b] \in {fs[t][b], disk[t][b]}
    BY <1>3 DEF Survives
<1>5. OnlyPlanned' /\ OneIncomplete'
    BY <1>1, <1>4, RunsSame, TreeFacts DEF CInv, OnlyPlanned, OneIncomplete
<1>6. CompleteHeld'
    BY <1>1, <1>4, RunsSame, TreeFacts DEF CInv, CompleteHeld, Candidates
<1>7. Synced'
    BY <1>1, RunsSame DEF Synced
<1>8. RunsReadable'
  <2>1. \A r \in Run : Candidates(r) = {} => \A b \in Blob : fs'[r][b] = None
      BY <1>1, <1>5 DEF OnlyPlanned, Candidates
  <2> QED BY <1>1, <2>1, RunsSame DEF CInv, RunsReadable, Readable
<1>9. CollectedUntilPurged'
  <2> SUFFICES ASSUME NEW r \in Run, "purging" \notin markers[r], NEW b \in Candidates(r) \ exposed
               PROVE  \E t \in {0, r} : fs'[t][b] = plan[r][b]
      BY <1>1, RunsSame DEF CollectedUntilPurged
  <2>1. CASE Complete(r)
      BY <1>1, <1>6, <2>1, RunsSame DEF CompleteHeld
  <2>2. CASE ~Complete(r)
    <3>1. b \in Blob /\ b \notin unsynced
        BY <2>2 DEF CInv, Synced, Candidates, Incomplete
    <3>2. PICK t \in {0, r} : fs[t][b] = plan[r][b] /\ disk[t][b] = plan[r][b]
        BY DEF CInv, CollectedUntilPurged
    <3> QED BY <1>4, <3>1, <3>2, TreeFacts
  <2> QED BY <2>1, <2>2
<1>10. LiveNeverLost'
  <2> SUFFICES ASSUME NEW m \in Heads, NEW b \in Blob \ exposed, m.blobs[b] # None
               PROVE  Kept(b, m.blobs[b])'
      BY <1>1, RefsSame DEF LiveNeverLost
  <2>1. PICK t \in Tree : fs[t][b] = m.blobs[b] /\ disk[t][b] = m.blobs[b]
                          /\ (t = 0 => b \notin unsynced)
      BY DEF CInv, LiveNeverLost, Kept
  <2> QED BY <1>1, <1>4, <2>1 DEF Kept
<1>11. Shape'
    BY <1>1, <1>2, <1>3 DEF CInv, Shape
<1> QED BY <1>2, <1>5, <1>6, <1>7, <1>8, <1>9, <1>10, <1>11, IdleUnderway DEF CInv

-----------------------------------------------------------------------------
(***************************************************************************)
(* Collection, recovery and purge: how they start.                         *)
(***************************************************************************)
LEMMA GcStartKeeps ==
    ASSUME CInv, NEW r \in Run, GcStart(r)
    PROVE  CInv'
<1>1. /\ op = Idle /\ op' = [Idle EXCEPT !.kind = "gc", !.run = r, !.todo = Garbage]
      /\ \A q \in Run : ~Incomplete(q)
      /\ Garbage # {} /\ Candidates(r) = {}
      /\ SyncActive(Garbage) /\ Shape
      /\ plan' = [plan EXCEPT ![r] = [b \in Blob |-> IF b \in Garbage THEN fs[0][b] ELSE None]]
      /\ UNCHANGED <<fs, markers, refs, exposed>>
    BY DEF GcStart, refVars, countVars, CInv
<1>2. /\ op'.kind = "gc" /\ op'.run = r /\ op'.todo = Garbage /\ op'.live = {}
      /\ op'.stage = "next" /\ OpShape(op)'
    BY <1>1 DEF Idle, OpShape
<1>3. /\ disk' \in [Tree -> [Blob -> Value]] /\ unsynced' \subseteq Blob
      /\ \A t \in Tree, b \in Blob :
           disk'[t][b] = IF t = 0 /\ b \in Garbage THEN fs[0][b] ELSE disk[t][b]
      /\ unsynced' = unsynced \ Garbage
  <2> HIDE DEF Garbage
  <2> QED BY <1>1, SyncEffect
<1>4. /\ Garbage \subseteq Blob /\ Garbage \cap Marked = {} /\ \A b \in Garbage : fs[0][b] # None
    BY DEF Garbage
<1>5. /\ plan' \in [Run -> [Blob -> Value]]
      /\ \A q \in Run, b \in Blob :
           plan'[q][b] = IF q # r THEN plan[q][b] ELSE IF b \in Garbage THEN fs[0][b] ELSE None
  <2>1. None \in Value /\ 0 \in Tree
      BY TreeFacts DEF Value
  <2> HIDE DEF Garbage
  <2> QED BY <1>1, <1>4, <2>1 DEF Shape
<1>6. /\ Candidates(r)' = Garbage
      /\ \A q \in Run \ {r} : Candidates(q)' = Candidates(q)
  <2>1. Candidates(r)' = Garbage
    <3> HIDE DEF Garbage
    <3> QED BY <1>4, <1>5 DEF Candidates
  <2>2. \A q \in Run \ {r} : Candidates(q)' = Candidates(q)
    <3> HIDE DEF Garbage
    <3> QED BY <1>5 DEF Candidates
  <2> QED BY <2>1, <2>2
<1>7. markers[r] = {} /\ \A b \in Blob : plan[r][b] = None /\ fs[r][b] = None /\ disk[r][b] = None
  <2>1. \A b \in Blob : plan[r][b] = None
      BY <1>1 DEF Candidates
  <2> QED BY <1>1, <2>1 DEF CInv, OnlyPlanned, RunsReadable, Readable
<1>8. Incomplete(r)' /\ \A q \in Run : Incomplete(q)' => q = r
    BY <1>1, <1>6, <1>7 DEF Incomplete, Complete
<1>9. \A q \in Run, b \in Blob : disk'[q][b] = disk[q][b]
    BY <1>3, TreeFacts
<1>10. Heads' = Heads /\ Marked' = Marked
    BY <1>1 DEF Heads, Marked
<1>11. OnlyPlanned'
    BY <1>1, <1>5, <1>7, <1>9 DEF CInv, OnlyPlanned
<1>12. OneIncomplete'
    BY <1>8 DEF OneIncomplete
<1>13. Synced'
  <2> SUFFICES ASSUME NEW b \in Garbage \ exposed
               PROVE  b \notin unsynced' /\ \A t \in {0, r} : fs[t][b] = disk'[t][b]
      BY <1>1, <1>6, <1>8 DEF Synced
  <2> HIDE DEF Garbage
  <2> QED BY <1>3, <1>4, <1>7, <1>9, TreeFacts
<1>14. CompleteHeld'
  <2> SUFFICES ASSUME NEW q \in Run, Complete(q), "purging" \notin markers[q],
                      NEW b \in Candidates(q) \ exposed, q # r
               PROVE  fs[q][b] = plan'[q][b] /\ disk'[q][b] = plan'[q][b]
      BY <1>1, <1>6, <1>7 DEF CompleteHeld, Complete
  <2>1. b \in Blob /\ fs[q][b] = plan[q][b] /\ disk[q][b] = plan[q][b]
      BY DEF CInv, CompleteHeld, Candidates
  <2> QED BY <1>5, <1>9, <2>1
<1>15. CollectedUntilPurged'
  <2> SUFFICES ASSUME NEW q \in Run, "purging" \notin markers[q],
                      NEW b \in Candidates(q)' \ exposed
               PROVE  \E t \in {0, q} : fs[t][b] = plan'[q][b] /\ disk'[t][b] = plan'[q][b]
      BY <1>1 DEF CollectedUntilPurged
  <2>1. CASE q = r
    <3>1. b \in Garbage /\ b \in Blob
        BY <1>4, <1>6, <2>1
    <3> HIDE DEF Garbage
    <3> QED BY <1>3, <1>5, <2>1, <3>1, TreeFacts
  <2>2. CASE q # r
    <3>1. b \in Candidates(q) /\ Complete(q)
        BY <1>1, <1>6, <2>2 DEF Incomplete
    <3>2. Complete(q)'
        BY <1>1, <3>1 DEF Complete
    <3> QED BY <1>1, <1>14, <3>2 DEF CompleteHeld
  <2> QED BY <2>1, <2>2
<1>16. RunsReadable'
    BY <1>1, <1>4, <1>6, <1>7 DEF CInv, RunsReadable, Readable, Complete
<1>17. LiveNeverLost'
  <2> SUFFICES ASSUME NEW m \in Heads, NEW b \in Blob \ exposed, m.blobs[b] # None
               PROVE  Kept(b, m.blobs[b])'
      BY <1>1, <1>10 DEF LiveNeverLost
  <2>1. PICK t \in Tree : fs[t][b] = m.blobs[b] /\ disk[t][b] = m.blobs[b]
                          /\ (t = 0 => b \notin unsynced)
      BY DEF CInv, LiveNeverLost, Kept
  <2> HIDE DEF Garbage
  <2> QED BY <1>1, <1>3, <2>1 DEF Kept
<1>18. Shape'
    BY <1>1, <1>2, <1>3, <1>4, <1>5 DEF Shape
<1>19. MoveUnderway' /\ GcUnderway'
  <2>1. \A b \in Garbage : \A t \in {0, r} : fs'[t][b] \in {None, plan'[r][b]}
    <3> HIDE DEF Garbage
    <3> QED BY <1>1, <1>4, <1>5, <1>7
  <2>2. StageHolds(r, Current)'
      BY <1>2 DEF StageHolds
  <2>3. MoveUnderway'
    <3> HIDE DEF Garbage
    <3> QED BY <1>2, <1>6, <1>8, <2>1, <2>2 DEF MoveUnderway
  <2>4. GcUnderway'
      BY <1>1, <1>2, <1>4, <1>7, <1>10 DEF GcUnderway
  <2> QED BY <2>3, <2>4
<1>20. Underway'
    BY <1>2, <1>19 DEF Underway, ImportUnderway, SealUnderway, RecoverUnderway, PurgeUnderway
<1> QED BY <1>11, <1>12, <1>13, <1>14, <1>15, <1>16, <1>17, <1>18, <1>20 DEF CInv

\* A recovery starts from a plan that agrees with the live refs.
LEMMA RecoverStartKeeps ==
    ASSUME CInv, NEW r \in Run, RecoverStart(r)
    PROVE  CInv'
<1>1. /\ op = Idle /\ Incomplete(r) /\ Recoverable(r)
      /\ op' = [Idle EXCEPT !.kind = "recover", !.run = r, !.todo = Candidates(r),
                            !.live = StillLive(r)]
      /\ UNCHANGED <<fs, disk, unsynced, plan, markers, refs, exposed>>
    BY DEF RecoverStart, payloadVars, runVars, refVars, countVars
<1>2. /\ op.kind = "idle" /\ op'.kind = "recover" /\ op'.run = r /\ op'.todo = Candidates(r)
      /\ op'.live = StillLive(r) /\ op'.stage = "next" /\ OpShape(op)'
    BY <1>1 DEF Idle, OpShape
<1>3. RunPayloads' /\ LiveNeverLost'
    BY <1>1, <1>2, PayloadsKept DEF Settling
<1>4. Candidates(r) \subseteq Blob /\ Candidates(r)' = Candidates(r) /\ Incomplete(r)'
    BY <1>1, RunsSame DEF Candidates
<1>5. Shape'
    BY <1>1, <1>2, <1>4 DEF CInv, Shape
<1>6. \A b \in Candidates(r) : Agrees(r, b) /\ \A t \in {0, r} : fs[t][b] \in {None, plan[r][b]}
    BY <1>1 DEF Recoverable, LocationsValid, Planned
<1>7. MoveUnderway'
  <2>1. StageHolds(r, Current)'
      BY <1>2 DEF StageHolds
  <2> QED BY <1>1, <1>2, <1>4, <1>6, <2>1 DEF MoveUnderway
<1>8. RecoverUnderway'
    BY <1>1, <1>2, <1>4, <1>6, RefsSame DEF RecoverUnderway
<1> QED BY <1>2, <1>3, <1>5, <1>7, <1>8
        DEF CInv, RunPayloads, Underway, ImportUnderway, SealUnderway, GcUnderway, PurgeUnderway

-----------------------------------------------------------------------------
(***************************************************************************)
(* Marker files: completion, deferral and purge.                           *)
(***************************************************************************)
\* The markers of one run change, with nothing left unsynced.
LEMMA MarkersChange ==
    ASSUME CInv, UNCHANGED <<fs, disk, unsynced, plan, refs, exposed>>,
           NEW r \in Run, NEW M \in SUBSET {"complete", "deferred", "purging", "purged"},
           markers' = [markers EXCEPT ![r] = M],
           op.todo = {} \/ op = Idle,
           Candidates(r) # {},
           "complete" \in markers[r] => "complete" \in M,
           "purging" \in markers[r] => "purging" \in M,
           "complete" \in M => "deferred" \notin M,
           M \cap {"purging", "purged"} # {} => "complete" \in M,
           "purged" \in M => "purging" \in M,
           "complete" \in M /\ "complete" \notin markers[r] => OnlyQuarantined(r)
    PROVE  /\ markers' \in [Run -> SUBSET {"complete", "deferred", "purging", "purged"}]
           /\ markers'[r] = M
           /\ RunPayloads' /\ LiveNeverLost'
<1>1. markers \in [Run -> SUBSET {"complete", "deferred", "purging", "purged"}]
    BY DEF CInv, Shape
<1>2. /\ markers' \in [Run -> SUBSET {"complete", "deferred", "purging", "purged"}]
      /\ \A q \in Run : markers'[q] = IF q = r THEN M ELSE markers[q]
    BY <1>1
<1>3. \A q \in Run : Candidates(q)' = Candidates(q)
    BY DEF Candidates
<1>4. \A q \in Run : /\ Complete(q) => Complete(q)'
                     /\ q # r => (Complete(q)' <=> Complete(q))
                     /\ Incomplete(q)' => Incomplete(q)
    BY <1>2, <1>3 DEF Complete, Incomplete
<1>5. \A t \in Tree, b \in Blob : ~Settling(t, b)
    BY DEF Settling, Idle
<1>6. LiveNeverLost'
    BY LiveKept, RefsSame
<1>7. OnlyPlanned' /\ OneIncomplete'
    BY <1>4 DEF CInv, OnlyPlanned, OneIncomplete
<1>8. Synced'
  <2> SUFFICES ASSUME NEW q \in Run, Incomplete(q), NEW b \in Candidates(q) \ exposed
               PROVE  b \notin unsynced /\ \A t \in {0, q} : fs[t][b] = disk[t][b]
      BY <1>3, <1>4 DEF Synced
  <2>1. b \in Blob /\ \A t \in {0, q} : t \in Tree
      BY TreeFacts DEF Candidates
  <2> QED BY <1>5, <2>1 DEF CInv, Synced
<1>9. CollectedUntilPurged'
    BY <1>2, <1>3 DEF CInv, CollectedUntilPurged
<1>10. CompleteHeld'
  <2> SUFFICES ASSUME NEW q \in Run, Complete(q)', "purging" \notin markers'[q],
                      NEW b \in Candidates(q) \ exposed
               PROVE  fs[q][b] = plan[q][b] /\ disk[q][b] = plan[q][b]
      BY <1>3 DEF CompleteHeld
  <2>1. "purging" \notin markers[q]
      BY <1>2
  <2>2. CASE Complete(q)
      BY <2>1, <2>2 DEF CInv, CompleteHeld
  <2>3. CASE ~Complete(q)
    <3>1. q = r /\ OnlyQuarantined(q)
        BY <1>2, <1>4, <2>3 DEF Complete
    <3>2. fs[0][b] = None /\ plan[q][b] # None
        BY <3>1 DEF OnlyQuarantined, Candidates
    <3>3. \E t \in {0, q} : fs[t][b] = plan[q][b] /\ disk[t][b] = plan[q][b]
        BY <2>1 DEF CInv, CollectedUntilPurged
    <3> QED BY <3>2, <3>3
  <2> QED BY <2>2, <2>3
<1>11. RunsReadable'
  <2> SUFFICES ASSUME NEW q \in Run PROVE Readable(q)'
      BY DEF RunsReadable
  <2>1. Readable(q)
      BY DEF CInv, RunsReadable
  <2> QED BY <1>2, <1>3, <2>1 DEF Readable, Complete
<1> QED BY <1>2, <1>6, <1>7, <1>8, <1>9, <1>10, <1>11 DEF RunPayloads

\* A purge starts on a complete run no live ref needs.
LEMMA PurgeStartKeeps ==
    ASSUME CInv, NEW r \in Run, PurgeStart(r)
    PROVE  CInv'
<1>1. /\ op = Idle /\ Complete(r) /\ markers[r] \cap {"deferred", "purged"} = {}
      /\ StillLive(r) = {}
      /\ markers' = [markers EXCEPT ![r] = markers[r] \cup {"purging"}]
      /\ op' = [Idle EXCEPT !.kind = "purge", !.run = r,
                            !.todo = {b \in Candidates(r) : fs[r][b] # None}]
      /\ UNCHANGED <<fs, disk, unsynced, plan, refs, exposed>>
    BY DEF PurgeStart, Publish, payloadVars, refVars, countVars
<1>2. /\ op'.kind = "purge" /\ op'.run = r /\ op'.todo = {b \in Candidates(r) : fs[r][b] # None}
      /\ OpShape(op)'
    BY <1>1 DEF Idle, OpShape
<1>3. /\ markers[r] \in SUBSET {"complete", "deferred", "purging", "purged"}
      /\ Candidates(r) # {} /\ Candidates(r) \subseteq Blob
    BY <1>1 DEF CInv, Shape, RunsReadable, Readable, Complete, Candidates
<1>4. /\ markers' \in [Run -> SUBSET {"complete", "deferred", "purging", "purged"}]
      /\ markers'[r] = markers[r] \cup {"purging"}
      /\ RunPayloads' /\ LiveNeverLost'
  <2>1. markers[r] \cup {"purging"} \in SUBSET {"complete", "deferred", "purging", "purged"}
      BY <1>3
  <2> QED BY <1>1, <1>3, <2>1, MarkersChange DEF Complete
<1>5. Shape'
    BY <1>1, <1>2, <1>3, <1>4 DEF CInv, Shape
<1>6. PurgeUnderway'
  <2>1. Candidates(r)' = Candidates(r) /\ Marked' = Marked
      BY <1>1, RefsSame DEF Candidates
  <2> QED BY <1>1, <1>2, <1>3, <1>4, <2>1 DEF PurgeUnderway, StillLive, Complete
<1> QED BY <1>2, <1>4, <1>5, <1>6
        DEF CInv, RunPayloads, Underway, ImportUnderway, SealUnderway, MoveUnderway, GcUnderway,
            RecoverUnderway

\* The last document of a collection, a recovery or a purge.
LEMMA CompletionKeeps ==
    ASSUME CInv, GcComplete \/ RecoverDefer \/ RecoverComplete \/ PurgeComplete
    PROVE  CInv'
<1> DEFINE r == op.run
<1>1. /\ op.kind \in {"gc", "recover", "purge"} /\ op.todo = {} /\ op' = Idle
      /\ UNCHANGED <<fs, disk, unsynced, plan, refs, exposed>>
    BY DEF GcComplete, RecoverDefer, RecoverComplete, PurgeComplete, Finished, payloadVars, refVars,
           countVars
<1>2. op'.kind = "idle" /\ op'.todo = {} /\ OpShape(op)'
    BY <1>1, IdleEffect
<1>3. /\ r \in Run /\ Candidates(r) # {}
      /\ op.kind \in {"gc", "recover"} => ~Complete(r)
    BY <1>1 DEF CInv, Underway, MoveUnderway, PurgeUnderway, Incomplete
<1>4. /\ markers[r] \in SUBSET {"complete", "deferred", "purging", "purged"}
      /\ Readable(r)
    BY <1>3 DEF CInv, Shape, RunsReadable
<1>5. /\ markers' \in [Run -> SUBSET {"complete", "deferred", "purging", "purged"}]
      /\ RunPayloads' /\ LiveNeverLost'
  <2>1. CASE GcComplete \/ RecoverComplete
    <3> DEFINE M == markers[r] \cup {"complete"}
    <3>1. markers' = [markers EXCEPT ![r] = M] /\ OnlyQuarantined(r)
        BY <2>1 DEF GcComplete, RecoverComplete, Publish
    <3>2. "deferred" \notin markers[r]
        BY <2>1 DEF GcComplete, RecoverComplete, Finished, CInv, Underway, GcUnderway
    <3>3. /\ M \in SUBSET {"complete", "deferred", "purging", "purged"}
          /\ "complete" \in M /\ "deferred" \notin M
          /\ "purging" \in markers[r] => "purging" \in M
          /\ "purged" \in M => "purging" \in M
        BY <1>4, <3>2 DEF Readable
    <3> HIDE DEF M, r
    <3> QED BY <1>1, <1>3, <3>1, <3>3, MarkersChange
  <2>2. CASE RecoverDefer
    <3> DEFINE M == markers[r] \cup {"deferred"}
    <3>1. markers' = [markers EXCEPT ![r] = M] /\ op.kind = "recover"
        BY <2>2 DEF RecoverDefer, Publish, Finished
    <3>2. "complete" \notin markers[r]
        BY <1>3, <3>1 DEF Complete
    <3>3. /\ M \in SUBSET {"complete", "deferred", "purging", "purged"}
          /\ "complete" \notin M /\ M \cap {"purging", "purged"} = {}
          /\ "purging" \notin markers[r] /\ "purged" \notin M
        BY <1>4, <3>2 DEF Readable, Complete
    <3> HIDE DEF M, r
    <3> QED BY <1>1, <1>3, <3>1, <3>2, <3>3, MarkersChange
  <2>3. CASE PurgeComplete
    <3> DEFINE M == markers[r] \cup {"purged"}
    <3>1. markers' = [markers EXCEPT ![r] = M] /\ op.kind = "purge"
        BY <2>3 DEF PurgeComplete, Publish, Finished
    <3>2. {"complete", "purging"} \subseteq markers[r] /\ "deferred" \notin markers[r]
        BY <3>1 DEF CInv, Underway, PurgeUnderway
    <3>3. /\ M \in SUBSET {"complete", "deferred", "purging", "purged"}
          /\ "complete" \in M /\ "purging" \in M /\ "deferred" \notin M
        BY <1>4, <3>2
    <3> HIDE DEF M, r
    <3> QED BY <1>1, <1>3, <3>1, <3>2, <3>3, MarkersChange
  <2> QED BY <2>1, <2>2, <2>3
<1>6. Shape'
    BY <1>1, <1>2, <1>5 DEF CInv, Shape
<1> QED BY <1>2, <1>5, <1>6, IdleUnderway DEF CInv, RunPayloads

\* The deferred marker of an earlier recovery goes.
LEMMA UndeferKeeps ==
    ASSUME CInv, RecoverUndefer
    PROVE  CInv'
<1> DEFINE r == op.run
           M == markers[r] \ {"deferred"}
<1>1. /\ op.kind = "recover" /\ op.todo = {} /\ op' = op
      /\ markers' = [markers EXCEPT ![r] = M]
      /\ UNCHANGED <<fs, disk, unsynced, plan, refs, exposed>>
    BY DEF RecoverUndefer, Finished, payloadVars, refVars, countVars
<1>2. r \in Run /\ Candidates(r) # {} /\ ~Complete(r)
    BY <1>1 DEF CInv, Underway, MoveUnderway, Incomplete
<1>3. /\ M \in SUBSET {"complete", "deferred", "purging", "purged"}
      /\ "complete" \notin M /\ M \cap {"purging", "purged"} = {}
      /\ "complete" \notin markers[r] /\ "purging" \notin markers[r] /\ "purged" \notin M
    BY <1>2 DEF CInv, Shape, RunsReadable, Readable, Complete
<1>4. /\ markers' \in [Run -> SUBSET {"complete", "deferred", "purging", "purged"}]
      /\ markers'[r] = M
      /\ RunPayloads' /\ LiveNeverLost'
  <2> HIDE DEF M, r
  <2> QED BY <1>1, <1>2, <1>3, MarkersChange
<1>5. Shape'
    BY <1>1, <1>4 DEF CInv, Shape
<1>6. Candidates(r)' = Candidates(r) /\ Incomplete(r)'
    BY <1>1, <1>2, <1>3, <1>4 DEF Candidates, Incomplete, Complete
<1>7. MoveUnderway' /\ RecoverUnderway'
  <2>1. MoveUnderway'
      BY <1>1, <1>2, <1>6 DEF MoveUnderway
  <2>2. RecoverUnderway'
      BY <1>1, <1>2, <1>6, RefsSame DEF CInv, Underway, RecoverUnderway, Candidates
  <2> QED BY <2>1, <2>2
<1> QED BY <1>1, <1>4, <1>5, <1>7
        DEF CInv, RunPayloads, Underway, ImportUnderway, SealUnderway, GcUnderway, PurgeUnderway

-----------------------------------------------------------------------------
(***************************************************************************)
(* The steps of a move (_copy_unlink_durable).                             *)
(***************************************************************************)
\* A step that touches only the two names of the current payload, and leaves the
\* planned bytes synced under one of them, keeps the invariant.
LEMMA MoveStep ==
    ASSUME CInv, op.kind \in {"gc", "recover"}, op.todo # {},
           UNCHANGED <<unsynced, plan, markers, refs, exposed>>,
           NEW r, r = op.run, NEW c, c = Current,
           fs' \in [Tree -> [Blob -> Value]], disk' \in [Tree -> [Blob -> Value]],
           \A t \in Tree, b \in Blob : b # c \/ t \notin {0, r} =>
                fs'[t][b] = fs[t][b] /\ disk'[t][b] = disk[t][b],
           \A t \in {0, r} : fs'[t][c] \in {None, plan[r][c]},
           c \notin exposed => \E t \in {0, r} :
                fs'[t][c] = plan[r][c] /\ disk'[t][c] = plan[r][c],
           c \notin exposed => \A t \in {0, r} : fs'[t][c] = disk'[t][c] \/ Settling(t, c)',
           OpShape(op)', op'.kind = op.kind, op'.run = op.run, op'.live = op.live,
           op'.todo \subseteq op.todo,
           op'.todo # {} => StageHolds(r, Current)'
    PROVE  CInv'
<1>1. /\ c \in Blob /\ r \in Run /\ c \in Candidates(r) /\ Incomplete(r) /\ ~Complete(r)
      /\ plan[r][c] # None
      /\ \A m \in Heads : m.blobs[c] # None => m.blobs[c] = plan[r][c]
    BY MoveFacts
<1>2. 0 \in Tree /\ \A q \in Run : q \in Tree /\ q # 0
    BY TreeFacts
<1>3. \A q \in Run : /\ Candidates(q)' = Candidates(q) /\ Candidates(q) \subseteq Blob
                     /\ Complete(q)' <=> Complete(q)
                     /\ Incomplete(q)' <=> Incomplete(q)
    BY RunsSame DEF Candidates
<1>4. \A q \in Run : Incomplete(q) => q = r
    BY <1>1 DEF CInv, OneIncomplete
<1>5. c \notin exposed => c \notin unsynced
    BY <1>1 DEF CInv, Synced
<1>6. OnlyPlanned'
  <2> SUFFICES ASSUME NEW q \in Run, NEW b \in Blob, plan[q][b] = None
               PROVE  fs'[q][b] = None /\ disk'[q][b] = None
      BY DEF OnlyPlanned
  <2>1. q # r \/ b # c
      BY <1>1
  <2>2. fs'[q][b] = fs[q][b] /\ disk'[q][b] = disk[q][b]
      BY <1>2, <2>1
  <2> QED BY <2>2 DEF CInv, OnlyPlanned
<1>7. OneIncomplete'
    BY <1>3 DEF CInv, OneIncomplete
<1>8. Synced'
  <2> SUFFICES ASSUME NEW b \in Candidates(r) \ exposed, NEW t \in {0, r}
               PROVE  b \notin unsynced /\ (fs'[t][b] = disk'[t][b] \/ Settling(t, b)')
      BY <1>3, <1>4 DEF Synced
  <2>1. b \in Blob /\ t \in Tree
      BY <1>1, <1>2, <1>3
  <2>2. b \notin unsynced /\ (fs[t][b] = disk[t][b] \/ Settling(t, b))
      BY <1>1 DEF CInv, Synced
  <2>3. CASE b = c
      BY <2>2, <2>3
  <2>4. CASE b # c
    <3>1. ~Settling(t, b)
        BY <2>4 DEF Settling
    <3> QED BY <2>1, <2>2, <2>4, <3>1
  <2> QED BY <2>3, <2>4
<1>9. CompleteHeld'
  <2> SUFFICES ASSUME NEW q \in Run, Complete(q), "purging" \notin markers[q],
                      NEW b \in Candidates(q) \ exposed
               PROVE  fs'[q][b] = plan[q][b] /\ disk'[q][b] = plan[q][b]
      BY <1>3 DEF CompleteHeld
  <2>1. q \in Tree /\ q \notin {0, r} /\ b \in Blob
      BY <1>1, <1>2, <1>3
  <2>2. fs[q][b] = plan[q][b] /\ disk[q][b] = plan[q][b]
      BY DEF CInv, CompleteHeld
  <2> QED BY <2>1, <2>2
<1>10. CollectedUntilPurged'
  <2> SUFFICES ASSUME NEW q \in Run, "purging" \notin markers[q],
                      NEW b \in Candidates(q) \ exposed
               PROVE  \E t \in {0, q} : fs'[t][b] = plan[q][b] /\ disk'[t][b] = plan[q][b]
      BY <1>3 DEF CollectedUntilPurged
  <2>1. CASE q # r
    <3>1. Complete(q)'
        BY <1>3, <1>4, <2>1 DEF Incomplete
    <3>2. fs'[q][b] = plan[q][b] /\ disk'[q][b] = plan[q][b]
        BY <1>3, <1>9, <3>1 DEF CompleteHeld
    <3> QED BY <3>2
  <2>2. CASE q = r /\ b = c
      BY <2>2
  <2>3. CASE q = r /\ b # c
    <3>1. PICK t \in {0, q} : fs[t][b] = plan[q][b] /\ disk[t][b] = plan[q][b]
        BY DEF CInv, CollectedUntilPurged
    <3>2. t \in Tree /\ b \in Blob
        BY <1>2, <1>3
    <3> QED BY <2>3, <3>1, <3>2
  <2> QED BY <2>1, <2>2, <2>3
<1>11. RunsReadable'
  <2> SUFFICES ASSUME NEW q \in Run PROVE Readable(q)'
      BY DEF RunsReadable
  <2>1. Readable(q)
      BY DEF CInv, RunsReadable
  <2>2. Candidates(q) = {} => \A b \in Blob : fs'[q][b] = fs[q][b]
      BY <1>1, <1>2
  <2> QED BY <1>3, <2>1, <2>2 DEF Readable
<1>12. LiveNeverLost'
  <2>1. Heads' = Heads
      BY RefsSame
  <2> SUFFICES ASSUME NEW m \in Heads, NEW b \in Blob \ exposed, m.blobs[b] # None
               PROVE  Kept(b, m.blobs[b])'
      BY <2>1 DEF LiveNeverLost
  <2>2. CASE b = c
    <3>1. PICK t \in {0, r} : fs'[t][c] = plan[r][c] /\ disk'[t][c] = plan[r][c]
        BY <2>2
    <3> QED BY <1>1, <1>2, <1>5, <2>2, <3>1 DEF Kept
  <2>3. CASE b # c
    <3>1. PICK t \in Tree : fs[t][b] = m.blobs[b] /\ disk[t][b] = m.blobs[b]
                            /\ (t = 0 => b \notin unsynced)
        BY DEF CInv, LiveNeverLost, Kept
    <3> QED BY <2>3, <3>1 DEF Kept
  <2> QED BY <2>2, <2>3
<1>13. Shape'
    BY DEF CInv, Shape
<1>14. MoveUnderway'
  <2>1. op.todo \subseteq Candidates(r) /\ \A b \in op.todo : \A t \in {0, r} : fs[t][b] \in {None, plan[r][b]}
      BY DEF CInv, Underway, MoveUnderway
  <2>2. \A b \in op'.todo : \A t \in {0, r} : fs'[t][b] \in {None, plan[r][b]}
    <3> SUFFICES ASSUME NEW b \in op'.todo, NEW t \in {0, r}
                 PROVE  fs'[t][b] \in {None, plan[r][b]}
        OBVIOUS
    <3>1. b \in Blob /\ t \in Tree /\ b \in op.todo
        BY <1>1, <1>2, <1>3, <2>1
    <3>2. CASE b = c
        BY <3>2
    <3>3. CASE b # c
        BY <2>1, <3>1, <3>3
    <3> QED BY <3>2, <3>3
  <2> QED BY <1>1, <1>3, <2>1, <2>2 DEF MoveUnderway
<1>15. GcUnderway' /\ RecoverUnderway'
  <2>1. GcUnderway'
      BY RefsSame DEF CInv, Underway, GcUnderway
  <2>2. RecoverUnderway'
      BY <1>1, <1>3, RefsSame DEF CInv, Underway, RecoverUnderway
  <2> QED BY <2>1, <2>2
<1>16. Underway'
    BY <1>14, <1>15 DEF Underway, ImportUnderway, SealUnderway, PurgeUnderway
<1> QED BY <1>6, <1>7, <1>8, <1>9, <1>10, <1>11, <1>12, <1>13, <1>16 DEF CInv

\* Where a move finds the current payload, before its next step.
LEMMA MoveState ==
    ASSUME CInv, op.kind \in {"gc", "recover"}, op.todo # {},
           NEW r, r = op.run, NEW c, c = Current, NEW s, s = Source(c), NEW d, d = Destination(c)
    PROVE  /\ c \in Blob /\ s \in Tree /\ d \in Tree /\ s # d
           /\ \/ s = 0 /\ d = r
              \/ s = r /\ d = 0
           /\ plan[r][c] \in Value /\ plan[r][c] # None
           /\ fs[s][c] \in {None, plan[r][c]} /\ fs[d][c] \in {None, plan[r][c]}
           /\ StageHolds(r, c)
           /\ c \notin exposed => \E t \in {0, r} :
                    fs[t][c] = plan[r][c] /\ disk[t][c] = plan[r][c]
           /\ c \notin exposed => \A t \in {0, r} : fs[t][c] = disk[t][c] \/ Settling(t, c)
<1>1. /\ c \in op.todo /\ c \in Blob /\ r \in Run /\ c \in Candidates(r)
      /\ Incomplete(r) /\ ~Complete(r) /\ plan[r][c] # None /\ plan[r][c] \in Value
      /\ \/ Source(c) = 0 /\ Destination(c) = r
         \/ Source(c) = r /\ Destination(c) = 0
      /\ StageHolds(r, c)
    BY MoveFacts
<1>2. s \in Tree /\ d \in Tree /\ s # d /\ ((s = 0 /\ d = r) \/ (s = r /\ d = 0))
    BY <1>1, TreeFacts
<1>3. fs[s][c] \in {None, plan[r][c]} /\ fs[d][c] \in {None, plan[r][c]}
    BY <1>1, <1>2 DEF CInv, Underway, MoveUnderway
<1>4. "purging" \notin markers[r]
    BY <1>1 DEF CInv, RunsReadable, Readable
<1>5. c \notin exposed => \E t \in {0, r} : fs[t][c] = plan[r][c] /\ disk[t][c] = plan[r][c]
    BY <1>1, <1>4 DEF CInv, CollectedUntilPurged
<1>6. c \notin exposed => \A t \in {0, r} : fs[t][c] = disk[t][c] \/ Settling(t, c)
    BY <1>1 DEF CInv, Synced
<1> QED BY <1>1, <1>2, <1>3, <1>5, <1>6

\* A stage later the operation works on the same payload, between the same names.
LEMMA SameWork ==
    ASSUME OpShape(op), NEW s, Stage(s)
    PROVE  /\ Current' = Current
           /\ \A b : Source(b)' = Source(b) /\ Destination(b)' = Destination(b)
<1>1. op'.kind = op.kind /\ op'.run = op.run /\ op'.todo = op.todo /\ op'.live = op.live
    BY StageEffect
<1> QED BY <1>1 DEF Current, Source, Destination

\* The destination is copied, or recovery finds nothing to move: no name changes.
LEMMA CopyTempKeeps ==
    ASSUME CInv, CopyTemp \/ RecoverSkip
    PROVE  CInv'
<1> DEFINE r == op.run
           c == Current
<1>1. /\ op.kind \in {"gc", "recover"} /\ op.todo # {} /\ op.stage = "next"
      /\ UNCHANGED <<fs, disk, unsynced, plan, markers, refs, exposed>>
    BY DEF CopyTemp, RecoverSkip, Working, payloadVars, runVars, refVars, countVars
<1>2. OpShape(op) /\ fs \in [Tree -> [Blob -> Value]] /\ disk \in [Tree -> [Blob -> Value]]
    BY DEF CInv, Shape
<1>3. /\ \A t \in {0, r} : fs[t][c] \in {None, plan[r][c]}
      /\ c \notin exposed => \E t \in {0, r} : fs[t][c] = plan[r][c] /\ disk[t][c] = plan[r][c]
      /\ c \notin exposed => \A t \in {0, r} : fs[t][c] = disk[t][c]
  <2>1. \A t : ~Settling(t, c)
      BY <1>1 DEF Settling
  <2> QED BY <1>1, <2>1, MoveState
<1>4. /\ OpShape(op)' /\ op'.kind = op.kind /\ op'.run = op.run /\ op'.live = op.live
      /\ op'.todo \subseteq op.todo
      /\ op'.todo # {} => StageHolds(r, Current)'
  <2>1. CASE CopyTemp
    <3>1. /\ Stage("temp") /\ fs[Destination(c)][c] = None
          /\ fs[Source(c)][c] = plan[r][c]
        BY <2>1 DEF CopyTemp, Planned
    <3>2. StageHolds(r, Current)'
        BY <1>1, <1>2, <3>1, StageEffect, SameWork DEF StageHolds, InPlace
    <3> QED BY <1>2, <3>1, <3>2, StageEffect
  <2>2. CASE RecoverSkip
    <3>1. Done(c)
        BY <2>2 DEF RecoverSkip
    <3>2. StageHolds(r, Current)'
        BY <1>2, <3>1, DoneEffect DEF StageHolds
    <3> QED BY <1>2, <3>1, <3>2, DoneEffect
  <2> QED BY <2>1, <2>2
<1> HIDE DEF r, c
<1> QED BY <1>1, <1>2, <1>3, <1>4, MoveStep DEF r, c

\* The copy is renamed to the destination's name, which was free.
LEMMA CopyRenameKeeps ==
    ASSUME CInv, CopyRename
    PROVE  CInv'
<1> SUFFICES ASSUME NEW r, r = op.run, NEW c, c = Current,
                    NEW s, s = Source(c), NEW d, d = Destination(c)
             PROVE  CInv'
    OBVIOUS
<1>1. /\ op.kind \in {"gc", "recover"} /\ op.todo # {} /\ op.stage = "temp" /\ Stage("renamed")
      /\ fs' = [fs EXCEPT ![d][c] = plan[r][c]]
      /\ UNCHANGED <<disk, unsynced, plan, markers, refs, exposed>>
    BY DEF CopyRename, Working, runVars, refVars, countVars
<1>2. OpShape(op) /\ fs \in [Tree -> [Blob -> Value]] /\ disk \in [Tree -> [Blob -> Value]]
    BY DEF CInv, Shape
<1>3. /\ c \in Blob /\ s \in Tree /\ d \in Tree /\ s # d /\ ((s = 0 /\ d = r) \/ (s = r /\ d = 0))
      /\ plan[r][c] \in Value /\ plan[r][c] # None
      /\ fs[s][c] = plan[r][c] /\ fs[d][c] = None
      /\ c \notin exposed => \E t \in {0, r} : fs[t][c] = plan[r][c] /\ disk[t][c] = plan[r][c]
      /\ c \notin exposed => \A t \in {0, r} : fs[t][c] = disk[t][c]
  <2>1. \A t : ~Settling(t, c)
      BY <1>1 DEF Settling
  <2> QED BY <1>1, <2>1, MoveState DEF StageHolds, InPlace
<1>4. /\ fs' \in [Tree -> [Blob -> Value]]
      /\ \A u \in Tree, b \in Blob : fs'[u][b] = IF u = d /\ b = c THEN plan[r][c] ELSE fs[u][b]
  <2> QED BY <1>1, <1>2, <1>3, OneName
<1>5. /\ OpShape(op)' /\ op'.kind = op.kind /\ op'.run = op.run /\ op'.live = op.live
      /\ op'.todo = op.todo /\ op'.stage = "renamed"
    BY <1>1, <1>2, StageEffect
<1>6. Current' = c /\ Source(c)' = s /\ Destination(c)' = d
    BY <1>1, <1>2, SameWork
<1>7. Settling(d, c)'
    BY <1>1, <1>5, <1>6 DEF Settling
<1>8. fs'[s][c] = plan[r][c] /\ fs'[d][c] = plan[r][c]
    BY <1>3, <1>4
<1>9. StageHolds(r, Current)'
    BY <1>1, <1>5, <1>6, <1>8 DEF StageHolds, InPlace
<1>10. c \notin exposed => fs'[s][c] = disk'[s][c]
    BY <1>1, <1>3, <1>4
<1>11. c \notin exposed => \E t \in {0, r} : fs'[t][c] = plan[r][c] /\ disk'[t][c] = plan[r][c]
    BY <1>1, <1>3, <1>8
<1>12. \A t \in Tree, b \in Blob : b # c \/ t \notin {0, r} =>
            fs'[t][b] = fs[t][b] /\ disk'[t][b] = disk[t][b]
    BY <1>1, <1>3, <1>4
<1> QED BY <1>1, <1>2, <1>3, <1>4, <1>5, <1>7, <1>8, <1>9, <1>10, <1>11, <1>12, MoveStep

\* The destination is fsynced.
LEMMA CopySyncKeeps ==
    ASSUME CInv, CopySync
    PROVE  CInv'
<1> SUFFICES ASSUME NEW r, r = op.run, NEW c, c = Current,
                    NEW s, s = Source(c), NEW d, d = Destination(c)
             PROVE  CInv'
    OBVIOUS
<1>1. /\ op.kind \in {"gc", "recover"} /\ op.todo # {} /\ op.stage = "renamed" /\ Stage("synced")
      /\ disk' = [disk EXCEPT ![d][c] = fs[d][c]]
      /\ UNCHANGED <<fs, unsynced, plan, markers, refs, exposed>>
    BY DEF CopySync, Working, runVars, refVars, countVars
<1>2. OpShape(op) /\ fs \in [Tree -> [Blob -> Value]] /\ disk \in [Tree -> [Blob -> Value]]
    BY DEF CInv, Shape
<1>3. /\ c \in Blob /\ s \in Tree /\ d \in Tree /\ s # d /\ ((s = 0 /\ d = r) \/ (s = r /\ d = 0))
      /\ plan[r][c] \in Value
      /\ fs[s][c] = plan[r][c] /\ fs[d][c] = plan[r][c]
      /\ c \notin exposed => fs[s][c] = disk[s][c]
  <2>1. s # d => ~Settling(s, c)
      BY <1>1 DEF Settling
  <2>2. /\ c \in Blob /\ s \in Tree /\ d \in Tree /\ s # d /\ ((s = 0 /\ d = r) \/ (s = r /\ d = 0))
        /\ plan[r][c] \in Value /\ StageHolds(r, c)
        /\ c \notin exposed => \A t \in {0, r} : fs[t][c] = disk[t][c] \/ Settling(t, c)
      BY <1>1, MoveState
  <2>3. fs[s][c] = plan[r][c] /\ fs[d][c] = plan[r][c]
      BY <1>1, <2>2 DEF StageHolds, InPlace
  <2>4. s \in {0, r}
      BY <2>2
  <2> QED BY <2>1, <2>2, <2>3, <2>4
<1>4. /\ disk' \in [Tree -> [Blob -> Value]]
      /\ \A u \in Tree, b \in Blob : disk'[u][b] = IF u = d /\ b = c THEN plan[r][c] ELSE disk[u][b]
  <2>1. disk' = [disk EXCEPT ![d][c] = plan[r][c]]
      BY <1>1, <1>3
  <2> QED BY <1>2, <1>3, <2>1, OneName
<1>5. /\ OpShape(op)' /\ op'.kind = op.kind /\ op'.run = op.run /\ op'.live = op.live
      /\ op'.todo = op.todo /\ op'.stage = "synced"
    BY <1>1, <1>2, StageEffect
<1>6. Current' = c /\ Source(c)' = s /\ Destination(c)' = d
    BY <1>1, <1>2, SameWork
<1>7. StageHolds(r, Current)'
    BY <1>1, <1>3, <1>5, <1>6 DEF StageHolds, InPlace
<1>8. c \notin exposed => \A t \in {0, r} : fs'[t][c] = disk'[t][c]
    BY <1>1, <1>3, <1>4
<1>9. \E t \in {0, r} : fs'[t][c] = plan[r][c] /\ disk'[t][c] = plan[r][c]
    BY <1>1, <1>3, <1>4
<1>10. \A t \in Tree, b \in Blob : b # c \/ t \notin {0, r} =>
            fs'[t][b] = fs[t][b] /\ disk'[t][b] = disk[t][b]
    BY <1>1, <1>3, <1>4
<1>11. \A t \in {0, r} : fs'[t][c] \in {None, plan[r][c]}
    BY <1>1, <1>3
<1> QED BY <1>1, <1>2, <1>4, <1>5, <1>7, <1>8, <1>9, <1>10, <1>11, MoveStep

\* The source's name goes: the destination holds the bytes, and was synced.
LEMMA UnlinkKeeps ==
    ASSUME CInv, Unlink, op.kind \in {"gc", "recover"}
    PROVE  CInv'
<1> SUFFICES ASSUME NEW r, r = op.run, NEW c, c = Current,
                    NEW s, s = Source(c), NEW d, d = Destination(c)
             PROVE  CInv'
    OBVIOUS
<1>1. /\ op.todo # {} /\ Removable /\ Stage("unlinked")
      /\ fs' = [fs EXCEPT ![s][c] = None]
      /\ UNCHANGED <<disk, unsynced, plan, markers, refs, exposed>>
    BY DEF Unlink, runVars, refVars, countVars
<1>2. OpShape(op) /\ fs \in [Tree -> [Blob -> Value]] /\ disk \in [Tree -> [Blob -> Value]]
    BY DEF CInv, Shape
<1>3. /\ c \in Blob /\ s \in Tree /\ d \in Tree /\ s # d /\ ((s = 0 /\ d = r) \/ (s = r /\ d = 0))
      /\ fs[d][c] = plan[r][c]
      /\ c \notin exposed => fs[d][c] = disk[d][c]
  <2>1. op.stage = "synced" \/ (op.stage = "next" /\ fs[d][c] # None)
      BY <1>1 DEF Removable
  <2>2. ~Settling(d, c)
      BY <2>1 DEF Settling
  <2>3. /\ c \in Blob /\ s \in Tree /\ d \in Tree /\ s # d /\ ((s = 0 /\ d = r) \/ (s = r /\ d = 0))
        /\ fs[d][c] \in {None, plan[r][c]} /\ StageHolds(r, c)
        /\ c \notin exposed => \A t \in {0, r} : fs[t][c] = disk[t][c] \/ Settling(t, c)
      BY <1>1, MoveState
  <2>4. fs[d][c] = plan[r][c]
      BY <2>1, <2>3 DEF StageHolds, InPlace
  <2>5. d \in {0, r}
      BY <2>3
  <2> QED BY <2>2, <2>3, <2>4, <2>5
<1>4. /\ fs' \in [Tree -> [Blob -> Value]]
      /\ \A u \in Tree, b \in Blob : fs'[u][b] = IF u = s /\ b = c THEN None ELSE fs[u][b]
  <2>1. None \in Value
      BY DEF Value
  <2> QED BY <1>1, <1>2, <1>3, <2>1, OneName
<1>5. /\ OpShape(op)' /\ op'.kind = op.kind /\ op'.run = op.run /\ op'.live = op.live
      /\ op'.todo = op.todo /\ op'.stage = "unlinked"
    BY <1>1, <1>2, StageEffect
<1>6. Current' = c /\ Source(c)' = s /\ Destination(c)' = d
    BY <1>1, <1>2, SameWork
<1>7. Settling(s, c)'
    BY <1>1, <1>5, <1>6 DEF Settling
<1>8. fs'[s][c] = None /\ fs'[d][c] = plan[r][c]
    BY <1>3, <1>4
<1>9. StageHolds(r, Current)'
    BY <1>1, <1>5, <1>6, <1>8 DEF StageHolds, InPlace
<1>10. c \notin exposed => \A t \in {0, r} : fs'[t][c] = disk'[t][c] \/ Settling(t, c)'
    BY <1>1, <1>3, <1>7, <1>8
<1>11. c \notin exposed => \E t \in {0, r} : fs'[t][c] = plan[r][c] /\ disk'[t][c] = plan[r][c]
    BY <1>1, <1>3, <1>8
<1>12. \A t \in Tree, b \in Blob : b # c \/ t \notin {0, r} =>
            fs'[t][b] = fs[t][b] /\ disk'[t][b] = disk[t][b]
    BY <1>1, <1>3, <1>4
<1>13. \A t \in {0, r} : fs'[t][c] \in {None, plan[r][c]}
    BY <1>3, <1>8
<1> QED BY <1>1, <1>2, <1>4, <1>5, <1>9, <1>10, <1>11, <1>12, <1>13, MoveStep

\* The directory that lost the source's name is fsynced.
LEMMA SyncUnlinkKeeps ==
    ASSUME CInv, SyncUnlink, op.kind \in {"gc", "recover"}
    PROVE  CInv'
<1> SUFFICES ASSUME NEW r, r = op.run, NEW c, c = Current,
                    NEW s, s = Source(c), NEW d, d = Destination(c)
             PROVE  CInv'
    OBVIOUS
<1>1. /\ op.todo # {} /\ op.stage = "unlinked" /\ Done(c)
      /\ disk' = [disk EXCEPT ![s][c] = None]
      /\ UNCHANGED <<fs, unsynced, plan, markers, refs, exposed>>
    BY DEF SyncUnlink, Working, runVars, refVars, countVars
<1>2. OpShape(op) /\ fs \in [Tree -> [Blob -> Value]] /\ disk \in [Tree -> [Blob -> Value]]
    BY DEF CInv, Shape
<1>3. /\ c \in Blob /\ s \in Tree /\ d \in Tree /\ s # d /\ ((s = 0 /\ d = r) \/ (s = r /\ d = 0))
      /\ fs[s][c] = None /\ fs[d][c] = plan[r][c]
      /\ c \notin exposed => fs[d][c] = disk[d][c]
  <2>1. s # d => ~Settling(d, c)
      BY <1>1 DEF Settling
  <2>2. /\ c \in Blob /\ s \in Tree /\ d \in Tree /\ s # d
        /\ ((s = 0 /\ d = r) \/ (s = r /\ d = 0)) /\ StageHolds(r, c)
        /\ c \notin exposed => \A t \in {0, r} : fs[t][c] = disk[t][c] \/ Settling(t, c)
      BY <1>1, MoveState
  <2>3. fs[s][c] = None /\ fs[d][c] = plan[r][c]
      BY <1>1, <2>2 DEF StageHolds, InPlace
  <2>4. d \in {0, r}
      BY <2>2
  <2> QED BY <2>1, <2>2, <2>3, <2>4
<1>4. /\ disk' \in [Tree -> [Blob -> Value]]
      /\ \A u \in Tree, b \in Blob : disk'[u][b] = IF u = s /\ b = c THEN None ELSE disk[u][b]
  <2>1. None \in Value
      BY DEF Value
  <2> QED BY <1>1, <1>2, <1>3, <2>1, OneName
<1>5. /\ OpShape(op)' /\ op'.kind = op.kind /\ op'.run = op.run /\ op'.live = op.live
      /\ op'.todo \subseteq op.todo /\ op'.stage = "next"
    BY <1>1, <1>2, DoneEffect
<1>6. StageHolds(r, Current)'
    BY <1>5 DEF StageHolds
<1>7. c \notin exposed => \A t \in {0, r} : fs'[t][c] = disk'[t][c]
    BY <1>1, <1>3, <1>4
<1>8. c \notin exposed => \E t \in {0, r} : fs'[t][c] = plan[r][c] /\ disk'[t][c] = plan[r][c]
    BY <1>1, <1>3, <1>4
<1>9. \A t \in Tree, b \in Blob : b # c \/ t \notin {0, r} =>
            fs'[t][b] = fs[t][b] /\ disk'[t][b] = disk[t][b]
    BY <1>1, <1>3, <1>4
<1>10. \A t \in {0, r} : fs'[t][c] \in {None, plan[r][c]}
    BY <1>1, <1>3
<1> QED BY <1>1, <1>2, <1>4, <1>5, <1>6, <1>7, <1>8, <1>9, <1>10, MoveStep

-----------------------------------------------------------------------------
(***************************************************************************)
(* The steps of a purge: one name after the other goes, of payloads that   *)
(* no live ref names, in the tree of one run whose purge has begun.        *)
(***************************************************************************)
LEMMA PurgeStepKeeps ==
    ASSUME CInv, Unlink \/ SyncUnlink, op.kind = "purge"
    PROVE  CInv'
<1> SUFFICES ASSUME NEW r, r = op.run, NEW c, c = Current
             PROVE  CInv'
    OBVIOUS
<1>1. /\ op.todo # {} /\ UNCHANGED <<unsynced, plan, markers, refs, exposed>>
      /\ \/ fs' = [fs EXCEPT ![r][c] = None] /\ disk' = disk /\ Stage("unlinked")
         \/ disk' = [disk EXCEPT ![r][c] = None] /\ fs' = fs /\ Done(c)
    BY DEF Unlink, SyncUnlink, Working, Source, runVars, refVars, countVars
<1>2. /\ OpShape(op) /\ fs \in [Tree -> [Blob -> Value]] /\ disk \in [Tree -> [Blob -> Value]]
      /\ None \in Value
    BY DEF CInv, Shape, Value
<1>3. /\ r \in Run /\ Candidates(r) # {} /\ c \in Candidates(r) /\ c \in Blob /\ c \notin Marked
      /\ Complete(r) /\ "purging" \in markers[r]
    BY <1>1, CurrentTodo DEF CInv, Underway, PurgeUnderway, Complete
<1>4. 0 \in Tree /\ \A q \in Run : q \in Tree /\ q # 0
    BY TreeFacts
<1>5. /\ fs' \in [Tree -> [Blob -> Value]] /\ disk' \in [Tree -> [Blob -> Value]]
      /\ \A u \in Tree, b \in Blob : u # r \/ b # c => fs'[u][b] = fs[u][b] /\ disk'[u][b] = disk[u][b]
  <2>1. CASE fs' = [fs EXCEPT ![r][c] = None] /\ disk' = disk
      BY <1>2, <1>3, <1>4, <2>1, OneName
  <2>2. CASE disk' = [disk EXCEPT ![r][c] = None] /\ fs' = fs
      BY <1>2, <1>3, <1>4, <2>2, OneName
  <2> QED BY <1>1, <2>1, <2>2
<1>6. /\ OpShape(op)' /\ op'.kind = "purge" /\ op'.run = r /\ op'.todo \subseteq op.todo
    BY <1>1, <1>2, StageEffect, DoneEffect
<1>7. \A q \in Run : /\ Candidates(q)' = Candidates(q) /\ Candidates(q) \subseteq Blob
                     /\ Complete(q)' <=> Complete(q)
                     /\ Incomplete(q)' <=> Incomplete(q)
                     /\ Incomplete(q) => q # r
    BY <1>1, <1>3, RunsSame DEF Candidates, Incomplete
<1>8. OnlyPlanned' /\ OneIncomplete'
  <2>1. plan[r][c] # None
      BY <1>3 DEF Candidates
  <2> QED BY <1>1, <1>4, <1>5, <1>7, <2>1, SMTT(30) DEF CInv, OnlyPlanned, OneIncomplete
<1>9. Synced'
  <2> SUFFICES ASSUME NEW q \in Run, Incomplete(q), NEW b \in Candidates(q) \ exposed,
                      NEW t \in {0, q}
               PROVE  b \notin unsynced /\ fs'[t][b] = disk'[t][b]
      BY <1>1, <1>7 DEF Synced
  <2>1. t \in Tree /\ t # r /\ b \in Blob
      BY <1>3, <1>4, <1>7
  <2>2. ~Settling(t, b)
      BY DEF Settling
  <2>3. b \notin unsynced /\ fs[t][b] = disk[t][b]
      BY <2>2 DEF CInv, Synced
  <2> QED BY <1>5, <2>1, <2>3
<1>10. CompleteHeld'
  <2> SUFFICES ASSUME NEW q \in Run, Complete(q), "purging" \notin markers[q],
                      NEW b \in Candidates(q) \ exposed
               PROVE  fs'[q][b] = plan[q][b] /\ disk'[q][b] = plan[q][b]
      BY <1>1, <1>7 DEF CompleteHeld
  <2>1. q \in Tree /\ q # r /\ b \in Blob
      BY <1>3, <1>4, <1>7
  <2>2. fs[q][b] = plan[q][b] /\ disk[q][b] = plan[q][b]
      BY DEF CInv, CompleteHeld
  <2> QED BY <1>5, <2>1, <2>2
<1>11. CollectedUntilPurged'
  <2> SUFFICES ASSUME NEW q \in Run, "purging" \notin markers[q],
                      NEW b \in Candidates(q) \ exposed
               PROVE  \E t \in {0, q} : fs'[t][b] = plan[q][b] /\ disk'[t][b] = plan[q][b]
      BY <1>1, <1>7 DEF CollectedUntilPurged
  <2>1. PICK t \in {0, q} : fs[t][b] = plan[q][b] /\ disk[t][b] = plan[q][b]
      BY DEF CInv, CollectedUntilPurged
  <2>2. t \in Tree /\ t # r /\ b \in Blob
      BY <1>3, <1>4, <1>7
  <2> QED BY <1>5, <2>1, <2>2
<1>12. RunsReadable'
  <2> SUFFICES ASSUME NEW q \in Run PROVE Readable(q)'
      BY DEF RunsReadable
  <2>1. Readable(q)
      BY DEF CInv, RunsReadable
  <2>2. Candidates(q) = {} => \A b \in Blob : fs'[q][b] = fs[q][b]
      BY <1>3, <1>4, <1>5
  <2> QED BY <1>1, <1>7, <2>1, <2>2 DEF Readable
<1>13. Heads' = Heads /\ Marked' = Marked
    BY <1>1, RefsSame
<1>14. LiveNeverLost'
  <2> SUFFICES ASSUME NEW m \in Heads, NEW b \in Blob \ exposed, m.blobs[b] # None
               PROVE  Kept(b, m.blobs[b])'
      BY <1>1, <1>13 DEF LiveNeverLost
  <2>1. b # c
      BY <1>3 DEF Marked
  <2>2. PICK t \in Tree : fs[t][b] = m.blobs[b] /\ disk[t][b] = m.blobs[b]
                          /\ (t = 0 => b \notin unsynced)
      BY DEF CInv, LiveNeverLost, Kept
  <2> QED BY <1>1, <1>5, <2>1, <2>2 DEF Kept
<1>15. Shape'
    BY <1>1, <1>5, <1>6 DEF CInv, Shape
<1>16. PurgeUnderway'
    BY <1>1, <1>3, <1>6, <1>7, <1>13 DEF CInv, Underway, PurgeUnderway
<1>17. Underway'
    BY <1>6, <1>16 DEF Underway, ImportUnderway, SealUnderway, MoveUnderway, GcUnderway,
                       RecoverUnderway
<1> QED BY <1>8, <1>9, <1>10, <1>11, <1>12, <1>14, <1>15, <1>17 DEF CInv

-----------------------------------------------------------------------------
(***************************************************************************)
(* The theorems.                                                           *)
(***************************************************************************)
\* An empty cache has nothing to lose.
LEMMA InitCInv == Init => CInv
<1> SUFFICES ASSUME Init PROVE CInv
    OBVIOUS
<1>1. None \in Value
    BY DEF Value
<1>2. OpShape(op) /\ op.todo = {} /\ op.kind = "idle"
    BY DEF Init, Idle, OpShape
<1>3. Shape
    BY <1>1, <1>2 DEF Init, Shape
<1>4. \A r \in Run, b \in Blob : plan[r][b] = None /\ fs[r][b] = None /\ disk[r][b] = None
    BY TreeFacts DEF Init
<1>5. \A r \in Run : Candidates(r) = {} /\ ~Incomplete(r) /\ ~Complete(r) /\ markers[r] = {}
    BY <1>4 DEF Candidates, Incomplete, Complete, Init
<1>6. Heads = {}
    BY DEF Heads, Init
<1>7. OnlyPlanned /\ OneIncomplete /\ Synced /\ CompleteHeld /\ CollectedUntilPurged
    BY <1>4, <1>5 DEF OnlyPlanned, OneIncomplete, Synced, CompleteHeld, CollectedUntilPurged
<1>8. RunsReadable
    BY <1>4, <1>5 DEF RunsReadable, Readable
<1>9. LiveNeverLost
    BY <1>6 DEF LiveNeverLost
<1>10. Underway
    BY <1>2 DEF Underway, ImportUnderway, SealUnderway, MoveUnderway, GcUnderway, RecoverUnderway,
                PurgeUnderway
<1> QED BY <1>3, <1>7, <1>8, <1>9, <1>10 DEF CInv

\* Every step of the lifecycle, and every fault, keeps the invariant.
LEMMA NextCInv == CInv /\ [Next]_vars => CInv'
<1> SUFFICES ASSUME CInv, [Next]_vars PROVE CInv'
    OBVIOUS
<1>1. ASSUME NEW b \in Blob, NEW c \in Content, EngineWrite(b, c) PROVE CInv'
    BY <1>1, EngineWriteKeeps
<1>2. ASSUME NEW bs \in Selections, ImportStart(bs) PROVE CInv'
    BY <1>2, ImportSteps
<1>3. ASSUME NEW br \in Branch, NEW bs \in Selections, SealStart(br, bs) PROVE CInv'
    BY <1>3, SealStartKeeps
<1>4. ASSUME NEW br \in Branch, RetireStart(br) PROVE CInv'
    BY <1>4, RetireStartKeeps
<1>5. ASSUME NEW m \in retired, RestoreRef(m) PROVE CInv'
    BY <1>5, RestoreRefKeeps
<1>6. ASSUME NEW r \in Run, GcStart(r) \/ RecoverStart(r) \/ PurgeStart(r) PROVE CInv'
    BY <1>6, GcStartKeeps, RecoverStartKeeps, PurgeStartKeeps
<1>7. CASE ImportCopy \/ ImportLink \/ ImportUnlink \/ ImportEnd
    BY <1>7, ImportSteps, ImportLinkKeeps
<1>8. CASE SealManifest \/ SealRef \/ RetireUnlink
    BY <1>8, SealManifestKeeps, SealRefKeeps, RetireUnlinkKeeps
<1>9. CASE CopyTemp \/ CopyRename \/ CopySync \/ RecoverSkip
    BY <1>9, CopyTempKeeps, CopyRenameKeeps, CopySyncKeeps
<1>10. CASE Unlink \/ SyncUnlink
  <2>1. op.kind \in {"gc", "recover"} \/ op.kind = "purge"
      BY <1>10 DEF Unlink, SyncUnlink, Working
  <2> QED BY <1>10, <2>1, UnlinkKeeps, SyncUnlinkKeeps, PurgeStepKeeps
<1>11. CASE GcComplete \/ RecoverDefer \/ RecoverUndefer \/ RecoverComplete \/ PurgeComplete
    BY <1>11, CompletionKeeps, UndeferKeeps
<1>12. CASE Kill \/ PowerLoss
    BY <1>12, KillKeeps, PowerLossKeeps
<1>13. CASE UNCHANGED vars
  <2>1. UNCHANGED <<fs, disk, unsynced, plan, markers, refs, op, exposed>>
      BY <1>13 DEF vars
  <2>2. Shape' /\ OnlyPlanned' /\ OneIncomplete' /\ CompleteHeld'
    <3>1. Shape'
        BY <2>1 DEF CInv, Shape, OpShape
    <3>2. OnlyPlanned' /\ OneIncomplete' /\ CompleteHeld'
        BY <2>1, RunsSame DEF CInv, OnlyPlanned, OneIncomplete, CompleteHeld
    <3> QED BY <3>1, <3>2
  <2>3. Synced'
      BY <2>1 DEF CInv, Synced, Settling, Current, Source, Destination, Incomplete, Candidates,
                  Complete
  <2>4. LiveNeverLost' /\ CollectedUntilPurged' /\ RunsReadable'
      BY <2>1 DEF CInv, LiveNeverLost, CollectedUntilPurged, RunsReadable, Heads, Kept, Candidates,
                  Readable, Complete
  <2>5. Underway'
      BY <2>1 DEF CInv, Underway, ImportUnderway, SealUnderway, MoveUnderway, GcUnderway,
                  RecoverUnderway, PurgeUnderway, StageHolds, InPlace, Current, Source, Destination,
                  Incomplete, Candidates, Complete, StillLive, Marked, Heads, Agrees
  <2> QED BY <2>2, <2>3, <2>4, <2>5 DEF CInv
<1> QED BY <1>1, <1>2, <1>3, <1>4, <1>5, <1>6, <1>7, <1>8, <1>9, <1>10, <1>11, <1>12, <1>13
        DEF Next, Proceed

\* The inductive invariant of the persistent cache (persistent_cache.py) holds in
\* every reachable state, for any number of runs, payloads, kills and power losses.
THEOREM CacheInvariant == Spec => []CInv
<1>1. Init => CInv
    BY InitCInv
<1>2. CInv /\ [Next]_vars => CInv'
    BY NextCInv
<1> QED BY <1>1, <1>2, PTL DEF Spec

\* A payload that a live ref names is never lost: whatever collection, recovery or
\* purge is killed or meets a power loss, and however often (_copy_unlink_durable,
\* recover_quarantine, purge_quarantine).
THEOREM LiveIsNeverLost == Spec => []LiveNeverLost
<1>1. CInv => LiveNeverLost
    BY DEF CInv
<1> QED BY <1>1, CacheInvariant, PTL

\* A collected payload stays on stable storage until the purge of its run begins.
THEOREM CollectedStaysUntilPurged == Spec => []CollectedUntilPurged
<1>1. CInv => CollectedUntilPurged
    BY DEF CInv
<1> QED BY <1>1, CacheInvariant, PTL

\* No fault leaves a run directory that _incomplete_run_ids refuses.
THEOREM RunsStayReadable == Spec => []RunsReadable
<1>1. CInv => RunsReadable
    BY DEF CInv
<1> QED BY <1>1, CacheInvariant, PTL
=============================================================================
