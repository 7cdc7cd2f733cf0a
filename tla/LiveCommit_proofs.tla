------------------------- MODULE LiveCommit_proofs -------------------------
(***************************************************************************)
(* What the live commit promises, for any number of rounds, deaths and     *)
(* faults: released tokens are verified and never taken back, a            *)
(* quarantined candidate stays quarantined, and, when the process only     *)
(* dies, the next start succeeds, unless a file was cut or a resolved      *)
(* intent was written again.                                               *)
(***************************************************************************)
EXTENDS LiveCommit, FiniteSetTheorems, WellFoundedInduction, TLAPS

(***************************************************************************)
(* The inductive invariant under any faults.                               *)
(***************************************************************************)
Running == job \in RoundType

Recovering == job \in RecoveryType

\* The controller has read the journal: its fields mean something.
Alive == up \/ job # None

FileType ==
    CounterexampleType \cup IntentType
      \cup [kind : {"receipt"}, of : IntentType]
      \cup [kind : {"recovery"}, of : IntentType, how : {"committed", "rolled_back"},
            counterexample : CounterexampleType \cup {None}]

MemType ==
    [receipts : Seq(IntentType), quarantined : BOOLEAN,
     counterexample : CounterexampleType \cup {None}, open : State \cup {None},
     pending : IntentType \cup {None}, closed : BOOLEAN]

Types ==
    /\ files \in SUBSET FileType /\ IsFiniteSet(files)
    /\ canonical \in State
    /\ up \in BOOLEAN
    /\ mem \in MemType
    /\ job \in RoundType \cup RecoveryType \cup {None}
    /\ crashes \in Nat /\ faults \in Nat
    /\ released \in Seq(IntentType)

\* Which calls are under way, and what the gate's own fields are meanwhile.
Phases ==
    /\ Running => up /\ mem.open = job.before
    /\ Recovering => ~up /\ mem.open = None /\ mem.pending = None
    /\ ~Alive => mem = Fresh
    /\ mem.open # None => mem.pending = None /\ (job = None => mem.open = canonical)

\* A state that the serial transition leads to.
Serial(before, n) == IF n = 0 THEN before ELSE Append(before, "s")

\* Whatever names an intent or a counterexample was written after it.
Sound(i) ==
    /\ i \in files
    /\ i.selected \in {i.before, Append(i.before, "s")}
    /\ i.counterexample # None => i.counterexample \in files
    /\ i.cand # i.selected => i.counterexample # None

Journal ==
    /\ \A i \in Of("intent") : Sound(i)
    /\ \A f \in Of("receipt") : f.of \in files
    /\ \A f \in Of("recovery") :
         f.of \in files /\ (f.how = "rolled_back" => f.counterexample \in files)
    /\ mem.counterexample # None => mem.counterexample \in files

\* What a round knows when it has come to a step.
RoundKnows ==
    Running =>
        /\ job.step # "failed" =>
             Extends(job.before, mem.receipts) /\ job.round = Len(mem.receipts) + 1
        /\ job.step \in {"compare", "intent", "publish", "destroy", "receipt"} =>
             job.serial = Serial(job.before, job.n)
        /\ job.step = "intent" => (job.cand # job.serial => mem.counterexample # None)
        /\ job.step \in {"publish", "destroy", "receipt"} =>
             /\ job.intent \in Of("intent")
             /\ job.intent.before = job.before /\ job.intent.round = job.round
             /\ job.intent.selected = job.serial
             /\ job.intent.enabled = ~mem.quarantined
        /\ job.step \in {"destroy", "receipt"} /\ job.n = 1 => canonical = job.intent.selected

\* And what a recovery knows.
RecoveryKnows ==
    Recovering =>
        /\ job.intent \in Of("intent")
        /\ job.step \in {"recover", "evidence"} => Extends(job.intent.before, mem.receipts)
        /\ job.step \in {"evidence", "recovery"} => job.how \in {"committed", "rolled_back"}
        /\ job.step = "recovery" /\ job.how = "rolled_back" =>
             mem.quarantined /\ Rollback \in files

\* The state leads on from the tokens that were released last.
Kept(state) == released # << >> => IsPrefix(Last(released).selected, state)

\* Every state that the canonical root may be set to leads on from them.
StatesKept ==
    /\ mem.open # None => Kept(mem.open)
    /\ Recovering => Kept(job.intent.before)
    /\ Alive /\ released # << >> => mem.receipts # << >>
    /\ mem.receipts # << >> => Kept(Last(mem.receipts).selected)

\* The round whose tokens wait for their release.
PendingVerified ==
    mem.pending # None =>
        /\ mem.receipts # << >> /\ mem.pending = Last(mem.receipts)
        /\ mem.pending \in Of("intent") /\ Receipt(mem.pending) \in files
        /\ mem.pending.selected = Append(mem.pending.before, "s")
        /\ canonical = mem.pending.selected
        /\ Kept(mem.pending.before)

\* The candidate runs only in a process that has not quarantined it, and that
\* process has read all evidence of a quarantine or has written it.
QuarantineKnown ==
    /\ Alive /\ Quarantined => mem.quarantined
    /\ At("candidate") => ~mem.quarantined

LInv ==
    /\ Types /\ Phases /\ Journal /\ RoundKnows /\ RecoveryKnows
    /\ StatesKept /\ PendingVerified /\ QuarantineKnown /\ ReleasedIsVerified

(***************************************************************************)
(* The inductive invariant when the process only dies.                     *)
(***************************************************************************)
Clean == faults = 0 /\ torn = {} /\ revived = {}

\* The state that the receipts lead to.
Reached(receipts) == IF receipts = << >> THEN << >> ELSE Last(receipts).selected

\* The intent of the round after the last receipt.
NextOfChain(i) ==
    /\ i.round = Len(Receipts) + 1
    /\ i.before = Reached(Receipts)
    /\ (\E j \in Receipted : ~j.enabled) => i.mode = "quarantined_serial"

\* The intent that has neither receipt nor recovery is that of the call under way.
JobPending ==
    \/ Running /\ job.step \in {"publish", "destroy", "receipt"}
    \/ Recovering /\ (job.step = "recovery" => job.how = "rolled_back")

Interrupted ==
    /\ \A i \in Unresolved : NextOfChain(i)
    /\ \A i, j \in Unresolved : i = j
    /\ Alive => Unresolved = IF JobPending THEN {job.intent} ELSE {}

\* The round of a candidate has not been quarantined by a receipt.
CandidateAllowed ==
    Running /\ (\E i \in Receipted : ~i.enabled) => job.cand = None /\ ~job.fault

\* Where the canonical root stands at each moment.
RootStands ==
    /\ Running =>
         /\ job.step # "restore" /\ job.before = Reached(mem.receipts)
         /\ canonical = IF job.step \in {"destroy", "receipt"} THEN job.intent.selected
                        ELSE job.before
    /\ up /\ job = None => canonical = Reached(mem.receipts)
    /\ ~Alive => canonical \in {Reached(Receipts)} \cup {i.selected : i \in Unresolved}

\* And what a recovery has found and written.
RecoveryStands ==
    Recovering =>
        /\ \A f \in Of("recovery") : f.of # job.intent
        /\ canonical \in
             IF job.step = "recover" THEN {job.intent.before, job.intent.selected}
             ELSE IF job.how = "committed" THEN {job.intent.selected} ELSE {job.intent.before}
        /\ job.step = "recovery" /\ job.how = "committed" =>
             job.intent \in Receipted /\ Reached(mem.receipts) = job.intent.selected

ChainHolds ==
    /\ ReceiptsChain /\ OneRecoveryEach /\ RecoveriesAgree
    /\ Alive => mem.receipts = Receipts

DParts ==
    /\ ChainHolds /\ Interrupted /\ CandidateAllowed
    /\ RootStands /\ RecoveryStands

DInv == Clean => DParts

(***************************************************************************)
(* Prefixes.                                                               *)
(***************************************************************************)
\* A prefix, element by element.
LEMMA PrefixElements ==
    ASSUME NEW s \in State, NEW t \in State
    PROVE  IsPrefix(s, t) <=> Len(s) <= Len(t) /\ \A k \in 1..Len(s) : s[k] = t[k]
<1>1. Len(s) \in Nat /\ Len(t) \in Nat
    BY DEF State
<1>2. SubSeq(s, 1, Len(s)) = [k \in 1..Len(s) |-> s[k]]
    BY DEF State
<1>3. ASSUME Len(s) <= Len(t)
      PROVE  SubSeq(t, 1, Len(s)) = [k \in 1..Len(s) |-> t[k]]
    BY <1>1, <1>3 DEF State
<1>4. [k \in 1..Len(s) |-> s[k]] = [k \in 1..Len(s) |-> t[k]]
        <=> \A k \in 1..Len(s) : s[k] = t[k]
    OBVIOUS
<1>5. CASE Len(s) <= Len(t)
    BY <1>2, <1>3, <1>4, <1>5 DEF IsPrefix
<1>6. CASE ~(Len(s) <= Len(t))
    BY <1>6 DEF IsPrefix
<1> QED BY <1>5, <1>6

\* Every state leads on from itself and to itself with one more batch.
LEMMA PrefixReflexive ==
    ASSUME NEW s \in State, NEW b \in {"s", "x", "m"}
    PROVE  IsPrefix(s, s) /\ Append(s, b) \in State /\ IsPrefix(s, Append(s, b))
<1>1. Append(s, b) \in State /\ Len(Append(s, b)) = Len(s) + 1
      /\ \A k \in 1..Len(s) : Append(s, b)[k] = s[k]
    BY DEF State
<1>2. Len(s) \in Nat
    BY DEF State
<1>3. IsPrefix(s, s)
    BY <1>2, PrefixElements
<1>4. PICK a : a = Append(s, b)
    OBVIOUS
<1>5. a \in State /\ Len(s) <= Len(a) /\ \A k \in 1..Len(s) : s[k] = a[k]
    BY <1>1, <1>2, <1>4
<1>6. IsPrefix(s, a)
    BY <1>5, PrefixElements
<1> QED BY <1>1, <1>3, <1>4, <1>6

\* What leads on from a state leads on from its prefixes.
LEMMA PrefixTransitive ==
    ASSUME NEW s \in State, NEW t \in State, NEW u \in State,
           IsPrefix(s, t), IsPrefix(t, u)
    PROVE  IsPrefix(s, u)
<1>1. Len(s) \in Nat /\ Len(t) \in Nat /\ Len(u) \in Nat
    BY DEF State
<1> QED BY <1>1, PrefixElements

(***************************************************************************)
(* Types.                                                                  *)
(***************************************************************************)
\* Rounds and recoveries are different, and neither is None.
LEMMA JobKind ==
    /\ \A j \in RoundType : j # None /\ j \notin RecoveryType
    /\ \A j \in RecoveryType : j # None /\ j \notin RoundType
<1>1. \A j \in RoundType : j.step \in {"candidate", "restore", "serial", "compare", "intent",
                             "publish", "destroy", "receipt", "failed"}
    BY DEF RoundType
<1>2. \A j \in RecoveryType : j.step \in {"recover", "evidence", "recovery"}
    BY DEF RecoveryType
<1>3. None \notin RoundType /\ None \notin RecoveryType
    BY LiveAssumption
<1> QED BY <1>1, <1>2, <1>3

\* A call that has come to a step of run_round is a round, and one that has come
\* to a step of _recover_intent a recovery.
LEMMA JobKinds ==
    ASSUME Types
    PROVE  /\ Running => job # None /\ ~Recovering
           /\ Recovering => job # None
           /\ job # None => Running \/ Recovering
           /\ \A step \in {"candidate", "restore", "serial", "compare", "intent", "publish",
                           "destroy", "receipt", "failed"} : At(step) => Running
           /\ \A step \in {"recover", "evidence", "recovery"} : At(step) => Recovering
<1>1. \A j \in RoundType : j.step \in {"candidate", "restore", "serial", "compare", "intent",
                             "publish", "destroy", "receipt", "failed"}
    BY DEF RoundType
<1>2. \A j \in RecoveryType : j.step \in {"recover", "evidence", "recovery"}
    BY DEF RecoveryType
<1>3. job \in RoundType \/ job \in RecoveryType \/ job = None
    BY DEF Types
<1>4. None \notin RoundType /\ None \notin RecoveryType
    BY LiveAssumption
<1> HIDE DEF RoundType, RecoveryType
<1>5. ~(job \in RoundType /\ job \in RecoveryType)
    BY <1>1, <1>2
<1> QED BY <1>1, <1>2, <1>3, <1>4, <1>5 DEF At, Running, Recovering

\* What a round's fields are.
LEMMA RoundFields ==
    ASSUME Running
    PROVE  /\ job.round \in Nat /\ job.n \in {0, 1} /\ job.before \in State
           /\ job.cand \in State \cup {None} /\ job.serial \in State \cup {None}
           /\ job.fault \in BOOLEAN /\ job.intent \in IntentType \cup {None}
           /\ job.roots \in Roots
BY DEF Running, RoundType

\* A write adds the file, completely or not at all, and removes none.
LEMMA WriteAdds ==
    ASSUME Types, NEW f \in FileType, Write(f) \/ WriteFails(f)
    PROVE  /\ files' \in {files, files \cup {f}}
           /\ files' \in SUBSET FileType /\ IsFiniteSet(files')
           /\ files \subseteq files'
<1>1. files' \in {files, files \cup {f}}
    BY DEF Write, WriteFails
<1>2. IsFiniteSet(files \cup {f})
    BY FS_AddElement DEF Types
<1> QED BY <1>1, <1>2 DEF Types

\* What a complete write does.
LEMMA WriteCompletes ==
    ASSUME Types, NEW f \in FileType, Write(f)
    PROVE  files' = files \cup {f} /\ f \in files'
BY DEF Write

\* The state a private execution leads to.
LEMMA ResultIsState ==
    ASSUME Running, NEW b \in {"s", "x", "m"}
    PROVE  Result(b) \in State /\ Append(job.before, b) \in State
BY RoundFields, PrefixReflexive DEF Result

\* What the controller's fields are.
LEMMA MemFields ==
    ASSUME Types
    PROVE  /\ mem.receipts \in Seq(IntentType) /\ Len(mem.receipts) \in Nat
           /\ mem.quarantined \in BOOLEAN
           /\ mem.counterexample \in CounterexampleType \cup {None}
           /\ mem.open \in State \cup {None} /\ mem.pending \in IntentType \cup {None}
           /\ mem.closed \in BOOLEAN
<1>1. mem \in MemType
    BY DEF Types
<1>2. mem.receipts \in Seq(IntentType)
    BY <1>1 DEF MemType
<1> QED BY <1>1, <1>2 DEF MemType

\* The intent a round writes: what it selects is the serial state, and it names a
\* counterexample exactly when the candidate did not lead there.
LEMMA IntentShape ==
    ASSUME Types, RoundKnows, At("intent")
    PROVE  /\ Intent \in IntentType
           /\ Intent.before = job.before /\ Intent.round = job.round
           /\ Intent.cand = job.cand /\ Intent.selected = job.serial
           /\ Intent.enabled = ~mem.quarantined
           /\ Intent.counterexample = IF job.cand = job.serial THEN None
                                      ELSE mem.counterexample
           /\ Intent.mode = IF job.cand # None THEN "validated_candidate"
                            ELSE IF job.fault THEN "candidate_fault_serial"
                            ELSE "quarantined_serial"
<1>1. Running
    BY JobKinds
<1>2. job.serial \in State
    BY <1>1, RoundFields, PrefixReflexive DEF RoundKnows, At, Serial
<1>3. PICK sel : sel = IF Selected = "candidate" THEN job.cand ELSE job.serial
    OBVIOUS
<1>4. sel = job.serial /\ Selected \in {"candidate", "serial"}
    BY <1>3 DEF Selected
<1>5. PICK mode : mode = IF job.cand # None THEN "validated_candidate"
                         ELSE IF job.fault THEN "candidate_fault_serial"
                         ELSE "quarantined_serial"
    OBVIOUS
<1>6. mode \in {"validated_candidate", "candidate_fault_serial", "quarantined_serial"}
    BY <1>5
<1>7. PICK c : c = IF job.cand = job.serial THEN None ELSE mem.counterexample
    OBVIOUS
<1>8. c \in CounterexampleType \cup {None}
    BY <1>7, MemFields
<1>9. PICK r : r = job.roots
    OBVIOUS
<1>10. r \in Roots
    BY <1>1, <1>9, RoundFields
<1>11. PICK e : e = ~mem.quarantined
    OBVIOUS
<1>12. e \in BOOLEAN
    BY <1>11
<1>13. Intent = [kind |-> "intent", round |-> job.round, before |-> job.before,
                 cand |-> job.cand, serial |-> job.serial, by |-> Selected,
                 selected |-> sel, mode |-> mode, counterexample |-> c,
                 enabled |-> e, roots |-> r]
    BY <1>3, <1>5, <1>7, <1>9, <1>11, Zenon DEF Intent
<1>14. Intent \in IntentType
    BY <1>1, <1>2, <1>4, <1>6, <1>8, <1>10, <1>12, <1>13, RoundFields DEF IntentType
<1>15. /\ Intent.before = job.before /\ Intent.round = job.round
       /\ Intent.cand = job.cand /\ Intent.selected = sel
       /\ Intent.enabled = e /\ Intent.counterexample = c
       /\ Intent.mode = mode
    BY <1>13
<1> QED BY <1>14, <1>15, <1>4, <1>5, <1>7, <1>11

\* Counterexamples, receipts and recoveries are files.
LEMMA EvidenceTyped ==
    ASSUME NEW i \in IntentType
    PROVE  /\ i \in FileType /\ Receipt(i) \in FileType
           /\ Receipt(i).kind = "receipt" /\ Receipt(i).of = i
           /\ Counterexample(i, "rollback") \in CounterexampleType
           /\ \A how \in {"committed", "rolled_back"}, c \in CounterexampleType \cup {None} :
                /\ Recovery(i, how, c) \in FileType
                /\ Recovery(i, how, c).kind = "recovery" /\ Recovery(i, how, c).of = i
                /\ Recovery(i, how, c).how = how /\ Recovery(i, how, c).counterexample = c
<1>1. Receipt(i) \in FileType /\ Receipt(i).kind = "receipt" /\ Receipt(i).of = i
    BY DEF Receipt, FileType
<1>2. Counterexample(i, "rollback") \in CounterexampleType
    BY DEF Counterexample, CounterexampleType, IntentType
<1>3. ASSUME NEW how \in {"committed", "rolled_back"}, NEW c \in CounterexampleType \cup {None}
      PROVE  /\ Recovery(i, how, c) \in FileType
             /\ Recovery(i, how, c).kind = "recovery" /\ Recovery(i, how, c).of = i
             /\ Recovery(i, how, c).how = how /\ Recovery(i, how, c).counterexample = c
    BY <1>3 DEF Recovery, FileType
<1> QED BY <1>1, <1>2, <1>3 DEF FileType

\* The counterexample of a round: there is one exactly when the candidate raised or
\* led to another state than the serial transition.
LEMMA EvidenceShape ==
    ASSUME Types, Running
    PROVE  /\ Evidence \in CounterexampleType \cup {None}
           /\ Evidence = None <=> ~job.fault /\ ~Differs
<1>1. \A why \in {"fault", "difference"} : Counterexample(job, why) \in CounterexampleType
    BY RoundFields DEF Counterexample, CounterexampleType
<1>2. None \notin CounterexampleType
    BY LiveAssumption
<1> QED BY <1>1, <1>2 DEF Evidence

\* Files by kind.
LEMMA Kinds ==
    ASSUME Types
    PROVE  /\ \A f \in Of("intent") : f \in files /\ f \in IntentType
           /\ \A f \in Of("receipt") : f \in files /\ f.of \in IntentType /\ f = Receipt(f.of)
           /\ \A f \in Of("recovery") :
                /\ f \in files /\ f.of \in IntentType /\ f.how \in {"committed", "rolled_back"}
                /\ f.counterexample \in CounterexampleType \cup {None}
           /\ \A i \in IntentType : i \in files => i \in Of("intent")
<1>1. \A f \in files : \/ f \in CounterexampleType
                       \/ f \in IntentType
                       \/ f \in [kind : {"receipt"}, of : IntentType]
                       \/ f \in [kind : {"recovery"}, of : IntentType,
                                 how : {"committed", "rolled_back"},
                                 counterexample : CounterexampleType \cup {None}]
    BY DEF Types, FileType
<1>2. \A f \in CounterexampleType : f.kind = "counterexample"
    BY DEF CounterexampleType
<1>3. \A f \in IntentType : f.kind = "intent"
    BY DEF IntentType
<1>4. \A f \in Of("intent") : f \in files /\ f \in IntentType
    BY <1>1, <1>2, <1>3 DEF Of
<1>5. \A f \in Of("receipt") : f \in [kind : {"receipt"}, of : IntentType]
    BY <1>1, <1>2, <1>3 DEF Of
<1>6. \A f \in [kind : {"receipt"}, of : IntentType] : f.of \in IntentType /\ f = Receipt(f.of)
    BY DEF Receipt
<1>7. \A f \in Of("recovery") : f \in [kind : {"recovery"}, of : IntentType,
                                 how : {"committed", "rolled_back"},
                                 counterexample : CounterexampleType \cup {None}]
    BY <1>1, <1>2, <1>3 DEF Of
<1>8. \A f \in [kind : {"recovery"}, of : IntentType, how : {"committed", "rolled_back"},
                counterexample : CounterexampleType \cup {None}] :
        /\ f.of \in IntentType /\ f.how \in {"committed", "rolled_back"}
        /\ f.counterexample \in CounterexampleType \cup {None}
    OBVIOUS
<1>9. \A i \in IntentType : i \in files => i \in Of("intent")
    BY <1>3 DEF Of
<1>10. \A f \in Of("receipt") : f \in files /\ f.of \in IntentType /\ f = Receipt(f.of)
    BY <1>5, <1>6 DEF Of
<1>11. \A f \in Of("recovery") :
          /\ f \in files /\ f.of \in IntentType /\ f.how \in {"committed", "rolled_back"}
          /\ f.counterexample \in CounterexampleType \cup {None}
    BY <1>7, <1>8 DEF Of
<1> QED BY <1>4, <1>9, <1>10, <1>11

(***************************************************************************)
(* Steps.                                                                  *)
(***************************************************************************)
\* A step that leaves the journal and the released tokens alone keeps both, if the
\* canonical root still leads on from the tokens.
LEMMA SameFiles ==
    ASSUME LInv, UNCHANGED <<files, released>>, mem'.counterexample = mem.counterexample,
           Kept(canonical')
    PROVE  Journal' /\ ReleasedIsVerified'
<1>1. Journal'
    BY DEF LInv, Journal, Of, Sound
<1>2. ReleasedIsVerified'
    BY DEF LInv, ReleasedIsVerified, Kept
<1> QED BY <1>1, <1>2

\* Gate.begin: a snapshot of the canonical root opens a round.
\* (Under any faults.)
LEMMA BeginKeeps == ASSUME LInv, Begin PROVE LInv'
<1> USE DEF Begin
<1>0. /\ Types /\ job = None /\ up /\ mem.open = None /\ mem.pending = None
      /\ UNCHANGED <<files, torn, canonical, up, job, crashes, faults, released>>
      /\ mem' = [mem EXCEPT !.open = canonical]
      /\ ~Running /\ ~Recovering /\ None \notin State /\ canonical \in State
    BY JobKinds, LiveAssumption DEF LInv, Idle, Types
<1>m. /\ mem' \in MemType
      /\ mem'.receipts = mem.receipts /\ mem'.quarantined = mem.quarantined
      /\ mem'.counterexample = mem.counterexample /\ mem'.open = canonical
      /\ mem'.pending = None
    BY <1>0 DEF Types, MemType
<1>1. Types'
    BY <1>0, <1>m DEF Types
<1>2. Phases'
    BY <1>0, <1>m DEF Phases, Running, Recovering, Alive
<1>3. RoundKnows' /\ RecoveryKnows'
    BY <1>0 DEF RoundKnows, RecoveryKnows, Running, Recovering
<1>4. Kept(canonical)
    BY DEF LInv, ReleasedIsVerified, Kept
<1>5. StatesKept'
    BY <1>0, <1>m, <1>4 DEF LInv, StatesKept, Kept, Recovering, Alive
<1>6. PendingVerified'
    BY <1>m DEF PendingVerified
<1>7. QuarantineKnown'
    BY <1>0, <1>m DEF LInv, QuarantineKnown, Alive, Quarantined, Receipted, RolledBack, Of, At
<1>8. Journal' /\ ReleasedIsVerified'
    BY <1>0, <1>m, <1>4, SameFiles
<1> QED BY <1>1, <1>2, <1>3, <1>5, <1>6, <1>7, <1>8 DEF LInv

\* A round waits for no release, and its first state leads on from the tokens.
LEMMA RoundFacts ==
    ASSUME LInv, Running
    PROVE  /\ Types /\ up /\ Alive /\ mem.open = job.before /\ mem.pending = None
           /\ job # None /\ ~Recovering /\ canonical \in State /\ faults \in Nat
           /\ Kept(canonical) /\ Kept(job.before)
<1>1. /\ Types /\ up /\ mem.open = job.before /\ job # None /\ ~Recovering
      /\ canonical \in State /\ faults \in Nat
    BY JobKinds DEF LInv, Phases, Types
<1>2. mem.open # None
    BY <1>1, RoundFields, LiveAssumption
<1>3. mem.pending = None /\ Kept(mem.open)
    BY <1>2 DEF LInv, Phases, StatesKept
<1>4. Kept(canonical)
    BY DEF LInv, ReleasedIsVerified, Kept
<1> QED BY <1>1, <1>3, <1>4 DEF Alive

\* A step of a round that touches no file: what is left to show is what the round
\* knows afterwards, and that the canonical root leads on from the tokens.
LEMMA RoundStep ==
    ASSUME LInv, Running, UNCHANGED <<files, up, crashes, released>>,
           job' \in RoundType, job'.before = job.before, job'.step # "candidate",
           mem' \in MemType, mem'.receipts = mem.receipts, mem'.open = mem.open,
           mem'.counterexample = mem.counterexample, mem'.pending = mem.pending,
           mem.quarantined => mem'.quarantined,
           canonical' \in State, Kept(canonical'), faults' \in Nat, RoundKnows'
    PROVE  LInv'
<1>0. /\ Types /\ up /\ Alive /\ mem.open = job.before /\ mem.pending = None
      /\ job # None /\ ~Recovering
    BY RoundFacts
<1>1. Types'
    BY <1>0 DEF Types
<1>2. Running' /\ job' # None /\ ~Recovering' /\ Alive'
    BY JobKind DEF Running, Recovering, Alive
<1>3. Phases'
    BY <1>0, <1>2 DEF Phases
<1>4. RecoveryKnows'
    BY <1>2 DEF RecoveryKnows
<1>5. StatesKept'
    BY <1>0, <1>2 DEF LInv, StatesKept, Kept
<1>6. PendingVerified'
    BY <1>0 DEF PendingVerified
<1>7. QuarantineKnown'
    BY <1>0 DEF LInv, QuarantineKnown, Quarantined, Receipted, RolledBack, Of, At
<1>8. Journal' /\ ReleasedIsVerified'
    BY SameFiles
<1> QED BY <1>1, <1>3, <1>4, <1>5, <1>6, <1>7, <1>8 DEF LInv

\* Appending a batch to a state keeps what the state leads on from.
LEMMA KeptAppend ==
    ASSUME Types, NEW s \in State, Kept(s), NEW b \in {"s", "x", "m"}
    PROVE  Append(s, b) \in State /\ Kept(Append(s, b))
<1>1. PICK a : a = Append(s, b)
    OBVIOUS
<1>2. a \in State /\ IsPrefix(s, a)
    BY <1>1, PrefixReflexive
<1>3. ASSUME released # << >> PROVE IsPrefix(Last(released).selected, a)
  <2>1. Last(released) \in IntentType
      BY <1>3 DEF Types, Last
  <2>2. Last(released).selected \in State
      BY <2>1 DEF IntentType
  <2> QED BY <1>2, <1>3, <2>2, PrefixTransitive DEF Kept
<1> QED BY <1>1, <1>2, <1>3 DEF Kept

\* The candidate runs on the snapshot.
\* (Under any faults.)
LEMMA RunCandidateKeeps == ASSUME LInv, RunCandidate PROVE LInv'
<1>1. At("candidate") /\ Running
    BY JobKinds DEF LInv, RunCandidate
<1>2. PICK state \in {Result("s"), Append(job.before, "x")} :
            job' = [job EXCEPT !.cand = state, !.step = "serial"]
    BY DEF RunCandidate
<1>3. state \in State
    BY <1>1, <1>2, ResultIsState
<1>4. /\ job' \in RoundType /\ job'.before = job.before /\ job'.step = "serial"
      /\ job'.round = job.round
    BY <1>1, <1>2, <1>3 DEF Running, RoundType
<1>5. UNCHANGED <<files, torn, canonical, up, mem, crashes, faults, released>>
    BY DEF RunCandidate
<1>6. job.step # "failed"
    BY <1>1 DEF At
<1>7. RoundKnows'
    BY <1>1, <1>4, <1>5, <1>6 DEF LInv, RoundKnows, Extends
<1> QED BY <1>1, <1>4, <1>5, <1>7, RoundFacts, RoundStep DEF LInv, Types

\* The candidate's run raises and leaves any canonical state.
\* (Under any faults.)
LEMMA CandidateFailsKeeps == ASSUME LInv, CandidateFails PROVE LInv'
<1>1. At("candidate") /\ Running
    BY JobKinds DEF LInv, CandidateFails
<1>2. job' = [job EXCEPT !.step = "restore"] /\ faults' = faults + 1
    BY DEF CandidateFails, Step, Fault
<1>3. /\ job' \in RoundType /\ job'.before = job.before /\ job'.step = "restore"
      /\ job'.round = job.round
    BY <1>1, <1>2 DEF Running, RoundType
<1>4. UNCHANGED <<files, torn, auth, up, mem, crashes, released>>
    BY DEF CandidateFails
<1>5. job.step # "failed"
    BY <1>1 DEF At
<1>6. RoundKnows'
    BY <1>1, <1>3, <1>4, <1>5 DEF LInv, RoundKnows, Extends
<1>7. canonical' \in State /\ Kept(canonical')
    BY <1>1, RoundFacts, KeptAppend DEF CandidateFails, Overwritten
<1> QED BY <1>1, <1>2, <1>3, <1>4, <1>6, <1>7, RoundFacts, RoundStep DEF LInv, Types

\* The snapshot is restored and the candidate quarantined, or that fails too.
\* (Under any faults.)
LEMMA RestoreCandidateKeeps == ASSUME LInv, RestoreCandidate PROVE LInv'
<1>1. At("restore") /\ Running /\ Types /\ faults \in Nat
    BY JobKinds DEF LInv, RestoreCandidate, Types
<1>2. UNCHANGED <<files, torn, auth, up, crashes, released>>
    BY DEF RestoreCandidate
<1>3. CASE /\ canonical' = job.before
           /\ mem' = [mem EXCEPT !.quarantined = TRUE]
           /\ job' = [job EXCEPT !.fault = TRUE, !.step = "serial"]
           /\ UNCHANGED faults
  <2>1. /\ mem' \in MemType /\ mem'.receipts = mem.receipts /\ mem'.open = mem.open
        /\ mem'.counterexample = mem.counterexample /\ mem'.pending = mem.pending
        /\ mem'.quarantined
      BY <1>1, <1>3 DEF Types, MemType
  <2>2. /\ job' \in RoundType /\ job'.before = job.before /\ job'.step = "serial"
        /\ job'.round = job.round
      BY <1>1, <1>3 DEF Running, RoundType
  <2>3. job.step # "failed"
      BY <1>1 DEF At
  <2>4. RoundKnows'
      BY <1>1, <2>1, <2>2, <2>3 DEF LInv, RoundKnows, Extends
  <2>5. canonical' \in State /\ Kept(canonical')
      BY <1>1, <1>3, RoundFacts, RoundFields
  <2> QED BY <1>1, <1>2, <1>3, <2>1, <2>2, <2>4, <2>5, RoundStep
<1>4. CASE Fault /\ Step("failed") /\ UNCHANGED <<canonical, mem>>
  <2>1. job' \in RoundType /\ job'.before = job.before /\ job'.step = "failed"
      BY <1>1, <1>4 DEF Running, RoundType, Step
  <2>2. RoundKnows'
      BY <2>1 DEF RoundKnows
  <2> QED BY <1>1, <1>2, <1>4, <2>1, <2>2, RoundFacts, RoundStep DEF Fault, Types
<1> QED BY <1>3, <1>4 DEF RestoreCandidate

\* The serial transition runs.
\* (Under any faults.)
LEMMA RunSerialKeeps == ASSUME LInv, RunSerial PROVE LInv'
<1>1. At("serial") /\ Running
    BY JobKinds DEF LInv, RunSerial
<1>2. PICK state : state = Result("s")
    OBVIOUS
<1>3. job' = [job EXCEPT !.serial = state, !.step = "compare"]
    BY <1>2 DEF RunSerial
<1>4. state \in State
    BY <1>1, <1>2, ResultIsState
<1>5. /\ job' \in RoundType /\ job'.before = job.before /\ job'.step = "compare"
      /\ job'.round = job.round /\ job'.n = job.n /\ job'.serial = state
    BY <1>1, <1>3, <1>4 DEF Running, RoundType
<1>6. UNCHANGED <<files, torn, canonical, up, mem, crashes, faults, released>>
    BY DEF RunSerial
<1>7. job.step # "failed" /\ state = Serial(job.before, job.n)
    BY <1>1, <1>2 DEF At, Result, Serial
<1>8. RoundKnows'
    BY <1>1, <1>5, <1>6, <1>7 DEF LInv, RoundKnows, Extends, Serial
<1> QED BY <1>1, <1>5, <1>6, <1>8, RoundFacts, RoundStep DEF LInv, Types

\* The serial transition raises: the round fails.
\* (Under any faults.)
LEMMA SerialFailsKeeps == ASSUME LInv, SerialFails PROVE LInv'
<1>1. At("serial") /\ Running /\ faults \in Nat
    BY JobKinds DEF LInv, SerialFails, Types
<1>2. job' = [job EXCEPT !.step = "failed"] /\ faults' = faults + 1
    BY DEF SerialFails, Step, Fault
<1>3. job' \in RoundType /\ job'.before = job.before /\ job'.step = "failed"
    BY <1>1, <1>2 DEF Running, RoundType
<1>4. UNCHANGED <<files, torn, auth, up, mem, crashes, released>>
    BY DEF SerialFails
<1>5. RoundKnows'
    BY <1>3 DEF RoundKnows
<1>6. canonical' \in State /\ Kept(canonical')
    BY <1>1, RoundFacts, KeptAppend DEF SerialFails, Overwritten
<1> QED BY <1>1, <1>2, <1>3, <1>4, <1>5, <1>6, RoundStep DEF LInv, Types

\* The root swap, done or failed, after the intent is durable.
\* (Under any faults.)
LEMMA PublishPrivateKeeps == ASSUME LInv, PublishPrivate PROVE LInv'
<1>1. At("publish") /\ Running /\ Types /\ faults \in Nat
    BY JobKinds DEF LInv, PublishPrivate, Types
<1>2. UNCHANGED <<files, torn, up, mem, crashes, released>>
    BY DEF PublishPrivate
<1>3. /\ job.intent \in Of("intent") /\ job.intent \in IntentType
      /\ job.intent.before = job.before /\ job.intent.round = job.round
      /\ job.serial = Serial(job.before, job.n) /\ job.intent.selected = job.serial
      /\ Extends(job.before, mem.receipts) /\ job.round = Len(mem.receipts) + 1
      /\ job.intent.enabled = ~mem.quarantined
    BY <1>1, Kinds DEF LInv, RoundKnows, At
<1>4. CASE Publish(job.intent) /\ Step("destroy") /\ UNCHANGED faults
  <2>1. /\ job' \in RoundType /\ job'.before = job.before /\ job'.step = "destroy"
        /\ job'.round = job.round /\ job'.n = job.n /\ job'.serial = job.serial
        /\ job'.intent = job.intent
      BY <1>1, <1>4 DEF Running, RoundType, Step
  <2>2. canonical' = job.intent.selected
      BY <1>4 DEF Publish
  <2>3. canonical' \in State /\ Kept(canonical')
      BY <1>1, <1>3, <2>2, RoundFacts, RoundFields, KeptAppend DEF Serial
  <2>4. RoundKnows'
      BY <1>2, <1>3, <2>1, <2>2 DEF RoundKnows, Extends, Serial, Of
  <2> QED BY <1>1, <1>2, <1>4, <2>1, <2>3, <2>4, RoundFacts, RoundStep DEF Types
<1>5. CASE Fault /\ Step("failed") /\ UNCHANGED <<canonical, auth>>
  <2>1. job' \in RoundType /\ job'.before = job.before /\ job'.step = "failed"
      BY <1>1, <1>5 DEF Running, RoundType, Step
  <2>2. RoundKnows'
      BY <2>1 DEF RoundKnows
  <2> QED BY <1>1, <1>2, <1>5, <2>1, <2>2, RoundFacts, RoundStep DEF Fault, Types
<1> QED BY <1>4, <1>5 DEF PublishPrivate

\* The private roots are destroyed, or that fails.
\* (Under any faults.)
LEMMA DestroyPrivateKeeps == ASSUME LInv, DestroyPrivate PROVE LInv'
<1>1. At("destroy") /\ Running /\ Types /\ faults \in Nat
    BY JobKinds DEF LInv, DestroyPrivate, Types
<1>2. UNCHANGED <<files, torn, canonical, auth, up, mem, crashes, released>>
    BY DEF DestroyPrivate
<1>3. CASE Step("receipt") /\ UNCHANGED faults
  <2>1. /\ job' \in RoundType /\ job'.before = job.before /\ job'.step = "receipt"
        /\ job'.round = job.round /\ job'.n = job.n /\ job'.serial = job.serial
        /\ job'.intent = job.intent
      BY <1>1, <1>3 DEF Running, RoundType, Step
  <2>2. RoundKnows'
      BY <1>1, <1>2, <2>1 DEF LInv, RoundKnows, Extends, Serial, Of, At
  <2> QED BY <1>1, <1>2, <1>3, <2>1, <2>2, RoundFacts, RoundStep DEF Types
<1>4. CASE Fault /\ Step("failed")
  <2>1. job' \in RoundType /\ job'.before = job.before /\ job'.step = "failed"
      BY <1>1, <1>4 DEF Running, RoundType, Step
  <2>2. RoundKnows'
      BY <2>1 DEF RoundKnows
  <2> QED BY <1>1, <1>2, <1>4, <2>1, <2>2, RoundFacts, RoundStep DEF Fault, Types
<1> QED BY <1>3, <1>4 DEF DestroyPrivate

\* A call that ends, or that concerns the gate alone: nothing is open afterwards, and
\* what remains is to follow the round whose tokens wait.
LEMMA GateRests ==
    ASSUME LInv, UNCHANGED <<files, crashes, released>>, up, up', job' = None,
           mem' \in MemType, mem'.receipts = mem.receipts, mem'.open = None,
           mem'.counterexample = mem.counterexample, mem'.pending = mem.pending,
           mem'.quarantined = mem.quarantined,
           canonical' \in State, Kept(canonical'), faults' \in Nat,
           mem.pending # None => canonical' = canonical
    PROVE  LInv'
<1>0. /\ Types /\ Alive /\ Alive' /\ ~Running' /\ ~Recovering'
    BY JobKind DEF LInv, Alive, Running, Recovering
<1>1. Types'
    BY <1>0 DEF Types
<1>2. Phases'
    BY <1>0 DEF LInv, Phases
<1>3. RoundKnows' /\ RecoveryKnows'
    BY <1>0 DEF RoundKnows, RecoveryKnows
<1>4. StatesKept'
    BY <1>0 DEF LInv, StatesKept, Kept
<1>5. PendingVerified'
    BY DEF LInv, PendingVerified, Kept, Of
<1>6. QuarantineKnown'
    BY <1>0 DEF LInv, QuarantineKnown, Quarantined, Receipted, RolledBack, Of, At
<1>7. Journal' /\ ReleasedIsVerified'
    BY SameFiles
<1> QED BY <1>1, <1>2, <1>3, <1>4, <1>5, <1>6, <1>7 DEF LInv

\* Gate.abort closes an open round.
\* (Under any faults.)
LEMMA AbortKeeps == ASSUME LInv, Abort PROVE LInv'
<1>1. /\ up /\ up' /\ job' = None /\ UNCHANGED <<files, canonical, crashes, faults, released>>
      /\ mem' = [mem EXCEPT !.open = None]
    BY DEF Abort, Idle
<1>2. /\ mem' \in MemType /\ mem'.receipts = mem.receipts /\ mem'.open = None
      /\ mem'.counterexample = mem.counterexample /\ mem'.pending = mem.pending
      /\ mem'.quarantined = mem.quarantined
    BY <1>1 DEF LInv, Types, MemType
<1>3. canonical \in State /\ Kept(canonical) /\ faults \in Nat
    BY DEF LInv, Types, ReleasedIsVerified, Kept
<1> QED BY <1>1, <1>2, <1>3, GateRests

\* Gate.finalize closes the gate.
\* (Under any faults.)
LEMMA FinalizeKeeps == ASSUME LInv, Finalize PROVE LInv'
<1>1. /\ up /\ up' /\ job' = None /\ UNCHANGED <<files, canonical, crashes, faults, released>>
      /\ mem.open = None /\ mem' = [mem EXCEPT !.closed = TRUE]
    BY DEF Finalize, Idle
<1>2. /\ mem' \in MemType /\ mem'.receipts = mem.receipts /\ mem'.open = None
      /\ mem'.counterexample = mem.counterexample /\ mem'.pending = mem.pending
      /\ mem'.quarantined = mem.quarantined
    BY <1>1 DEF LInv, Types, MemType
<1>3. canonical \in State /\ Kept(canonical) /\ faults \in Nat
    BY DEF LInv, Types, ReleasedIsVerified, Kept
<1> QED BY <1>1, <1>2, <1>3, GateRests

\* The gate's handler of a round that failed.
\* (Under any faults.)
LEMMA CleanupKeeps == ASSUME LInv, Cleanup PROVE LInv'
<1>1. At("failed") /\ Running /\ Types
    BY JobKinds DEF LInv, Cleanup
<1>2. /\ up /\ mem.open = job.before /\ mem.pending = None /\ canonical \in State
      /\ Kept(canonical) /\ Kept(job.before) /\ job.before \in State /\ faults \in Nat
    BY <1>1, RoundFacts, RoundFields
<1>3. /\ up' /\ job' = None /\ UNCHANGED <<files, crashes, released>>
      /\ mem' = [mem EXCEPT !.open = None]
      /\ canonical' \in {mem.open, canonical} /\ faults' \in {faults, faults + 1}
    BY <1>2 DEF Cleanup, Fault
<1>4. /\ mem' \in MemType /\ mem'.receipts = mem.receipts /\ mem'.open = None
      /\ mem'.counterexample = mem.counterexample /\ mem'.pending = mem.pending
      /\ mem'.quarantined = mem.quarantined
    BY <1>1, <1>3 DEF Types, MemType
<1>5. canonical' \in State /\ Kept(canonical') /\ faults' \in Nat
    BY <1>2, <1>3
<1> QED BY <1>2, <1>3, <1>4, <1>5, GateRests

\* Gate.commit starts run_round.
\* (Under any faults.)
LEMMA CommitKeeps == ASSUME LInv, NEW n \in {0, 1}, NEW r \in Roots, Commit(n, r) PROVE LInv'
<1>1. /\ up /\ job = None /\ mem.open # None /\ job' = Started(n, r) /\ Types
      /\ UNCHANGED <<files, torn, canonical, auth, up, mem, crashes, faults, released>>
    BY DEF LInv, Commit, Idle
<1>2. PICK step : step = IF ~Extends(canonical, mem.receipts) THEN "failed"
                         ELSE IF mem.quarantined THEN "serial" ELSE "candidate"
    OBVIOUS
<1>3. /\ step \in {"failed", "serial", "candidate"}
      /\ step # "failed" => Extends(canonical, mem.receipts)
      /\ step = "candidate" => ~mem.quarantined
    BY <1>2
<1>4. job' = [roots |-> r, step |-> step, round |-> Len(mem.receipts) + 1, n |-> n,
              before |-> canonical, cand |-> None, serial |-> None, fault |-> FALSE, intent |-> None]
    BY <1>1, <1>2 DEF Started
<1>5. /\ job' \in RoundType /\ job'.step = step /\ job'.before = canonical
      /\ job'.round = Len(mem.receipts) + 1
    BY <1>1, <1>3, <1>4, MemFields DEF RoundType, Types
<1>6. Types' /\ job' # None /\ ~Recovering' /\ Running' /\ Alive /\ Alive'
    BY <1>1, <1>5, JobKind DEF Types, Running, Recovering, Alive
<1>7. mem.pending = None
    BY <1>1 DEF LInv, Phases
<1>8. Kept(canonical)
    BY DEF LInv, ReleasedIsVerified, Kept
<1>9. Phases'
    BY <1>1, <1>5, <1>6, <1>7 DEF LInv, Phases
<1>10. RoundKnows' /\ RecoveryKnows'
    BY <1>1, <1>3, <1>5, <1>6 DEF RoundKnows, RecoveryKnows, Extends
<1>11. StatesKept'
    BY <1>1, <1>6 DEF LInv, StatesKept, Kept
<1>12. PendingVerified'
    BY <1>1, <1>7 DEF PendingVerified
<1>13. QuarantineKnown'
    BY <1>1, <1>3, <1>5, <1>6
    DEF LInv, QuarantineKnown, Quarantined, Receipted, RolledBack, Of, At
<1>14. Journal' /\ ReleasedIsVerified'
    BY <1>1, <1>8, SameFiles
<1> QED BY <1>6, <1>9, <1>10, <1>11, <1>12, <1>13, <1>14 DEF LInv

\* The permit is consumed: the tokens of the last receipt are released.
\* (Under any faults.)
LEMMA ConsumeVerifiedAdvanceKeeps == ASSUME LInv, ConsumeVerifiedAdvance PROVE LInv'
<1>1. /\ Types /\ up /\ job = None /\ mem.open = None /\ mem.pending # None
      /\ UNCHANGED <<files, torn, canonical, up, job, crashes, faults>>
      /\ mem' = [mem EXCEPT !.pending = None]
      /\ released' = Append(released, mem.pending)
    BY DEF LInv, ConsumeVerifiedAdvance, Idle
<1>2. PICK i : i = mem.pending
    OBVIOUS
<1>3. /\ i \in IntentType /\ i \in Of("intent") /\ Sound(i) /\ Receipt(i) \in files
      /\ mem.receipts # << >> /\ i = Last(mem.receipts)
      /\ i.selected = Append(i.before, "s") /\ canonical = i.selected /\ Kept(i.before)
      /\ i.selected \in State
    BY <1>1, <1>2, Kinds DEF LInv, PendingVerified, Journal, IntentType
<1>4. /\ mem' \in MemType /\ mem'.receipts = mem.receipts /\ mem'.open = None
      /\ mem'.counterexample = mem.counterexample /\ mem'.pending = None
      /\ mem'.quarantined = mem.quarantined
    BY <1>1 DEF Types, MemType
<1>5. PICK m : m = Len(released)
    OBVIOUS
<1>6. /\ m \in Nat /\ released' \in Seq(IntentType) /\ DOMAIN released' = 1..(m + 1)
      /\ DOMAIN released = 1..m /\ released' # << >> /\ Len(released') = m + 1
      /\ \A k \in 1..m : released'[k] = released[k]
      /\ released'[m + 1] = i
    BY <1>1, <1>2, <1>3, <1>5 DEF Types
<1>7. Last(released') = i
    BY <1>6 DEF Last
<1>8. IsPrefix(i.selected, i.selected)
    BY <1>3, PrefixReflexive
<1>9. Types'
    BY <1>1, <1>4, <1>6 DEF Types
<1>10. ~Running' /\ ~Recovering' /\ Alive
    BY <1>1, JobKind DEF Running, Recovering, Alive
<1>11. Phases' /\ RoundKnows' /\ RecoveryKnows' /\ PendingVerified'
    BY <1>1, <1>4, <1>10 DEF Phases, Alive, RoundKnows, RecoveryKnows, PendingVerified
<1>12. StatesKept'
    BY <1>3, <1>4, <1>7, <1>8, <1>10 DEF StatesKept, Kept
<1>13. QuarantineKnown'
    BY <1>1, <1>4, <1>10
    DEF LInv, QuarantineKnown, Quarantined, Receipted, RolledBack, Of, At, Alive
<1>14. Journal'
    BY <1>1, <1>4 DEF LInv, Journal, Of, Sound
<1>15. ReleasedIsVerified'
  <2>1. released # << >> => m >= 1 /\ Last(released) = released[m]
    <3>1. released \in Seq(IntentType)
        BY <1>1 DEF Types
    <3>2. released # << >> => Len(released) >= 1
        BY <3>1
    <3> QED BY <1>5, <3>2 DEF Last
  <2>2. m >= 1 => released # << >>
      BY <1>5
  <2>3. ASSUME NEW k \in 1..(m + 1), k # m + 1
        PROVE  /\ Receipt(released[k]) \in files
               /\ released[k].selected = Append(released[k].before, "s")
               /\ released[k].cand # released[k].selected => released[k].counterexample \in files
               /\ k > 1 => IsPrefix(released[k - 1].selected, released[k].before)
    <3>1. k \in 1..m
        BY <2>3, <1>6
    <3> QED BY <3>1, <1>6 DEF LInv, ReleasedIsVerified
  <2>4. /\ Receipt(i) \in files /\ i.selected = Append(i.before, "s")
        /\ i.cand # i.selected => i.counterexample \in files
        /\ m + 1 > 1 => IsPrefix(released[m].selected, i.before)
      BY <1>3, <1>6, <2>1, <2>2 DEF Sound, Kept
  <2>5. ASSUME NEW k \in 1..(m + 1)
        PROVE  /\ Receipt(released'[k]) \in files'
               /\ released'[k].selected = Append(released'[k].before, "s")
               /\ released'[k].cand # released'[k].selected =>
                    released'[k].counterexample \in files'
               /\ k > 1 => IsPrefix(released'[k - 1].selected, released'[k].before)
    <3>1. CASE k = m + 1
        BY <3>1, <1>1, <1>6, <2>4
    <3>2. CASE k # m + 1
      <4>1. /\ k \in 1..m /\ released'[k] = released[k]
            /\ k > 1 => released'[k - 1] = released[k - 1]
          BY <3>2, <1>6
      <4> QED BY <3>2, <4>1, <2>3, <1>1
    <3> QED BY <3>1, <3>2
  <2>6. IsPrefix(Last(released').selected, canonical')
      BY <1>1, <1>3, <1>7, <1>8
  <2> QED BY <1>6, <2>5, <2>6 DEF ReleasedIsVerified, Receipt
<1> QED BY <1>9, <1>11, <1>12, <1>13, <1>14, <1>15 DEF LInv

\* One file more: the journal stays sound if that file names only what is there.
LEMMA JournalGrows ==
    ASSUME LInv, NEW f, files' \in {files, files \cup {f}},
           f.kind = "intent" =>
             /\ f.selected \in {f.before, Append(f.before, "s")}
             /\ f.counterexample # None => f.counterexample \in files
             /\ f.cand # f.selected => f.counterexample # None,
           f.kind = "receipt" => f.of \in files,
           f.kind = "recovery" =>
             f.of \in files /\ (f.how = "rolled_back" => f.counterexample \in files),
           mem'.counterexample # None => mem'.counterexample \in files'
    PROVE  Journal'
<1>1. ASSUME NEW i \in Of("intent")' PROVE Sound(i)'
  <2>1. CASE i \in files
      BY <2>1, <1>1 DEF LInv, Journal, Of, Sound
  <2>2. CASE i \notin files
      BY <2>2, <1>1 DEF Of, Sound
  <2> QED BY <2>1, <2>2
<1>2. \A g \in Of("receipt")' : g.of \in files'
    BY DEF LInv, Journal, Of
<1>3. \A g \in Of("recovery")' :
        g.of \in files' /\ (g.how = "rolled_back" => g.counterexample \in files')
    BY DEF LInv, Journal, Of
<1> QED BY <1>1, <1>2, <1>3 DEF Journal

\* What was released stays verified while files are only added.
LEMMA ReleasedStays ==
    ASSUME LInv, files \subseteq files', released' = released, Kept(canonical')
    PROVE  ReleasedIsVerified'
BY DEF LInv, ReleasedIsVerified, Kept

\* When the process has ended only the journal and the canonical root are left.
LEMMA DownKeeps ==
    ASSUME LInv, Down, files' \in SUBSET FileType, IsFiniteSet(files'), files \subseteq files',
           crashes' \in Nat, faults' \in Nat, released' = released,
           canonical' \in State, Kept(canonical'), Journal'
    PROVE  LInv'
<1>1. /\ up' = FALSE /\ job' = None /\ mem' = Fresh /\ ~Running' /\ ~Recovering' /\ ~Alive'
    BY JobKind DEF Down, Running, Recovering, Alive
<1>2. mem' \in MemType /\ mem'.receipts = << >> /\ mem'.open = None /\ mem'.pending = None
    BY <1>1 DEF Fresh, MemType
<1>3. Types'
    BY <1>1, <1>2 DEF LInv, Types
<1>4. Phases' /\ RoundKnows' /\ RecoveryKnows' /\ PendingVerified'
    BY <1>1, <1>2 DEF Phases, Fresh, RoundKnows, RecoveryKnows, PendingVerified
<1>5. StatesKept'
    BY <1>1, <1>2 DEF StatesKept
<1>6. QuarantineKnown'
    BY <1>1 DEF QuarantineKnown, At
<1> QED BY <1>3, <1>4, <1>5, <1>6, ReleasedStays DEF LInv

\* The process dies: files and the canonical root stay.
\* (Under any faults.)
LEMMA CrashKeeps == ASSUME LInv, Crash PROVE LInv'
<1>1. Down /\ UNCHANGED <<files, canonical, faults, released>> /\ crashes' = crashes + 1
    BY DEF Crash
<1>2. mem'.counterexample = None
    BY <1>1 DEF Down, Fresh
<1>3. Journal'
    BY <1>1, <1>2 DEF LInv, Journal, Of, Sound
<1>4. Kept(canonical)
    BY DEF LInv, ReleasedIsVerified, Kept
<1> QED BY <1>1, <1>3, <1>4, DownKeeps DEF LInv, Types

\* A step of a round that may add a file.
LEMMA RoundWrites ==
    ASSUME LInv, Running, UNCHANGED <<canonical, up, crashes, released>>,
           files' \in SUBSET FileType, IsFiniteSet(files'), files \subseteq files', Journal',
           job' \in RoundType, job'.before = job.before, job'.step # "candidate",
           mem' \in MemType, mem'.receipts = mem.receipts, mem'.open = mem.open,
           mem'.pending = mem.pending, Quarantined' => mem'.quarantined,
           faults' \in Nat, RoundKnows'
    PROVE  LInv'
<1>0. /\ Types /\ up /\ Alive /\ mem.open = job.before /\ mem.pending = None
      /\ job # None /\ ~Recovering /\ canonical \in State /\ Kept(canonical)
    BY RoundFacts
<1>1. Types'
    BY <1>0 DEF Types
<1>2. Running' /\ job' # None /\ ~Recovering' /\ Alive'
    BY JobKind DEF Running, Recovering, Alive
<1>3. Phases'
    BY <1>0, <1>2 DEF Phases
<1>4. RecoveryKnows'
    BY <1>2 DEF RecoveryKnows
<1>5. StatesKept'
    BY <1>0, <1>2 DEF LInv, StatesKept, Kept
<1>6. PendingVerified'
    BY <1>0 DEF PendingVerified
<1>7. QuarantineKnown'
    BY DEF QuarantineKnown, At
<1>8. ReleasedIsVerified'
    BY <1>0, ReleasedStays
<1> QED BY <1>1, <1>3, <1>4, <1>5, <1>6, <1>7, <1>8 DEF LInv

\* A file that is neither a receipt nor a recovery quarantines nothing.
LEMMA QuarantineSame ==
    ASSUME NEW f, files' \in {files, files \cup {f}}, f.kind \notin {"receipt", "recovery"}
    PROVE  /\ Receipted' = Receipted /\ RolledBack' = RolledBack
           /\ Quarantined' <=> Quarantined
<1>1. Of("receipt")' = Of("receipt") /\ Of("recovery")' = Of("recovery")
    BY DEF Of
<1> QED BY <1>1 DEF Receipted, RolledBack, Quarantined

\* Candidate and serial transition are compared; a difference leaves a
\* counterexample and quarantine.
\* (Under any faults.)
LEMMA CompareKeeps == ASSUME LInv, Compare PROVE LInv'
<1>1. At("compare") /\ Running /\ Types /\ Alive /\ faults \in Nat
    BY JobKinds DEF LInv, Compare, Types, Alive
<1>2. UNCHANGED <<canonical, auth, up, crashes, released>>
    BY DEF Compare
<1>3. /\ Extends(job.before, mem.receipts) /\ job.round = Len(mem.receipts) + 1
      /\ job.serial = Serial(job.before, job.n)
    BY <1>1 DEF LInv, RoundKnows, At
<1>4. PICK e : e = Evidence
    OBVIOUS
<1>5. /\ e \in CounterexampleType \cup {None}
      /\ e = None <=> ~job.fault /\ ~Differs
      /\ e # None => e \in FileType /\ e.kind = "counterexample"
    BY <1>1, <1>4, EvidenceShape DEF FileType, CounterexampleType
<1>6. PICK q : q = [mem EXCEPT !.quarantined = @ \/ Differs]
    OBVIOUS
<1>7. /\ q \in MemType /\ q.receipts = mem.receipts /\ q.open = mem.open
      /\ q.pending = mem.pending /\ q.counterexample = mem.counterexample
      /\ mem.quarantined => q.quarantined
  <2>1. PICK d : d = (mem.quarantined \/ Differs)
      OBVIOUS
  <2>2. d \in BOOLEAN /\ q = [mem EXCEPT !.quarantined = d]
      BY <2>1, <1>6
  <2>3. mem.quarantined => d
      BY <2>1
  <2> QED BY <1>1, <2>2, <2>3 DEF Types, MemType
<1>8. Quarantined => mem.quarantined
    BY <1>1 DEF LInv, QuarantineKnown
<1>9. CASE /\ e = None
           /\ Step(IF job.cand = None /\ mem.counterexample = None THEN "failed" ELSE "intent")
           /\ UNCHANGED <<files, torn, faults, mem>>
  <2>1. PICK step : step = IF job.cand = None /\ mem.counterexample = None THEN "failed"
                           ELSE "intent"
      OBVIOUS
  <2>2. /\ job' \in RoundType /\ job'.before = job.before /\ job'.step = step
        /\ job'.round = job.round /\ job'.n = job.n /\ job'.serial = job.serial
        /\ job'.cand = job.cand /\ step \in {"failed", "intent"}
      BY <1>1, <1>9, <2>1 DEF Running, RoundType, Step
  <2>3. step = "intent" => (job.cand # job.serial => mem.counterexample # None)
      BY <1>5, <1>9, <2>1 DEF Differs
  <2>4. RoundKnows'
      BY <1>3, <1>9, <2>2, <2>3 DEF RoundKnows, Extends, Serial
  <2> QED BY <1>1, <1>2, <1>9, <2>2, <2>4, RoundFacts, RoundStep DEF Types
<1>10. CASE /\ e # None /\ Write(e)
            /\ mem' = [q EXCEPT !.counterexample = e]
            /\ Step("intent") /\ UNCHANGED faults
  <2>1. /\ files' = files \cup {e} /\ files' \in SUBSET FileType /\ IsFiniteSet(files')
      BY <1>1, <1>5, <1>10, WriteAdds, WriteCompletes
  <2>2. /\ mem' \in MemType /\ mem'.receipts = mem.receipts /\ mem'.open = mem.open
        /\ mem'.pending = mem.pending /\ mem'.counterexample = e
        /\ mem.quarantined => mem'.quarantined
      BY <1>5, <1>7, <1>10 DEF MemType
  <2>3. /\ job' \in RoundType /\ job'.before = job.before /\ job'.step = "intent"
        /\ job'.round = job.round /\ job'.n = job.n /\ job'.serial = job.serial
      BY <1>1, <1>10 DEF Running, RoundType, Step
  <2>4. RoundKnows'
      BY <1>3, <1>10, <2>2, <2>3 DEF RoundKnows, Extends, Serial
  <2>5. Journal'
      BY <1>5, <1>10, <2>1, <2>2, JournalGrows
  <2>6. Quarantined' => mem'.quarantined
      BY <1>5, <1>8, <1>10, <2>1, <2>2, QuarantineSame
  <2> QED BY <1>1, <1>2, <1>10, <2>1, <2>2, <2>3, <2>4, <2>5, <2>6, RoundWrites
<1>11. CASE e # None /\ WriteFails(e) /\ mem' = q /\ Step("failed")
  <2>1. /\ files' \in {files, files \cup {e}} /\ files' \in SUBSET FileType
        /\ IsFiniteSet(files') /\ files \subseteq files'
      BY <1>1, <1>5, <1>11, WriteAdds
  <2>2. faults' \in Nat
      BY <1>1, <1>11 DEF WriteFails
  <2>3. job' \in RoundType /\ job'.before = job.before /\ job'.step = "failed"
      BY <1>1, <1>11 DEF Running, RoundType, Step
  <2>4. RoundKnows'
      BY <2>3 DEF RoundKnows
  <2>5. mem'.counterexample # None => mem'.counterexample \in files'
      BY <1>7, <1>11, <2>1 DEF LInv, Journal
  <2>6. Journal'
      BY <1>5, <1>11, <2>1, <2>5, JournalGrows
  <2>7. Quarantined' => mem'.quarantined
      BY <1>5, <1>7, <1>8, <1>11, <2>1, QuarantineSame
  <2> QED BY <1>1, <1>2, <1>7, <1>11, <2>1, <2>2, <2>3, <2>4, <2>6, <2>7, RoundWrites
<1> QED BY <1>4, <1>6, <1>9, <1>10, <1>11 DEF Compare

\* The durable intent names the state the canonical root will have.
\* (Under any faults.)
LEMMA WriteIntentKeeps == ASSUME LInv, WriteIntent PROVE LInv'
<1>1. At("intent") /\ Running /\ Types /\ Alive /\ RoundKnows /\ faults \in Nat
    BY JobKinds DEF LInv, WriteIntent, Types, Alive
<1>2. UNCHANGED <<canonical, auth, up, mem, crashes, released>>
    BY DEF WriteIntent
<1>3. /\ Extends(job.before, mem.receipts) /\ job.round = Len(mem.receipts) + 1
      /\ job.serial = Serial(job.before, job.n)
      /\ job.cand # job.serial => mem.counterexample # None
    BY <1>1 DEF RoundKnows, At
<1>4. PICK i : i = Intent
    OBVIOUS
<1>5. /\ i \in IntentType /\ i.before = job.before /\ i.round = job.round
      /\ i.cand = job.cand /\ i.selected = job.serial
      /\ i.enabled = ~mem.quarantined
      /\ i.counterexample = IF job.cand = job.serial THEN None ELSE mem.counterexample
    BY <1>1, <1>4, IntentShape
<1>6. i \in FileType /\ i.kind = "intent"
    BY <1>5 DEF FileType, IntentType
<1>7. /\ i.selected \in {i.before, Append(i.before, "s")}
      /\ i.counterexample # None => i.counterexample \in files
      /\ i.cand # i.selected => i.counterexample # None
    BY <1>3, <1>5 DEF LInv, Journal, Serial
<1>8. ASSUME files' \in {files, files \cup {i}}
      PROVE  Journal' /\ (Quarantined' => mem'.quarantined)
  <2>1. mem'.counterexample # None => mem'.counterexample \in files'
      BY <1>2, <1>8 DEF LInv, Journal
  <2>2. Journal'
      BY <1>6, <1>7, <1>8, <2>1, JournalGrows
  <2>3. Quarantined' => mem'.quarantined
      BY <1>1, <1>2, <1>6, <1>8, QuarantineSame DEF LInv, QuarantineKnown
  <2> QED BY <2>2, <2>3
<1>9. mem' \in MemType
    BY <1>1, <1>2 DEF Types
<1>10. CASE /\ Write(i)
            /\ job' = [job EXCEPT !.intent = i,
                                  !.step = IF job.n = 0 THEN "destroy" ELSE "publish"]
            /\ UNCHANGED faults
  <2>1. /\ files' = files \cup {i} /\ files' \in SUBSET FileType /\ IsFiniteSet(files')
      BY <1>1, <1>6, <1>10, WriteAdds, WriteCompletes
  <2>2. PICK step : step = IF job.n = 0 THEN "destroy" ELSE "publish"
      OBVIOUS
  <2>3. /\ job' \in RoundType /\ job'.before = job.before /\ job'.step = step
        /\ job'.round = job.round /\ job'.n = job.n /\ job'.serial = job.serial
        /\ job'.intent = i /\ step \in {"destroy", "publish"}
        /\ step = "destroy" => job'.n # 1
    <3>1. job' = [job EXCEPT !.intent = i, !.step = step]
        BY <1>10, <2>2
    <3>2. step \in {"destroy", "publish"} /\ (step = "destroy" => job.n = 0)
        BY <2>2
    <3>3. job \in RoundType
        BY <1>1 DEF Running
    <3>4. /\ job'.before = job.before /\ job'.round = job.round /\ job'.n = job.n
          /\ job'.serial = job.serial /\ job'.step = step /\ job'.intent = i
        BY <3>1, <3>3 DEF RoundType
    <3>5. job' \in RoundType
        BY <1>5, <3>1, <3>2, <3>3 DEF RoundType
    <3> QED BY <3>2, <3>4, <3>5
  <2>4. i \in Of("intent")'
      BY <1>6, <2>1 DEF Of
  <2>5. RoundKnows'
      BY <1>2, <1>3, <1>5, <2>3, <2>4 DEF RoundKnows, Extends, Serial
  <2> QED BY <1>1, <1>2, <1>8, <1>9, <1>10, <2>1, <2>3, <2>5, RoundWrites
<1>11. CASE WriteFails(i) /\ Step("failed")
  <2>1. /\ files' \in {files, files \cup {i}} /\ files' \in SUBSET FileType
        /\ IsFiniteSet(files') /\ files \subseteq files'
      BY <1>1, <1>6, <1>11, WriteAdds
  <2>2. faults' \in Nat
      BY <1>1, <1>11 DEF WriteFails
  <2>3. job' \in RoundType /\ job'.before = job.before /\ job'.step = "failed"
      BY <1>1, <1>11 DEF Running, RoundType, Step
  <2>4. RoundKnows'
      BY <2>3 DEF RoundKnows
  <2> QED BY <1>1, <1>2, <1>8, <1>9, <2>1, <2>2, <2>3, <2>4, RoundWrites
<1> QED BY <1>4, <1>10, <1>11 DEF WriteIntent

\* Appending to the receipts.
LEMMA AppendLast ==
    ASSUME NEW rs \in Seq(IntentType), NEW i \in IntentType
    PROVE  /\ Append(rs, i) \in Seq(IntentType) /\ Append(rs, i) # << >>
           /\ Last(Append(rs, i)) = i
<1>1. PICK a : a = Append(rs, i)
    OBVIOUS
<1>2. a \in Seq(IntentType) /\ Len(a) = Len(rs) + 1 /\ a[Len(rs) + 1] = i /\ Len(rs) \in Nat
    BY <1>1
<1>3. a # << >>
    BY <1>2
<1>4. Last(a) = i
    BY <1>2 DEF Last
<1> QED BY <1>1, <1>2, <1>3, <1>4

\* A receipt quarantines the candidate only if its intent says so.
LEMMA QuarantineByReceipt ==
    ASSUME Types, NEW i \in IntentType, files' \in {files, files \cup {Receipt(i)}}
    PROVE  Quarantined' => Quarantined \/ ~i.enabled
<1>1. Receipt(i).kind = "receipt" /\ Receipt(i).of = i
    BY EvidenceTyped
<1>2. Of("recovery")' = Of("recovery") /\ \A f \in Of("receipt")' : f \in Of("receipt") \/ f = Receipt(i)
    BY <1>1 DEF Of
<1>3. \A j \in Receipted' : j \in Receipted \/ j = i
    BY <1>1, <1>2 DEF Receipted
<1>4. RolledBack' = RolledBack
    BY <1>2 DEF RolledBack
<1> QED BY <1>3, <1>4 DEF Quarantined

\* The durable receipt settles the intent of the round.
\* (Under any faults.)
LEMMA WriteReceiptKeeps == ASSUME LInv, WriteReceipt PROVE LInv'
<1>1. At("receipt") /\ Running /\ Types /\ Alive /\ RoundKnows /\ faults \in Nat
    BY JobKinds DEF LInv, WriteReceipt, Types, Alive
<1>2. UNCHANGED <<canonical, up, crashes, released>>
    BY DEF WriteReceipt
<1>3. PICK i : i = job.intent
    OBVIOUS
<1>4. /\ i \in Of("intent") /\ i \in IntentType /\ i \in files
      /\ i.before = job.before /\ i.selected = job.serial
      /\ job.serial = Serial(job.before, job.n)
      /\ Extends(job.before, mem.receipts) /\ i.enabled = ~mem.quarantined
      /\ job.n = 1 => canonical = i.selected
      /\ i.selected \in State /\ i.before \in State
    BY <1>1, <1>3, Kinds DEF RoundKnows, At, IntentType
<1>5. Receipt(i) \in FileType /\ Receipt(i).kind = "receipt" /\ Receipt(i).of = i
    BY <1>4, EvidenceTyped
<1>6. files' \in {files, files \cup {Receipt(i)}} => (Quarantined' => mem.quarantined)
    BY <1>1, <1>4, QuarantineByReceipt DEF LInv, QuarantineKnown
<1>7. ASSUME files' \in {files, files \cup {Receipt(i)}}, mem'.counterexample = mem.counterexample
      PROVE  Journal'
  <2>1. mem'.counterexample # None => mem'.counterexample \in files'
      BY <1>7 DEF LInv, Journal
  <2> QED BY <1>4, <1>5, <1>7, <2>1, JournalGrows
<1>8. CASE Write(Receipt(i)) /\ Committed(i) /\ UNCHANGED faults
  <2>1. /\ files' = files \cup {Receipt(i)} /\ files' \in SUBSET FileType
        /\ IsFiniteSet(files') /\ files \subseteq files'
      BY <1>1, <1>5, <1>8, WriteAdds, WriteCompletes
  <2>2. PICK p : p = IF job.n = 0 THEN None ELSE i
      OBVIOUS
  <2>3. PICK rs : rs = Append(mem.receipts, i)
      OBVIOUS
  <2>4. rs \in Seq(IntentType) /\ rs # << >> /\ Last(rs) = i
      BY <1>1, <1>4, <2>3, MemFields, AppendLast
  <2>5. mem' = [mem EXCEPT !.receipts = rs, !.open = None, !.pending = p]
      BY <1>8, <2>2, <2>3 DEF Committed
  <2>6. /\ mem' \in MemType /\ mem'.receipts = rs /\ mem'.open = None /\ mem'.pending = p
        /\ mem'.quarantined = mem.quarantined /\ mem'.counterexample = mem.counterexample
      BY <1>1, <1>4, <2>2, <2>4, <2>5 DEF Types, MemType
  <2>7. /\ job' = None /\ ~Running' /\ ~Recovering' /\ up /\ up' /\ Alive'
      BY <1>1, <1>2, <1>8, JobKind, RoundFacts DEF Committed, Running, Recovering, Alive
  <2>8. Types'
      BY <1>1, <1>2, <1>8, <2>1, <2>6, <2>7 DEF Types
  <2>9. Phases' /\ RoundKnows' /\ RecoveryKnows'
      BY <2>6, <2>7 DEF Phases, RoundKnows, RecoveryKnows
  <2>10. Kept(i.before) /\ Kept(i.selected)
      BY <1>1, <1>4, RoundFacts, RoundFields, KeptAppend DEF Serial
  <2>11. StatesKept'
      BY <1>2, <2>4, <2>6, <2>7, <2>10 DEF StatesKept, Kept
  <2>12. PendingVerified'
    <3>1. ASSUME p # None
          PROVE  p = i /\ p.selected = Append(p.before, "s") /\ canonical = p.selected
        BY <1>1, <1>4, <2>2, <3>1, RoundFields DEF Serial
    <3>2. i \in Of("intent")' /\ Receipt(i) \in files'
        BY <1>4, <2>1 DEF Of
    <3>3. ASSUME p # None
          PROVE  /\ mem'.receipts # << >> /\ mem'.pending = Last(mem'.receipts)
                 /\ mem'.pending \in Of("intent")' /\ Receipt(mem'.pending) \in files'
                 /\ mem'.pending.selected = Append(mem'.pending.before, "s")
                 /\ canonical' = mem'.pending.selected
                 /\ Kept(mem'.pending.before)
        BY <1>2, <2>4, <2>6, <2>10, <3>1, <3>2, <3>3
    <3> QED BY <1>2, <2>6, <3>3 DEF PendingVerified, Kept, Receipt
  <2>13. QuarantineKnown'
      BY <1>6, <2>1, <2>6, <2>7 DEF QuarantineKnown, At
  <2>14. Journal'
      BY <1>7, <2>1, <2>6
  <2>15. ReleasedIsVerified'
      BY <1>1, <1>2, <2>1, RoundFacts, ReleasedStays
  <2> QED BY <2>8, <2>9, <2>11, <2>12, <2>13, <2>14, <2>15 DEF LInv
<1>9. CASE WriteFails(Receipt(i)) /\ Step("failed") /\ UNCHANGED <<mem, auth>>
  <2>1. /\ files' \in {files, files \cup {Receipt(i)}} /\ files' \in SUBSET FileType
        /\ IsFiniteSet(files') /\ files \subseteq files'
      BY <1>1, <1>5, <1>9, WriteAdds
  <2>2. faults' \in Nat /\ mem' \in MemType
      BY <1>1, <1>9 DEF WriteFails, Types
  <2>3. job' \in RoundType /\ job'.before = job.before /\ job'.step = "failed"
      BY <1>1, <1>9 DEF Running, RoundType, Step
  <2>4. RoundKnows'
      BY <2>3 DEF RoundKnows
  <2> QED BY <1>1, <1>2, <1>6, <1>7, <1>9, <2>1, <2>2, <2>3, <2>4, RoundWrites
<1> QED BY <1>3, <1>8, <1>9 DEF WriteReceipt

(***************************************************************************)
(* The receipts in the order of their rounds.                              *)
(***************************************************************************)
\* Finitely many receipts, each of an intent that is there.
LEMMA ReceiptedFinite ==
    ASSUME Types
    PROVE  /\ IsFiniteSet(Receipted) /\ Cardinality(Receipted) \in Nat
           /\ Receipted \subseteq IntentType
           /\ \A i \in IntentType : i \in Receipted <=> Receipt(i) \in files
<1>1. IsFiniteSet(Of("receipt"))
    BY FS_Subset DEF Types, Of
<1>2. PICK g : g = [f \in Of("receipt") |-> f.of]
    OBVIOUS
<1>3. g \in [Of("receipt") -> Receipted]
    BY <1>2 DEF Receipted
<1>4. \A i \in Receipted : \E f \in Of("receipt") : g[f] = i
    BY <1>2 DEF Receipted
<1>5. IsFiniteSet(Receipted)
  <2>1. g \in Surjection(Of("receipt"), Receipted)
      BY <1>3, <1>4 DEF Surjection
  <2> QED BY <1>1, <2>1, FS_Surjection
<1>6. Receipted \subseteq IntentType
    BY Kinds DEF Receipted
<1>7. ASSUME NEW i \in IntentType PROVE i \in Receipted <=> Receipt(i) \in files
  <2>1. Receipt(i) \in files => Receipt(i) \in Of("receipt") /\ Receipt(i).of = i
      BY EvidenceTyped DEF Of
  <2>2. ASSUME i \in Receipted PROVE Receipt(i) \in files
      BY <2>2, Kinds DEF Receipted
  <2> QED BY <2>1, <2>2 DEF Receipted
<1> QED BY <1>5, <1>6, <1>7, FS_CardinalityType

\* A function on 1..n is a sequence.
LEMMA SequenceOf ==
    ASSUME NEW n \in Nat, NEW r \in [1..n -> IntentType]
    PROVE  r \in Seq(IntentType) /\ Len(r) = n /\ (n = 0 => r = << >>)
<1>1. r \in Seq(IntentType) /\ Len(r) = n
    OBVIOUS
<1>2. n = 0 => r = << >>
    BY <1>1
<1> QED BY <1>1, <1>2

\* Intents of different rounds 1 to n, and their list in the order of the rounds.
OneARound(S) ==
    /\ \A i, j \in S : i.round = j.round => i = j
    /\ {i.round : i \in S} = 1..Cardinality(S)

InRounds(S) == [k \in {i.round : i \in S} |-> CHOOSE i \in S : i.round = k]

Lists(r, S) ==
    /\ r \in Seq(IntentType)
    /\ Len(r) = Cardinality(S)
    /\ \A k \in 1..Len(r) : r[k] \in S /\ r[k].round = k
    /\ \A i \in S : i.round \in 1..Len(r) /\ r[i.round] = i
    /\ r = << >> <=> S = {}

\* That list is a sequence with each of them at its round.
LEMMA InOrder ==
    ASSUME NEW S \in SUBSET IntentType, IsFiniteSet(S), OneARound(S),
           NEW r, r = InRounds(S)
    PROVE  Lists(r, S)
<1> USE DEF OneARound, InRounds
<1>1. PICK n : n = Cardinality(S)
    OBVIOUS
<1>2. n \in Nat
    BY <1>1, FS_CardinalityType
<1>3. {i.round : i \in S} = 1..n
    BY <1>1
<1>5. r = [k \in 1..n |-> CHOOSE i \in S : i.round = k]
    BY <1>3
<1>6. \A k \in 1..n : r[k] \in S /\ r[k].round = k
  <2> TAKE k \in 1..n
  <2>1. \E i \in S : i.round = k
      BY <1>3
  <2>2. r[k] = CHOOSE i \in S : i.round = k
      BY <1>5
  <2> QED BY <2>1, <2>2
<1>7. r \in Seq(IntentType) /\ Len(r) = n
  <2>1. \A k \in 1..n : r[k] \in IntentType
      BY <1>6
  <2>2. r \in [1..n -> IntentType]
      BY <1>5, <2>1
  <2> QED BY <1>2, <2>2, SequenceOf
<1>8. ASSUME NEW i \in S PROVE i.round \in 1..n /\ r[i.round] = i
  <2>1. i.round \in 1..n
      BY <1>3
  <2>2. r[i.round] \in S /\ r[i.round].round = i.round
      BY <1>6, <2>1
  <2> QED BY <2>1, <2>2
<1>9. r = << >> <=> S = {}
  <2>1. ASSUME r = << >> PROVE S = {}
    <3>1. n = 0
        BY <1>7, <2>1
    <3> QED BY <1>8, <3>1
  <2>2. ASSUME S = {} PROVE r = << >>
    <3>1. n = 0
        BY <1>2, <1>6, <2>2
    <3>2. r \in [1..n -> IntentType]
        BY <1>5, <1>6, <2>2
    <3> QED BY <1>2, <3>1, <3>2, SequenceOf
  <2> QED BY <2>1, <2>2
<1> QED BY <1>1, <1>6, <1>7, <1>8, <1>9 DEF Lists

\* With one receipt a round, they are a sequence of the journal's receipts.
LEMMA ReceiptsShape ==
    ASSUME Types, OneReceiptARound
    PROVE  /\ Receipts \in Seq(IntentType)
           /\ Len(Receipts) = Cardinality(Receipted)
           /\ \A k \in 1..Len(Receipts) : Receipts[k] \in Receipted /\ Receipts[k].round = k
           /\ \A i \in Receipted : i.round \in 1..Len(Receipts) /\ Receipts[i.round] = i
           /\ Receipts = << >> <=> Receipted = {}
<1>1. OneARound(Receipted) /\ Receipts = InRounds(Receipted)
    BY DEF OneReceiptARound, Receipts, OneARound, InRounds
<1>2. Lists(Receipts, Receipted)
    BY <1>1, ReceiptedFinite, InOrder
<1> QED BY <1>2 DEF Lists

\* Along a chain every state leads on to the last one.
LEMMA ChainLeadsOn ==
    ASSUME NEW r \in Seq(IntentType),
           \A k \in 1..Len(r) : IsPrefix(r[k].before, r[k].selected),
           \A k \in 1..Len(r) : k > 1 => r[k].before = r[k - 1].selected
    PROVE  \A k \in 1..Len(r) : IsPrefix(r[k].selected, Last(r).selected)
<1>1. PICK n : n = Len(r)
    OBVIOUS
<1>2. n \in Nat /\ \A k \in 1..n : r[k] \in IntentType
    BY <1>1
<1>3. \A k \in 1..n : r[k].selected \in State /\ r[k].before \in State
    BY <1>2 DEF IntentType
<1> DEFINE T == {d \in Nat : d < n /\ ~IsPrefix(r[n - d].selected, r[n].selected)}
<1>4. T = {}
  <2> SUFFICES ASSUME T # {} PROVE FALSE
      OBVIOUS
  <2>1. PICK d \in T : \A e \in T : ~(<<e, d>> \in OpToRel(<, Nat))
      BY WFMin, NatLessThanWellFounded
  <2>2. \A e \in T : ~(<<e, d>> \in {ss \in Nat \X Nat : ss[1] < ss[2]})
      BY <2>1 DEF OpToRel
  <2>3. d \in Nat /\ d < n /\ ~IsPrefix(r[n - d].selected, r[n].selected)
      BY <2>1
  <2>4. d # 0
      BY <1>2, <1>3, <2>3, PrefixReflexive
  <2>5. d - 1 \in Nat /\ d - 1 < d /\ d - 1 < n
      BY <1>2, <2>3, <2>4
  <2>6. d - 1 \notin T
      BY <2>2, <2>3, <2>5
  <2>7. IsPrefix(r[n - (d - 1)].selected, r[n].selected)
      BY <2>5, <2>6
  <2>8. PICK k : k = n - d
      OBVIOUS
  <2>9. k \in 1..n /\ k + 1 \in 1..n /\ n - (d - 1) = k + 1 /\ n \in 1..n /\ (k + 1) - 1 = k /\ k + 1 > 1
      BY <1>2, <2>3, <2>4, <2>8
  <2>10. r[k + 1].before = r[k].selected
      BY <1>1, <2>9
  <2>11. IsPrefix(r[k].selected, r[k + 1].selected)
      BY <1>1, <2>9, <2>10
  <2>12. IsPrefix(r[k + 1].selected, r[n].selected)
      BY <2>7, <2>9
  <2>13. IsPrefix(r[k].selected, r[n].selected)
      BY <1>3, <2>9, <2>11, <2>12, PrefixTransitive
  <2> QED BY <2>3, <2>8, <2>13
<1>5. ASSUME NEW k \in 1..n PROVE IsPrefix(r[k].selected, r[n].selected)
  <2>1. n - k \in Nat /\ n - k < n /\ n - (n - k) = k
      BY <1>2
  <2> QED BY <1>4, <2>1
<1> QED BY <1>1, <1>5 DEF Last

\* A journal that loads leads on from everything that was released.
LEMMA LoadedKeeps ==
    ASSUME LInv, ReceiptsChain, released # << >>
    PROVE  Receipts # << >> /\ Kept(Last(Receipts).selected)
<1>1. Types /\ OneReceiptARound
    BY DEF LInv, ReceiptsChain
<1>2. /\ Receipts \in Seq(IntentType)
      /\ \A k \in 1..Len(Receipts) : Receipts[k] \in Receipted
      /\ \A i \in Receipted : i.round \in 1..Len(Receipts) /\ Receipts[i.round] = i
      /\ Receipts = << >> <=> Receipted = {}
    BY <1>1, ReceiptsShape
<1>3. PICK r : r = Receipts
    OBVIOUS
<1>4. \A i \in Receipted : i \in IntentType /\ Sound(i)
  <2> TAKE i \in Receipted
  <2>1. i \in IntentType /\ i \in files
      BY <1>1, ReceiptedFinite DEF LInv, Journal, Receipted
  <2> QED BY <1>1, <2>1, Kinds DEF LInv, Journal
<1>5. \A i \in Receipted : IsPrefix(i.before, i.selected)
  <2> TAKE i \in Receipted
  <2>1. i.before \in State /\ i.selected \in {i.before, Append(i.before, "s")}
      BY <1>4 DEF IntentType, Sound
  <2> QED BY <2>1, PrefixReflexive
<1>6. \A k \in 1..Len(r) : IsPrefix(r[k].before, r[k].selected)
    BY <1>2, <1>3, <1>5
<1>7. \A k \in 1..Len(r) : k > 1 => r[k].before = r[k - 1].selected
  <2>1. DOMAIN Receipts = 1..Len(Receipts)
      BY <1>2
  <2> QED BY <1>3, <2>1 DEF ReceiptsChain
<1>8. \A k \in 1..Len(r) : IsPrefix(r[k].selected, Last(r).selected)
    BY <1>2, <1>3, <1>6, <1>7, ChainLeadsOn
<1>9. Last(released) \in IntentType /\ Receipt(Last(released)) \in files
  <2>1. released \in Seq(IntentType)
      BY <1>1 DEF Types
  <2>2. Len(released) \in DOMAIN released
      BY <2>1
  <2> QED BY <2>1, <2>2 DEF LInv, ReleasedIsVerified, Last
<1>10. Last(released) \in Receipted
    BY <1>1, <1>9, ReceiptedFinite
<1> QED BY <1>2, <1>3, <1>8, <1>10 DEF Kept

\* The counterexample that the constructor takes over is on disk.
LEMMA RememberedThere ==
    ASSUME LInv, ReceiptsChain, NEW c \in Remembered
    PROVE  c \in CounterexampleType \cup {None} /\ (c # None => c \in files)
<1>1. Types /\ OneReceiptARound
    BY DEF LInv, ReceiptsChain
<1>2. /\ Receipts \in Seq(IntentType)
      /\ \A k \in 1..Len(Receipts) : Receipts[k] \in Receipted
    BY <1>1, ReceiptsShape
<1>3. \A i \in Receipted : i \in IntentType /\ Sound(i)
  <2> TAKE i \in Receipted
  <2>1. i \in IntentType /\ i \in files
      BY <1>1, ReceiptedFinite DEF LInv, Journal, Receipted
  <2> QED BY <1>1, <2>1, Kinds DEF LInv, Journal
<1>4. \A i \in Receipted : /\ i.counterexample \in CounterexampleType \cup {None}
                           /\ i.counterexample # None => i.counterexample \in files
    BY <1>3 DEF IntentType, Sound
<1>5. \A f \in RolledBack : /\ f.counterexample \in CounterexampleType \cup {None}
                            /\ f.counterexample \in files
    BY <1>1, Kinds DEF LInv, Journal, RolledBack
<1>6. DOMAIN Receipts = 1..Len(Receipts)
    BY <1>2
<1>7. \/ c = None
      \/ \E f \in RolledBack : c = f.counterexample
      \/ \E k \in DOMAIN Receipts : c = Receipts[k].counterexample
    BY DEF Remembered
<1> QED BY <1>2, <1>4, <1>5, <1>6, <1>7

\* The constructor reads the journal, or refuses it.
\* (Under any faults.)
LEMMA LoadKeeps == ASSUME LInv, Load PROVE LInv'
<1>1. /\ Types /\ ~up /\ job = None /\ Loadable /\ ReceiptsChain /\ OneReceiptARound
      /\ UNCHANGED <<files, torn, canonical, auth, crashes, faults, released>>
    BY DEF LInv, Load, Loadable, ReceiptsChain
<1>2. PICK c \in Remembered :
         mem' = [Fresh EXCEPT !.receipts = Receipts, !.quarantined = Quarantined,
                              !.counterexample = c]
    BY DEF Load
<1>3. c \in CounterexampleType \cup {None} /\ (c # None => c \in files)
    BY <1>1, RememberedThere
<1>4. PICK r : r = Receipts
    OBVIOUS
<1>5. r \in Seq(IntentType)
    BY <1>1, <1>4, ReceiptsShape
<1>6. PICK q : q = Quarantined
    OBVIOUS
<1>7. q \in BOOLEAN
    BY <1>6 DEF Quarantined
<1>8. mem' = [receipts |-> r, quarantined |-> q, counterexample |-> c,
              open |-> None, pending |-> None, closed |-> FALSE]
    BY <1>2, <1>4, <1>6 DEF Fresh
<1>9. /\ mem' \in MemType /\ mem'.receipts = r /\ mem'.quarantined = q
      /\ mem'.counterexample = c /\ mem'.open = None /\ mem'.pending = None
    BY <1>3, <1>5, <1>7, <1>8 DEF MemType
<1>10. released # << >> => r # << >> /\ Kept(Last(r).selected)
    BY <1>1, <1>4, LoadedKeeps
<1>11. Kept(canonical)
    BY DEF LInv, ReleasedIsVerified, Kept
<1>12. Journal' /\ ReleasedIsVerified' /\ PendingVerified'
    BY <1>1, <1>3, <1>9, <1>11, ReleasedStays
    DEF LInv, Journal, Of, Sound, PendingVerified
<1>13. Quarantined' => mem'.quarantined
    BY <1>1, <1>6, <1>9 DEF Quarantined, Receipted, RolledBack, Of
<1>14. CASE Unresolved = {}
  <2>1. up' = TRUE /\ job' = None
      BY <1>14 DEF Load
  <2>2. ~Running' /\ ~Recovering' /\ Alive'
      BY <2>1, JobKind DEF Running, Recovering, Alive
  <2>3. Types'
      BY <1>1, <1>9, <2>1 DEF Types
  <2>4. Phases' /\ RoundKnows' /\ RecoveryKnows'
      BY <1>9, <2>2 DEF Phases, RoundKnows, RecoveryKnows
  <2>5. StatesKept'
      BY <1>1, <1>9, <1>10, <2>2 DEF StatesKept, Kept
  <2>6. QuarantineKnown'
      BY <1>13, <2>1 DEF QuarantineKnown, At
  <2> QED BY <1>12, <2>3, <2>4, <2>5, <2>6 DEF LInv
<1>15. CASE Unresolved # {}
  <2>1. PICK i \in Unresolved : job' = [step |-> "recover", intent |-> i, how |-> None]
      BY <1>15 DEF Load
  <2>2. up' = up
      BY <1>15 DEF Load
  <2>3. i \in Of("intent") /\ i \in IntentType /\ i.before \in State
      BY <1>1, <2>1, Kinds DEF Unresolved, IntentType
  <2>4. job' \in RecoveryType /\ job'.step = "recover" /\ job'.intent = i
      BY <2>1, <2>3 DEF RecoveryType
  <2>5. ~Running' /\ Recovering' /\ Alive' /\ ~up' /\ job' # None
      BY <1>1, <2>2, <2>4, JobKind DEF Running, Recovering, Alive
  <2>6. Types'
      BY <1>1, <1>9, <2>2, <2>4 DEF Types
  <2>7. Extends(i.before, r)
      BY <1>1, <1>4, <2>1 DEF Loadable, OneInterrupted
  <2>8. i \in Of("intent")'
      BY <1>1, <2>3 DEF Of
  <2>9. Phases' /\ RoundKnows' /\ RecoveryKnows'
      BY <1>9, <2>4, <2>5, <2>7, <2>8 DEF Phases, RoundKnows, RecoveryKnows, Extends
  <2>10. Kept(i.before)
      BY <1>10, <2>7 DEF Extends, Kept
  <2>11. StatesKept'
      BY <1>1, <1>9, <1>10, <2>4, <2>5, <2>10 DEF StatesKept, Kept
  <2>12. QuarantineKnown'
      BY <1>13, <2>4 DEF QuarantineKnown, At
  <2> QED BY <1>12, <2>6, <2>9, <2>11, <2>12 DEF LInv
<1> QED BY <1>14, <1>15

\* What holds while an interrupted publication is recovered.
LEMMA RecoveryFacts ==
    ASSUME LInv, Recovering
    PROVE  /\ Types /\ ~up /\ Alive /\ mem.open = None /\ mem.pending = None
           /\ job # None /\ ~Running /\ canonical \in State /\ faults \in Nat
           /\ job.intent \in Of("intent") /\ job.intent \in IntentType
           /\ job.intent \in files /\ Sound(job.intent)
           /\ job.intent.before \in State /\ job.intent.selected \in State
           /\ Kept(canonical) /\ Kept(job.intent.before) /\ Kept(job.intent.selected)
<1>1. /\ Types /\ ~up /\ mem.open = None /\ mem.pending = None /\ job # None /\ ~Running
      /\ canonical \in State /\ faults \in Nat /\ job.intent \in Of("intent")
      /\ Kept(job.intent.before)
    BY JobKinds DEF LInv, Phases, Types, RecoveryKnows, StatesKept
<1>2. /\ job.intent \in IntentType /\ job.intent \in files /\ Sound(job.intent)
    BY <1>1, Kinds DEF LInv, Journal
<1>3. /\ job.intent.before \in State /\ job.intent.selected \in State
    BY <1>2 DEF IntentType
<1>4. Kept(job.intent.selected)
    BY <1>1, <1>2, <1>3, KeptAppend DEF Sound
<1>5. Kept(canonical)
    BY DEF LInv, ReleasedIsVerified, Kept
<1> QED BY <1>1, <1>2, <1>3, <1>4, <1>5 DEF Alive

\* Recovery finds the publication done, undoes it, or fails.
\* (Under any faults.)
LEMMA RecoverPublicationKeeps == ASSUME LInv, RecoverPublication PROVE LInv'
<1>1. At("recover") /\ Recovering
    BY JobKinds DEF LInv, RecoverPublication
<1>2. /\ Types /\ ~up /\ Alive /\ mem.open = None /\ mem.pending = None
      /\ job # None /\ ~Running /\ canonical \in State /\ faults \in Nat
      /\ job.intent \in Of("intent") /\ job.intent.before \in State
      /\ Kept(canonical) /\ Kept(job.intent.before)
    BY <1>1, RecoveryFacts
<1>3. UNCHANGED <<files, torn, crashes, released>>
    BY DEF RecoverPublication
<1>4. ASSUME NEW how \in {"committed", "rolled_back"},
             canonical' = IF how = "committed" THEN canonical ELSE job.intent.before,
             job' = [job EXCEPT !.how = how, !.step = "evidence"],
             UNCHANGED <<auth, up, mem, faults>>
      PROVE  LInv'
  <2>1. /\ job' \in RecoveryType /\ job'.step = "evidence" /\ job'.intent = job.intent
        /\ job'.how = how
      BY <1>1, <1>4 DEF Recovering, RecoveryType
  <2>2. ~Running' /\ Recovering' /\ Alive' /\ job' # None
      BY <2>1, JobKind DEF Running, Recovering, Alive
  <2>3. canonical' \in State /\ Kept(canonical')
      BY <1>2, <1>4
  <2>4. Types'
      BY <1>2, <1>3, <1>4, <2>1, <2>3 DEF Types
  <2>5. Extends(job.intent.before, mem.receipts)
      BY <1>1 DEF LInv, RecoveryKnows, At
  <2>6. Phases' /\ RoundKnows'
      BY <1>2, <1>4, <2>2 DEF Phases, RoundKnows
  <2>7. RecoveryKnows'
      BY <1>2, <1>3, <1>4, <2>1, <2>5 DEF RecoveryKnows, Extends, Of
  <2>8. StatesKept' /\ PendingVerified'
      BY <1>1, <1>2, <1>3, <1>4, <2>1, <2>2 DEF LInv, StatesKept, PendingVerified, Kept
  <2>9. QuarantineKnown'
      BY <1>2, <1>3, <1>4, <2>1
      DEF LInv, QuarantineKnown, Quarantined, Receipted, RolledBack, Of, At
  <2>10. Journal' /\ ReleasedIsVerified'
      BY <1>3, <1>4, <2>3, SameFiles
  <2> QED BY <2>4, <2>6, <2>7, <2>8, <2>9, <2>10 DEF LInv
<1>5. ASSUME Fault, Down, canonical' \in {canonical, job.intent.before}
      PROVE  LInv'
  <2>1. mem'.counterexample = None /\ faults' \in Nat
      BY <1>2, <1>5 DEF Down, Fresh, Fault
  <2>2. Journal'
      BY <1>3, <2>1 DEF LInv, Journal, Of, Sound
  <2>3. canonical' \in State /\ Kept(canonical')
      BY <1>2, <1>5
  <2> QED BY <1>2, <1>3, <1>5, <2>1, <2>2, <2>3, DownKeeps DEF Types
<1> QED BY <1>4, <1>5 DEF RecoverPublication

\* The end of a process that was writing one file of its recovery.
LEMMA FailedWriteKeeps ==
    ASSUME LInv, NEW f \in FileType, WriteFails(f), Down,
           UNCHANGED <<canonical, crashes, released>>,
           f.kind # "intent",
           f.kind = "receipt" => f.of \in files,
           f.kind = "recovery" =>
             f.of \in files /\ (f.how = "rolled_back" => f.counterexample \in files)
    PROVE  LInv'
<1>1. /\ files' \in {files, files \cup {f}} /\ files' \in SUBSET FileType
      /\ IsFiniteSet(files') /\ files \subseteq files'
    BY WriteAdds DEF LInv
<1>2. mem'.counterexample = None
    BY DEF Down, Fresh
<1>3. faults' \in Nat
    BY DEF WriteFails, LInv, Types
<1>4. Journal'
    BY <1>1, <1>2, JournalGrows
<1>5. canonical' \in State /\ Kept(canonical') /\ crashes' \in Nat
    BY DEF LInv, Types, ReleasedIsVerified, Kept
<1> QED BY <1>1, <1>3, <1>4, <1>5, DownKeeps

\* Recovery writes the receipt of a committed round or the evidence of a rollback.
\* (Under any faults.)
LEMMA RecoverEvidenceKeeps == ASSUME LInv, RecoverEvidence PROVE LInv'
<1>1. At("evidence") /\ Recovering
    BY JobKinds DEF LInv, RecoverEvidence
<1>2. /\ Types /\ ~up /\ Alive /\ mem.open = None /\ mem.pending = None
      /\ job # None /\ ~Running /\ canonical \in State /\ faults \in Nat
      /\ job.intent \in Of("intent") /\ job.intent \in IntentType /\ job.intent \in files
      /\ Sound(job.intent) /\ job.intent.selected \in State
      /\ Kept(canonical) /\ Kept(job.intent.before) /\ Kept(job.intent.selected)
    BY <1>1, RecoveryFacts
<1>3. UNCHANGED <<canonical, crashes, released>>
    BY DEF RecoverEvidence
<1>4. job.how \in {"committed", "rolled_back"}
    BY <1>1 DEF LInv, RecoveryKnows, At
<1>5. PICK i : i = job.intent
    OBVIOUS
<1>6. /\ Receipt(i) \in FileType /\ Receipt(i).kind = "receipt" /\ Receipt(i).of = i
      /\ Rollback \in CounterexampleType
    BY <1>2, <1>5, EvidenceTyped DEF Rollback
<1>7. Rollback \in FileType /\ Rollback.kind = "counterexample"
    BY <1>6 DEF FileType, CounterexampleType
<1>8. PICK f : f = RecoveryEvidence
    OBVIOUS
<1>9. /\ f \in FileType /\ f.kind # "intent" /\ f.kind # "recovery"
      /\ f.kind = "receipt" => f.of \in files
      /\ job.how = "committed" => f = Receipt(i)
      /\ job.how # "committed" => f = Rollback
    BY <1>2, <1>5, <1>6, <1>7, <1>8 DEF RecoveryEvidence
<1>10. CASE WriteFails(f) /\ Down
    BY <1>3, <1>9, <1>10, FailedWriteKeeps
<1>11. CASE /\ Write(f) /\ Step("recovery") /\ UNCHANGED <<faults, up, auth>>
            /\ mem' = IF job.how = "committed"
                      THEN [mem EXCEPT !.receipts = Append(@, i),
                                       !.quarantined = @ \/ ~i.enabled,
                                       !.counterexample = IF i.enabled THEN @
                                                          ELSE i.counterexample]
                      ELSE [mem EXCEPT !.quarantined = TRUE, !.counterexample = Rollback]
  <2>1. /\ files' = files \cup {f} /\ files' \in SUBSET FileType /\ IsFiniteSet(files')
        /\ files \subseteq files'
      BY <1>2, <1>9, <1>11, WriteAdds, WriteCompletes
  <2>2. /\ job' \in RecoveryType /\ job'.step = "recovery" /\ job'.intent = i
        /\ job'.how = job.how
      BY <1>1, <1>5, <1>11 DEF Recovering, RecoveryType, Step
  <2>3. ~Running' /\ Recovering' /\ Alive' /\ job' # None /\ ~up'
      BY <1>2, <1>11, <2>2, JobKind DEF Running, Recovering, Alive
  <2>4. /\ mem' \in MemType /\ mem'.open = None /\ mem'.pending = None
        /\ mem'.counterexample # None => mem'.counterexample \in files'
        /\ released # << >> => mem'.receipts # << >>
        /\ mem'.receipts # << >> => Kept(Last(mem'.receipts).selected)
        /\ Quarantined' => mem'.quarantined
        /\ job.how = "rolled_back" => mem'.quarantined /\ Rollback \in files'
    <3>1. CASE job.how = "committed"
      <4>1. PICK rs : rs = Append(mem.receipts, i)
          OBVIOUS
      <4>2. rs \in Seq(IntentType) /\ rs # << >> /\ Last(rs) = i
          BY <1>2, <1>5, <4>1, MemFields, AppendLast
      <4>3. PICK q : q = (mem.quarantined \/ ~i.enabled)
          OBVIOUS
      <4>4. q \in BOOLEAN
          BY <4>3
      <4>5. PICK c : c = IF i.enabled THEN mem.counterexample ELSE i.counterexample
          OBVIOUS
      <4>6. c \in CounterexampleType \cup {None} /\ (c # None => c \in files)
          BY <1>2, <1>5, <4>5, MemFields DEF LInv, Journal, Sound, IntentType
      <4>7. mem' = [mem EXCEPT !.receipts = rs, !.quarantined = q, !.counterexample = c]
          BY <1>11, <3>1, <4>1, <4>3, <4>5
      <4>8. /\ mem' \in MemType /\ mem'.open = mem.open /\ mem'.pending = mem.pending
            /\ mem'.counterexample = c /\ mem'.receipts = rs /\ mem'.quarantined = q
          BY <1>2, <4>2, <4>4, <4>6, <4>7 DEF Types, MemType
      <4>9. Quarantined' => q
        <5>1. i \in IntentType /\ files' = files \cup {Receipt(i)}
            BY <1>2, <1>5, <1>9, <2>1, <3>1
        <5>2. Quarantined' => Quarantined \/ ~i.enabled
            BY <1>2, <5>1, QuarantineByReceipt
        <5>3. Quarantined => mem.quarantined
            BY <1>2 DEF LInv, QuarantineKnown
        <5> QED BY <4>3, <5>2, <5>3
      <4> QED BY <1>2, <1>5, <2>1, <3>1, <4>2, <4>6, <4>8, <4>9
    <3>2. CASE job.how = "rolled_back"
      <4>1. mem' = [mem EXCEPT !.quarantined = TRUE, !.counterexample = Rollback]
          BY <1>11, <3>2
      <4>2. /\ mem' \in MemType /\ mem'.open = mem.open /\ mem'.pending = mem.pending
            /\ mem'.counterexample = Rollback /\ mem'.receipts = mem.receipts
            /\ mem'.quarantined
          BY <1>2, <1>6, <4>1 DEF Types, MemType
      <4>3. Rollback \in files'
          BY <1>9, <2>1, <3>2
      <4> QED BY <1>2, <4>2, <4>3 DEF LInv, StatesKept
    <3> QED BY <1>4, <3>1, <3>2
  <2>5. Types'
      BY <1>2, <1>3, <1>11, <2>1, <2>2, <2>4 DEF Types
  <2>6. Phases' /\ RoundKnows' /\ PendingVerified'
      BY <2>3, <2>4 DEF Phases, RoundKnows, PendingVerified
  <2>7. i \in Of("intent")' /\ Rollback' = Rollback
      BY <1>2, <1>5, <2>1, <2>2 DEF Of, Rollback
  <2>8. RecoveryKnows'
      BY <1>4, <2>2, <2>4, <2>7 DEF RecoveryKnows
  <2>9. StatesKept'
      BY <1>2, <1>3, <1>5, <2>2, <2>3, <2>4 DEF StatesKept, Kept
  <2>10. QuarantineKnown'
      BY <2>2, <2>4 DEF QuarantineKnown, At
  <2>11. Journal'
      BY <1>9, <2>1, <2>4, JournalGrows
  <2>12. ReleasedIsVerified'
      BY <1>2, <1>3, <2>1, ReleasedStays
  <2> QED BY <2>5, <2>6, <2>8, <2>9, <2>10, <2>11, <2>12 DEF LInv
<1> QED BY <1>5, <1>8, <1>10, <1>11 DEF RecoverEvidence

\* The last file of a recovery.
LEMMA RecoveryFile ==
    ASSUME At("recovery")
    PROVE  Writing = {Recovery(job.intent, job.how,
                               IF job.how = "committed" THEN job.intent.counterexample
                               ELSE Rollback)}
<1>1. ~At("compare") /\ ~At("intent") /\ ~At("receipt") /\ ~At("evidence")
    BY DEF At
<1> HIDE DEF At
<1> QED BY <1>1 DEF Writing

\* The durable recovery document settles the interrupted intent.
\* (Under any faults.)
LEMMA WriteRecoveryKeeps == ASSUME LInv, WriteRecovery PROVE LInv'
<1>1. At("recovery") /\ Recovering
    BY JobKinds DEF LInv, WriteRecovery
<1>2. /\ Types /\ ~up /\ Alive /\ mem.open = None /\ mem.pending = None
      /\ job # None /\ ~Running /\ canonical \in State /\ faults \in Nat
      /\ job.intent \in IntentType /\ job.intent \in files /\ Kept(canonical)
    BY <1>1, RecoveryFacts
<1>3. UNCHANGED <<canonical, crashes, released>>
    BY DEF WriteRecovery
<1>4. /\ job.how \in {"committed", "rolled_back"}
      /\ job.how = "rolled_back" => mem.quarantined /\ Rollback \in files
    BY <1>1 DEF LInv, RecoveryKnows, At
<1>5. PICK c : c = IF job.how = "committed" THEN job.intent.counterexample ELSE Rollback
    OBVIOUS
<1>6. PICK f : f = Recovery(job.intent, job.how, c)
    OBVIOUS
<1>7. c \in CounterexampleType \cup {None} /\ (job.how = "rolled_back" => c \in files)
  <2>1. Rollback \in CounterexampleType
      BY <1>2, EvidenceTyped DEF Rollback
  <2>2. job.intent.counterexample \in CounterexampleType \cup {None}
      BY <1>2 DEF IntentType
  <2> QED BY <1>4, <1>5, <2>1, <2>2
<1>8. /\ f \in FileType /\ f.kind = "recovery" /\ f.of = job.intent /\ f.how = job.how
      /\ f.counterexample = c
    BY <1>2, <1>4, <1>6, <1>7, EvidenceTyped
<1>9. CASE WriteFails(f) /\ Down
    BY <1>2, <1>3, <1>7, <1>8, <1>9, FailedWriteKeeps
<1>10. CASE Write(f) /\ up' = TRUE /\ job' = None /\ UNCHANGED <<faults, mem, auth>>
  <2>1. /\ files' = files \cup {f} /\ files' \in SUBSET FileType /\ IsFiniteSet(files')
        /\ files \subseteq files'
      BY <1>2, <1>8, <1>10, WriteAdds, WriteCompletes
  <2>2. ~Running' /\ ~Recovering' /\ Alive'
      BY <1>10, JobKind DEF Running, Recovering, Alive
  <2>3. Types'
      BY <1>2, <1>3, <1>10, <2>1 DEF Types
  <2>4. Phases' /\ RoundKnows' /\ RecoveryKnows' /\ PendingVerified'
      BY <1>2, <1>10, <2>2 DEF Phases, RoundKnows, RecoveryKnows, PendingVerified
  <2>5. StatesKept'
      BY <1>2, <1>3, <1>10, <2>2 DEF LInv, StatesKept, Kept
  <2>6. Quarantined' => mem.quarantined
    <3>1. Of("receipt")' = Of("receipt")
        BY <1>8, <2>1 DEF Of
    <3>2. \A g \in RolledBack' : g \in RolledBack \/ job.how = "rolled_back"
        BY <1>8, <2>1 DEF RolledBack, Of
    <3>3. Quarantined' => Quarantined \/ job.how = "rolled_back"
        BY <3>1, <3>2 DEF Quarantined, Receipted
    <3> QED BY <1>2, <1>4, <3>3 DEF LInv, QuarantineKnown
  <2>7. QuarantineKnown'
      BY <1>10, <2>6 DEF QuarantineKnown, At
  <2>8. mem'.counterexample # None => mem'.counterexample \in files'
      BY <1>10, <2>1 DEF LInv, Journal
  <2>9. Journal'
      BY <1>2, <1>7, <1>8, <2>1, <2>8, JournalGrows
  <2>10. ReleasedIsVerified'
      BY <1>2, <1>3, <2>1, ReleasedStays
  <2> QED BY <2>3, <2>4, <2>5, <2>7, <2>9, <2>10 DEF LInv
<1> QED BY <1>1, <1>5, <1>6, <1>9, <1>10, RecoveryFile DEF WriteRecovery

\* The invariant holds at first.
LEMMA LiveInit == Init => LInv
<1> SUFFICES ASSUME Init PROVE LInv
    OBVIOUS
<1>1. /\ files = {} /\ canonical = << >> /\ up = FALSE /\ mem = Fresh /\ job = None
      /\ crashes = 0 /\ faults = 0 /\ released = << >>
    BY DEF Init
<1>2. ~Running /\ ~Recovering /\ ~Alive
    BY <1>1, JobKind DEF Running, Recovering, Alive
<1>3. /\ mem \in MemType /\ mem.receipts = << >> /\ mem.open = None /\ mem.pending = None
      /\ mem.counterexample = None
    BY <1>1 DEF Fresh, MemType
<1>4. Types
  <2>1. IsFiniteSet({})
      BY FS_EmptySet
  <2>2. << >> \in State /\ << >> \in Seq(IntentType)
      BY DEF State
  <2>3. {} \in SUBSET FileType /\ FALSE \in BOOLEAN /\ 0 \in Nat
      OBVIOUS
  <2> QED BY <1>1, <1>3, <2>1, <2>2, <2>3 DEF Types
<1>5. Phases /\ RoundKnows /\ RecoveryKnows /\ PendingVerified
    BY <1>1, <1>2, <1>3 DEF Phases, RoundKnows, RecoveryKnows, PendingVerified
<1>6. StatesKept /\ QuarantineKnown
    BY <1>1, <1>2, <1>3 DEF StatesKept, QuarantineKnown, At
<1>7. Journal
    BY <1>1, <1>3 DEF Journal, Of
<1>8. ReleasedIsVerified
    BY <1>1 DEF ReleasedIsVerified
<1> QED BY <1>4, <1>5, <1>6, <1>7, <1>8 DEF LInv

\* Every step keeps the invariant.
LEMMA LiveNext == LInv /\ [Next]_vars => LInv'
<1> SUFFICES ASSUME LInv, [Next]_vars PROVE LInv'
    OBVIOUS
<1>1. CASE Begin \/ Abort \/ (\E n \in {0, 1}, r \in Roots : Commit(n, r)) \/ Cleanup
           \/ ConsumeVerifiedAdvance \/ Finalize
    BY <1>1, BeginKeeps, AbortKeeps, CommitKeeps, CleanupKeeps, ConsumeVerifiedAdvanceKeeps,
       FinalizeKeeps
<1>2. CASE RunCandidate \/ CandidateFails \/ RestoreCandidate \/ RunSerial \/ SerialFails
    BY <1>2, RunCandidateKeeps, CandidateFailsKeeps, RestoreCandidateKeeps, RunSerialKeeps,
       SerialFailsKeeps
<1>3. CASE Compare \/ WriteIntent \/ PublishPrivate \/ DestroyPrivate \/ WriteReceipt
    BY <1>3, CompareKeeps, WriteIntentKeeps, PublishPrivateKeeps, DestroyPrivateKeeps,
       WriteReceiptKeeps
<1>4. CASE Crash \/ Load \/ RecoverPublication \/ RecoverEvidence \/ WriteRecovery
    BY <1>4, CrashKeeps, LoadKeeps, RecoverPublicationKeeps, RecoverEvidenceKeeps,
       WriteRecoveryKeeps
<1>5. CASE UNCHANGED vars
  <2>1. /\ Types' /\ Phases' /\ RoundKnows' /\ RecoveryKnows'
      BY <1>5 DEF LInv, vars, Types, Phases, RoundKnows, RecoveryKnows, Running, Recovering,
         Alive, Extends, Of, Rollback
  <2>2. StatesKept' /\ PendingVerified' /\ QuarantineKnown'
      BY <1>5 DEF LInv, vars, StatesKept, PendingVerified, QuarantineKnown, Kept, Recovering,
         Alive, Of, Quarantined, Receipted, RolledBack, At
  <2>3. Kept(canonical)
      BY DEF LInv, ReleasedIsVerified, Kept
  <2>4. Journal' /\ ReleasedIsVerified'
      BY <1>5, <2>3, SameFiles DEF vars
  <2> QED BY <2>1, <2>2, <2>4 DEF LInv
<1> QED BY <1>1, <1>2, <1>3, <1>4, <1>5 DEF Next

(***************************************************************************)
(* Theorems, for any rounds, deaths and faults.                            *)
(***************************************************************************)
\* The invariant of the live commit.
THEOREM LiveInvariant == Spec => []LInv
<1> QED BY LiveInit, LiveNext, PTL DEF Spec

\* Tokens that went to the engine are the serial transition's, their receipt and any
\* counterexample are on disk, and no failure, death or recovery takes back the state
\* they led to (consume_verified_advance, _recover_intent).
THEOREM ReleasedStaysVerified == Spec => []ReleasedIsVerified
<1>1. LInv => ReleasedIsVerified
    BY DEF LInv
<1> QED BY <1>1, LiveInvariant, PTL

\* A candidate that a receipt or a rolled-back recovery has quarantined is never run
\* again, in this process or a later one (run_round, __init__).
THEOREM QuarantineStays == Spec => []QuarantineHolds
<1>1. LInv => QuarantineHolds
  <2> SUFFICES ASSUME LInv, At("candidate") PROVE RolledBack = {} /\ \A i \in Receipted : i.enabled
      BY DEF QuarantineHolds
  <2>1. ~mem.quarantined /\ Alive
      BY DEF LInv, QuarantineKnown, At, Alive
  <2>2. ~Quarantined
      BY <2>1 DEF LInv, QuarantineKnown
  <2> QED BY <2>2 DEF Quarantined
<1> QED BY <1>1, LiveInvariant, PTL

(***************************************************************************)
(* When the process only dies.                                             *)
(***************************************************************************)
\* What the constructor reads depends on the intents, receipts and recoveries only.
LEMMA SameEvidence ==
    ASSUME Of("intent")' = Of("intent"), Of("receipt")' = Of("receipt"),
           Of("recovery")' = Of("recovery")
    PROVE  /\ Receipted' = Receipted /\ Receipts' = Receipts /\ Unresolved' = Unresolved
           /\ ReceiptsChain' <=> ReceiptsChain
           /\ OneRecoveryEach' <=> OneRecoveryEach
           /\ RecoveriesAgree' <=> RecoveriesAgree
           /\ \A i : NextOfChain(i)' <=> NextOfChain(i)
<1>1. Receipted' = Receipted
    BY DEF Receipted
<1>2. Receipts' = Receipts
    BY <1>1 DEF Receipts
<1>3. Unresolved' = Unresolved
    BY DEF Unresolved, Resolved
<1>4. OneReceiptARound' <=> OneReceiptARound
    BY <1>1 DEF OneReceiptARound
<1>5. ReceiptsChain' <=> ReceiptsChain
    BY <1>2, <1>4 DEF ReceiptsChain
<1>6. (OneRecoveryEach' <=> OneRecoveryEach) /\ (RecoveriesAgree' <=> RecoveriesAgree)
    BY <1>1 DEF OneRecoveryEach, RecoveriesAgree
<1>7. \A i : NextOfChain(i)' <=> NextOfChain(i)
    BY <1>1, <1>2 DEF NextOfChain, Reached
<1> QED BY <1>1, <1>2, <1>3, <1>5, <1>6, <1>7

\* A step of a round that writes neither intent nor receipt.
LEMMA RoundCalm ==
    ASSUME LInv, DParts, Running, UNCHANGED <<up, crashes>>,
           Of("intent")' = Of("intent"), Of("receipt")' = Of("receipt"),
           Of("recovery")' = Of("recovery"),
           job' \in RoundType, job'.before = job.before, mem'.receipts = mem.receipts,
           job'.step \in {"publish", "destroy", "receipt"} <=>
             job.step \in {"publish", "destroy", "receipt"},
           job.step \in {"publish", "destroy", "receipt"} => job'.intent = job.intent,
           job'.step # "restore",
           canonical' = IF job'.step \in {"destroy", "receipt"} THEN job'.intent.selected
                        ELSE job'.before,
           (\E i \in Receipted : ~i.enabled) => job'.cand = None /\ ~job'.fault
    PROVE  DParts'
<1>1. /\ Receipted' = Receipted /\ Receipts' = Receipts /\ Unresolved' = Unresolved
      /\ ReceiptsChain' <=> ReceiptsChain
      /\ OneRecoveryEach' <=> OneRecoveryEach
      /\ RecoveriesAgree' <=> RecoveriesAgree
      /\ \A i : NextOfChain(i)' <=> NextOfChain(i)
    BY SameEvidence
<1>2. Running' /\ ~Recovering' /\ job' # None /\ Alive' /\ Alive /\ ~Recovering /\ up
    BY JobKind, RoundFacts DEF Running, Recovering, Alive
<1>3. ChainHolds'
    BY <1>1, <1>2 DEF DParts, ChainHolds
<1>4. JobPending' <=> JobPending
    BY <1>2 DEF JobPending
<1>5. JobPending => job'.intent = job.intent
    BY <1>2 DEF JobPending
<1>6. Interrupted'
    BY <1>1, <1>2, <1>4, <1>5 DEF DParts, Interrupted
<1>8. CandidateAllowed'
    BY <1>1 DEF CandidateAllowed
<1>9. RootStands'
    BY <1>2 DEF DParts, RootStands, Reached
<1>10. RecoveryStands'
    BY <1>2 DEF RecoveryStands
<1> QED BY <1>3, <1>6, <1>8, <1>9, <1>10 DEF DParts

\* The gate between calls.
LEMMA GateCalm ==
    ASSUME LInv, DParts, up, up', job' = None, UNCHANGED <<files, crashes>>,
           mem'.receipts = mem.receipts, ~JobPending, canonical' = Reached(mem.receipts)
    PROVE  DParts'
<1>1. /\ Receipted' = Receipted /\ Receipts' = Receipts /\ Unresolved' = Unresolved
      /\ ReceiptsChain' <=> ReceiptsChain
      /\ OneRecoveryEach' <=> OneRecoveryEach
      /\ RecoveriesAgree' <=> RecoveriesAgree
      /\ \A i : NextOfChain(i)' <=> NextOfChain(i)
    BY SameEvidence DEF Of
<1>2. ~Running' /\ ~Recovering' /\ Alive' /\ Alive
    BY JobKind DEF Running, Recovering, Alive
<1>3. ChainHolds'
    BY <1>1, <1>2 DEF DParts, ChainHolds
<1>4. ~JobPending'
    BY <1>2 DEF JobPending
<1>5. Interrupted'
    BY <1>1, <1>2, <1>4 DEF DParts, Interrupted
<1>7. CandidateAllowed' /\ RecoveryStands'
    BY <1>2 DEF CandidateAllowed, RecoveryStands
<1>8. RootStands'
    BY <1>2 DEF RootStands, Reached
<1> QED BY <1>3, <1>5, <1>7, <1>8 DEF DParts

\* The gate's own steps.
LEMMA GateStands ==
    ASSUME LInv, DParts, Begin \/ Abort \/ ConsumeVerifiedAdvance \/ Finalize
    PROVE  DParts'
<1>1. /\ Types /\ up /\ job = None /\ up' /\ job' = None /\ UNCHANGED <<files, crashes, canonical>>
    BY DEF LInv, Begin, Abort, ConsumeVerifiedAdvance, Finalize, Idle
<1>2. mem'.receipts = mem.receipts
    BY <1>1 DEF Begin, Abort, ConsumeVerifiedAdvance, Finalize, Types, MemType
<1>3. ~JobPending /\ canonical = Reached(mem.receipts)
    BY <1>1, JobKind DEF JobPending, Running, Recovering, DParts, RootStands
<1> QED BY <1>1, <1>2, <1>3, GateCalm

\* Gate.commit starts run_round.
\* (A clean history stays recoverable.)
LEMMA CommitStands ==
    ASSUME LInv, DParts, NEW n \in {0, 1}, NEW r \in Roots, Commit(n, r)
    PROVE  DParts'
<1>1. /\ Types /\ up /\ job = None /\ job' = Started(n, r) /\ UNCHANGED <<files, crashes, canonical, up, mem>>
    BY DEF LInv, Commit, Idle
<1>2. PICK step : step = IF ~Extends(canonical, mem.receipts) THEN "failed"
                         ELSE IF mem.quarantined THEN "serial" ELSE "candidate"
    OBVIOUS
<1>3. step \in {"failed", "serial", "candidate"}
    BY <1>2
<1>4. job' = [roots |-> r, step |-> step, round |-> Len(mem.receipts) + 1, n |-> n,
              before |-> canonical, cand |-> None, serial |-> None, fault |-> FALSE, intent |-> None]
    BY <1>1, <1>2 DEF Started
<1>5. /\ job' \in RoundType /\ job'.step = step /\ job'.before = canonical
      /\ job'.cand = None /\ ~job'.fault
    BY <1>1, <1>3, <1>4, MemFields DEF RoundType, Types
<1>6. /\ Receipted' = Receipted /\ Receipts' = Receipts /\ Unresolved' = Unresolved
      /\ ReceiptsChain' <=> ReceiptsChain
      /\ OneRecoveryEach' <=> OneRecoveryEach
      /\ RecoveriesAgree' <=> RecoveriesAgree
      /\ \A i : NextOfChain(i)' <=> NextOfChain(i)
    BY <1>1, SameEvidence DEF Of
<1>7. Running' /\ ~Recovering' /\ job' # None /\ Alive' /\ Alive /\ ~Recovering /\ ~Running
    BY <1>1, <1>5, JobKind DEF Running, Recovering, Alive
<1>8. ChainHolds'
    BY <1>1, <1>6, <1>7 DEF DParts, ChainHolds
<1>9. ~JobPending' /\ ~JobPending
    BY <1>3, <1>5, <1>7 DEF JobPending
<1>10. Interrupted'
    BY <1>6, <1>7, <1>9 DEF DParts, Interrupted
<1>12. CandidateAllowed' /\ RecoveryStands'
    BY <1>5, <1>7 DEF CandidateAllowed, RecoveryStands
<1>13. canonical = Reached(mem.receipts)
    BY <1>1 DEF DParts, RootStands
<1>14. RootStands'
    BY <1>1, <1>3, <1>5, <1>7, <1>13 DEF RootStands, Reached
<1> QED BY <1>8, <1>10, <1>12, <1>14 DEF DParts

\* Steps of a round before its intent.
LEMMA ExecutionStands ==
    ASSUME LInv, DParts, Clean, Clean',
           RunCandidate \/ CandidateFails \/ RestoreCandidate \/ RunSerial \/ SerialFails
    PROVE  DParts'
<1>0. Types /\ faults = 0 /\ faults' = 0
    BY DEF LInv, Clean
<1>1. CASE RunCandidate
  <2>1. At("candidate") /\ Running
      BY <1>0, <1>1, JobKinds DEF RunCandidate
  <2>2. PICK state \in {Result("s"), Append(job.before, "x")} :
              job' = [job EXCEPT !.cand = state, !.step = "serial"]
      BY <1>1 DEF RunCandidate
  <2>3. state \in State
      BY <2>1, <2>2, ResultIsState
  <2>4. /\ job' \in RoundType /\ job'.before = job.before /\ job'.step = "serial"
        /\ job.step = "candidate"
      BY <2>1, <2>2, <2>3 DEF Running, RoundType, At
  <2>5. UNCHANGED <<files, canonical, up, mem, crashes>>
      BY <1>1 DEF RunCandidate
  <2>6. ~(\E i \in Receipted : ~i.enabled)
      BY <2>1 DEF LInv, QuarantineKnown, At, Alive, Quarantined
  <2>7. canonical = job.before
      BY <2>1, <2>4 DEF DParts, RootStands
  <2> QED BY <2>1, <2>4, <2>5, <2>6, <2>7, RoundCalm DEF Of
<1>2. CASE CandidateFails \/ SerialFails
    BY <1>0, <1>2 DEF CandidateFails, SerialFails, Fault
<1>3. CASE RestoreCandidate
    BY <1>0, <1>3, JobKinds DEF RestoreCandidate, DParts, RootStands, At
<1>4. CASE RunSerial
  <2>1. At("serial") /\ Running
      BY <1>0, <1>4, JobKinds DEF RunSerial
  <2>2. PICK state : state = Result("s")
      OBVIOUS
  <2>3. job' = [job EXCEPT !.serial = state, !.step = "compare"] /\ state \in State
      BY <1>4, <2>1, <2>2, ResultIsState DEF RunSerial
  <2>4. /\ job' \in RoundType /\ job'.before = job.before /\ job'.step = "compare"
        /\ job'.cand = job.cand /\ job'.fault = job.fault /\ job.step = "serial"
      BY <2>1, <2>3 DEF Running, RoundType, At
  <2>5. UNCHANGED <<files, canonical, up, mem, crashes>>
      BY <1>4 DEF RunSerial
  <2>6. canonical = job.before
      BY <2>1, <2>4 DEF DParts, RootStands
  <2>7. (\E i \in Receipted : ~i.enabled) => job.cand = None /\ ~job.fault
      BY <2>1 DEF DParts, CandidateAllowed
  <2> QED BY <2>1, <2>4, <2>5, <2>6, <2>7, RoundCalm DEF Of
<1> QED BY <1>1, <1>2, <1>3, <1>4

\* Without faults and cut files no write has failed.
LEMMA CleanWrites ==
    ASSUME Types, Clean', NEW f
    PROVE  ~WriteFails(f)
BY DEF Types, Clean, WriteFails

\* Candidate and serial transition are compared; a difference leaves a
\* counterexample and quarantine.
\* (A clean history stays recoverable.)
LEMMA CompareStands == ASSUME LInv, DParts, Clean', Compare PROVE DParts'
<1>1. At("compare") /\ Running /\ Types
    BY JobKinds DEF LInv, Compare
<1>2. UNCHANGED <<canonical, up, crashes>>
    BY DEF Compare
<1>3. PICK e : e = Evidence
    OBVIOUS
<1>4. e # None => e.kind = "counterexample"
    BY <1>1, <1>3, EvidenceShape DEF CounterexampleType
<1>5. files' = files \/ (e # None /\ files' = files \cup {e})
    BY <1>1, <1>3, CleanWrites DEF Compare, Write
<1>6. /\ Of("intent")' = Of("intent") /\ Of("receipt")' = Of("receipt")
      /\ Of("recovery")' = Of("recovery")
    BY <1>4, <1>5 DEF Of
<1>7. mem'.receipts = mem.receipts
    BY <1>1, CleanWrites DEF Compare, Types, MemType
<1>8. PICK step \in {"failed", "intent"} : job' = [job EXCEPT !.step = step]
    BY DEF Compare, Step
<1>9. /\ job' \in RoundType /\ job'.before = job.before /\ job'.step = step
      /\ job'.cand = job.cand /\ job'.fault = job.fault /\ job.step = "compare"
    BY <1>1, <1>8 DEF Running, RoundType, At
<1>10. canonical = job.before
    BY <1>1, <1>9 DEF DParts, RootStands
<1>11. (\E i \in Receipted : ~i.enabled) => job.cand = None /\ ~job.fault
    BY <1>1 DEF DParts, CandidateAllowed
<1> QED BY <1>1, <1>2, <1>6, <1>7, <1>9, <1>10, <1>11, RoundCalm

\* The durable intent names the state the canonical root will have.
\* (A clean history stays recoverable.)
LEMMA WriteIntentStands ==
    ASSUME LInv, DParts, Clean', WriteIntent
    PROVE  DParts'
<1>1. At("intent") /\ Running /\ Types /\ RoundKnows /\ up /\ Alive /\ ~Recovering
    BY JobKinds, RoundFacts DEF LInv, WriteIntent
<1>2. UNCHANGED <<canonical, up, mem, crashes>>
    BY DEF WriteIntent
<1>3. /\ job.round = Len(mem.receipts) + 1 /\ job.serial = Serial(job.before, job.n)
      /\ job.step = "intent"
    BY <1>1 DEF RoundKnows, At
<1>4. PICK i : i = Intent
    OBVIOUS
<1>5. /\ i \in IntentType /\ i.before = job.before /\ i.round = job.round
      /\ i.selected = job.serial
      /\ i.mode = IF job.cand # None THEN "validated_candidate"
                  ELSE IF job.fault THEN "candidate_fault_serial"
                  ELSE "quarantined_serial"
    BY <1>1, <1>4, IntentShape
<1>6. /\ files' = files \cup {i} /\ i.kind = "intent"
      /\ job' = [job EXCEPT !.intent = i, !.step = IF job.n = 0 THEN "destroy" ELSE "publish"]
    BY <1>1, <1>4, <1>5, CleanWrites DEF WriteIntent, Write, IntentType
<1>7. /\ Of("intent")' = Of("intent") \cup {i} /\ Of("receipt")' = Of("receipt")
      /\ Of("recovery")' = Of("recovery")
    BY <1>6 DEF Of
<1>8. Receipted' = Receipted
    BY <1>7 DEF Receipted
<1>9. Receipts' = Receipts
    BY <1>8 DEF Receipts
<1>10. mem.receipts = Receipts /\ ReceiptsChain /\ OneReceiptARound
    BY <1>1 DEF DParts, ChainHolds, ReceiptsChain
<1>11. i.round = Len(Receipts) + 1 /\ Len(Receipts) \in Nat
    BY <1>1, <1>3, <1>5, <1>10, MemFields
<1>12. i \notin Resolved
    BY <1>4 DEF WriteIntent, Clean
<1>13. Resolved' = Resolved
    BY <1>7 DEF Resolved
<1>14. Unresolved = {}
    BY <1>1, <1>3 DEF DParts, Interrupted, JobPending
<1>15. Unresolved' = {i}
    BY <1>7, <1>12, <1>13, <1>14 DEF Unresolved
<1>16. job.before = Reached(mem.receipts) /\ canonical = job.before
    BY <1>1, <1>3 DEF DParts, RootStands
<1>17. (\E j \in Receipted : ~j.enabled) => i.mode = "quarantined_serial"
    BY <1>1, <1>5 DEF DParts, CandidateAllowed
<1>18. NextOfChain(i)'
    BY <1>5, <1>8, <1>9, <1>10, <1>11, <1>16, <1>17 DEF NextOfChain, Reached
<1>19. PICK step : step = IF job.n = 0 THEN "destroy" ELSE "publish"
    OBVIOUS
<1>20. /\ job' \in RoundType /\ job'.before = job.before /\ job'.step = step
       /\ job'.cand = job.cand /\ job'.fault = job.fault /\ job'.intent = i
  <2>1. job' = [job EXCEPT !.intent = i, !.step = step] /\ job \in RoundType
      BY <1>1, <1>6, <1>19 DEF Running
  <2>2. step \in {"destroy", "publish"}
      BY <1>19
  <2>3. job' \in RoundType
      BY <1>5, <2>1, <2>2 DEF RoundType
  <2> QED BY <2>1, <2>3 DEF RoundType
<1>21. step \in {"destroy", "publish"} /\ (step = "destroy" => i.selected = job.before)
    BY <1>3, <1>5, <1>19 DEF Serial
<1>22. Running' /\ ~Recovering' /\ job' # None /\ Alive' /\ up'
    BY <1>1, <1>2, <1>20, JobKind DEF Running, Recovering, Alive
<1>23. ChainHolds'
  <2>1. ReceiptsChain'
      BY <1>8, <1>9, <1>10 DEF ReceiptsChain, OneReceiptARound
  <2>2. OneRecoveryEach' /\ RecoveriesAgree'
      BY <1>7, <1>8 DEF DParts, ChainHolds, OneRecoveryEach, RecoveriesAgree
  <2> QED BY <1>2, <1>9, <1>10, <2>1, <2>2 DEF ChainHolds
<1>24. Interrupted'
  <2>1. JobPending'
      BY <1>20, <1>21, <1>22 DEF JobPending
  <2> QED BY <1>15, <1>18, <1>20, <2>1 DEF Interrupted
<1>26. CandidateAllowed'
    BY <1>1, <1>8, <1>20 DEF DParts, CandidateAllowed
<1>27. RootStands'
    BY <1>2, <1>16, <1>20, <1>21, <1>22 DEF RootStands, Reached
<1>28. RecoveryStands'
    BY <1>22 DEF RecoveryStands
<1> QED BY <1>23, <1>24, <1>26, <1>27, <1>28 DEF DParts

\* The root swap and the destruction of the private roots.
\* (A clean history stays recoverable.)
LEMMA PublicationStands ==
    ASSUME LInv, DParts, Clean', PublishPrivate \/ DestroyPrivate
    PROVE  DParts'
<1>1. Types /\ Running /\ job.step \in {"publish", "destroy"}
    BY JobKinds DEF LInv, PublishPrivate, DestroyPrivate, At
<1>2. UNCHANGED <<files, up, mem, crashes>>
    BY DEF PublishPrivate, DestroyPrivate
<1>3. ~Fault
    BY <1>1 DEF Types, Clean, Fault
<1>4. PICK step \in {"destroy", "receipt"} :
         /\ job' = [job EXCEPT !.step = step] /\ canonical' = job.intent.selected
  <2>1. CASE PublishPrivate
      BY <1>3, <2>1 DEF PublishPrivate, Publish, Step
  <2>2. CASE DestroyPrivate
    <3>1. canonical = job.intent.selected
        BY <1>1, <2>2 DEF DestroyPrivate, At, DParts, RootStands
    <3> QED BY <1>3, <2>2, <3>1 DEF DestroyPrivate, Step
  <2> QED BY <2>1, <2>2
<1>5. /\ job' \in RoundType /\ job'.before = job.before /\ job'.step = step
      /\ job'.cand = job.cand /\ job'.fault = job.fault /\ job'.intent = job.intent
    BY <1>1, <1>4 DEF Running, RoundType
<1>6. (\E i \in Receipted : ~i.enabled) => job.cand = None /\ ~job.fault
    BY <1>1 DEF DParts, CandidateAllowed
<1> QED BY <1>1, <1>2, <1>4, <1>5, <1>6, RoundCalm DEF Of

\* The gate's handler of a round that failed.
\* (A clean history stays recoverable.)
LEMMA CleanupStands == ASSUME LInv, DParts, Clean', Cleanup PROVE DParts'
<1>1. At("failed") /\ Running /\ Types /\ up /\ mem.open = job.before /\ ~Recovering
    BY JobKinds, RoundFacts DEF LInv, Cleanup
<1>2. ~Fault
    BY <1>1 DEF Types, Clean, Fault
<1>3. /\ canonical' = mem.open /\ mem' = [mem EXCEPT !.open = None] /\ job' = None
      /\ up' = up /\ UNCHANGED <<files, crashes>>
    BY <1>2 DEF Cleanup
<1>4. mem'.receipts = mem.receipts
    BY <1>1, <1>3 DEF Types, MemType
<1>5. ~JobPending /\ job.before = Reached(mem.receipts)
    BY <1>1 DEF JobPending, At, DParts, RootStands
<1> QED BY <1>1, <1>3, <1>4, <1>5, GateCalm

\* The elements of a sequence that was appended to.
LEMMA AppendElements ==
    ASSUME NEW r \in Seq(IntentType), NEW i \in IntentType
    PROVE  /\ Append(r, i) \in Seq(IntentType) /\ Len(Append(r, i)) = Len(r) + 1
           /\ Append(r, i)[Len(r) + 1] = i
           /\ \A k \in 1..Len(r) : Append(r, i)[k] = r[k]
OBVIOUS

\* The receipt of the next round makes the chain longer by one.
LEMMA ChainExtends ==
    ASSUME Types, ReceiptsChain, NEW i \in IntentType, NextOfChain(i),
           Receipted' = Receipted \cup {i}
    PROVE  ReceiptsChain' /\ Receipts' = Append(Receipts, i)
<1>1. OneReceiptARound
    BY DEF ReceiptsChain
<1>2. PICK r : r = Receipts
    OBVIOUS
<1>3. PICK n : n = Len(r)
    OBVIOUS
<1>4. /\ r \in Seq(IntentType) /\ n \in Nat /\ n = Cardinality(Receipted)
      /\ \A k \in 1..n : r[k] \in Receipted /\ r[k].round = k
      /\ \A j \in Receipted : j.round \in 1..n /\ r[j.round] = j
      /\ r = << >> <=> Receipted = {}
    BY <1>1, <1>2, <1>3, ReceiptsShape
<1>r. r \in Seq(IntentType) /\ n = Len(r) /\ n \in Nat
    BY <1>3, <1>4
<1>5. i.round = n + 1 /\ i.before = Reached(r)
    BY <1>2, <1>3 DEF NextOfChain
<1>6. i \notin Receipted
    BY <1>4, <1>5
<1>7. /\ IsFiniteSet(Receipted \cup {i}) /\ Cardinality(Receipted \cup {i}) = n + 1
      /\ Receipted \cup {i} \subseteq IntentType
  <2>1. IsFiniteSet(Receipted) /\ Receipted \subseteq IntentType
      BY ReceiptedFinite
  <2> QED BY <1>4, <1>6, <2>1, FS_AddElement
<1>8. PICK S : S = Receipted'
    OBVIOUS
<1>9. /\ S = Receipted \cup {i} /\ S \subseteq IntentType /\ IsFiniteSet(S)
      /\ Cardinality(S) = n + 1
    BY <1>7, <1>8
<1>10. \A a, b \in S : a.round = b.round => a = b
  <2> TAKE a, b \in S
  <2>1. CASE a \in Receipted /\ b \in Receipted
      BY <1>1, <2>1 DEF OneReceiptARound
  <2>2. CASE a = i \/ b = i
      BY <1>4, <1>5, <1>9, <2>2
  <2> QED BY <1>9, <2>1, <2>2
<1>11. {a.round : a \in S} = 1..(n + 1)
  <2>1. ASSUME NEW a \in S PROVE a.round \in 1..(n + 1)
      BY <1>4, <1>5, <1>9
  <2>2. ASSUME NEW k \in 1..(n + 1) PROVE \E a \in S : a.round = k
    <3>1. CASE k = n + 1
        BY <1>5, <1>9, <3>1
    <3>2. CASE k # n + 1
      <4>1. k \in 1..n
          BY <1>4, <3>2
      <4> QED BY <1>4, <1>9, <4>1
    <3> QED BY <3>1, <3>2
  <2> QED BY <2>1, <2>2
<1>12. OneReceiptARound'
    BY <1>8, <1>9, <1>10, <1>11 DEF OneReceiptARound
<1>13. PICK s : s = Receipts'
    OBVIOUS
<1>14. s = [k \in {a.round : a \in S} |-> CHOOSE a \in S : a.round = k]
    BY <1>8, <1>13 DEF Receipts
<1>15. /\ s \in Seq(IntentType) /\ Len(s) = n + 1
       /\ \A k \in 1..(n + 1) : s[k] \in S /\ s[k].round = k
       /\ \A a \in S : s[a.round] = a
  <2>1. {a.round : a \in S} = 1..Cardinality(S)
      BY <1>9, <1>11
  <2>2. /\ s \in Seq(IntentType) /\ Len(s) = Cardinality(S)
        /\ \A k \in 1..Len(s) : s[k] \in S /\ s[k].round = k
        /\ \A a \in S : a.round \in 1..Len(s) /\ s[a.round] = a
    <3>1. S \in SUBSET IntentType /\ IsFiniteSet(S)
        BY <1>9
    <3>2. OneARound(S) /\ s = InRounds(S)
        BY <1>10, <1>14, <2>1 DEF OneARound, InRounds
    <3>3. Lists(s, S)
        BY <3>1, <3>2, InOrder
    <3> QED BY <3>3 DEF Lists
  <2> QED BY <1>9, <2>2
<1>16. \A k \in 1..n : s[k] = r[k]
    BY <1>4, <1>9, <1>15
<1>17. s[n + 1] = i
    BY <1>5, <1>9, <1>15
<1>18. s = Append(r, i)
  <2>1. PICK t : t = Append(r, i)
      OBVIOUS
  <2>2. /\ t \in Seq(IntentType) /\ Len(t) = n + 1 /\ t[n + 1] = i
        /\ \A k \in 1..n : t[k] = r[k]
      BY <1>r, <2>1, AppendElements
  <2>3. \A k \in 1..(n + 1) : s[k] = t[k]
    <3> TAKE k \in 1..(n + 1)
    <3>1. CASE k = n + 1
        BY <1>17, <2>2, <3>1
    <3>2. CASE k # n + 1
      <4>1. k \in 1..n
          BY <1>4, <3>2
      <4> QED BY <1>16, <2>2, <4>1
    <3> QED BY <3>1, <3>2
  <2>4. s = t
      BY <1>15, <2>2, <2>3
  <2> QED BY <2>1, <2>4
<1>19. ASSUME NEW k \in 1..(n + 1)
       PROVE  /\ k > 1 => s[k].before = s[k - 1].selected
              /\ (\E m \in 1..(k - 1) : ~s[m].enabled) => s[k].mode = "quarantined_serial"
  <2>1. CASE k = n + 1
    <3>1. k > 1 => s[k].before = s[k - 1].selected
      <4>1. ASSUME k > 1 PROVE s[k].before = s[k - 1].selected
        <5>1. n \in 1..n /\ k - 1 = n
            BY <1>4, <2>1, <4>1
        <5>2. r # << >>
            BY <1>4, <5>1
        <5>3. i.before = r[n].selected
            BY <1>3, <1>5, <5>2 DEF Reached, Last
        <5> QED BY <1>16, <1>17, <2>1, <5>1, <5>3
      <4> QED BY <4>1
    <3>2. ASSUME NEW m \in 1..(k - 1), ~s[m].enabled
          PROVE  s[k].mode = "quarantined_serial"
      <4>1. m \in 1..n
          BY <1>4, <2>1
      <4>2. s[m] \in Receipted /\ ~s[m].enabled
          BY <1>4, <1>16, <3>2, <4>1
      <4>3. i.mode = "quarantined_serial"
          BY <4>2 DEF NextOfChain
      <4> QED BY <1>17, <2>1, <4>3
    <3> QED BY <3>1, <3>2
  <2>2. CASE k # n + 1
    <3>1. k \in 1..n /\ DOMAIN r = 1..n
        BY <1>r, <2>2
    <3>2. /\ k > 1 => r[k].before = r[k - 1].selected
          /\ (\E m \in 1..(k - 1) : ~r[m].enabled) => r[k].mode = "quarantined_serial"
        BY <1>2, <3>1 DEF ReceiptsChain
    <3>3. /\ k > 1 => k - 1 \in 1..n
          /\ \A m \in 1..(k - 1) : m \in 1..n
        BY <1>4, <3>1
    <3> QED BY <1>16, <3>1, <3>2, <3>3
  <2> QED BY <2>1, <2>2
<1>20. DOMAIN s = 1..(n + 1)
    BY <1>15
<1>21. ReceiptsChain'
    BY <1>12, <1>13, <1>19, <1>20 DEF ReceiptsChain
<1> QED BY <1>2, <1>13, <1>18, <1>21

\* The receipt of the only open intent settles it.
LEMMA ReceiptSettles ==
    ASSUME LInv, DParts, NEW i \in IntentType, Unresolved = {i},
           files' = files \cup {Receipt(i)}
    PROVE  /\ Of("intent")' = Of("intent") /\ Of("recovery")' = Of("recovery")
           /\ Receipted' = Receipted \cup {i} /\ Unresolved' = {}
           /\ ReceiptsChain' /\ Receipts' = Append(Receipts, i)
           /\ OneRecoveryEach' /\ RecoveriesAgree'
<1>1. Receipt(i).kind = "receipt" /\ Receipt(i).of = i
    BY EvidenceTyped
<1>2. /\ Of("intent")' = Of("intent") /\ Of("recovery")' = Of("recovery")
      /\ Of("receipt")' = Of("receipt") \cup {Receipt(i)}
    BY <1>1 DEF Of
<1>3. Receipted' = Receipted \cup {i}
    BY <1>1, <1>2 DEF Receipted
<1>4. ReceiptsChain' /\ Receipts' = Append(Receipts, i)
    BY <1>3, ChainExtends DEF LInv, DParts, ChainHolds, Interrupted
<1>5. Unresolved' = {}
  <2>1. Resolved' = Resolved \cup {i}
      BY <1>1, <1>2 DEF Resolved
  <2> QED BY <1>2, <2>1 DEF Unresolved
<1>6. \A f \in Of("recovery") : f.of # i
    BY DEF Unresolved, Resolved
<1>7. OneRecoveryEach' /\ RecoveriesAgree'
    BY <1>2, <1>3, <1>6 DEF DParts, ChainHolds, OneRecoveryEach, RecoveriesAgree
<1> QED BY <1>2, <1>3, <1>4, <1>5, <1>7

\* The durable receipt settles the intent of the round.
\* (A clean history stays recoverable.)
LEMMA WriteReceiptStands == ASSUME LInv, DParts, Clean', WriteReceipt PROVE DParts'
<1>1. At("receipt") /\ Running /\ Types /\ RoundKnows /\ up /\ Alive /\ ~Recovering
    BY JobKinds, RoundFacts DEF LInv, WriteReceipt
<1>2. PICK i : i = job.intent
    OBVIOUS
<1>3. i \in IntentType
    BY <1>1, <1>2, Kinds DEF RoundKnows, At
<1>4. Write(Receipt(i)) /\ Committed(i) /\ UNCHANGED <<canonical, up, crashes>>
    BY <1>1, <1>2, CleanWrites DEF WriteReceipt
<1>5. files' = files \cup {Receipt(i)}
    BY <1>4 DEF Write
<1>6. Unresolved = {i}
    BY <1>1, <1>2 DEF DParts, Interrupted, JobPending, At
<1>7. /\ Of("intent")' = Of("intent") /\ Of("recovery")' = Of("recovery")
      /\ Unresolved' = {}
      /\ ReceiptsChain' /\ Receipts' = Append(Receipts, i)
      /\ OneRecoveryEach' /\ RecoveriesAgree'
    BY <1>3, <1>5, <1>6, ReceiptSettles
<1>8. mem.receipts = Receipts /\ mem.receipts \in Seq(IntentType)
    BY <1>1, MemFields DEF DParts, ChainHolds
<1>9. mem'.receipts = Append(mem.receipts, i)
    BY <1>1, <1>4 DEF Committed, Types, MemType
<1>10. mem'.receipts # << >> /\ Last(mem'.receipts) = i
    BY <1>3, <1>8, <1>9, AppendLast
<1>11. ~Running' /\ ~Recovering' /\ Alive' /\ job' = None /\ up'
    BY <1>1, <1>4, JobKind DEF Committed, Running, Recovering, Alive
<1>12. ChainHolds'
    BY <1>7, <1>8, <1>9 DEF ChainHolds
<1>13. Interrupted'
    BY <1>7, <1>11 DEF Interrupted, JobPending
<1>15. CandidateAllowed' /\ RecoveryStands'
    BY <1>11 DEF CandidateAllowed, RecoveryStands
<1>16. canonical' = i.selected
    BY <1>1, <1>2, <1>4 DEF DParts, RootStands, At
<1>17. RootStands'
    BY <1>10, <1>11, <1>16 DEF RootStands, Reached
<1> QED BY <1>12, <1>13, <1>15, <1>17 DEF DParts

\* The process dies: files and the canonical root stay.
\* (A clean history stays recoverable.)
LEMMA CrashStands == ASSUME LInv, DParts, Crash PROVE DParts'
<1>1. /\ Types /\ Alive /\ Down /\ UNCHANGED <<files, canonical>> /\ crashes' = crashes + 1
      /\ crashes \in Nat
    BY DEF LInv, Types, Crash, Alive
<1>2. /\ Receipted' = Receipted /\ Receipts' = Receipts /\ Unresolved' = Unresolved
      /\ ReceiptsChain' <=> ReceiptsChain
      /\ OneRecoveryEach' <=> OneRecoveryEach
      /\ RecoveriesAgree' <=> RecoveriesAgree
      /\ \A i : NextOfChain(i)' <=> NextOfChain(i)
    BY <1>1, SameEvidence DEF Of
<1>3. ~Running' /\ ~Recovering' /\ ~Alive' /\ ~up'
    BY <1>1, JobKind DEF Down, Running, Recovering, Alive
<1>4. ChainHolds'
    BY <1>2, <1>3 DEF DParts, ChainHolds
<1>5. Interrupted'
    BY <1>2, <1>3 DEF DParts, Interrupted
<1>7. CandidateAllowed' /\ RecoveryStands'
    BY <1>3 DEF CandidateAllowed, RecoveryStands
<1>8. mem.receipts = Receipts
    BY <1>1 DEF DParts, ChainHolds
<1>9. canonical \in {Reached(Receipts)} \cup {i.selected : i \in Unresolved}
  <2>1. CASE Running
    <3>1. CASE job.step \in {"destroy", "receipt"}
        BY <1>1, <2>1, <3>1 DEF DParts, RootStands, Interrupted, JobPending
    <3>2. CASE job.step \notin {"destroy", "receipt"}
        BY <1>8, <2>1, <3>2 DEF DParts, RootStands
    <3> QED BY <3>1, <3>2
  <2>2. CASE Recovering
    <3>0. job.step \in {"recover", "evidence", "recovery"}
        BY <2>2 DEF Recovering, RecoveryType
    <3>1. CASE job.step = "recovery" /\ job.how = "committed"
        BY <1>8, <2>2, <3>1 DEF DParts, RecoveryStands
    <3>2. CASE ~(job.step = "recovery" /\ job.how = "committed")
      <4>1. job.step = "recovery" => job.how = "rolled_back"
          BY <2>2, <3>2 DEF LInv, RecoveryKnows
      <4>2. Unresolved = {job.intent}
          BY <1>1, <2>2, <4>1 DEF DParts, Interrupted, JobPending
      <4>3. job.intent.before = Reached(Receipts)
          BY <4>2 DEF DParts, Interrupted, NextOfChain
      <4>4. canonical \in {job.intent.before, job.intent.selected}
          BY <2>2 DEF DParts, RecoveryStands
      <4> QED BY <4>2, <4>3, <4>4
    <3> QED BY <3>1, <3>2
  <2>3. CASE job = None
      BY <1>1, <1>8, <2>3 DEF Alive, DParts, RootStands
  <2> QED BY <1>1, <2>1, <2>2, <2>3, JobKinds
<1>10. RootStands'
    BY <1>1, <1>2, <1>3, <1>9 DEF RootStands, Reached
<1> QED BY <1>4, <1>5, <1>7, <1>10 DEF DParts

\* The constructor reads the journal, or refuses it.
\* (A clean history stays recoverable.)
LEMMA LoadStands == ASSUME LInv, DParts, Load PROVE DParts'
<1>1. /\ Types /\ ~up /\ job = None /\ ~Alive /\ UNCHANGED <<files, canonical, crashes>>
    BY DEF LInv, Load, Alive
<1>2. /\ Receipted' = Receipted /\ Receipts' = Receipts /\ Unresolved' = Unresolved
      /\ ReceiptsChain' <=> ReceiptsChain
      /\ OneRecoveryEach' <=> OneRecoveryEach
      /\ RecoveriesAgree' <=> RecoveriesAgree
      /\ \A i : NextOfChain(i)' <=> NextOfChain(i)
      /\ Of("recovery")' = Of("recovery") /\ Of("intent")' = Of("intent")
    BY <1>1, SameEvidence DEF Of
<1>3. mem'.receipts = Receipts
    BY DEF Load, Fresh
<1>4. ChainHolds'
    BY <1>2, <1>3 DEF DParts, ChainHolds
<1>6. CASE Unresolved = {}
  <2>1. up' = TRUE /\ job' = None
      BY <1>6 DEF Load
  <2>2. ~Running' /\ ~Recovering' /\ Alive'
      BY <2>1, JobKind DEF Running, Recovering, Alive
  <2>3. Interrupted'
      BY <1>2, <1>6, <2>2 DEF Interrupted, JobPending
  <2>4. CandidateAllowed' /\ RecoveryStands'
      BY <2>2 DEF CandidateAllowed, RecoveryStands
  <2>5. canonical = Reached(Receipts)
      BY <1>1, <1>6 DEF DParts, RootStands
  <2>6. RootStands'
      BY <1>1, <1>3, <2>2, <2>5 DEF RootStands, Reached
  <2> QED BY <1>4, <2>3, <2>4, <2>6 DEF DParts
<1>7. CASE Unresolved # {}
  <2>1. PICK i \in Unresolved : job' = [step |-> "recover", intent |-> i, how |-> None]
      BY <1>7 DEF Load
  <2>2. up' = up
      BY <1>7 DEF Load
  <2>3. i \in IntentType /\ Unresolved = {i} /\ i.before = Reached(Receipts)
      BY <1>1, <2>1, Kinds DEF Unresolved, DParts, Interrupted, NextOfChain
  <2>4. job' \in RecoveryType /\ job'.step = "recover" /\ job'.intent = i
      BY <2>1, <2>3 DEF RecoveryType
  <2>5. ~Running' /\ Recovering' /\ Alive' /\ ~up' /\ job' # None
      BY <1>1, <2>2, <2>4, JobKind DEF Running, Recovering, Alive
  <2>6. Interrupted'
    <3>1. JobPending'
        BY <2>4, <2>5 DEF JobPending
    <3> QED BY <1>2, <2>3, <2>4, <3>1 DEF DParts, Interrupted
  <2>7. CandidateAllowed' /\ RootStands'
      BY <2>5 DEF CandidateAllowed, RootStands
  <2>8. \A f \in Of("recovery") : f.of # i
      BY <2>1 DEF Unresolved, Resolved
  <2>9. canonical \in {i.before, i.selected}
      BY <1>1, <2>3 DEF DParts, RootStands
  <2>10. RecoveryStands'
      BY <1>1, <1>2, <2>4, <2>8, <2>9 DEF RecoveryStands
  <2> QED BY <1>4, <2>6, <2>7, <2>10 DEF DParts
<1> QED BY <1>6, <1>7

\* Recovery finds the publication done, undoes it, or fails.
\* (A clean history stays recoverable.)
LEMMA RecoverPublicationStands ==
    ASSUME LInv, DParts, Clean', RecoverPublication
    PROVE  DParts'
<1>1. At("recover") /\ Recovering /\ Types /\ ~up /\ Alive
    BY JobKinds, RecoveryFacts DEF LInv, RecoverPublication
<1>2. ~Fault
    BY <1>1 DEF Types, Clean, Fault
<1>3. PICK how \in {"committed", "rolled_back"} :
        /\ how = "committed" => canonical = job.intent.selected
        /\ canonical' = IF how = "committed" THEN canonical ELSE job.intent.before
        /\ job' = [job EXCEPT !.how = how, !.step = "evidence"]
    BY <1>2 DEF RecoverPublication
<1>4. UNCHANGED <<files, up, mem, crashes>>
    BY <1>2 DEF RecoverPublication
<1>5. /\ job' \in RecoveryType /\ job'.step = "evidence" /\ job'.intent = job.intent
      /\ job'.how = how
    BY <1>1, <1>3 DEF Recovering, RecoveryType
<1>6. ~Running' /\ Recovering' /\ Alive' /\ job' # None /\ ~up'
    BY <1>1, <1>4, <1>5, JobKind DEF Running, Recovering, Alive
<1>7. /\ Receipted' = Receipted /\ Receipts' = Receipts /\ Unresolved' = Unresolved
      /\ ReceiptsChain' <=> ReceiptsChain
      /\ OneRecoveryEach' <=> OneRecoveryEach
      /\ RecoveriesAgree' <=> RecoveriesAgree
      /\ \A i : NextOfChain(i)' <=> NextOfChain(i)
      /\ Of("recovery")' = Of("recovery") /\ Of("intent")' = Of("intent")
    BY <1>4, SameEvidence DEF Of
<1>8. ChainHolds'
    BY <1>1, <1>4, <1>6, <1>7 DEF DParts, ChainHolds
<1>9. Interrupted'
  <2>1. JobPending /\ JobPending'
      BY <1>1, <1>5, <1>6 DEF JobPending, At
  <2> QED BY <1>1, <1>5, <1>7, <2>1 DEF DParts, Interrupted
<1>10. CandidateAllowed' /\ RootStands'
    BY <1>6 DEF CandidateAllowed, RootStands
<1>11. RecoveryStands'
    BY <1>1, <1>3, <1>5, <1>7 DEF DParts, RecoveryStands
<1> QED BY <1>8, <1>9, <1>10, <1>11 DEF DParts

\* Recovery writes the receipt of a committed round or the evidence of a rollback.
\* (A clean history stays recoverable.)
LEMMA RecoverEvidenceStands ==
    ASSUME LInv, DParts, Clean', RecoverEvidence
    PROVE  DParts'
<1>1. /\ At("evidence") /\ Recovering /\ Types /\ ~up /\ Alive
      /\ job.intent \in IntentType
    BY JobKinds, RecoveryFacts DEF LInv, RecoverEvidence
<1>2. PICK i : i = job.intent
    OBVIOUS
<1>3. /\ Write(RecoveryEvidence) /\ Step("recovery") /\ UNCHANGED <<up, canonical, crashes>>
      /\ mem' = IF job.how = "committed"
                THEN [mem EXCEPT !.receipts = Append(@, i),
                                 !.quarantined = @ \/ ~i.enabled,
                                 !.counterexample = IF i.enabled THEN @
                                                    ELSE i.counterexample]
                ELSE [mem EXCEPT !.quarantined = TRUE, !.counterexample = Rollback]
    BY <1>1, <1>2, CleanWrites DEF RecoverEvidence
<1>4. /\ job' \in RecoveryType /\ job'.step = "recovery" /\ job'.intent = i
      /\ job'.how = job.how
    BY <1>1, <1>2, <1>3 DEF Recovering, RecoveryType, Step
<1>5. ~Running' /\ Recovering' /\ Alive' /\ job' # None /\ ~up'
    BY <1>1, <1>3, <1>4, JobKind DEF Running, Recovering, Alive
<1>6. Unresolved = {i} /\ mem.receipts = Receipts
    BY <1>1, <1>2 DEF DParts, Interrupted, JobPending, ChainHolds, At
<1>7. /\ \A f \in Of("recovery") : f.of # i
      /\ canonical \in IF job.how = "committed" THEN {i.selected} ELSE {i.before}
    BY <1>1, <1>2 DEF DParts, RecoveryStands, At
<1>8. CandidateAllowed' /\ RootStands'
    BY <1>5 DEF CandidateAllowed, RootStands
<1>9. CASE job.how = "committed"
  <2>1. files' = files \cup {Receipt(i)}
      BY <1>2, <1>3, <1>9 DEF Write, RecoveryEvidence
  <2>2. /\ Of("intent")' = Of("intent") /\ Of("recovery")' = Of("recovery")
        /\ Receipted' = Receipted \cup {i} /\ Unresolved' = {}
        /\ ReceiptsChain' /\ Receipts' = Append(Receipts, i)
        /\ OneRecoveryEach' /\ RecoveriesAgree'
      BY <1>1, <1>2, <1>6, <2>1, ReceiptSettles
  <2>3. PICK rs : rs = Append(mem.receipts, i)
      OBVIOUS
  <2>4. rs # << >> /\ Last(rs) = i
      BY <1>1, <1>2, <2>3, MemFields, AppendLast
  <2>5. mem'.receipts = rs
      BY <1>1, <1>3, <1>9, <2>3 DEF Types, MemType
  <2>6. ChainHolds'
      BY <1>6, <2>2, <2>3, <2>5 DEF ChainHolds
  <2>8. Interrupted'
    <3>1. ~JobPending'
        BY <1>4, <1>5, <1>9 DEF JobPending
    <3> QED BY <2>2, <3>1 DEF Interrupted
  <2>9. RecoveryStands'
      BY <1>3, <1>4, <1>7, <1>9, <2>2, <2>4, <2>5 DEF RecoveryStands, Reached
  <2> QED BY <1>8, <2>6, <2>8, <2>9 DEF DParts
<1>10. CASE job.how # "committed"
  <2>1. files' = files \cup {Rollback} /\ Rollback.kind = "counterexample"
      BY <1>3, <1>10 DEF Write, RecoveryEvidence, Rollback, Counterexample
  <2>2. /\ Of("intent")' = Of("intent") /\ Of("recovery")' = Of("recovery")
        /\ Of("receipt")' = Of("receipt")
      BY <2>1 DEF Of
  <2>3. /\ Receipts' = Receipts /\ Unresolved' = Unresolved
        /\ ReceiptsChain' <=> ReceiptsChain
        /\ OneRecoveryEach' <=> OneRecoveryEach
        /\ RecoveriesAgree' <=> RecoveriesAgree
        /\ \A j : NextOfChain(j)' <=> NextOfChain(j)
      BY <2>2, SameEvidence
  <2>4. mem'.receipts = mem.receipts
      BY <1>1, <1>3, <1>10 DEF Types, MemType
  <2>5. ChainHolds'
      BY <1>1, <1>3, <1>5, <2>2, <2>3, <2>4 DEF DParts, ChainHolds
  <2>6. Interrupted'
    <3>1. job.how = "rolled_back"
        BY <1>1, <1>10 DEF LInv, RecoveryKnows, At
    <3>2. JobPending'
        BY <1>4, <1>5, <3>1 DEF JobPending
    <3> QED BY <1>4, <1>6, <2>3, <3>2 DEF DParts, Interrupted
  <2>7. RecoveryStands'
      BY <1>3, <1>4, <1>7, <1>10, <2>2 DEF RecoveryStands
  <2> QED BY <1>8, <2>5, <2>6, <2>7 DEF DParts
<1> QED BY <1>9, <1>10

\* The durable recovery document settles the interrupted intent.
\* (A clean history stays recoverable.)
LEMMA WriteRecoveryStands ==
    ASSUME LInv, DParts, Clean', WriteRecovery
    PROVE  DParts'
<1>1. /\ At("recovery") /\ Recovering /\ Types /\ ~up /\ Alive
      /\ job.intent \in IntentType /\ job.intent \in Of("intent")
    BY JobKinds, RecoveryFacts DEF LInv, WriteRecovery
<1>2. PICK c : c = IF job.how = "committed" THEN job.intent.counterexample ELSE Rollback
    OBVIOUS
<1>3. PICK f : f = Recovery(job.intent, job.how, c)
    OBVIOUS
<1>4. f.kind = "recovery" /\ f.of = job.intent /\ f.how = job.how
    BY <1>3 DEF Recovery
<1>5. /\ Write(f) /\ up' = TRUE /\ job' = None /\ mem' = mem /\ UNCHANGED <<canonical, crashes>>
    BY <1>1, <1>2, <1>3, RecoveryFile, CleanWrites DEF WriteRecovery
<1>6. files' = files \cup {f}
    BY <1>5 DEF Write
<1>7. /\ Of("intent")' = Of("intent") /\ Of("receipt")' = Of("receipt")
      /\ Of("recovery")' = Of("recovery") \cup {f}
    BY <1>4, <1>6 DEF Of
<1>8. Receipted' = Receipted
    BY <1>7 DEF Receipted
<1>9. Receipts' = Receipts
    BY <1>8 DEF Receipts
<1>10. ~Running' /\ ~Recovering' /\ Alive'
    BY <1>5, JobKind DEF Running, Recovering, Alive
<1>11. job.how \in {"committed", "rolled_back"}
    BY <1>1 DEF LInv, RecoveryKnows, At
<1>12. /\ \A g \in Of("recovery") : g.of # job.intent
       /\ job.how = "committed" =>
            /\ job.intent \in Receipted /\ canonical = job.intent.selected
            /\ Reached(mem.receipts) = job.intent.selected
       /\ job.how # "committed" => canonical = job.intent.before
    BY <1>1 DEF DParts, RecoveryStands, At
<1>13. Unresolved = IF job.how = "rolled_back" THEN {job.intent} ELSE {}
    BY <1>1 DEF DParts, Interrupted, JobPending, At
<1>14. Unresolved' = {}
  <2>1. Resolved' = Resolved \cup {job.intent}
      BY <1>4, <1>7 DEF Resolved
  <2> QED BY <1>7, <1>13, <2>1 DEF Unresolved
<1>15. ChainHolds'
  <2>1. ReceiptsChain'
      BY <1>8, <1>9 DEF DParts, ChainHolds, ReceiptsChain, OneReceiptARound
  <2>2. OneRecoveryEach'
      BY <1>4, <1>7, <1>12 DEF DParts, ChainHolds, OneRecoveryEach
  <2>3. job.intent \in Receipted <=> job.how = "committed"
    <3>1. job.how = "rolled_back" => job.intent \notin Receipted
        BY <1>13 DEF Unresolved, Resolved, Receipted
    <3> QED BY <1>11, <1>12, <3>1
  <2>4. RecoveriesAgree'
      BY <1>4, <1>7, <1>8, <2>3 DEF DParts, ChainHolds, RecoveriesAgree
  <2> QED BY <1>1, <1>5, <1>9, <2>1, <2>2, <2>4 DEF DParts, ChainHolds
<1>16. Interrupted'
    BY <1>10, <1>14 DEF Interrupted, JobPending
<1>18. CandidateAllowed' /\ RecoveryStands'
    BY <1>10 DEF CandidateAllowed, RecoveryStands
<1>19. canonical = Reached(mem.receipts)
  <2>1. CASE job.how = "committed"
      BY <1>12, <2>1
  <2>2. CASE job.how = "rolled_back"
      BY <1>1, <1>12, <1>13, <2>2 DEF DParts, Interrupted, NextOfChain, ChainHolds
  <2> QED BY <1>11, <2>1, <2>2
<1>20. RootStands'
    BY <1>5, <1>10, <1>19 DEF RootStands, Reached
<1> QED BY <1>15, <1>16, <1>18, <1>20 DEF DParts

\* At first nothing was written.
LEMMA DeathInit == Init => DInv
<1> SUFFICES ASSUME Init PROVE DParts
    BY DEF DInv
<1>1. /\ files = {} /\ canonical = << >> /\ up = FALSE /\ mem = Fresh /\ job = None
    BY DEF Init
<1>2. ~Running /\ ~Recovering /\ ~Alive
    BY <1>1, JobKind DEF Running, Recovering, Alive
<1>3. Of("intent") = {} /\ Of("receipt") = {} /\ Of("recovery") = {}
    BY <1>1 DEF Of
<1>4. Receipted = {} /\ Unresolved = {}
    BY <1>3 DEF Receipted, Unresolved
<1>5. Cardinality({}) = 0 /\ IsFiniteSet({})
    BY FS_EmptySet
<1>6. OneReceiptARound
    BY <1>4, <1>5 DEF OneReceiptARound
<1>7. Receipts = << >>
    BY <1>4, <1>6, LiveInit, ReceiptsShape DEF LInv
<1>8. ReceiptsChain
    BY <1>6, <1>7 DEF ReceiptsChain
<1>9. ChainHolds /\ Interrupted
    BY <1>2, <1>3, <1>4, <1>8
    DEF ChainHolds, OneRecoveryEach, RecoveriesAgree, Interrupted
<1>10. CandidateAllowed /\ RecoveryStands
    BY <1>2 DEF CandidateAllowed, RecoveryStands
<1>11. RootStands
    BY <1>1, <1>2, <1>7 DEF RootStands, Reached
<1> QED BY <1>9, <1>10, <1>11 DEF DParts

\* Faults are counted and cut files stay: a clean journal was clean before.
LEMMA CleanBefore ==
    ASSUME LInv, [Next]_vars, Clean'
    PROVE  Clean
<1>1. faults \in Nat /\ faults' = 0 /\ torn' = {} /\ revived' = {}
    BY DEF LInv, Types, Clean
<1>2. \A f : WriteFails(f) => torn = {} /\ faults = 0
    BY <1>1 DEF WriteFails
<1>3. \A f : Write(f) => torn = {}
    BY <1>1 DEF Write
<1>4. ~Fault
    BY <1>1 DEF Fault
<1>5. CASE Begin \/ Abort \/ (\E n \in {0, 1}, r \in Roots : Commit(n, r)) \/ Cleanup
           \/ ConsumeVerifiedAdvance \/ Finalize
    BY <1>1, <1>4, <1>5
    DEF Clean, Begin, Abort, Commit, Cleanup, ConsumeVerifiedAdvance, Finalize
<1>6. CASE RunCandidate \/ CandidateFails \/ RestoreCandidate \/ RunSerial \/ SerialFails
    BY <1>1, <1>4, <1>6
    DEF Clean, RunCandidate, CandidateFails, RestoreCandidate, RunSerial, SerialFails
<1>7. CASE Compare \/ WriteIntent \/ WriteReceipt
    BY <1>1, <1>2, <1>3, <1>7 DEF Clean, Compare, WriteIntent, WriteReceipt
<1>8. CASE PublishPrivate \/ DestroyPrivate
    BY <1>1, <1>4, <1>8 DEF Clean, PublishPrivate, DestroyPrivate
<1>9. CASE Crash \/ Load
    BY <1>1, <1>9 DEF Clean, Crash, Load
<1>10. CASE RecoverPublication \/ RecoverEvidence \/ WriteRecovery
    BY <1>1, <1>2, <1>3, <1>4, <1>10
    DEF Clean, RecoverPublication, RecoverEvidence, WriteRecovery
<1>11. CASE UNCHANGED vars
    BY <1>1, <1>11 DEF Clean, vars
<1> QED BY <1>5, <1>6, <1>7, <1>8, <1>9, <1>10, <1>11 DEF Next

\* Every step keeps what holds when the process only dies.
LEMMA DeathNext == LInv /\ DInv /\ [Next]_vars => DInv'
<1> SUFFICES ASSUME LInv, DInv, [Next]_vars, Clean' PROVE DParts'
    BY DEF DInv
<1>1. Clean /\ DParts
    BY CleanBefore DEF DInv
<1>2. CASE Begin \/ Abort \/ (\E n \in {0, 1}, r \in Roots : Commit(n, r)) \/ Cleanup
           \/ ConsumeVerifiedAdvance \/ Finalize
    BY <1>1, <1>2, GateStands, CommitStands, CleanupStands
<1>3. CASE RunCandidate \/ CandidateFails \/ RestoreCandidate \/ RunSerial \/ SerialFails
    BY <1>1, <1>3, ExecutionStands
<1>4. CASE Compare \/ WriteIntent \/ PublishPrivate \/ DestroyPrivate \/ WriteReceipt
    BY <1>1, <1>4, CompareStands, WriteIntentStands, PublicationStands, WriteReceiptStands
<1>5. CASE Crash \/ Load \/ RecoverPublication \/ RecoverEvidence \/ WriteRecovery
    BY <1>1, <1>5, CrashStands, LoadStands, RecoverPublicationStands, RecoverEvidenceStands,
       WriteRecoveryStands
<1>6. CASE UNCHANGED vars
  <2>1. UNCHANGED <<files, canonical, up, mem, job, crashes>>
      BY <1>6 DEF vars
  <2>2. /\ Receipted' = Receipted /\ Receipts' = Receipts /\ Unresolved' = Unresolved
        /\ ReceiptsChain' <=> ReceiptsChain
        /\ OneRecoveryEach' <=> OneRecoveryEach
        /\ RecoveriesAgree' <=> RecoveriesAgree
        /\ \A i : NextOfChain(i)' <=> NextOfChain(i)
        /\ Of("recovery")' = Of("recovery") /\ Of("intent")' = Of("intent")
      BY <2>1, SameEvidence DEF Of
  <2>3. /\ Running' <=> Running
        /\ Recovering' <=> Recovering
        /\ Alive' <=> Alive
      BY <2>1 DEF Running, Recovering, Alive
  <2>4. JobPending' <=> JobPending
      BY <2>1, <2>3 DEF JobPending
  <2>5. ChainHolds' /\ CandidateAllowed'
      BY <1>1, <2>1, <2>2, <2>3 DEF DParts, ChainHolds, CandidateAllowed
  <2>6. Interrupted'
      BY <1>1, <2>1, <2>2, <2>3, <2>4 DEF DParts, Interrupted
  <2>7. RootStands' /\ RecoveryStands'
      BY <1>1, <2>1, <2>2, <2>3 DEF DParts, RootStands, RecoveryStands, Reached
  <2> QED BY <2>5, <2>6, <2>7 DEF DParts
<1> QED BY <1>2, <1>3, <1>4, <1>5, <1>6 DEF Next

\* Killing the process alone, at whatever moments and however often, never makes the
\* constructor refuse the journal and never leaves a canonical state that the receipts
\* do not lead to, unless a file was cut or an intent that a recovery had resolved was
\* written again (_recover_intent).
THEOREM DeathAloneIsRecovered == Spec => []DeathAloneRecovers
<1>1. LInv /\ DInv => DeathAloneRecovers
  <2> SUFFICES ASSUME LInv, DInv, faults = 0, torn = {}, revived = {}
               PROVE  /\ ~up /\ job = None => Loadable
                      /\ Idle /\ mem.open = None =>
                           canonical = IF mem.receipts = << >> THEN << >>
                                       ELSE Last(mem.receipts).selected
      BY DEF DeathAloneRecovers
  <2>1. DParts
      BY DEF DInv, Clean
  <2>2. OneInterrupted
    <3>1. Cardinality(Unresolved) <= 1
      <4>1. CASE Unresolved = {}
          BY <4>1, FS_EmptySet
      <4>2. CASE Unresolved # {}
        <5>1. PICK i : i \in Unresolved
            BY <4>2
        <5>2. Unresolved = {i}
            BY <2>1, <5>1 DEF DParts, Interrupted
        <5>3. Cardinality(Unresolved) = 1
            BY <5>2, FS_Singleton, Zenon
        <5> QED BY <5>3
      <4> QED BY <4>1, <4>2
    <3>2. \A i \in Unresolved : i.round = Len(Receipts) + 1 /\ Extends(i.before, Receipts)
        BY <2>1 DEF DParts, Interrupted, NextOfChain, Reached, Extends
    <3> QED BY <3>1, <3>2 DEF OneInterrupted
  <2>3. Loadable
      BY <2>1, <2>2 DEF Loadable, DParts, ChainHolds
  <2>4. Idle => canonical = Reached(mem.receipts)
      BY <2>1 DEF DParts, RootStands, Idle
  <2> QED BY <2>3, <2>4 DEF Reached
<1>2. LInv /\ DInv /\ [Next]_vars => DInv'
    BY DeathNext
<1>3. Spec => []DInv
    BY <1>2, DeathInit, LiveInvariant, PTL DEF Spec
<1> QED BY <1>1, <1>3, LiveInvariant, PTL

=============================================================================
