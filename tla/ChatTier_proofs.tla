--------------------------- MODULE ChatTier_proofs ---------------------------
(***************************************************************************)
(* Proofs about ChatTier, for any chats, generations and requests, any of  *)
(* them rewriting, due or troubled, and any bound of the tails in RAM.     *)
(*                                                                         *)
(* What makes the publisher's unlocked steps safe is an order of arrival:  *)
(* a chat's requests enter and leave the tier in sequence, so that what    *)
(* the publisher selected stays older than whatever arrives meanwhile, a   *)
(* record older than the requests that are running, and the durable head   *)
(* older than the record.                                                  *)
(***************************************************************************)
EXTENDS ChatTier, WellFoundedInduction, TLAPS

Phases == {"new", "running", "bypass", "finished", "gone"}
Selecting == {"build", "install", "collect"}
Flushing == {"write", "prepare", "publish"}

RequestType ==
    [phase : Phases, head : BOOLEAN, failed : BOOLEAN, jobs : SUBSET {"prefix", "tail"},
     ram : BOOLEAN, collectOnly : BOOLEAN]
RecordType == [by : Req \cup {0}, ram : BOOLEAN, force : BOOLEAN]
ManifestType == [gen : Gen \cup {None}, by : Req \cup {0}, retired : SUBSET Gen]
PubType ==
    [at : {"idle"} \cup Selecting \cup Flushing, states : SUBSET Req, rec : RecordType,
     reason : {"none", "collect", "publish", "due", "evict", "explicit"}, ok : BOOLEAN]
ControlType ==
    [gen : Gen \cup {None},
     answer : {"none", "pending", "flushed", "rejected", "error", "already_durable"}]

Types ==
    /\ manifest \in [Chat -> ManifestType]
    /\ stores \in [Chat -> Gen \cup {None}]
    /\ req \in [Req -> RequestType]
    /\ tails \in [Gen -> RecordType]
    /\ pub \in PubType
    /\ control \in [Chat -> ControlType]
    /\ impaired \subseteq Gen

(***************************************************************************)
(* Requests and generations.                                               *)
(***************************************************************************)
\* The tier has admitted the request; it is in _chat_requests.
Admitted(r) == req[r].phase \in {"running", "finished", "gone"}
Live(r) == req[r].phase \in {"running", "finished"}
\* Its head is good, as far as the tier knows.
Good(r) == req[r].head /\ ~req[r].failed
\* Nothing has happened to its generation that would excuse a loss.
Sound(g) == Current(g) /\ g \notin impaired

\* Requests come in sequence, and a chat's requests leave in sequence.
Arrival == \A q, r \in Req : r < q /\ req[r].phase = "new" => req[q].phase = "new"
Departure == \A q, r \in Req : ChatOf(q) = ChatOf(r) /\ req[q].phase = "gone" /\ Live(r) => q < r
Quieted ==
    \A r \in Req : /\ req[r].jobs # {} => req[r].phase = "finished"
                   /\ req[r].collectOnly => req[r].phase \in {"finished", "gone"}

\* A generation is the chat's own, and is never activated again.
OwnGeneration ==
    \A c \in Chat : /\ manifest[c].gen # None => GenChat[manifest[c].gen] = c
                    /\ control[c].gen # None => GenChat[control[c].gen] = c
                    /\ manifest[c].gen \notin manifest[c].retired
Activated ==
    \A r \in Req : Admitted(r) =>
        \/ Current(GenOf[r]) /\ stores[ChatOf(r)] = GenOf[r]
        \/ ~Current(GenOf[r]) /\ GenOf[r] \in manifest[ChatOf(r)].retired
\* Requests of the current generation are later than those of retired ones.
Succession ==
    \A q, r \in Req : /\ q < r /\ ChatOf(q) = ChatOf(r) /\ Admitted(q) /\ Admitted(r)
                      /\ Current(GenOf[q])
                      => GenOf[r] = GenOf[q]

(***************************************************************************)
(* Heads and records.                                                      *)
(***************************************************************************)
\* The durable head is that of a request of the chat's generation, which has left.
Heads ==
    \A c \in Chat : LET by == manifest[c].by IN
        by # 0 => GenOf[by] = manifest[c].gen /\ ChatOf(by) = c /\ req[by].phase = "gone"

\* A record is of a good request that has left, not older than the durable head.
RecordsGood ==
    \A g \in Records : LET by == tails[g].by IN
        /\ by # 0 /\ GenOf[by] = g /\ req[by].phase = "gone" /\ Good(by)
        /\ Current(g) => manifest[GenChat[g]].by <= by

\* What a good request left of its head, before and after it is a record.
RequestHeld ==
    \A r \in Req : req[r].phase = "finished" /\ Good(r) /\ Sound(GenOf[r]) =>
        /\ "prefix" \notin req[r].jobs => PrefixBlocks(r) \subseteq disk
        /\ "tail" \notin req[r].jobs => req[r].ram
RecordHeld ==
    \A g \in Records : Sound(g) => tails[g].ram /\ PrefixBlocks(tails[g].by) \subseteq disk

\* After an error the chat is only collected: nothing good of it is lost then.
CollectOnly ==
    \A n \in Req : req[n].phase = "finished" /\ req[n].collectOnly =>
        /\ \A r \in Req : Live(r) /\ ChatOf(r) = ChatOf(n) /\ r <= n =>
             /\ req[r].phase = "finished" /\ req[r].jobs = {}
             /\ Good(r) => ~Sound(GenOf[r])
        /\ \A g \in Records : GenChat[g] = ChatOf(n) => ~Sound(g)

\* A good request that has left is durable, or older than the record or the head.
Settled ==
    \A r \in Req : req[r].phase = "gone" /\ Good(r) /\ Sound(GenOf[r]) =>
        r <= manifest[ChatOf(r)].by \/ r <= tails[GenOf[r]].by

(***************************************************************************)
(* The publisher between two of its steps.                                 *)
(***************************************************************************)
\* What it selected has not changed, and is older than what arrived since.
SelectedStill ==
    pub.at \in Selecting =>
        /\ pub.states # {}
        /\ \A q \in pub.states :
             /\ req[q].phase = "finished" /\ req[q].jobs = {}
             /\ \A r \in pub.states : ChatOf(r) = ChatOf(q)
             /\ \A r \in Req \ pub.states : Live(r) /\ ChatOf(r) = ChatOf(q) => q < r

\* The candidate is the newest good request; without one there is nothing to lose.
Candidate ==
    /\ pub.at \in {"build", "install"} =>
         /\ pub.rec.by \in pub.states /\ Good(pub.rec.by)
         /\ \A r \in pub.states : Good(r) /\ Sound(GenOf[r]) => r <= pub.rec.by
    /\ pub.at = "install" => (Sound(GenOf[pub.rec.by]) => pub.rec.ram)
    /\ pub.at = "collect" =>
         /\ \A r \in pub.states : Good(r) => ~Sound(GenOf[r])
         /\ pub.reason = "collect" => \E n \in pub.states : req[n].collectOnly

\* The record that is being flushed stays in place while its generation is current.
Flushed ==
    pub.at \in Flushing =>
        /\ pub.rec.by # 0 /\ req[pub.rec.by].phase = "gone" /\ Good(pub.rec.by)
        /\ Current(FlushGen) => tails[FlushGen].by = pub.rec.by /\ tails[FlushGen].ram = pub.rec.ram
        /\ pub.at \in {"prepare", "publish"} /\ Sound(FlushGen) => TailBlock(pub.rec.by) \in disk
        /\ pub.at = "publish" /\ Sound(FlushGen) => pub.ok
        /\ pub.reason = "explicit" => control[FlushChat].gen = FlushGen

TInv ==
    /\ Types
    /\ Arrival /\ Departure /\ Quieted
    /\ OwnGeneration /\ Activated /\ Succession
    /\ Heads /\ RecordsGood /\ RequestHeld /\ RecordHeld /\ CollectOnly /\ Settled
    /\ SelectedStill /\ Candidate /\ Flushed
    /\ HeadOnDisk

-----------------------------------------------------------------------------
(***************************************************************************)
(* Lemmas about the operators the tier is built from.                      *)
(***************************************************************************)
\* Requests are numbers; generations and chats are what the constants say.
LEMMA Constants ==
    /\ Req \in SUBSET Nat /\ 0 \notin Req /\ None \notin Gen
    /\ \A r \in Req : r \in Nat /\ GenOf[r] \in Gen /\ ChatOf(r) \in Chat
    /\ \A r \in Req : GenChat[GenOf[r]] = ChatOf(r)
    /\ \A g \in Gen : GenChat[g] \in Chat
<1>1. Len(GenOf) \in Nat
    BY TierAssumption
<1>2. Req \in SUBSET Nat /\ 0 \notin Req
    BY <1>1 DEF Req
<1>3. \A r \in Req : GenOf[r] \in Gen
    BY TierAssumption DEF Req
<1> QED BY <1>2, <1>3, TierAssumption DEF ChatOf

\* Requests are numbers in the order of their arrival; 0 is none.
LEMMA RequestNumbers == \A r \in Req \cup {0} : r \in Nat
BY TierAssumption DEF Req

\* A set of requests that is not empty has a newest one.
LEMMA NewestIn ==
    ASSUME NEW S \in SUBSET Req, S # {}
    PROVE  Newest(S) \in S /\ \A q \in S : q <= Newest(S)
<1> DEFINE N == Len(GenOf)
           T == {k \in Nat : \E r \in S : k + r = N}
<1>1. N \in Nat /\ S \subseteq 1..N
    BY TierAssumption DEF Req
<1> HIDE DEF N
<1>2. PICK s \in S : TRUE
    OBVIOUS
<1>3. s \in Nat /\ N - s \in Nat /\ (N - s) + s = N
    BY <1>1, <1>2
<1>4. T \in SUBSET Nat /\ T # {}
    BY <1>2, <1>3
<1>5. IsWellFoundedOn(OpToRel(<, Nat), Nat)
    BY NatLessThanWellFounded
<1>6. PICK x \in T : \A y \in T : ~(<<y, x>> \in OpToRel(<, Nat))
    BY <1>4, <1>5, WFMin
<1>7. \A y \in T : ~(<<y, x>> \in {ss \in Nat \X Nat : ss[1] < ss[2]})
    BY <1>6 DEF OpToRel
<1>8. \A y \in T : x <= y
  <2> TAKE y \in T
  <2>1. ~(y < x)
      BY <1>7
  <2> QED BY <2>1
<1>9. PICK m \in S : x + m = N
    BY <1>6
<1>10. \A q \in S : q <= m
  <2> TAKE q \in S
  <2>1. q \in Nat /\ m \in Nat /\ N - q \in Nat /\ (N - q) + q = N
      BY <1>1
  <2>2. N - q \in T
      BY <2>1
  <2>3. x <= N - q /\ x \in Nat
      BY <1>8, <2>2
  <2> QED BY <1>1, <1>9, <2>1, <2>3
<1> QED BY <1>9, <1>10 DEF Newest

\* The blocks of a head belong to the chat of the request.
LEMMA HeadBlocks ==
    ASSUME NEW r \in Req, NEW b \in HeadOf(r)
    PROVE  BlockChat(b) = ChatOf(r)
BY Constants DEF HeadOf, PrefixBlocks, TailBlock, Turns, BlockChat, ChatOf

\* The prefix is a part of the head.
LEMMA HeadParts ==
    ASSUME NEW r \in Req
    PROVE  HeadOf(r) = PrefixBlocks(r) \cup {TailBlock(r)}
BY Constants DEF HeadOf

\* A record is not the empty one exactly if it names a request.
LEMMA NoRecordType == NoRecord \in RecordType /\ NoRecord.by = 0
BY DEF NoRecord, RecordType

\* The publisher is idle again.
LEMMA IdleAgain ==
    ASSUME pub' = IdlePub
    PROVE  /\ pub' \in PubType
           /\ SelectedStill' /\ Candidate' /\ Flushed'
<1>1. pub'.at = "idle"
    BY DEF IdlePub
<1>2. pub' \in PubType
    BY NoRecordType DEF IdlePub, PubType
<1> QED BY <1>1, <1>2 DEF SelectedStill, Candidate, Flushed, Selecting, Flushing

-----------------------------------------------------------------------------
(***************************************************************************)
(* The initial state.                                                      *)
(***************************************************************************)
\* Before the first request there is nothing.
LEMMA InitTInv == Init => TInv
<1> SUFFICES ASSUME Init PROVE TInv
    OBVIOUS
<1> USE Constants
<1>1. \A c \in Chat : manifest[c].gen = None /\ manifest[c].by = 0 /\ manifest[c].retired = {}
    BY DEF Init
<1>2. \A r \in Req : req[r].phase = "new" /\ ~req[r].collectOnly /\ req[r].jobs = {}
    BY DEF Init, NewState
<1>3. \A g \in Gen : tails[g] = NoRecord
    BY DEF Init
<1>4. Types
  <2>1. manifest \in [Chat -> ManifestType]
      BY DEF Init, ManifestType
  <2>2. req \in [Req -> RequestType]
      BY DEF Init, NewState, RequestType, Phases
  <2>3. tails \in [Gen -> RecordType]
      BY <1>3, NoRecordType DEF Init
  <2>4. control \in [Chat -> ControlType]
      BY DEF Init, NoControl, ControlType
  <2>5. pub \in PubType
      BY NoRecordType DEF Init, IdlePub, PubType
  <2> QED BY <2>1, <2>2, <2>3, <2>4, <2>5 DEF Init, Types
<1>5. pub.at = "idle" /\ \A c \in Chat : control[c].gen = None
    BY DEF Init, IdlePub, NoControl
<1>6. Arrival /\ Departure /\ Quieted
    BY <1>2 DEF Arrival, Departure, Quieted, Live
<1>7. OwnGeneration /\ Activated /\ Succession
    BY <1>1, <1>2, <1>5 DEF OwnGeneration, Activated, Succession, Admitted
<1>8. Heads /\ RecordsGood /\ RequestHeld /\ RecordHeld /\ CollectOnly /\ Settled
    BY <1>1, <1>2, <1>3 DEF Heads, RecordsGood, RequestHeld, RecordHeld, CollectOnly, Settled, Records
<1>9. SelectedStill /\ Candidate /\ Flushed
    BY <1>5 DEF SelectedStill, Candidate, Flushed, Selecting, Flushing
<1>10. HeadOnDisk
    BY <1>1 DEF HeadOnDisk, HeadOf
<1> QED BY <1>4, <1>6, <1>7, <1>8, <1>9, <1>10 DEF TInv

-----------------------------------------------------------------------------
(***************************************************************************)
(* Steps of the publisher that change nothing but what it is doing.        *)
(***************************************************************************)
\* Everything but the publisher's own state and the answers.
Others ==
    /\ Arrival /\ Departure /\ Quieted
    /\ Activated /\ Succession
    /\ Heads /\ RecordsGood /\ RequestHeld /\ RecordHeld /\ CollectOnly /\ Settled
    /\ HeadOnDisk

\* None of it is lost with a change of the publisher, a control file or the
\* "force" of a record, or with another block on disk.
LEMMA OthersKept ==
    ASSUME Others, UNCHANGED <<manifest, stores, req, impaired>>, disk \subseteq disk',
           Records' = Records,
           \A g \in Gen : tails'[g].by = tails[g].by /\ tails'[g].ram = tails[g].ram
    PROVE  Others'
<1>1. /\ \A g \in Gen : (Current(g)' <=> Current(g)) /\ (Sound(g)' <=> Sound(g))
      /\ \A r \in Req : /\ Admitted(r)' <=> Admitted(r)
                        /\ Live(r)' <=> Live(r)
                        /\ Good(r)' <=> Good(r)
      /\ Records \subseteq Gen
    BY DEF Current, Sound, Admitted, Live, Good, Records
<1>2. Arrival' /\ Departure' /\ Quieted' /\ Activated' /\ Succession' /\ Heads' /\ HeadOnDisk'
    BY <1>1, Constants DEF Others, Arrival, Departure, Quieted, Activated, Succession, Heads, HeadOnDisk
<1>3. RecordsGood' /\ RecordHeld'
  <2>1. ASSUME NEW g \in Gen, g \in Records, Sound(g)
        PROVE  tails[g].ram /\ PrefixBlocks(tails[g].by) \subseteq disk
      BY <2>1 DEF Others, RecordHeld
  <2>2. ASSUME NEW g \in Gen, g \in Records
        PROVE  /\ tails[g].by # 0 /\ GenOf[tails[g].by] = g /\ req[tails[g].by].phase = "gone"
               /\ req[tails[g].by].head /\ ~req[tails[g].by].failed
               /\ Current(g) => manifest[GenChat[g]].by <= tails[g].by
      BY <2>2 DEF Others, RecordsGood, Good
  <2>3. RecordHeld'
      BY <1>1, <2>1 DEF RecordHeld
  <2>4. RecordsGood'
      BY <1>1, <2>2 DEF RecordsGood, Good
  <2> QED BY <2>3, <2>4
<1>4. RequestHeld'
    BY <1>1, Constants DEF Others, RequestHeld
<1>5. CollectOnly'
    BY <1>1, Constants DEF Others, CollectOnly
<1>6. Settled'
    BY <1>1, Constants DEF Others, Settled
<1> QED BY <1>2, <1>3, <1>4, <1>5, <1>6 DEF Others

\* A step that touches neither files, jobs, requests nor records keeps Others.
LEMMA OthersSame ==
    ASSUME Others, UNCHANGED <<manifest, disk, stores, req, tails, impaired>>
    PROVE  Others'
BY OthersKept DEF Records

\* _publish_ready selects what is to be published or collected.
LEMMA SelectKeeps ==
    ASSUME TInv, NEW c \in Chat, Select(c)
    PROVE  TInv'
<1> DEFINE rs == States(c)
           collect == req[Newest(rs)].collectOnly
           none == collect \/ Successful(rs) = {}
<1>1. /\ pub = IdlePub /\ rs # {} /\ Quiet(rs)
      /\ pub' = [IdlePub EXCEPT !.states = rs,
             !.reason = IF collect THEN "collect" ELSE "publish",
             !.at = IF none THEN "collect" ELSE "build",
             !.rec.by = IF none THEN 0 ELSE Newest(Successful(rs))]
      /\ UNCHANGED <<manifest, disk, stores, req, tails, impaired, control>>
    BY DEF Select, store
<1>2. rs \in SUBSET Req /\ Successful(rs) \in SUBSET Req /\ Successful(rs) \subseteq rs
    BY DEF States, Successful
<1>3. Newest(rs) \in rs /\ \A q \in rs : q <= Newest(rs)
    BY <1>1, <1>2, NewestIn
<1>4. ~none => Newest(Successful(rs)) \in Successful(rs) /\ \A q \in Successful(rs) : q <= Newest(Successful(rs))
    BY <1>2, NewestIn
<1>5. /\ pub'.states = rs
      /\ pub'.reason = IF collect THEN "collect" ELSE "publish"
      /\ pub'.at = IF none THEN "collect" ELSE "build"
      /\ pub'.rec.by = IF none THEN 0 ELSE Newest(Successful(rs))
    BY <1>1 DEF IdlePub, NoRecord
<1>6. pub' \in PubType
  <2>1. pub' = [at |-> IF none THEN "collect" ELSE "build", states |-> rs,
                rec |-> [by |-> IF none THEN 0 ELSE Newest(Successful(rs)), ram |-> FALSE, force |-> FALSE],
                reason |-> IF collect THEN "collect" ELSE "publish", ok |-> FALSE]
      BY <1>1 DEF IdlePub, NoRecord
  <2>2. [by |-> IF none THEN 0 ELSE Newest(Successful(rs)), ram |-> FALSE, force |-> FALSE] \in RecordType
      BY <1>2, <1>4 DEF RecordType
  <2> HIDE DEF none, collect, rs
  <2> QED BY <1>2, <2>1, <2>2 DEF PubType, Selecting
<1>7. Types' /\ OwnGeneration' /\ Others'
    BY <1>1, <1>6, OthersSame DEF TInv, Others, Types, OwnGeneration
<1>8. \A q \in rs : /\ q \in Req /\ ChatOf(q) = c /\ req[q].phase = "finished" /\ req[q].jobs = {}
    BY <1>1 DEF States, Quiet
<1>9. \A r \in Req : Live(r) /\ ChatOf(r) = c => r \in rs
    BY DEF States, Live
<1> HIDE DEF rs
<1>10. SelectedStill'
    BY <1>1, <1>2, <1>5, <1>8, <1>9 DEF SelectedStill, Live
<1>11. \A r \in rs : Good(r) /\ Sound(GenOf[r]) => ~req[r].collectOnly
  <2> TAKE r \in rs
  <2>1. r \in Req /\ Live(r)
      BY <1>8 DEF Live
  <2>2. r <= r
      BY <2>1, Constants
  <2> QED BY <1>8, <2>1, <2>2 DEF TInv, CollectOnly
<1>12. \A r \in rs : Good(r) /\ Sound(GenOf[r]) => r \in Successful(rs)
    BY <1>11 DEF Good, Successful
<1>13. /\ \A g \in Gen : Sound(g)' <=> Sound(g)
       /\ \A r \in Req : (Live(r)' <=> Live(r)) /\ (Good(r)' <=> Good(r))
    BY <1>1 DEF Sound, Current, Live, Good
<1>14. collect => \A r \in rs : Good(r) => ~Sound(GenOf[r])
  <2> SUFFICES ASSUME collect, NEW r \in rs, Good(r) PROVE ~Sound(GenOf[r])
      OBVIOUS
  <2>1. Newest(rs) \in Req /\ req[Newest(rs)].phase = "finished" /\ r \in Req /\ Live(r)
        /\ ChatOf(r) = ChatOf(Newest(rs)) /\ r <= Newest(rs)
      BY <1>3, <1>8 DEF Live
  <2> QED BY <2>1 DEF TInv, CollectOnly
<1>15. Candidate'
  <2>1. CASE none
    <3>1. pub'.at = "collect" /\ pub'.states = rs /\ (pub'.reason = "collect" => collect)
        BY <1>5, <2>1
    <3>2. \A r \in rs : Good(r) => ~Sound(GenOf[r])
        BY <1>12, <1>14, <2>1
    <3> QED BY <1>1, <1>3, <1>8, <1>13, <3>1, <3>2, Constants DEF Candidate
  <2>2. CASE ~none
    <3>1. pub'.at = "build" /\ pub'.states = rs /\ pub'.rec.by = Newest(Successful(rs))
        BY <1>5, <2>2
    <3>2. Good(pub'.rec.by) /\ pub'.rec.by \in rs /\ \A r \in rs : Good(r) /\ Sound(GenOf[r]) => r <= pub'.rec.by
        BY <1>2, <1>4, <1>12, <2>2, <3>1 DEF Good, Successful
    <3> QED BY <1>1, <1>8, <1>13, <3>1, <3>2, Constants DEF Candidate
  <2> QED BY <2>1, <2>2
<1>16. Flushed'
  <2>1. CASE none
      BY <1>5, <2>1 DEF Flushed, Flushing
  <2>2. CASE ~none
      BY <1>5, <2>2 DEF Flushed, Flushing
  <2> QED BY <2>1, <2>2
<1> QED BY <1>7, <1>10, <1>15, <1>16 DEF TInv, Others

\* _build_tail_record makes a record of the candidate, outside the mutex.
LEMMA BuildKeeps ==
    ASSUME TInv, Build
    PROVE  TInv'
<1> DEFINE by == pub.rec.by
           rec == [by |-> by, ram |-> req[by].ram, force |-> by \in DueReq \/ Replaces(by)]
<1>1. /\ pub.at = "build" /\ pub' = [pub EXCEPT !.at = "install", !.rec = rec]
      /\ UNCHANGED <<manifest, disk, stores, req, tails, impaired, control>>
    BY DEF Build, store
<1>2. /\ by \in pub.states /\ pub.states \subseteq Req /\ pub \in PubType /\ by \in Req
      /\ req \in [Req -> RequestType]
    BY <1>1 DEF TInv, Types, Candidate, PubType
<1>3. rec \in RecordType
    BY <1>2 DEF RecordType, RequestType, Replaces
<1>4. /\ pub' \in PubType /\ pub'.at = "install" /\ pub'.states = pub.states
      /\ pub'.rec.by = by /\ (pub'.rec.ram <=> req[by].ram)
  <2> HIDE DEF rec
  <2>1. pub' \in PubType /\ pub'.at = "install" /\ pub'.states = pub.states /\ pub'.rec = rec
      BY <1>1, <1>2, <1>3 DEF PubType, Selecting
  <2> QED BY <2>1 DEF rec
<1>5. Types' /\ OwnGeneration' /\ Others'
    BY <1>1, <1>4, OthersSame DEF TInv, Others, Types, OwnGeneration
<1>6. /\ \A g \in Gen : Sound(g)' <=> Sound(g)
      /\ \A r \in Req : (Live(r)' <=> Live(r)) /\ (Good(r)' <=> Good(r))
    BY <1>1 DEF Sound, Current, Live, Good
<1> HIDE DEF rec, by
<1>7. SelectedStill'
    BY <1>1, <1>2, <1>4, <1>6 DEF TInv, SelectedStill, Selecting
<1>8. Candidate'
  <2>1. req[by].phase = "finished" /\ req[by].jobs = {} /\ Good(by)
      BY <1>1, <1>2 DEF TInv, SelectedStill, Candidate, Selecting, by
  <2>2. Sound(GenOf[by]) => req[by].ram
      BY <1>2, <2>1 DEF TInv, RequestHeld
  <2>3. \A r \in pub.states : Good(r) /\ Sound(GenOf[r]) => r <= by
      BY <1>1 DEF TInv, Candidate, by
  <2> QED BY <1>2, <1>4, <1>6, <2>1, <2>2, <2>3, Constants DEF Candidate
<1>9. Flushed'
    BY <1>4 DEF Flushed, Flushing
<1> QED BY <1>5, <1>7, <1>8, <1>9 DEF TInv, Others

\* The publisher gives up, without a trace but an answer.
LEMMA GivesUpKeeps ==
    ASSUME TInv, pub' = IdlePub, control' \in [Chat -> ControlType],
           \A c \in Chat : control'[c].gen = control[c].gen,
           UNCHANGED <<manifest, disk, stores, req, tails, impaired>>
    PROVE  TInv'
<1>1. SelectedStill' /\ Candidate' /\ Flushed' /\ Types'
    BY IdleAgain DEF TInv, Types
<1>2. OwnGeneration'
    BY DEF TInv, OwnGeneration
<1>3. Others'
    BY OthersSame DEF TInv, Others
<1> QED BY <1>1, <1>2, <1>3 DEF TInv, Others

\* An answer leaves the generation that was asked for alone.
LEMMA AnswerType ==
    ASSUME Types, NEW c \in Chat,
           NEW a \in {"none", "pending", "flushed", "rejected", "error", "already_durable"},
           Answer(c, a) \/ UNCHANGED control
    PROVE  /\ control' \in [Chat -> ControlType]
           /\ \A d \in Chat : control'[d].gen = control[d].gen
           /\ \A d \in Chat : d # c => control'[d] = control[d]
<1>1. CASE UNCHANGED control
    BY <1>1 DEF Types
<1>2. CASE control' = [control EXCEPT ![c].answer = a]
  <2>1. control[c] \in ControlType /\ control \in [Chat -> ControlType]
      BY DEF Types
  <2>2. [control[c] EXCEPT !.answer = a] \in ControlType
      BY <2>1 DEF ControlType
  <2>3. control' \in [Chat -> ControlType] /\ \A d \in Chat : d # c => control'[d] = control[d]
      BY <1>2, <2>1, <2>2
  <2>4. control'[c].gen = control[c].gen
      BY <1>2, <2>1 DEF ControlType
  <2> QED BY <2>3, <2>4
<1> QED BY <1>1, <1>2 DEF Answer

\* The publisher drops a tail that a newer request has overtaken.
LEMMA OvertakenKeeps ==
    ASSUME TInv, Overtaken \/ PublishOvertaken
    PROVE  TInv'
<1>1. pub' = IdlePub /\ UNCHANGED <<manifest, disk, stores, req, tails, impaired, control>>
    BY DEF Overtaken, PublishOvertaken, store
<1> QED BY <1>1, GivesUpKeeps DEF TInv, Types

\* The write of a tail fails: the record stays.
LEMMA WriteTailFailsKeeps ==
    ASSUME TInv, WriteTailFails
    PROVE  TInv'
<1>1. /\ pub.at = "write" /\ pub' = IdlePub /\ UNCHANGED <<manifest, disk, stores, req, tails, impaired>>
      /\ Answer(FlushChat, "error") \/ UNCHANGED control
    BY DEF WriteTailFails, AnswerExplicit, store
<1>2. FlushChat \in Chat
    BY <1>1, Constants DEF TInv, Types, Flushed, Flushing, PubType, RecordType, FlushChat
<1>3. /\ control' \in [Chat -> ControlType]
      /\ \A c \in Chat : control'[c].gen = control[c].gen
    BY <1>1, <1>2, AnswerType DEF TInv
<1> QED BY <1>1, <1>3, GivesUpKeeps

\* _force_identity answers without a record.
LEMMA AnswerWithoutRecordKeeps ==
    ASSUME TInv, NEW c \in Chat, AnswerWithoutRecord(c)
    PROVE  TInv'
<1>1. /\ pub = IdlePub /\ UNCHANGED <<manifest, disk, stores, req, tails, impaired, pub>>
      /\ Answer(c, "already_durable") \/ Answer(c, "error")
    BY DEF AnswerWithoutRecord, store
<1>2. /\ control' \in [Chat -> ControlType]
      /\ \A d \in Chat : control'[d].gen = control[d].gen
    BY <1>1, AnswerType DEF TInv
<1> QED BY <1>1, <1>2, GivesUpKeeps

\* The owner asks for a flush; a flush that is under way was not asked for then.
LEMMA AskFlushKeeps ==
    ASSUME TInv, NEW c \in Chat, AskFlush(c)
    PROVE  TInv'
<1>1. /\ control[c] = NoControl /\ manifest[c].gen # None
      /\ control' = [control EXCEPT ![c] = [gen |-> manifest[c].gen, answer |-> "pending"]]
      /\ UNCHANGED <<manifest, disk, stores, req, tails, impaired, pub>>
    BY DEF AskFlush, store
<1>2. control[c].gen = None
    BY <1>1 DEF NoControl
<1>3. Types'
  <2>1. [gen |-> manifest[c].gen, answer |-> "pending"] \in ControlType
      BY DEF TInv, Types, ManifestType, ControlType
  <2> QED BY <1>1, <2>1 DEF TInv, Types
<1>4. OwnGeneration'
    BY <1>1 DEF TInv, Types, OwnGeneration
<1>5. Others'
    BY <1>1, OthersSame DEF TInv, Others
<1>6. /\ \A g \in Gen : (Sound(g)' <=> Sound(g)) /\ (Current(g)' <=> Current(g))
      /\ \A r \in Req : (Live(r)' <=> Live(r)) /\ (Good(r)' <=> Good(r))
    BY <1>1 DEF Sound, Current, Live, Good
<1>7. SelectedStill' /\ Candidate'
  <2>1. pub.at \in Selecting => pub.states \subseteq Req
      BY DEF TInv, Types, PubType
  <2>2. pub.at \in {"build", "install"} => pub.rec.by \in Req
      BY <2>1 DEF TInv, Candidate, Selecting
  <2>3. SelectedStill'
      BY <1>1, <1>6, <2>1 DEF TInv, SelectedStill
  <2> QED BY <1>1, <1>6, <2>1, <2>2, <2>3, Constants DEF TInv, Candidate, Selecting
<1>8. Flushed'
  <2>1. pub.at \in Flushing => pub.rec.by \in Req /\ FlushGen \in Gen /\ FlushChat \in Chat
      BY Constants DEF TInv, Types, Flushed, PubType, RecordType, FlushChat, FlushGen
  <2>2. FlushGen' = FlushGen /\ FlushChat' = FlushChat
      BY <1>1 DEF FlushGen, FlushChat
  <2>3. pub.at \in Flushing /\ pub.reason = "explicit" => control'[FlushChat].gen = FlushGen
      BY <1>1, <1>2, <2>1, Constants DEF TInv, Types, Flushed
  <2> QED BY <1>1, <1>6, <2>1, <2>2, <2>3 DEF TInv, Flushed
<1> QED BY <1>3, <1>4, <1>5, <1>7, <1>8 DEF TInv, Others

\* The request and the generation of a flush.
LEMMA FlushFacts ==
    ASSUME TInv, pub.at \in Flushing
    PROVE  /\ pub.rec.by \in Req /\ FlushGen \in Gen /\ FlushChat \in Chat
           /\ FlushGen = GenOf[pub.rec.by] /\ FlushChat = ChatOf(pub.rec.by)
           /\ GenChat[FlushGen] = FlushChat
           /\ pub.rec.by # 0 /\ req[pub.rec.by].phase = "gone" /\ Good(pub.rec.by)
           /\ Current(FlushGen) => FlushGen \in Records /\ tails[FlushGen].by = pub.rec.by
           /\ Sound(FlushGen) => pub.rec.ram /\ PrefixBlocks(pub.rec.by) \subseteq disk
<1>1. pub.rec.by \in Req /\ FlushGen \in Gen /\ FlushChat \in Chat /\ GenChat[FlushGen] = FlushChat
    BY Constants DEF TInv, Types, Flushed, PubType, RecordType, FlushChat, FlushGen
<1>2. /\ pub.rec.by # 0 /\ req[pub.rec.by].phase = "gone" /\ Good(pub.rec.by)
      /\ Current(FlushGen) => tails[FlushGen].by = pub.rec.by /\ tails[FlushGen].ram = pub.rec.ram
    BY DEF TInv, Flushed
<1>3. Current(FlushGen) => FlushGen \in Records
    BY <1>1, <1>2, NoRecordType DEF Records
<1>4. Sound(FlushGen) => pub.rec.ram /\ PrefixBlocks(pub.rec.by) \subseteq disk
    BY <1>2, <1>3 DEF TInv, RecordHeld, Sound
<1> QED BY <1>1, <1>2, <1>3, <1>4 DEF FlushChat, FlushGen

\* A head that can be restored is complete.
LEMMA SoundComplete ==
    ASSUME TInv, pub.at \in {"prepare", "publish"}, Sound(FlushGen)
    PROVE  Complete
<1>1. pub.at \in Flushing
    BY DEF Flushing
<1>2. TailBlock(pub.rec.by) \in disk
    BY <1>1 DEF TInv, Flushed
<1> QED BY <1>1, <1>2, FlushFacts, HeadParts DEF Complete, Sound

\* What is known of a flush depends on the state only through these.
LEMMA FlushedStep ==
    ASSUME TInv, pub.at \in Flushing, pub' \in PubType, pub'.at \in Flushing,
           pub'.rec = pub.rec, pub'.reason = pub.reason,
           UNCHANGED <<manifest, req, tails, impaired, control>>,
           pub'.at \in {"prepare", "publish"} /\ Sound(FlushGen) => TailBlock(pub.rec.by) \in disk',
           pub'.at = "publish" /\ Sound(FlushGen) => pub'.ok
    PROVE  Flushed' /\ SelectedStill' /\ Candidate'
<1>1. FlushGen' = FlushGen /\ FlushChat' = FlushChat
    BY DEF FlushGen, FlushChat
<1>2. (Current(FlushGen)' <=> Current(FlushGen)) /\ (Sound(FlushGen)' <=> Sound(FlushGen))
      /\ (Good(pub.rec.by)' <=> Good(pub.rec.by))
    BY <1>1 DEF Current, Sound, Good
<1>3. Flushed'
    BY <1>1, <1>2 DEF TInv, Flushed
<1> QED BY <1>3 DEF SelectedStill, Candidate, Selecting, Flushing

\* The publisher verifies the blocks of the head it is about to publish.
LEMMA PrepareKeeps ==
    ASSUME TInv, Prepare
    PROVE  TInv'
<1>1. /\ pub.at = "prepare" /\ pub' = [pub EXCEPT !.at = "publish", !.ok = Complete]
      /\ UNCHANGED <<manifest, disk, stores, req, tails, impaired, control>>
    BY DEF Prepare, store
<1>2. Complete \in BOOLEAN /\ pub \in PubType /\ pub.at \in Flushing
    BY <1>1 DEF Complete, TInv, Types, Flushing
<1>3. /\ pub' \in PubType /\ pub'.at = "publish" /\ pub'.rec = pub.rec /\ pub'.reason = pub.reason
      /\ pub'.ok = Complete
    BY <1>1, <1>2 DEF PubType, Flushing
<1>4. Sound(FlushGen) => pub'.ok /\ TailBlock(pub.rec.by) \in disk
    BY <1>1, <1>2, <1>3, SoundComplete DEF TInv, Flushed
<1>5. Flushed' /\ SelectedStill' /\ Candidate'
    BY <1>1, <1>2, <1>3, <1>4, FlushedStep DEF Flushing
<1>6. Types' /\ OwnGeneration' /\ Others'
    BY <1>1, <1>3, OthersSame DEF TInv, Others, Types, OwnGeneration
<1> QED BY <1>5, <1>6 DEF TInv, Others

\* _flush_record writes the tail.
LEMMA WriteTailKeeps ==
    ASSUME TInv, WriteTail
    PROVE  TInv'
<1>1. /\ pub.at = "write" /\ pub' = [pub EXCEPT !.at = "prepare"]
      /\ disk' = IF pub.rec.ram THEN disk \cup {TailBlock(pub.rec.by)} ELSE disk
      /\ UNCHANGED <<manifest, stores, req, tails, impaired, control>>
    BY DEF WriteTail
<1>2. pub \in PubType /\ pub.at \in Flushing
    BY <1>1 DEF TInv, Types, Flushing
<1>3. pub' \in PubType /\ pub'.at = "prepare" /\ pub'.rec = pub.rec /\ pub'.reason = pub.reason
    BY <1>1, <1>2 DEF PubType, Flushing
<1>4. Sound(FlushGen) => TailBlock(pub.rec.by) \in disk'
    BY <1>1, <1>2, FlushFacts
<1>5. disk \subseteq disk'
    BY <1>1
<1>6. Flushed' /\ SelectedStill' /\ Candidate'
    BY <1>1, <1>2, <1>3, <1>4, FlushedStep DEF Flushing
<1>7. Types' /\ OwnGeneration' /\ Others'
    BY <1>1, <1>3, <1>5, OthersKept DEF TInv, Others, Types, OwnGeneration, Records
<1> QED BY <1>6, <1>7 DEF TInv, Others

\* A flush starts: due, for room in RAM, or asked for.
LEMMA FlushStartKeeps ==
    ASSUME TInv, NEW g, NEW reason \in {"due", "evict", "explicit"}, FlushStart(g, reason),
           reason = "explicit" => control[GenChat[g]].gen = g
    PROVE  TInv'
<1>1. /\ g \in Records /\ g \in Gen
      /\ tails' = [tails EXCEPT ![g].force = TRUE]
      /\ pub' = [IdlePub EXCEPT !.at = "write", !.rec = tails[g], !.reason = reason]
      /\ UNCHANGED <<manifest, disk, stores, req, impaired, control>>
    BY DEF FlushStart, Flushable, Records, store
<1>2. tails \in [Gen -> RecordType] /\ tails[g] \in RecordType
    BY <1>1 DEF TInv, Types
<1>3. /\ tails' \in [Gen -> RecordType]
      /\ \A h \in Gen : tails'[h].by = tails[h].by /\ tails'[h].ram = tails[h].ram
      /\ \A h \in Gen \ {g} : tails'[h] = tails[h]
    BY <1>1, <1>2 DEF RecordType
<1>4. /\ tails[g].by # 0 /\ tails[g].by \in Req /\ GenOf[tails[g].by] = g
      /\ req[tails[g].by].phase = "gone" /\ Good(tails[g].by)
    BY <1>1, <1>2 DEF TInv, RecordsGood, RecordType
<1>5. Records' = Records
  <2>1. tails'[g] # NoRecord
      BY <1>1, <1>3, <1>4, NoRecordType
  <2> QED BY <1>1, <1>3, <2>1 DEF Records
<1>6. /\ pub' \in PubType /\ pub'.at = "write" /\ pub'.rec = tails[g] /\ pub'.reason = reason
  <2>1. pub' = [at |-> "write", states |-> {}, rec |-> tails[g], reason |-> reason, ok |-> FALSE]
      BY <1>1 DEF IdlePub
  <2> QED BY <1>2, <2>1 DEF PubType, Flushing
<1>7. Types' /\ OwnGeneration' /\ Others'
    BY <1>1, <1>3, <1>5, <1>6, OthersKept DEF TInv, Others, Types, OwnGeneration
<1>8. SelectedStill' /\ Candidate'
    BY <1>6 DEF SelectedStill, Candidate, Selecting
<1>9. FlushGen' = g /\ FlushChat' = GenChat[g] /\ (Good(tails[g].by)' <=> Good(tails[g].by))
    BY <1>1, <1>4, <1>6 DEF FlushGen, FlushChat, ChatOf, Good
<1>10. Flushed'
    BY <1>1, <1>3, <1>4, <1>6, <1>9 DEF Flushed, Good
<1> QED BY <1>7, <1>8, <1>10 DEF TInv, Others

\* A tail becomes due, is evicted by the RAM limit, or is flushed on request.
LEMMA FlushKeeps ==
    ASSUME TInv,
           (\E g \in Gen : FlushDue(g)) \/ Evict \/ \E c \in Chat : FlushExplicit(c)
    PROVE  TInv'
<1>1. CASE \E g \in Gen : FlushDue(g)
    BY <1>1, FlushStartKeeps DEF FlushDue
<1>2. CASE Evict
    BY <1>2, FlushStartKeeps DEF Evict
<1>3. CASE \E c \in Chat : FlushExplicit(c)
  <2>1. PICK c \in Chat : FlushStart(control[c].gen, "explicit")
      BY <1>3 DEF FlushExplicit
  <2>2. control[c].gen \in Gen
      BY <2>1 DEF FlushStart, Flushable, Records
  <2>3. GenChat[control[c].gen] = c
      BY <2>2, Constants DEF TInv, OwnGeneration
  <2> QED BY <2>1, <2>3, FlushStartKeeps
<1> QED BY <1>1, <1>2, <1>3

-----------------------------------------------------------------------------
(***************************************************************************)
(* Arrivals and new generations.                                           *)
(***************************************************************************)
\* What a request, a new generation or both may do to the rest.
ChatKeptOrRetired(c) ==
    \/ manifest'[c] = manifest[c] /\ \A b \in disk : BlockChat(b) = c => b \in disk'
    \/ /\ manifest'[c].by = 0
       /\ \A r \in Req : Admitted(r) /\ ChatOf(r) = c =>
            manifest'[c].gen # GenOf[r] /\ GenOf[r] \in manifest'[c].retired
SameOrArrives(q) ==
    \/ req'[q] = req[q]
    \/ /\ Arrives(q) /\ req'[q].phase \in {"running", "bypass"}
       /\ ~req'[q].collectOnly /\ req'[q].jobs = {}
       /\ req'[q].phase = "running" =>
            manifest'[ChatOf(q)].gen = GenOf[q] /\ stores'[ChatOf(q)] = GenOf[q]
SameOrDropped(g) ==
    \/ tails'[g] = tails[g]
    \/ tails'[g] = NoRecord /\ \A r \in Req : Admitted(r) /\ GenOf[r] = g => ~Current(g)'
ArrivalEffect ==
    /\ UNCHANGED <<pub, control, impaired>> /\ Types' /\ OwnGeneration'
    /\ \A c \in Chat : ChatKeptOrRetired(c)
    /\ \A q \in Req : SameOrArrives(q)
    /\ \A g \in Gen : SameOrDropped(g)
    /\ \A r \in Req : Admitted(r) /\ Current(GenOf[r])' => stores'[ChatOf(r)] = stores[ChatOf(r)]

\* An arriving request is later than every admitted one.
LEMMA ArrivesLast ==
    ASSUME Arrival, NEW a \in Req, NEW q \in Req, Arrives(a), req[q].phase # "new"
    PROVE  q < a
<1>1. a \in Nat /\ q \in Nat /\ req[a].phase = "new"
    BY Constants DEF Arrives
<1>2. ~(a < q) /\ a # q
    BY <1>1 DEF Arrival
<1> QED BY <1>1, <1>2

\* It is the only one.
LEMMA ArrivesAlone ==
    ASSUME NEW a \in Req, NEW q \in Req, Arrives(a), Arrives(q)
    PROVE  q = a
<1>1. a \in Nat /\ q \in Nat /\ a >= 1 /\ q >= 1
    BY Constants DEF Req
<1>2. ~(a < q) /\ ~(q < a)
    BY <1>1 DEF Arrives
<1> QED BY <1>1, <1>2

\* What was admitted keeps its state, and its blocks while its generation is current.
LEMMA ArrivalFacts ==
    ASSUME TInv, ArrivalEffect
    PROVE  /\ \A r \in Req : req[r].phase # "new" => req'[r] = req[r]
           /\ \A r \in Req : req'[r].phase \in {"new", "finished", "gone"} => req'[r] = req[r]
           /\ \A r \in Req : Admitted(r) /\ Current(GenOf[r])' =>
                /\ Current(GenOf[r]) /\ manifest'[ChatOf(r)] = manifest[ChatOf(r)]
                /\ stores'[ChatOf(r)] = GenOf[r] /\ tails'[GenOf[r]] = tails[GenOf[r]]
                /\ \A b \in HeadOf(r) : b \in disk => b \in disk'
                /\ Sound(GenOf[r])' => Sound(GenOf[r])
           /\ \A g \in Gen : g \in Records' => g \in Records /\ tails'[g] = tails[g]
<1>1. \A r \in Req : req[r].phase # "new" => req'[r] = req[r]
    BY DEF ArrivalEffect, SameOrArrives, Arrives
<1>2. \A r \in Req : req'[r].phase \in {"new", "finished", "gone"} => req'[r] = req[r]
    BY DEF ArrivalEffect, SameOrArrives
<1>3. \A g \in Gen : g \in Records' => g \in Records /\ tails'[g] = tails[g]
    BY DEF ArrivalEffect, SameOrDropped, Records
<1>4. ASSUME NEW r \in Req, Admitted(r), Current(GenOf[r])'
      PROVE  /\ Current(GenOf[r]) /\ manifest'[ChatOf(r)] = manifest[ChatOf(r)]
             /\ stores'[ChatOf(r)] = GenOf[r] /\ tails'[GenOf[r]] = tails[GenOf[r]]
             /\ \A b \in HeadOf(r) : b \in disk => b \in disk'
             /\ Sound(GenOf[r])' => Sound(GenOf[r])
  <2>1. ChatOf(r) \in Chat /\ GenOf[r] \in Gen /\ GenChat[GenOf[r]] = ChatOf(r)
      BY Constants
  <2>2. manifest'[ChatOf(r)].gen = GenOf[r]
      BY <1>4, <2>1 DEF Current
  <2>3. manifest'[ChatOf(r)] = manifest[ChatOf(r)] /\ \A b \in disk : BlockChat(b) = ChatOf(r) => b \in disk'
      BY <1>4, <2>1, <2>2 DEF ArrivalEffect, ChatKeptOrRetired
  <2>4. Current(GenOf[r])
      BY <2>1, <2>2, <2>3 DEF Current
  <2>5. stores'[ChatOf(r)] = GenOf[r]
      BY <1>4, <2>4 DEF ArrivalEffect, TInv, Activated
  <2>6. tails'[GenOf[r]] = tails[GenOf[r]]
      BY <1>4, <2>1 DEF ArrivalEffect, SameOrDropped
  <2>7. Sound(GenOf[r])' => Sound(GenOf[r])
      BY <2>4 DEF Sound, ArrivalEffect
  <2> QED BY <2>3, <2>4, <2>5, <2>6, <2>7, HeadBlocks
<1> QED BY <1>1, <1>2, <1>3, <1>4

\* A flush is not disturbed by steps that leave its request and record alone.
LEMMA FlushedFrame ==
    ASSUME TInv, UNCHANGED <<pub, control>>, pub.at \in Flushing,
           NEW by \in Req, by = pub.rec.by, req'[by] = req[by],
           Current(GenOf[by])' => Current(GenOf[by]) /\ tails'[GenOf[by]] = tails[GenOf[by]],
           Sound(GenOf[by])' => Sound(GenOf[by]) /\ (TailBlock(by) \in disk => TailBlock(by) \in disk')
    PROVE  Flushed'
<1>1. FlushGen = GenOf[by] /\ FlushGen' = GenOf[by] /\ FlushChat' = FlushChat /\ pub'.rec.by = by
    BY DEF FlushGen, FlushChat
<1>2. (Current(FlushGen)' <=> Current(GenOf[by])') /\ (Sound(FlushGen)' <=> Sound(GenOf[by])')
    BY <1>1 DEF Current, Sound
<1>3. by # 0 /\ req'[by].phase = "gone" /\ req'[by].head /\ ~req'[by].failed
    BY FlushFacts DEF Good
<1> QED BY <1>1, <1>2, <1>3 DEF TInv, Flushed, Good

\* A request arrives, of the same generation or of one that replaces it.
LEMMA ArrivalKeeps ==
    ASSUME TInv, ArrivalEffect
    PROVE  TInv'
<1>0. UNCHANGED <<pub, control, impaired>> /\ Types' /\ OwnGeneration' /\ Arrival /\ Types
    BY DEF ArrivalEffect, TInv
<1>1. \A r \in Req : req[r].phase # "new" => req'[r] = req[r]
    BY ArrivalFacts
<1>2. \A r \in Req : req'[r].phase \in {"new", "finished", "gone"} => req'[r] = req[r]
    BY ArrivalFacts
<1>3. \A r \in Req : Admitted(r) /\ Current(GenOf[r])' =>
        /\ Current(GenOf[r]) /\ manifest'[ChatOf(r)] = manifest[ChatOf(r)]
        /\ stores'[ChatOf(r)] = GenOf[r] /\ tails'[GenOf[r]] = tails[GenOf[r]]
        /\ \A b \in HeadOf(r) : b \in disk => b \in disk'
        /\ Sound(GenOf[r])' => Sound(GenOf[r])
    BY ArrivalFacts
<1>4. \A g \in Gen : g \in Records' => g \in Records /\ tails'[g] = tails[g]
    BY ArrivalFacts
<1>5. \A r \in Req : \/ req'[r] = req[r]
                     \/ /\ Arrives(r) /\ req'[r].phase = "bypass"
                        /\ ~req'[r].collectOnly /\ req'[r].jobs = {}
                     \/ /\ Arrives(r) /\ req'[r].phase = "running"
                        /\ ~req'[r].collectOnly /\ req'[r].jobs = {}
                        /\ manifest'[ChatOf(r)].gen = GenOf[r] /\ stores'[ChatOf(r)] = GenOf[r]
    BY DEF ArrivalEffect, SameOrArrives
<1>6. \A r \in Req : /\ Good(r)' <=> req'[r].head /\ ~req'[r].failed
                     /\ Live(r)' <=> req'[r].phase \in {"running", "finished"}
                     /\ Admitted(r)' <=> req'[r].phase \in {"running", "finished", "gone"}
    BY DEF Good, Live, Admitted
<1>7. Arrival'
  <2> SUFFICES ASSUME NEW q \in Req, NEW r \in Req, r < q, req'[r].phase = "new"
               PROVE  req'[q].phase = "new"
      BY DEF Arrival
  <2>1. req[r].phase = "new" /\ req[q].phase = "new"
      BY <1>0, <1>2 DEF Arrival
  <2>2. ~Arrives(q)
    <3>1. r \in 1..(q - 1)
        BY Constants DEF Req
    <3> QED BY <2>1, <3>1 DEF Arrives
  <2> QED BY <1>5, <2>1, <2>2
<1>8. Departure'
  <2> SUFFICES ASSUME NEW q \in Req, NEW r \in Req, ChatOf(q) = ChatOf(r), req'[q].phase = "gone", Live(r)'
               PROVE  q < r
      BY DEF Departure
  <2>1. req[q].phase = "gone"
      BY <1>2
  <2>2. CASE req'[r] = req[r]
      BY <1>6, <2>1, <2>2 DEF TInv, Departure, Live
  <2>3. CASE Arrives(r)
      BY <1>0, <2>1, <2>3, ArrivesLast
  <2> QED BY <1>5, <2>2, <2>3
<1>9. Quieted'
    BY <1>2, <1>5 DEF TInv, Quieted
<1>10. Activated'
  <2> SUFFICES ASSUME NEW r \in Req, Admitted(r)'
               PROVE  \/ Current(GenOf[r])' /\ stores'[ChatOf(r)] = GenOf[r]
                      \/ ~Current(GenOf[r])' /\ GenOf[r] \in manifest'[ChatOf(r)].retired
      BY DEF Activated
  <2>1. ChatOf(r) \in Chat /\ GenOf[r] \in Gen /\ GenChat[GenOf[r]] = ChatOf(r)
      BY Constants
  <2>2. Current(GenOf[r])' <=> manifest'[ChatOf(r)].gen = GenOf[r]
      BY <2>1 DEF Current
  <2>3. CASE req'[r] = req[r]
    <3>1. Admitted(r)
        BY <1>6, <2>3 DEF Admitted
    <3>2. CASE Current(GenOf[r])'
        BY <1>3, <3>1, <3>2
    <3>3. CASE ~Current(GenOf[r])'
      <4>1. CASE manifest'[ChatOf(r)] = manifest[ChatOf(r)]
        <5>1. ~Current(GenOf[r])
            BY <2>1, <2>2, <3>3, <4>1 DEF Current
        <5> QED BY <3>1, <3>3, <4>1, <5>1 DEF TInv, Activated
      <4> QED BY <2>1, <3>1, <3>3, <4>1 DEF ArrivalEffect, ChatKeptOrRetired
    <3> QED BY <3>2, <3>3
  <2> QED BY <1>5, <1>6, <2>2, <2>3
<1>11. Succession'
  <2> SUFFICES ASSUME NEW q \in Req, NEW r \in Req, q < r, ChatOf(q) = ChatOf(r),
                      Admitted(q)', Admitted(r)', Current(GenOf[q])'
               PROVE  GenOf[r] = GenOf[q]
      BY DEF Succession
  <2>1. manifest'[ChatOf(q)].gen = GenOf[q] /\ q \in Nat /\ r \in Nat
      BY Constants DEF Current
  <2>2. CASE req'[r] = req[r]
    <3>1. Admitted(r) /\ req[r].phase # "new"
        BY <1>6, <2>2 DEF Admitted
    <3>2. ~Arrives(q)
        BY <1>0, <2>1, <3>1, ArrivesLast
    <3>3. Admitted(q)
        BY <1>5, <1>6, <3>2 DEF Admitted
    <3> QED BY <1>3, <3>1, <3>3 DEF TInv, Succession
  <2>3. CASE manifest'[ChatOf(r)].gen = GenOf[r]
      BY <2>1, <2>3
  <2> QED BY <1>5, <1>6, <2>2, <2>3
<1>12. Heads'
  <2> SUFFICES ASSUME NEW c \in Chat, manifest'[c].by # 0
               PROVE  /\ GenOf[manifest'[c].by] = manifest'[c].gen /\ ChatOf(manifest'[c].by) = c
                      /\ req'[manifest'[c].by].phase = "gone"
      BY DEF Heads
  <2>1. manifest'[c] = manifest[c] /\ manifest[c].by \in Req
      BY <1>0 DEF ArrivalEffect, ChatKeptOrRetired, Types, ManifestType
  <2> QED BY <1>1, <2>1 DEF TInv, Heads
<1>13. HeadOnDisk'
  <2> SUFFICES ASSUME NEW c \in Chat PROVE HeadOf(manifest'[c].by) \subseteq disk'
      BY DEF HeadOnDisk
  <2>1. CASE manifest'[c].by = 0
      BY <2>1 DEF HeadOf
  <2>2. CASE manifest'[c].by # 0
    <3>1. manifest'[c] = manifest[c] /\ \A b \in disk : BlockChat(b) = c => b \in disk'
        BY <2>2 DEF ArrivalEffect, ChatKeptOrRetired
    <3>2. manifest[c].by \in Req /\ ChatOf(manifest[c].by) = c /\ HeadOf(manifest[c].by) \subseteq disk
        BY <1>0, <2>2, <3>1 DEF TInv, Heads, HeadOnDisk, Types, ManifestType
    <3> QED BY <3>1, <3>2, HeadBlocks
  <2> QED BY <2>1, <2>2
<1>14. \A g \in Gen : g \in Records' =>
         /\ g \in Records /\ tails'[g] = tails[g] /\ tails[g].by \in Req /\ Admitted(tails[g].by)
         /\ GenOf[tails[g].by] = g /\ req'[tails[g].by] = req[tails[g].by]
         /\ Good(tails[g].by) /\ req[tails[g].by].phase = "gone"
    BY <1>0, <1>1, <1>4 DEF TInv, RecordsGood, Types, RecordType, Admitted
<1>15. Records' \subseteq Gen
    BY DEF Records
<1>16. RecordsGood'
  <2> SUFFICES ASSUME NEW g \in Gen, g \in Records'
               PROVE  /\ tails'[g].by # 0 /\ GenOf[tails'[g].by] = g /\ req'[tails'[g].by].phase = "gone"
                      /\ req'[tails'[g].by].head /\ ~req'[tails'[g].by].failed
                      /\ Current(g)' => manifest'[GenChat[g]].by <= tails'[g].by
      BY <1>15 DEF RecordsGood, Good
  <2>1. tails[g].by # 0 /\ (Current(g) => manifest[GenChat[g]].by <= tails[g].by)
      BY <1>14 DEF TInv, RecordsGood
  <2>2. Current(g)' => Current(g) /\ manifest'[GenChat[g]] = manifest[GenChat[g]]
      BY <1>3, <1>14 DEF ChatOf
  <2> QED BY <1>6, <1>14, <2>1, <2>2 DEF Good
<1>17. RequestHeld'
  <2> SUFFICES ASSUME NEW r \in Req, req'[r].phase = "finished", Good(r)', Sound(GenOf[r])'
               PROVE  /\ "prefix" \notin req'[r].jobs => PrefixBlocks(r) \subseteq disk'
                      /\ "tail" \notin req'[r].jobs => req'[r].ram
      BY DEF RequestHeld
  <2>1. req'[r] = req[r] /\ Admitted(r) /\ Good(r) /\ Current(GenOf[r])'
      BY <1>2, <1>6 DEF Admitted, Good, Sound
  <2>2. Sound(GenOf[r]) /\ \A b \in HeadOf(r) : b \in disk => b \in disk'
      BY <1>3, <2>1
  <2> QED BY <2>1, <2>2, HeadParts DEF TInv, RequestHeld
<1>18. RecordHeld'
  <2> SUFFICES ASSUME NEW g \in Gen, g \in Records', Sound(g)'
               PROVE  tails'[g].ram /\ PrefixBlocks(tails'[g].by) \subseteq disk'
      BY <1>15 DEF RecordHeld
  <2>1. Sound(g) /\ \A b \in HeadOf(tails[g].by) : b \in disk => b \in disk'
      BY <1>3, <1>14 DEF Sound
  <2> QED BY <1>14, <2>1, HeadParts DEF TInv, RecordHeld
<1>19. CollectOnly'
  <2> SUFFICES ASSUME NEW n \in Req, req'[n].phase = "finished", req'[n].collectOnly
               PROVE  /\ \A r \in Req : Live(r)' /\ ChatOf(r) = ChatOf(n) /\ r <= n =>
                           /\ req'[r].phase = "finished" /\ req'[r].jobs = {}
                           /\ Good(r)' => ~Sound(GenOf[r])'
                      /\ \A g \in Gen : g \in Records' /\ GenChat[g] = ChatOf(n) => ~Sound(g)'
      BY <1>15 DEF CollectOnly
  <2>1. req'[n] = req[n] /\ req[n].phase # "new" /\ n \in Nat
      BY <1>2, Constants
  <2>2. ASSUME NEW r \in Req, Live(r)', ChatOf(r) = ChatOf(n), r <= n
        PROVE  /\ req'[r].phase = "finished" /\ req'[r].jobs = {}
               /\ Good(r)' => ~Sound(GenOf[r])'
    <3>1. ~Arrives(r)
        BY <1>0, <2>1, <2>2, ArrivesLast, Constants
    <3>2. req'[r] = req[r] /\ Live(r) /\ Admitted(r) /\ (Good(r)' => Good(r))
        BY <1>5, <1>6, <2>2, <3>1 DEF Live, Admitted, Good
    <3>3. req[r].phase = "finished" /\ req[r].jobs = {} /\ (Good(r) => ~Sound(GenOf[r]))
        BY <2>1, <2>2, <3>2 DEF TInv, CollectOnly
    <3>4. Sound(GenOf[r])' => Sound(GenOf[r])
        BY <1>3, <3>2 DEF Sound
    <3> QED BY <3>2, <3>3, <3>4
  <2>3. ASSUME NEW g \in Gen, g \in Records', GenChat[g] = ChatOf(n)
        PROVE  ~Sound(g)'
    <3>1. ~Sound(g)
        BY <1>14, <2>1, <2>3 DEF TInv, CollectOnly
    <3>2. Sound(g)' => Sound(g)
        BY <1>3, <1>14, <2>3 DEF Sound
    <3> QED BY <3>1, <3>2
  <2> QED BY <2>2, <2>3
<1>20. Settled'
  <2> SUFFICES ASSUME NEW r \in Req, req'[r].phase = "gone", Good(r)', Sound(GenOf[r])'
               PROVE  r <= manifest'[ChatOf(r)].by \/ r <= tails'[GenOf[r]].by
      BY DEF Settled
  <2>1. req'[r] = req[r] /\ Admitted(r) /\ Good(r) /\ Current(GenOf[r])'
      BY <1>2, <1>6 DEF Admitted, Good, Sound
  <2> QED BY <1>3, <2>1 DEF TInv, Settled
<1>21. pub.at \in Selecting => \A q \in pub.states :
          q \in Req /\ req'[q] = req[q] /\ req[q].phase = "finished" /\ Admitted(q)
    BY <1>0, <1>1 DEF TInv, SelectedStill, Types, PubType, Admitted
<1>22. SelectedStill'
  <2> SUFFICES ASSUME pub.at \in Selecting
               PROVE  /\ pub.states # {}
                      /\ \A q \in pub.states :
                           /\ req'[q].phase = "finished" /\ req'[q].jobs = {}
                           /\ \A r \in pub.states : ChatOf(r) = ChatOf(q)
                           /\ \A r \in Req \ pub.states : Live(r)' /\ ChatOf(r) = ChatOf(q) => q < r
      BY <1>0 DEF SelectedStill
  <2>1. ASSUME NEW q \in pub.states, NEW r \in Req \ pub.states, Live(r)', ChatOf(r) = ChatOf(q)
        PROVE  q < r
    <3>1. CASE req'[r] = req[r]
        BY <1>6, <2>1, <3>1 DEF TInv, SelectedStill, Live
    <3>2. CASE Arrives(r)
        BY <1>0, <1>21, <2>1, <3>2, ArrivesLast
    <3> QED BY <1>5, <3>1, <3>2
  <2> QED BY <1>21, <2>1 DEF TInv, SelectedStill
<1>23. pub.at \in Selecting => \A q \in pub.states :
          (Good(q)' <=> Good(q)) /\ (Sound(GenOf[q])' => Sound(GenOf[q]))
    BY <1>3, <1>6, <1>21 DEF Good, Sound
<1>24. Candidate'
  <2>1. pub.at \in {"build", "install"} => pub.rec.by \in pub.states
      BY DEF TInv, Candidate
  <2> QED BY <1>0, <1>21, <1>23, <2>1 DEF TInv, Candidate, Selecting
<1>25. Flushed'
  <2>1. CASE pub.at \in Flushing
    <3>1. PICK by \in Req : by = pub.rec.by /\ req[by].phase = "gone"
        BY <2>1, FlushFacts
    <3>2. Admitted(by) /\ req'[by] = req[by] /\ TailBlock(by) \in HeadOf(by)
        BY <1>1, <3>1, HeadParts DEF Admitted
    <3> QED BY <1>0, <1>3, <2>1, <3>1, <3>2, FlushedFrame DEF Sound
  <2> QED BY <1>0, <2>1 DEF Flushed
<1> QED BY <1>0, <1>7, <1>8, <1>9, <1>10, <1>11, <1>12, <1>13, <1>16, <1>17, <1>18, <1>19, <1>20,
           <1>22, <1>24, <1>25 DEF TInv

\* A generation that is activated has had no requests; its predecessor's are of
\* a retired one from now on.
LEMMA ActivateFacts ==
    ASSUME TInv, NEW g \in Gen, g \notin manifest[GenChat[g]].retired, Activate(g)
    PROVE  /\ manifest' \in [Chat -> ManifestType]
           /\ \A c \in Chat : ChatKeptOrRetired(c)
           /\ \A c \in Chat : /\ manifest'[c].gen # None => GenChat[manifest'[c].gen] = c
                              /\ manifest'[c].gen \notin manifest'[c].retired
                              /\ c # GenChat[g] => manifest'[c] = manifest[c]
           /\ manifest'[GenChat[g]].gen = g
<1> DEFINE c == GenChat[g]
           old == manifest[c]
           new == [gen |-> g, by |-> 0, retired |-> old.retired \cup ({old.gen} \ {None})]
<1>1. c \in Chat /\ g # None /\ manifest \in [Chat -> ManifestType] /\ old \in ManifestType
    BY Constants DEF TInv, Types
<1>2. CASE Current(g)
  <2>1. manifest' = manifest /\ disk' = disk
      BY <1>2 DEF Activate, store
  <2> QED BY <1>1, <1>2, <2>1 DEF ChatKeptOrRetired, Current, TInv, OwnGeneration
<1>3. CASE ~Current(g)
  <2>1. manifest' = [manifest EXCEPT ![c] = new] /\ disk' = {b \in disk : BlockChat(b) # c}
      BY <1>3 DEF Activate
  <2>2. new \in ManifestType /\ new.gen = g /\ new.by = 0 /\ new.retired = old.retired \cup ({old.gen} \ {None})
      BY <1>1 DEF ManifestType
  <2> HIDE DEF new
  <2>3. /\ manifest' \in [Chat -> ManifestType] /\ manifest'[c] = new
        /\ \A d \in Chat : d # c => manifest'[d] = manifest[d]
      BY <1>1, <2>1, <2>2
  <2>4. g \notin new.retired
      BY <1>3, <2>2 DEF Current
  <2>5. \A d \in Chat : d # c => ChatKeptOrRetired(d)
      BY <2>1, <2>3 DEF ChatKeptOrRetired
  <2>6. ASSUME NEW r \in Req, Admitted(r), ChatOf(r) = c
        PROVE  new.gen # GenOf[r] /\ GenOf[r] \in new.retired
    <3>1. GenOf[r] \in Gen /\ GenOf[r] # None /\ GenChat[GenOf[r]] = c
        BY <2>6, Constants
    <3>2. CASE Current(GenOf[r])
      <4>1. old.gen = GenOf[r]
          BY <3>1, <3>2 DEF Current
      <4> QED BY <1>3, <2>2, <3>1, <3>2, <4>1
    <3>3. CASE ~Current(GenOf[r])
        BY <2>2, <2>6, <3>3 DEF TInv, Activated
    <3> QED BY <3>2, <3>3
  <2>7. ChatKeptOrRetired(c)
      BY <2>2, <2>3, <2>6 DEF ChatKeptOrRetired
  <2>8. \A d \in Chat : d # c => /\ manifest'[d].gen # None => GenChat[manifest'[d].gen] = d
                                 /\ manifest'[d].gen \notin manifest'[d].retired
      BY <2>3 DEF TInv, OwnGeneration
  <2> QED BY <2>2, <2>3, <2>4, <2>5, <2>7, <2>8
<1> QED BY <1>2, <1>3

\* The command line compacts a chat.
LEMMA CompactKeeps ==
    ASSUME TInv, NEW g \in Gen, Compact(g)
    PROVE  TInv' /\ ArrivalEffect
<1>1. /\ g \notin manifest[GenChat[g]].retired /\ Activate(g)
      /\ UNCHANGED <<stores, req, tails, pub, control, impaired>>
    BY DEF Compact
<1>2. Types' /\ OwnGeneration' /\ \A c \in Chat : ChatKeptOrRetired(c)
    BY <1>1, ActivateFacts DEF TInv, Types, OwnGeneration
<1>3. ArrivalEffect
    BY <1>1, <1>2 DEF ArrivalEffect, SameOrArrives, SameOrDropped
<1> QED BY <1>3, ArrivalKeeps

\* Only the phase of an arriving request changes.
LEMMA PhaseEffect ==
    ASSUME Types, NEW r \in Req, NEW p \in Phases, req' = [req EXCEPT ![r].phase = p]
    PROVE  /\ req' \in [Req -> RequestType]
           /\ \A q \in Req : q # r => req'[q] = req[q]
           /\ req'[r].phase = p /\ req'[r].jobs = req[r].jobs
           /\ (req'[r].collectOnly <=> req[r].collectOnly)
<1>1. req \in [Req -> RequestType] /\ req[r] \in RequestType
    BY DEF Types
<1>2. [req[r] EXCEPT !.phase = p] \in RequestType
    BY <1>1 DEF RequestType
<1>3. req' \in [Req -> RequestType] /\ \A q \in Req : q # r => req'[q] = req[q]
    BY <1>1, <1>2
<1>4. req'[r].phase = p /\ req'[r].collectOnly = req[r].collectOnly /\ req'[r].jobs = req[r].jobs
    BY <1>1 DEF RequestType
<1> QED BY <1>3, <1>4

\* on_new_request for a generation the engine has no store for.
LEMMA NewGenerationKeeps ==
    ASSUME TInv, NEW r \in Req, NewGeneration(r)
    PROVE  TInv' /\ ArrivalEffect
<1> DEFINE c == ChatOf(r)
           g == GenOf[r]
<1>1. /\ Arrives(r) /\ stores[c] # g /\ g \notin manifest[c].retired /\ Activate(g)
      /\ stores' = [stores EXCEPT ![c] = g]
      /\ tails' = [h \in Gen |-> IF RecordOf(c, h) THEN NoRecord ELSE tails[h]]
      /\ req' = [req EXCEPT ![r].phase = "running"]
      /\ UNCHANGED <<pub, control, impaired>>
    BY DEF NewGeneration, Admit
<1>2. c \in Chat /\ g \in Gen /\ GenChat[g] = c /\ Types /\ g # None
    BY Constants DEF TInv
<1>3. /\ req' \in [Req -> RequestType]
      /\ \A q \in Req : q # r => req'[q] = req[q]
      /\ req'[r].phase = "running" /\ req'[r].jobs = req[r].jobs
      /\ (req'[r].collectOnly <=> req[r].collectOnly)
    BY <1>1, <1>2, PhaseEffect DEF Phases
<1>4. /\ manifest' \in [Chat -> ManifestType] /\ \A d \in Chat : ChatKeptOrRetired(d)
      /\ \A d \in Chat : /\ manifest'[d].gen # None => GenChat[manifest'[d].gen] = d
                         /\ manifest'[d].gen \notin manifest'[d].retired
                         /\ d # c => manifest'[d] = manifest[d]
      /\ manifest'[c].gen = g
    BY <1>1, <1>2, ActivateFacts
<1>5. stores' \in [Chat -> Gen \cup {None}] /\ stores'[c] = g /\ \A d \in Chat : d # c => stores'[d] = stores[d]
    BY <1>1, <1>2 DEF Types
<1>6. tails' \in [Gen -> RecordType]
    BY <1>1, <1>2, NoRecordType DEF Types
<1>7. Types' /\ OwnGeneration'
    BY <1>1, <1>2, <1>3, <1>4, <1>5, <1>6 DEF Types, OwnGeneration, TInv
<1>8. \A q \in Req : SameOrArrives(q)
  <2>1. req[r].phase = "new" /\ ~req[r].collectOnly /\ req[r].jobs = {}
      BY <1>1 DEF Arrives, TInv, Quieted
  <2> QED BY <1>1, <1>3, <1>4, <1>5, <2>1 DEF SameOrArrives
\* No request of this generation has been admitted: the engine had no store for it.
<1>9. \A q \in Req : Admitted(q) /\ ChatOf(q) = c => ~Current(GenOf[q])'
  <2> SUFFICES ASSUME NEW q \in Req, Admitted(q), ChatOf(q) = c, Current(GenOf[q])' PROVE FALSE
      OBVIOUS
  <2>1. GenOf[q] = g
      BY <1>4, Constants DEF Current
  <2> QED BY <1>1, <2>1 DEF TInv, Activated
<1>10. \A h \in Gen : SameOrDropped(h)
  <2> TAKE h \in Gen
  <2>1. CASE GenChat[h] # c
      BY <1>1, <2>1 DEF SameOrDropped, RecordOf
  <2>2. CASE GenChat[h] = c
    <3>1. \A q \in Req : Admitted(q) /\ GenOf[q] = h => ~Current(h)'
        BY <1>9, <2>2 DEF ChatOf
    <3> QED BY <1>1, <3>1 DEF SameOrDropped
  <2> QED BY <2>1, <2>2
<1>11. \A q \in Req : Admitted(q) /\ Current(GenOf[q])' => stores'[ChatOf(q)] = stores[ChatOf(q)]
    BY <1>5, <1>9, Constants
<1>12. ArrivalEffect
    BY <1>1, <1>4, <1>7, <1>8, <1>10, <1>11 DEF ArrivalEffect
<1> QED BY <1>12, ArrivalKeeps

\* on_new_request for the store's own generation, and for a retired one.
LEMMA NewTurnKeeps ==
    ASSUME TInv, NEW r \in Req, NewTurn(r) \/ Bypass(r)
    PROVE  TInv' /\ ArrivalEffect
<1>1. PICK p \in {"running", "bypass"} :
        /\ Arrives(r) /\ req' = [req EXCEPT ![r].phase = p]
        /\ p = "running" => stores[ChatOf(r)] = GenOf[r] /\ Current(GenOf[r])
        /\ UNCHANGED <<manifest, disk, stores, tails, pub, control, impaired>>
    BY DEF NewTurn, Bypass, Admit, store
<1>2. /\ req' \in [Req -> RequestType]
      /\ \A q \in Req : q # r => req'[q] = req[q]
      /\ req'[r].phase = p /\ req'[r].jobs = req[r].jobs
      /\ (req'[r].collectOnly <=> req[r].collectOnly)
    BY <1>1, PhaseEffect DEF Phases, TInv
<1>3. Types' /\ OwnGeneration'
    BY <1>1, <1>2 DEF TInv, Types, OwnGeneration
<1>4. req[r].phase = "new" /\ ~req[r].collectOnly /\ req[r].jobs = {}
    BY <1>1 DEF Arrives, TInv, Quieted
<1>5. \A q \in Req : SameOrArrives(q)
    BY <1>1, <1>2, <1>4, Constants DEF SameOrArrives, Current
<1>6. ArrivalEffect
    BY <1>1, <1>3, <1>5 DEF ArrivalEffect, ChatKeptOrRetired, SameOrDropped
<1> QED BY <1>6, ArrivalKeeps

-----------------------------------------------------------------------------
(***************************************************************************)
(* A request ends, and the pool works for it.                              *)
(***************************************************************************)
\* One live request goes on; blocks are added, a generation may be impaired.
ProgressEffect(r) ==
    /\ UNCHANGED <<manifest, stores, tails, pub, control>>
    /\ impaired \subseteq impaired' /\ impaired' \subseteq Gen /\ disk \subseteq disk'
    /\ req' \in [Req -> RequestType] /\ \A q \in Req : q # r => req'[q] = req[q]
    /\ req[r].phase = "running" \/ req[r].jobs # {}
    /\ req'[r].phase = "finished" /\ (req'[r].collectOnly <=> req[r].collectOnly)
    /\ req'[r].head /\ ~req'[r].failed /\ Sound(GenOf[r])' =>
         /\ "prefix" \notin req'[r].jobs => PrefixBlocks(r) \subseteq disk'
         /\ "tail" \notin req'[r].jobs => req'[r].ram

\* A request ends and the pool works for it: its jobs change and blocks are added.
LEMMA ProgressKeeps ==
    ASSUME TInv, NEW r \in Req, ProgressEffect(r)
    PROVE  TInv'
<1>1. /\ UNCHANGED <<manifest, stores, tails, pub, control>>
      /\ impaired \subseteq impaired' /\ impaired' \subseteq Gen /\ disk \subseteq disk'
      /\ req' \in [Req -> RequestType] /\ \A q \in Req : q # r => req'[q] = req[q]
      /\ req'[r].phase = "finished" /\ r \in Nat /\ r <= r
    BY Constants DEF ProgressEffect
<1>2. /\ req[r].phase \in {"running", "finished"} /\ ~req[r].collectOnly /\ ~req'[r].collectOnly
      /\ ~(req[r].phase = "finished" /\ req[r].jobs = {})
  <2>1. req[r].phase \in {"running", "finished"}
      BY DEF ProgressEffect, TInv, Quieted
  <2>2. ~(req[r].phase = "finished" /\ req[r].jobs = {})
      BY DEF ProgressEffect
  <2>3. ~req[r].collectOnly
      BY <1>1, <2>1, <2>2 DEF TInv, CollectOnly, Quieted, Live
  <2> QED BY <2>1, <2>2, <2>3 DEF ProgressEffect
<1>3. /\ \A q \in Req : (Live(q)' <=> Live(q)) /\ (Admitted(q)' <=> Admitted(q))
      /\ \A q \in Req : q # r => (Good(q)' <=> Good(q))
      /\ \A q \in Req : req'[q].phase \in {"new", "gone"} <=> req[q].phase \in {"new", "gone"}
      /\ \A q \in Req : req[q].phase \in {"new", "gone"} => req'[q] = req[q]
      /\ \A q \in Req : req'[q].phase \in {"new", "gone"} => req'[q] = req[q]
    BY <1>1, <1>2 DEF Live, Admitted, Good
<1>4. /\ \A g \in Gen : (Current(g)' <=> Current(g)) /\ (Sound(g)' => Sound(g))
      /\ Records' = Records /\ Records \subseteq Gen
    BY <1>1 DEF Current, Sound, Records
<1>5. Types' /\ OwnGeneration'
    BY <1>1 DEF TInv, Types, OwnGeneration
<1>6. Arrival' /\ Departure' /\ Quieted'
    BY <1>1, <1>2, <1>3 DEF TInv, Arrival, Departure, Quieted
<1>7. Activated' /\ Succession'
    BY <1>1, <1>3, <1>4, Constants DEF TInv, Activated, Succession
<1>8. Heads' /\ HeadOnDisk'
  <2>1. \A c \in Chat : manifest[c].by # 0 => manifest[c].by \in Req
      BY DEF TInv, Types, ManifestType
  <2> QED BY <1>1, <1>3, <2>1 DEF TInv, Heads, HeadOnDisk
<1>9. \A g \in Records : /\ tails[g].by \in Req /\ req[tails[g].by].phase = "gone"
                         /\ tails[g].by # r /\ req'[tails[g].by] = req[tails[g].by]
    BY <1>1, <1>2, <1>4 DEF TInv, RecordsGood, Types, RecordType
<1>10. RecordsGood'
  <2> SUFFICES ASSUME NEW g \in Gen, g \in Records
               PROVE  /\ tails[g].by # 0 /\ GenOf[tails[g].by] = g /\ req'[tails[g].by].phase = "gone"
                      /\ req'[tails[g].by].head /\ ~req'[tails[g].by].failed
                      /\ Current(g) => manifest[GenChat[g]].by <= tails[g].by
      BY <1>1, <1>4 DEF RecordsGood, Good
  <2> QED BY <1>9 DEF TInv, RecordsGood, Good
<1>11. RequestHeld'
  <2> SUFFICES ASSUME NEW q \in Req, req'[q].phase = "finished", Good(q)', Sound(GenOf[q])'
               PROVE  /\ "prefix" \notin req'[q].jobs => PrefixBlocks(q) \subseteq disk'
                      /\ "tail" \notin req'[q].jobs => req'[q].ram
      BY DEF RequestHeld
  <2>1. CASE q = r
      BY <2>1 DEF ProgressEffect, Good
  <2>2. CASE q # r
    <3>1. req'[q] = req[q] /\ Good(q) /\ Sound(GenOf[q])
        BY <1>1, <1>3, <1>4, <2>2, Constants
    <3> QED BY <1>1, <3>1 DEF TInv, RequestHeld
  <2> QED BY <2>1, <2>2
<1>12. RecordHeld'
    BY <1>1, <1>4 DEF TInv, RecordHeld
<1>13. CollectOnly'
  <2> SUFFICES ASSUME NEW n \in Req, req'[n].phase = "finished", req'[n].collectOnly
               PROVE  /\ \A q \in Req : Live(q)' /\ ChatOf(q) = ChatOf(n) /\ q <= n =>
                           /\ req'[q].phase = "finished" /\ req'[q].jobs = {}
                           /\ Good(q)' => ~Sound(GenOf[q])'
                      /\ \A g \in Records : GenChat[g] = ChatOf(n) => ~Sound(g)'
      BY <1>4 DEF CollectOnly
  <2>1. n # r /\ req'[n] = req[n]
      BY <1>1, <1>2
  <2>2. ASSUME NEW q \in Req, Live(q)', ChatOf(q) = ChatOf(n), q <= n
        PROVE  /\ req'[q].phase = "finished" /\ req'[q].jobs = {}
               /\ Good(q)' => ~Sound(GenOf[q])'
    <3>1. req[q].phase = "finished" /\ req[q].jobs = {} /\ (Good(q) => ~Sound(GenOf[q]))
        BY <1>3, <2>1, <2>2 DEF TInv, CollectOnly
    <3>2. q # r
        BY <1>2, <3>1
    <3> QED BY <1>1, <1>3, <1>4, <3>1, <3>2, Constants
  <2> QED BY <1>4, <2>1, <2>2 DEF TInv, CollectOnly
<1>14. Settled'
  <2> SUFFICES ASSUME NEW q \in Req, req'[q].phase = "gone", Good(q)', Sound(GenOf[q])'
               PROVE  q <= manifest[ChatOf(q)].by \/ q <= tails[GenOf[q]].by
      BY <1>1 DEF Settled
  <2>1. q # r /\ req[q].phase = "gone" /\ Good(q) /\ Sound(GenOf[q])
      BY <1>1, <1>3, <1>4, Constants
  <2> QED BY <2>1 DEF TInv, Settled
<1>15. pub.at \in Selecting =>
         \A q \in pub.states : /\ q \in Req /\ q # r /\ req'[q] = req[q]
                               /\ GenOf[q] \in Gen /\ (Good(q)' <=> Good(q))
  <2>1. pub.at \in Selecting =>
          \A q \in pub.states : q \in Req /\ req[q].phase = "finished" /\ req[q].jobs = {}
      BY DEF TInv, SelectedStill, Types, PubType
  <2> QED BY <1>1, <1>2, <1>3, <2>1, Constants
<1>16. SelectedStill'
    BY <1>1, <1>3, <1>15 DEF TInv, SelectedStill
<1>17. Candidate'
  <2>1. pub.at \in {"build", "install"} => pub.rec.by \in pub.states
      BY DEF TInv, Candidate
  <2> QED BY <1>1, <1>4, <1>15, <2>1 DEF TInv, Candidate, Selecting
<1>18. Flushed'
  <2>1. CASE pub.at \in Flushing
    <3>1. PICK by \in Req : by = pub.rec.by /\ req[by].phase = "gone" /\ GenOf[by] \in Gen
        BY <2>1, FlushFacts, Constants
    <3> QED BY <1>1, <1>3, <1>4, <2>1, <3>1, FlushedFrame
  <2> QED BY <1>1, <2>1 DEF Flushed
<1> QED BY <1>5, <1>6, <1>7, <1>8, <1>10, <1>11, <1>12, <1>13, <1>14, <1>16, <1>17, <1>18 DEF TInv

\* What ending does to the record of a request.
LEMMA EndEffect ==
    ASSUME Types, NEW r \in Req, NEW head \in BOOLEAN, NEW jobs \in SUBSET {"prefix", "tail"},
           \/ req' = [req EXCEPT ![r].phase = "finished", ![r].head = head, ![r].jobs = jobs]
           \/ req' = [req EXCEPT ![r].phase = "finished", ![r].head = head, ![r].failed = head,
                                 ![r].jobs = jobs]
    PROVE  /\ req' \in [Req -> RequestType] /\ \A q \in Req : q # r => req'[q] = req[q]
           /\ req'[r].phase = "finished" /\ req'[r].collectOnly = req[r].collectOnly
           /\ req'[r].jobs = jobs /\ req'[r].head = head
<1>1. req \in [Req -> RequestType] /\ req[r] \in RequestType
    BY DEF Types
<1>2. CASE req' = [req EXCEPT ![r].phase = "finished", ![r].head = head, ![r].jobs = jobs]
  <2>1. PICK v : v = [req[r] EXCEPT !.phase = "finished", !.head = head, !.jobs = jobs]
      OBVIOUS
  <2>2. /\ v \in RequestType /\ v.phase = "finished" /\ v.collectOnly = req[r].collectOnly
        /\ v.jobs = jobs /\ v.head = head
      BY <1>1, <2>1 DEF RequestType, Phases
  <2>3. req' = [req EXCEPT ![r] = v]
      BY <1>1, <1>2, <2>1
  <2> QED BY <1>1, <2>2, <2>3
<1>3. CASE req' = [req EXCEPT ![r].phase = "finished", ![r].head = head, ![r].failed = head,
                              ![r].jobs = jobs]
  <2>1. PICK v : v = [req[r] EXCEPT !.phase = "finished", !.head = head, !.failed = head, !.jobs = jobs]
      OBVIOUS
  <2>2. /\ v \in RequestType /\ v.phase = "finished" /\ v.collectOnly = req[r].collectOnly
        /\ v.jobs = jobs /\ v.head = head
      BY <1>1, <2>1 DEF RequestType, Phases
  <2>3. req' = [req EXCEPT ![r] = v]
      BY <1>1, <1>3, <2>1
  <2> QED BY <1>1, <2>2, <2>3
<1> QED BY <1>2, <1>3

\* set_snapshot_head, submit_store and on_request_finished; nothing is stored yet.
LEMMA FinishKeeps ==
    ASSUME TInv, NEW r \in Req, Finish(r)
    PROVE  TInv' /\ ProgressEffect(r)
<1>1. /\ req[r].phase = "running"
      /\ UNCHANGED <<manifest, disk, stores, tails, pub, control, impaired>>
      /\ impaired \subseteq Gen
    BY DEF Finish, store, TInv, Types
<1>2. /\ req' \in [Req -> RequestType] /\ \A q \in Req : q # r => req'[q] = req[q]
      /\ req'[r].phase = "finished" /\ req'[r].collectOnly = req[r].collectOnly
      /\ req'[r].jobs = {"prefix", "tail"}
  <2>1. PICK head \in BOOLEAN : head = TRUE
      OBVIOUS
  <2>2. PICK jobs \in SUBSET {"prefix", "tail"} : jobs = {"prefix", "tail"}
      OBVIOUS
  <2>3. req' = [req EXCEPT ![r].phase = "finished", ![r].head = head, ![r].jobs = jobs]
      BY <2>1, <2>2 DEF Finish
  <2> QED BY <2>2, <2>3, EndEffect DEF TInv
<1>3. ProgressEffect(r)
    BY <1>1, <1>2 DEF ProgressEffect
<1> QED BY <1>3, ProgressKeeps

\* A cancelled request has no head, or a failed one.
LEMMA CancelKeeps ==
    ASSUME TInv, NEW r \in Req, Cancel(r)
    PROVE  TInv' /\ ProgressEffect(r)
<1>1. /\ req[r].phase = "running"
      /\ UNCHANGED <<manifest, disk, stores, tails, pub, control, impaired>>
      /\ impaired \subseteq Gen
    BY DEF Cancel, store, TInv, Types
<1>2. PICK head \in BOOLEAN, jobs \in SUBSET {"prefix", "tail"} :
        /\ jobs = {"prefix"}
        /\ req' = [req EXCEPT ![r].phase = "finished", ![r].head = head, ![r].failed = head,
                              ![r].jobs = jobs]
    BY DEF Cancel
<1>3. /\ req' \in [Req -> RequestType] /\ \A q \in Req : q # r => req'[q] = req[q]
      /\ req'[r].phase = "finished" /\ req'[r].collectOnly = req[r].collectOnly
      /\ req'[r].head = head
    BY <1>2, EndEffect DEF TInv
<1>4. req'[r].failed = head
    BY <1>2 DEF TInv, Types, RequestType
<1>5. ProgressEffect(r)
    BY <1>1, <1>3, <1>4 DEF ProgressEffect
<1> QED BY <1>5, ProgressKeeps

\* A block that is never stored impairs the generation.
LEMMA FinishUnstoredKeeps ==
    ASSUME TInv, NEW r \in Req, NEW job \in {"prefix", "tail"}, FinishUnstored(r, job)
    PROVE  TInv' /\ ProgressEffect(r)
<1>1. /\ req[r].phase = "running" /\ impaired' = impaired \cup {GenOf[r]}
      /\ UNCHANGED <<manifest, disk, stores, tails, pub, control>>
      /\ impaired' \subseteq Gen
    BY Constants DEF FinishUnstored, store, TInv, Types
<1>2. /\ req' \in [Req -> RequestType] /\ \A q \in Req : q # r => req'[q] = req[q]
      /\ req'[r].phase = "finished" /\ req'[r].collectOnly = req[r].collectOnly
  <2>1. PICK head \in BOOLEAN : head = TRUE
      OBVIOUS
  <2>2. PICK jobs \in SUBSET {"prefix", "tail"} : jobs = {job}
      OBVIOUS
  <2>3. req' = [req EXCEPT ![r].phase = "finished", ![r].head = head, ![r].jobs = jobs]
      BY <2>1, <2>2 DEF FinishUnstored
  <2> QED BY <2>3, EndEffect DEF TInv
<1>3. ~Sound(GenOf[r])'
    BY <1>1 DEF Sound
<1>4. ProgressEffect(r)
    BY <1>1, <1>2, <1>3 DEF ProgressEffect
<1> QED BY <1>4, ProgressKeeps

\* What the end of a job does to the record of its request.
LEMMA DoneEffect ==
    ASSUME TInv, NEW r \in Req, NEW job \in req[r].jobs, NEW success \in BOOLEAN, Done(r, job, success)
    PROVE  /\ req' \in [Req -> RequestType] /\ \A q \in Req : q # r => req'[q] = req[q]
           /\ req[r].jobs # {} /\ req[r].phase = "finished"
           /\ req'[r].phase = "finished" /\ req'[r].collectOnly = req[r].collectOnly
           /\ req'[r].jobs = req[r].jobs \ {job} /\ req'[r].head = req[r].head
           /\ req'[r].failed <=> req[r].failed \/ ~success
           /\ req'[r].ram <=> req[r].ram \/ job = "tail"
<1>1. req \in [Req -> RequestType] /\ req[r] \in RequestType /\ req[r].phase = "finished"
    BY DEF TInv, Types, Quieted
<1>2. PICK failed \in BOOLEAN, ram \in BOOLEAN :
        (failed <=> req[r].failed \/ ~success) /\ (ram <=> req[r].ram \/ job = "tail")
    OBVIOUS
<1>3. failed = (req[r].failed \/ ~success) /\ ram = (req[r].ram \/ job = "tail")
    BY <1>2
<1>4. PICK v : v = [phase |-> "finished", head |-> req[r].head, failed |-> failed,
                    jobs |-> req[r].jobs \ {job}, ram |-> ram, collectOnly |-> req[r].collectOnly]
    OBVIOUS
<1>5. /\ v \in RequestType /\ v.phase = "finished" /\ v.collectOnly = req[r].collectOnly
      /\ v.jobs = req[r].jobs \ {job} /\ v.head = req[r].head /\ v.failed = failed /\ v.ram = ram
    BY <1>1, <1>2, <1>4 DEF RequestType, Phases
<1>6. /\ req'[r] = [phase |-> req[r].phase, head |-> req[r].head, failed |-> req[r].failed \/ ~success,
                    jobs |-> req[r].jobs \ {job}, ram |-> req[r].ram \/ job = "tail",
                    collectOnly |-> req[r].collectOnly]
      /\ \A q \in Req : q # r => req'[q] = req[q]
      /\ req' = [q \in Req |-> req'[q]]
    BY <1>1 DEF Done, RequestType
<1>7. req'[r] = v
    BY <1>1, <1>3, <1>4, <1>6
<1>8. req' \in [Req -> RequestType]
  <2>1. \A q \in Req : req'[q] \in RequestType
      BY <1>1, <1>5, <1>6, <1>7
  <2> QED BY <1>6, <2>1
<1> QED BY <1>1, <1>2, <1>5, <1>6, <1>7, <1>8

\* _store, for the tail and for the prefix.
LEMMA CopyTailKeeps ==
    ASSUME TInv, NEW r \in Req, CopyTail(r)
    PROVE  TInv' /\ ProgressEffect(r)
<1>1. /\ "tail" \in req[r].jobs /\ impaired \subseteq Gen
      /\ UNCHANGED <<manifest, disk, stores, tails, pub, control, impaired>>
    BY DEF CopyTail, store, TInv, Types
<1>2. PICK job \in req[r].jobs, success \in BOOLEAN : job = "tail" /\ success /\ Done(r, job, success)
    BY <1>1 DEF CopyTail
<1>3. /\ req' \in [Req -> RequestType] /\ \A q \in Req : q # r => req'[q] = req[q]
      /\ req[r].jobs # {} /\ req[r].phase = "finished"
      /\ req'[r].phase = "finished" /\ req'[r].collectOnly = req[r].collectOnly
      /\ req'[r].jobs = req[r].jobs \ {job} /\ req'[r].head = req[r].head
      /\ req'[r].failed <=> req[r].failed \/ ~success
      /\ req'[r].ram <=> req[r].ram \/ job = "tail"
    BY <1>2, DoneEffect
<1>4. req'[r].ram /\ (req'[r].failed <=> req[r].failed)
      /\ ("prefix" \notin req'[r].jobs => "prefix" \notin req[r].jobs)
    BY <1>2, <1>3
<1>5. Sound(GenOf[r])' <=> Sound(GenOf[r])
    BY <1>1 DEF Sound, Current
<1>6. req'[r].head /\ ~req'[r].failed /\ Sound(GenOf[r])' =>
         ("prefix" \notin req'[r].jobs => PrefixBlocks(r) \subseteq disk')
    BY <1>1, <1>3, <1>4, <1>5 DEF TInv, RequestHeld, Good
<1>7. ProgressEffect(r)
    BY <1>1, <1>3, <1>4, <1>6 DEF ProgressEffect
<1> QED BY <1>7, ProgressKeeps

\* A store job of the pool ends, written or failed.
LEMMA WritePrefixKeeps ==
    ASSUME TInv, NEW r \in Req, WritePrefix(r) \/ WritePrefixFails(r)
    PROVE  TInv' /\ ProgressEffect(r)
<1>1. /\ "prefix" \in req[r].jobs /\ impaired \subseteq Gen /\ disk \subseteq disk'
      /\ UNCHANGED <<manifest, stores, tails, pub, control, impaired>>
    BY DEF WritePrefix, WritePrefixFails, TInv, Types
<1>2. PICK job \in req[r].jobs, success \in BOOLEAN :
        /\ job = "prefix" /\ Done(r, job, success)
        /\ success => PrefixBlocks(r) \subseteq disk'
  <2>1. CASE WritePrefix(r)
    <3>1. Current(GenOf[r]) \in BOOLEAN
        BY DEF Current
    <3> QED BY <1>1, <2>1, <3>1 DEF WritePrefix
  <2>2. CASE WritePrefixFails(r)
      BY <1>1, <2>2 DEF WritePrefixFails
  <2> QED BY <2>1, <2>2
<1>3. /\ req' \in [Req -> RequestType] /\ \A q \in Req : q # r => req'[q] = req[q]
      /\ req[r].jobs # {} /\ req[r].phase = "finished"
      /\ req'[r].phase = "finished" /\ req'[r].collectOnly = req[r].collectOnly
      /\ req'[r].jobs = req[r].jobs \ {job} /\ req'[r].head = req[r].head
      /\ req'[r].failed <=> req[r].failed \/ ~success
      /\ req'[r].ram <=> req[r].ram \/ job = "tail"
    BY <1>2, DoneEffect
<1>4. /\ ~req'[r].failed => ~req[r].failed /\ PrefixBlocks(r) \subseteq disk'
      /\ req'[r].ram <=> req[r].ram
      /\ "tail" \notin req'[r].jobs => "tail" \notin req[r].jobs
    BY <1>2, <1>3
<1>5. Sound(GenOf[r])' <=> Sound(GenOf[r])
    BY <1>1 DEF Sound, Current
<1>6. req'[r].head /\ ~req'[r].failed /\ Sound(GenOf[r])' =>
         ("tail" \notin req'[r].jobs => req'[r].ram)
    BY <1>1, <1>3, <1>4, <1>5 DEF TInv, RequestHeld, Good
<1>7. ProgressEffect(r)
    BY <1>1, <1>3, <1>4, <1>6 DEF ProgressEffect
<1> QED BY <1>7, ProgressKeeps

-----------------------------------------------------------------------------
(***************************************************************************)
(* The requests that were selected leave the tier.                         *)
(***************************************************************************)
\* All of the chat the publisher is at.
AllLeave == \A r \in Req : Live(r) /\ ChatOf(r) = PubChat => r \in pub.states

\* The selected requests, and the chat they are of.
LEMMA SelectedFacts ==
    ASSUME TInv, pub.at \in Selecting
    PROVE  /\ pub.states \in SUBSET Req /\ pub.states # {}
           /\ Newest(pub.states) \in pub.states /\ \A q \in pub.states : q <= Newest(pub.states)
           /\ PubChat \in Chat
           /\ \A q \in pub.states : /\ q \in Req /\ ChatOf(q) = PubChat /\ GenOf[q] \in Gen
                                    /\ GenChat[GenOf[q]] = PubChat
                                    /\ req[q].phase = "finished" /\ req[q].jobs = {} /\ Live(q)
           /\ States(PubChat) = pub.states => AllLeave
<1>1. pub.states \in SUBSET Req /\ pub.states # {}
    BY DEF TInv, Types, PubType, SelectedStill
<1>2. Newest(pub.states) \in pub.states /\ \A q \in pub.states : q <= Newest(pub.states)
    BY <1>1, NewestIn
<1>3. PubChat = ChatOf(Newest(pub.states)) /\ PubChat \in Chat
    BY <1>1, <1>2, Constants DEF PubChat
<1>4. \A q \in pub.states : /\ q \in Req /\ ChatOf(q) = PubChat
                            /\ req[q].phase = "finished" /\ req[q].jobs = {} /\ Live(q)
    BY <1>1, <1>2, <1>3 DEF TInv, SelectedStill, Live
<1>5. States(PubChat) = pub.states => AllLeave
    BY DEF AllLeave, States, Live
<1> QED BY <1>1, <1>2, <1>3, <1>4, <1>5, Constants

\* What it changes that the publisher forgets the requests it has dealt with:
\* they are gone without jobs, and nothing else of any request changes.
LEMMA LeaveFacts ==
    ASSUME TInv, pub.at \in Selecting, Leave(pub.states)
    PROVE  /\ req' \in [Req -> RequestType]
           /\ \A r \in Req : r \notin pub.states => req'[r] = req[r]
           /\ \A r \in pub.states : /\ req'[r].phase = "gone" /\ req'[r].jobs = {}
           /\ \A r \in Req : /\ Live(r)' <=> Live(r) /\ r \notin pub.states
                             /\ Admitted(r)' <=> Admitted(r)
                             /\ Good(r)' <=> Good(r)
                             /\ req'[r].collectOnly = req[r].collectOnly
           /\ \A r \in Req : req[r].phase \in {"new", "gone"} => req'[r] = req[r] /\ r \notin pub.states
           /\ \A r \in Req : req'[r].phase \in {"new", "finished"} => req'[r] = req[r] /\ r \notin pub.states
           /\ Arrival' /\ Departure' /\ Quieted'
<1>1. req \in [Req -> RequestType] /\ pub.states \subseteq Req
    BY SelectedFacts DEF TInv, Types
<1>2. \A r \in Req : r \in pub.states => req[r].phase = "finished" /\ req[r].jobs = {}
    BY SelectedFacts
<1>3. req' = [r \in Req |-> IF r \in pub.states THEN [req[r] EXCEPT !.phase = "gone"] ELSE req[r]]
    BY DEF Leave
<1>4. \A r \in Req : /\ [req[r] EXCEPT !.phase = "gone"] \in RequestType
                     /\ [req[r] EXCEPT !.phase = "gone"].phase = "gone"
                     /\ [req[r] EXCEPT !.phase = "gone"].jobs = req[r].jobs
                     /\ [req[r] EXCEPT !.phase = "gone"].head = req[r].head
                     /\ [req[r] EXCEPT !.phase = "gone"].failed = req[r].failed
                     /\ [req[r] EXCEPT !.phase = "gone"].collectOnly = req[r].collectOnly
    BY <1>1 DEF RequestType, Phases
<1>5. /\ req' \in [Req -> RequestType]
      /\ \A r \in Req : r \notin pub.states => req'[r] = req[r]
      /\ \A r \in Req : r \in pub.states => /\ req'[r].phase = "gone" /\ req'[r].jobs = {}
      /\ \A r \in Req : /\ req'[r].head = req[r].head /\ req'[r].failed = req[r].failed
                        /\ req'[r].collectOnly = req[r].collectOnly
    BY <1>1, <1>2, <1>3, <1>4
<1>6. \A r \in Req : /\ Live(r)' <=> Live(r) /\ r \notin pub.states
                     /\ Admitted(r)' <=> Admitted(r)
                     /\ Good(r)' <=> Good(r)
  <2>1. \A r \in Req : Good(r)' <=> Good(r)
      BY <1>5 DEF Good
  <2>2. \A r \in Req : /\ Live(r)' <=> Live(r) /\ r \notin pub.states
                       /\ Admitted(r)' <=> Admitted(r)
      BY <1>2, <1>5 DEF Live, Admitted
  <2> QED BY <2>1, <2>2
<1>7. \A r \in Req : req[r].phase \in {"new", "gone"} => req'[r] = req[r] /\ r \notin pub.states
    BY <1>2, <1>5
<1>8. \A r \in Req : req'[r].phase \in {"new", "finished"} => req'[r] = req[r] /\ r \notin pub.states
    BY <1>5
<1>9. Arrival'
    BY <1>7, <1>8 DEF TInv, Arrival
<1>10. Quieted'
    BY <1>5 DEF TInv, Quieted
<1>11. Departure'
  <2> SUFFICES ASSUME NEW q \in Req, NEW r \in Req, ChatOf(q) = ChatOf(r), req'[q].phase = "gone", Live(r)'
               PROVE  q < r
      BY DEF Departure
  <2>1. Live(r) /\ r \notin pub.states
      BY <1>6
  <2>2. CASE q \in pub.states
      BY <2>1, <2>2 DEF TInv, SelectedStill
  <2>3. CASE q \notin pub.states
      BY <1>5, <2>1, <2>3 DEF TInv, Departure
  <2> QED BY <2>2, <2>3
<1> QED BY <1>1, <1>5, <1>6, <1>7, <1>8, <1>9, <1>10, <1>11

\* What leaving may do to the records and to the disk.
RecordSameOrNew(g) ==
    \/ tails'[g] = tails[g]
    \/ /\ AllLeave /\ disk' = disk
       /\ \E by \in pub.states : /\ g = GenOf[by] /\ tails'[g].by = by /\ Good(by)
                                 /\ Sound(g) => tails'[g].ram
DiskSameOrCollected ==
    \/ disk' = disk
    \/ /\ AllLeave
       /\ \A g \in Records : GenChat[g] = PubChat => ~Sound(g)
       /\ \A b \in disk : b \in disk' \/ (BlockChat(b) = PubChat /\ b \notin HeadOf(manifest[PubChat].by))
LeaveEffect ==
    /\ pub.at \in Selecting /\ Leave(pub.states) /\ pub' = IdlePub
    /\ UNCHANGED <<manifest, stores, control, impaired>>
    /\ tails' \in [Gen -> RecordType] /\ \A g \in Gen : RecordSameOrNew(g)
    /\ DiskSameOrCollected
    /\ \A r \in pub.states : Good(r) /\ Sound(GenOf[r]) => r <= tails'[GenOf[r]].by

\* The publisher's pass ends for the requests it selected.
LEMMA LeaveKeeps ==
    ASSUME TInv, LeaveEffect
    PROVE  TInv'
<1>1. /\ pub.at \in Selecting /\ Leave(pub.states) /\ pub' = IdlePub
      /\ UNCHANGED <<manifest, stores, control, impaired>>
      /\ tails' \in [Gen -> RecordType] /\ Types
    BY DEF LeaveEffect, TInv
<1>2. /\ req' \in [Req -> RequestType]
      /\ \A r \in Req : r \notin pub.states => req'[r] = req[r]
      /\ \A r \in pub.states : req'[r].phase = "gone" /\ req'[r].jobs = {}
      /\ \A r \in Req : /\ Live(r)' <=> Live(r) /\ r \notin pub.states
                        /\ Admitted(r)' <=> Admitted(r)
                        /\ Good(r)' <=> Good(r)
                        /\ req'[r].collectOnly = req[r].collectOnly
      /\ \A r \in Req : req[r].phase \in {"new", "gone"} => req'[r] = req[r] /\ r \notin pub.states
      /\ \A r \in Req : req'[r].phase \in {"new", "finished"} => req'[r] = req[r] /\ r \notin pub.states
    BY <1>1, LeaveFacts
<1>3. Arrival' /\ Departure' /\ Quieted'
    BY <1>1, LeaveFacts
<1>4. SelectedStill' /\ Candidate' /\ Flushed' /\ Types' /\ OwnGeneration'
    BY <1>1, <1>2, IdleAgain DEF TInv, Types, OwnGeneration
<1>5. \A g \in Gen : (Current(g)' <=> Current(g)) /\ (Sound(g)' <=> Sound(g))
    BY <1>1 DEF Current, Sound
<1>6. Activated' /\ Succession'
    BY <1>1, <1>2, <1>5, Constants DEF TInv, Activated, Succession
<1>7. Heads'
  <2>1. \A c \in Chat : manifest[c].by # 0 => manifest[c].by \in Req
      BY DEF TInv, Types, ManifestType
  <2> QED BY <1>1, <1>2, <2>1 DEF TInv, Heads
<1>8. /\ pub.states \in SUBSET Req /\ PubChat \in Chat
      /\ \A q \in pub.states : /\ q \in Req /\ ChatOf(q) = PubChat /\ GenOf[q] \in Gen
                               /\ GenChat[GenOf[q]] = PubChat
                               /\ req[q].phase = "finished" /\ req[q].jobs = {} /\ Live(q)
    BY <1>1, SelectedFacts
<1>9. \A g \in Gen : g \in Records => /\ tails[g].by \in Req /\ GenOf[tails[g].by] = g /\ tails[g].by # 0
                                      /\ req[tails[g].by].phase = "gone" /\ Good(tails[g].by)
                                      /\ req'[tails[g].by] = req[tails[g].by]
    BY <1>1, <1>2 DEF TInv, RecordsGood, Types, RecordType
<1>10. \A g \in Gen : tails'[g] = tails[g] => (g \in Records' <=> g \in Records)
    BY DEF Records
<1>11. Records \subseteq Gen /\ Records' \subseteq Gen
    BY DEF Records
<1>12. HeadOnDisk'
  <2> SUFFICES ASSUME NEW c \in Chat, NEW b \in HeadOf(manifest[c].by) PROVE b \in disk'
      BY <1>1 DEF HeadOnDisk
  <2>1. b \in disk /\ manifest[c].by # 0
      BY DEF TInv, HeadOnDisk, HeadOf
  <2>2. manifest[c].by \in Req /\ ChatOf(manifest[c].by) = c
      BY <2>1 DEF TInv, Heads, Types, ManifestType
  <2>3. BlockChat(b) = c
      BY <2>2, HeadBlocks
  <2> QED BY <2>1, <2>3 DEF LeaveEffect, DiskSameOrCollected
<1>13. RecordsGood'
  <2> SUFFICES ASSUME NEW g \in Gen, g \in Records'
               PROVE  /\ tails'[g].by # 0 /\ GenOf[tails'[g].by] = g /\ req'[tails'[g].by].phase = "gone"
                      /\ req'[tails'[g].by].head /\ ~req'[tails'[g].by].failed
                      /\ Current(g) => manifest[GenChat[g]].by <= tails'[g].by
      BY <1>1, <1>5, <1>11 DEF RecordsGood, Good
  <2>1. CASE tails'[g] = tails[g]
    <3>1. g \in Records
        BY <1>10, <2>1
    <3> QED BY <1>9, <2>1, <3>1 DEF TInv, RecordsGood, Good
  <2>2. CASE tails'[g] # tails[g]
    <3>1. PICK by \in pub.states : g = GenOf[by] /\ tails'[g].by = by /\ Good(by)
        BY <2>2 DEF LeaveEffect, RecordSameOrNew
    <3>2. by \in Req /\ by # 0 /\ by \in Nat /\ req'[by].phase = "gone" /\ Good(by)' /\ Live(by)
          /\ GenChat[g] = ChatOf(by)
        BY <1>2, <1>8, <3>1, Constants
    <3>3. Current(g) => manifest[GenChat[g]].by <= by
      <4>1. CASE manifest[GenChat[g]].by = 0
          BY <3>2, <4>1
      <4>2. CASE manifest[GenChat[g]].by # 0
        <5>1. /\ manifest[GenChat[g]].by \in Req /\ ChatOf(manifest[GenChat[g]].by) = ChatOf(by)
              /\ req[manifest[GenChat[g]].by].phase = "gone"
            BY <3>2, <4>2, Constants DEF TInv, Heads, Types, ManifestType
        <5>2. manifest[GenChat[g]].by < by
            BY <3>2, <5>1 DEF TInv, Departure
        <5>3. manifest[GenChat[g]].by \in Nat /\ by \in Nat
            BY <3>2, <5>1, Constants
        <5> QED BY <5>2, <5>3
      <4> QED BY <4>1, <4>2
    <3> QED BY <3>1, <3>2, <3>3 DEF Good
  <2> QED BY <2>1, <2>2
<1>14. RequestHeld'
  <2> SUFFICES ASSUME NEW r \in Req, req'[r].phase = "finished", Good(r)', Sound(GenOf[r])'
               PROVE  /\ "prefix" \notin req'[r].jobs => PrefixBlocks(r) \subseteq disk'
                      /\ "tail" \notin req'[r].jobs => req'[r].ram
      BY DEF RequestHeld
  <2>1. req'[r] = req[r] /\ r \notin pub.states /\ Good(r) /\ Sound(GenOf[r]) /\ Live(r)
      BY <1>2, <1>5, Constants DEF Live
  <2>2. /\ "prefix" \notin req[r].jobs => PrefixBlocks(r) \subseteq disk
        /\ "tail" \notin req[r].jobs => req[r].ram
      BY <2>1 DEF TInv, RequestHeld
  <2>3. \A b \in HeadOf(r) : b \in disk => b \in disk'
      BY <2>1, HeadBlocks DEF LeaveEffect, DiskSameOrCollected, AllLeave
  <2> QED BY <2>1, <2>2, <2>3, HeadParts
<1>15. RecordHeld'
  <2> SUFFICES ASSUME NEW g \in Gen, g \in Records', Sound(g)
               PROVE  tails'[g].ram /\ PrefixBlocks(tails'[g].by) \subseteq disk'
      BY <1>5, <1>11 DEF RecordHeld
  <2>1. CASE tails'[g] = tails[g]
    <3>1. g \in Records /\ tails[g].ram /\ PrefixBlocks(tails[g].by) \subseteq disk /\ tails[g].by \in Req
          /\ ChatOf(tails[g].by) = GenChat[g]
        BY <1>9, <1>10, <2>1 DEF TInv, RecordHeld, ChatOf
    <3>2. \A b \in HeadOf(tails[g].by) : b \in disk => b \in disk'
        BY <3>1, HeadBlocks DEF LeaveEffect, DiskSameOrCollected
    <3> QED BY <2>1, <3>1, <3>2, HeadParts
  <2>2. CASE tails'[g] # tails[g]
    <3>1. PICK by \in pub.states : g = GenOf[by] /\ tails'[g].by = by /\ Good(by) /\ tails'[g].ram
        BY <2>2 DEF LeaveEffect, RecordSameOrNew
    <3>2. disk' = disk
        BY <2>2 DEF LeaveEffect, RecordSameOrNew
    <3> QED BY <1>8, <3>1, <3>2 DEF TInv, RequestHeld
  <2> QED BY <2>1, <2>2
<1>16. CollectOnly'
  <2> SUFFICES ASSUME NEW n \in Req, req'[n].phase = "finished", req'[n].collectOnly
               PROVE  /\ \A r \in Req : Live(r)' /\ ChatOf(r) = ChatOf(n) /\ r <= n =>
                           /\ req'[r].phase = "finished" /\ req'[r].jobs = {}
                           /\ Good(r)' => ~Sound(GenOf[r])'
                      /\ \A g \in Gen : g \in Records' /\ GenChat[g] = ChatOf(n) => ~Sound(g)'
      BY <1>11 DEF CollectOnly
  <2>1. req'[n] = req[n] /\ n \notin pub.states /\ Live(n)
      BY <1>2 DEF Live
  <2>2. ASSUME NEW r \in Req, Live(r)', ChatOf(r) = ChatOf(n), r <= n
        PROVE  /\ req'[r].phase = "finished" /\ req'[r].jobs = {}
               /\ Good(r)' => ~Sound(GenOf[r])'
    <3>1. Live(r) /\ req'[r] = req[r]
        BY <1>2, <2>2
    <3>2. req[r].phase = "finished" /\ req[r].jobs = {} /\ (Good(r) => ~Sound(GenOf[r]))
        BY <2>1, <2>2, <3>1 DEF TInv, CollectOnly
    <3> QED BY <1>2, <1>5, <3>1, <3>2, Constants
  <2>3. ASSUME NEW g \in Gen, g \in Records', GenChat[g] = ChatOf(n)
        PROVE  ~Sound(g)'
    <3>1. CASE tails'[g] = tails[g]
      <4>1. g \in Records
          BY <1>10, <2>3, <3>1
      <4> QED BY <1>5, <2>1, <2>3, <4>1 DEF TInv, CollectOnly
    <3>2. CASE tails'[g] # tails[g]
      <4>1. AllLeave /\ \E by \in pub.states : g = GenOf[by]
          BY <3>2 DEF LeaveEffect, RecordSameOrNew
      <4>2. ChatOf(n) = PubChat
          BY <1>8, <2>3, <4>1
      <4> QED BY <2>1, <4>1, <4>2 DEF AllLeave
    <3> QED BY <3>1, <3>2
  <2> QED BY <2>2, <2>3
<1>17. Settled'
  <2> SUFFICES ASSUME NEW r \in Req, req'[r].phase = "gone", Good(r)', Sound(GenOf[r])'
               PROVE  r <= manifest[ChatOf(r)].by \/ r <= tails'[GenOf[r]].by
      BY <1>1 DEF Settled
  <2>1. Good(r) /\ Sound(GenOf[r]) /\ GenOf[r] \in Gen
      BY <1>2, <1>5, Constants
  <2>2. CASE r \in pub.states
      BY <2>1, <2>2 DEF LeaveEffect
  <2>3. CASE r \notin pub.states
    <3>1. req[r].phase = "gone"
        BY <1>2, <2>3
    <3>2. r <= manifest[ChatOf(r)].by \/ r <= tails[GenOf[r]].by
        BY <2>1, <3>1 DEF TInv, Settled
    <3>3. CASE tails'[GenOf[r]] # tails[GenOf[r]]
      <4>1. PICK by \in pub.states : GenOf[r] = GenOf[by] /\ tails'[GenOf[r]].by = by
          BY <2>1, <3>3 DEF LeaveEffect, RecordSameOrNew
      <4>2. by \in Req /\ ChatOf(by) = ChatOf(r) /\ Live(by)
          BY <1>8, <4>1 DEF ChatOf
      <4>3. r < by
          BY <3>1, <4>2 DEF TInv, Departure
      <4> QED BY <4>1, <4>2, <4>3, Constants
    <3> QED BY <3>2, <3>3
  <2> QED BY <2>2, <2>3
<1> QED BY <1>3, <1>4, <1>6, <1>7, <1>12, <1>13, <1>14, <1>15, <1>16, <1>17 DEF TInv

\* The candidate's tail is neither in RAM nor on disk: it is dropped.
LEMMA BuildRejectsKeeps ==
    ASSUME TInv, BuildRejects
    PROVE  TInv' /\ LeaveEffect
<1>1. /\ pub.at = "build" /\ ~req[pub.rec.by].ram /\ Leave(pub.states) /\ pub' = IdlePub
      /\ UNCHANGED <<manifest, disk, stores, tails, control, impaired>>
    BY DEF BuildRejects, store
<1>2. PICK by \in pub.states : by = pub.rec.by /\ Good(by)
    BY <1>1 DEF TInv, Candidate
<1>3. \A q \in pub.states : /\ q \in Req /\ ChatOf(q) = PubChat /\ GenOf[q] \in Gen
                            /\ req[q].phase = "finished" /\ req[q].jobs = {} /\ Live(q) /\ Admitted(q)
    BY <1>1, SelectedFacts DEF Selecting, Admitted
<1>4. ~Sound(GenOf[by])
    BY <1>1, <1>2, <1>3 DEF TInv, RequestHeld
<1>5. ASSUME NEW r \in pub.states, Good(r), Sound(GenOf[r]) PROVE FALSE
  <2>1. r <= by /\ r \in Nat /\ by \in Nat
      BY <1>1, <1>2, <1>3, <1>5, Constants DEF TInv, Candidate
  <2>2. r < by
      BY <1>4, <1>5, <2>1
  <2>3. GenOf[by] = GenOf[r]
      BY <1>2, <1>3, <1>5, <2>2 DEF TInv, Succession, Sound
  <2> QED BY <1>4, <1>5, <2>3
<1>6. LeaveEffect
    BY <1>1, <1>5 DEF LeaveEffect, RecordSameOrNew, DiskSameOrCollected, Selecting, TInv, Types
<1> QED BY <1>6, LeaveKeeps

\* The record is installed; nothing arrived meanwhile.
LEMMA InstallKeeps ==
    ASSUME TInv, Install
    PROVE  TInv' /\ LeaveEffect
<1>1. /\ pub.at = "install" /\ States(PubChat) = pub.states
      /\ tails' = [tails EXCEPT ![GenOf[pub.rec.by]] = pub.rec]
      /\ Leave(pub.states) /\ pub' = IdlePub
      /\ UNCHANGED <<manifest, disk, stores, control, impaired>>
    BY DEF Install, store
<1>2. PICK by \in pub.states : by = pub.rec.by /\ Good(by)
    BY <1>1 DEF TInv, Candidate
<1>3. /\ \A q \in pub.states : /\ q \in Req /\ ChatOf(q) = PubChat /\ GenOf[q] \in Gen
                               /\ Live(q) /\ Admitted(q)
      /\ AllLeave
    BY <1>1, SelectedFacts DEF Selecting, Admitted, Live
<1>4. tails \in [Gen -> RecordType] /\ pub.rec \in RecordType
    BY DEF TInv, Types, PubType
<1>5. /\ tails' \in [Gen -> RecordType] /\ tails'[GenOf[by]] = pub.rec
      /\ \A g \in Gen : g # GenOf[by] => tails'[g] = tails[g]
    BY <1>1, <1>2, <1>3, <1>4
<1>6. Sound(GenOf[by]) => pub.rec.ram
    BY <1>1, <1>2 DEF TInv, Candidate
<1>7. \A g \in Gen : RecordSameOrNew(g)
    BY <1>1, <1>2, <1>3, <1>5, <1>6 DEF RecordSameOrNew
<1>8. ASSUME NEW r \in pub.states, Good(r), Sound(GenOf[r]) PROVE r <= tails'[GenOf[r]].by
  <2>1. r <= by /\ r \in Nat /\ by \in Nat
      BY <1>1, <1>2, <1>3, <1>8, Constants DEF TInv, Candidate
  <2>2. r # by => r < by
      BY <2>1
  <2>3. GenOf[by] = GenOf[r]
      BY <1>2, <1>3, <1>8, <2>2 DEF TInv, Succession, Sound
  <2> QED BY <1>2, <1>5, <2>1, <2>3
<1>9. LeaveEffect
    BY <1>1, <1>5, <1>7, <1>8 DEF LeaveEffect, DiskSameOrCollected, Selecting
<1> QED BY <1>9, LeaveKeeps

\* Without a candidate, what failed requests left is collected.
LEMMA CollectFailedKeeps ==
    ASSUME TInv, CollectFailed
    PROVE  TInv' /\ LeaveEffect
<1> DEFINE n == Newest(pub.states)
<1>1. /\ pub.at = "collect" /\ States(PubChat) = pub.states
      /\ IF Collects THEN Collect(GenOf[n]) ELSE UNCHANGED store
      /\ Leave(pub.states) /\ pub' = IdlePub
      /\ UNCHANGED <<stores, tails, control, impaired>>
    BY DEF CollectFailed
<1>2. /\ \A q \in pub.states : /\ q \in Req /\ ChatOf(q) = PubChat /\ req[q].phase = "finished"
                               /\ GenOf[q] \in Gen /\ GenChat[GenOf[q]] = PubChat
      /\ AllLeave /\ n \in pub.states
    BY <1>1, SelectedFacts DEF Selecting
<1>3. UNCHANGED manifest
    BY <1>1 DEF Collect, store
<1>4. Collects => \A g \in Records : GenChat[g] = PubChat => ~Sound(g)
  <2>1. CASE \A g \in Gen : ~RecordOf(PubChat, g)
      BY <2>1 DEF RecordOf, Records
  <2>2. CASE pub.reason = "collect"
    <3>1. PICK m \in pub.states : req[m].collectOnly
        BY <1>1, <2>2 DEF TInv, Candidate
    <3> QED BY <1>2, <3>1 DEF TInv, CollectOnly
  <2> QED BY <2>1, <2>2 DEF Collects
<1>5. DiskSameOrCollected
  <2>1. CASE disk' = disk
      BY <2>1 DEF DiskSameOrCollected
  <2>2. CASE disk' # disk
    <3>1. Collects /\ disk' = Collected(PubChat, manifest[PubChat].by)
        BY <1>1, <1>2, <2>2 DEF Collect, store
    <3>2. \A b \in disk : b \in disk' \/ (BlockChat(b) = PubChat /\ b \notin HeadOf(manifest[PubChat].by))
        BY <3>1 DEF Collected
    <3> QED BY <1>2, <1>4, <3>1, <3>2 DEF DiskSameOrCollected
  <2> QED BY <2>1, <2>2
<1>6. \A r \in pub.states : Good(r) => ~Sound(GenOf[r])
    BY <1>1 DEF TInv, Candidate
<1>7. LeaveEffect
    BY <1>1, <1>3, <1>5, <1>6 DEF LeaveEffect, RecordSameOrNew, Selecting, TInv, Types
<1> QED BY <1>7, LeaveKeeps

-----------------------------------------------------------------------------
(***************************************************************************)
(* After an error the chat is collected only.                              *)
(***************************************************************************)
\* Nothing good of the chat is lost by that.
LEMMA CollectLaterKeeps ==
    ASSUME TInv, pub.at \in Selecting, CollectLater,
           UNCHANGED <<manifest, disk, stores, tails, control>>,
           impaired \subseteq impaired', impaired' \subseteq Gen,
           \A r \in pub.states : Good(r) => ~Sound(GenOf[r])',
           \A g \in Records : GenChat[g] = PubChat => ~Sound(g)'
    PROVE  TInv'
<1> DEFINE n == Newest(pub.states)
<1>1. /\ n \in pub.states /\ PubChat \in Chat /\ n \in Req /\ n \in Nat /\ pub.states \in SUBSET Req
      /\ \A q \in pub.states : q <= n
      /\ \A q \in pub.states : /\ q \in Req /\ ChatOf(q) = PubChat /\ GenOf[q] \in Gen
                               /\ req[q].phase = "finished" /\ req[q].jobs = {} /\ Live(q)
    BY SelectedFacts, Constants
<1> HIDE DEF n
<1>2. pub' = IdlePub /\ req' = [req EXCEPT ![n].collectOnly = TRUE]
    BY DEF CollectLater, n
<1>3. /\ req' \in [Req -> RequestType] /\ \A q \in Req : q # n => req'[q] = req[q]
      /\ req'[n].phase = req[n].phase /\ req'[n].head = req[n].head /\ req'[n].failed = req[n].failed
      /\ req'[n].jobs = req[n].jobs /\ req'[n].ram = req[n].ram
  <2>1. req \in [Req -> RequestType] /\ req[n] \in RequestType
      BY <1>1 DEF TInv, Types
  <2>2. PICK v : v = [req[n] EXCEPT !.collectOnly = TRUE]
      OBVIOUS
  <2>3. /\ v \in RequestType /\ v.phase = req[n].phase /\ v.head = req[n].head
        /\ v.failed = req[n].failed /\ v.jobs = req[n].jobs /\ v.ram = req[n].ram
      BY <2>1, <2>2 DEF RequestType
  <2>4. req' = [req EXCEPT ![n] = v]
      BY <1>2, <2>1, <2>2
  <2> QED BY <1>1, <2>1, <2>3, <2>4
<1>4. \A q \in Req : /\ req'[q].phase = req[q].phase /\ req'[q].head = req[q].head
                     /\ req'[q].failed = req[q].failed /\ req'[q].jobs = req[q].jobs
                     /\ req'[q].ram = req[q].ram
    BY <1>1, <1>3
<1>5. /\ \A q \in Req : (Live(q)' <=> Live(q)) /\ (Admitted(q)' <=> Admitted(q)) /\ (Good(q)' <=> Good(q))
      /\ \A g \in Gen : (Current(g)' <=> Current(g)) /\ (Sound(g)' => Sound(g))
      /\ Records' = Records /\ Records \subseteq Gen
    BY <1>4 DEF Live, Admitted, Good, Current, Sound, Records
<1>6. SelectedStill' /\ Candidate' /\ Flushed' /\ Types' /\ OwnGeneration'
    BY <1>2, <1>3, IdleAgain DEF TInv, Types, OwnGeneration
<1>7. Arrival' /\ Departure'
    BY <1>4, <1>5 DEF TInv, Arrival, Departure
<1>8. Quieted'
    BY <1>1, <1>3, <1>4 DEF TInv, Quieted
<1>9. Activated' /\ Succession'
    BY <1>5, Constants DEF TInv, Activated, Succession
<1>10. Heads' /\ HeadOnDisk'
  <2>1. \A c \in Chat : manifest[c].by # 0 => manifest[c].by \in Req
      BY DEF TInv, Types, ManifestType
  <2> QED BY <1>4, <2>1 DEF TInv, Heads, HeadOnDisk
<1>11. RecordsGood'
  <2>1. \A g \in Records : tails[g].by \in Req
      BY <1>5 DEF TInv, RecordsGood, Types, RecordType
  <2> SUFFICES ASSUME NEW g \in Gen, g \in Records
               PROVE  /\ tails[g].by # 0 /\ GenOf[tails[g].by] = g /\ req'[tails[g].by].phase = "gone"
                      /\ req'[tails[g].by].head /\ ~req'[tails[g].by].failed
                      /\ Current(g) => manifest[GenChat[g]].by <= tails[g].by
      BY <1>5 DEF RecordsGood, Good
  <2> QED BY <1>4, <2>1 DEF TInv, RecordsGood, Good
<1>12. RequestHeld'
    BY <1>4, <1>5, Constants DEF TInv, RequestHeld
<1>13. RecordHeld'
    BY <1>5 DEF TInv, RecordHeld
<1>14. Settled'
    BY <1>4, <1>5, Constants DEF TInv, Settled
<1>15. CollectOnly'
  <2> SUFFICES ASSUME NEW m \in Req, req'[m].phase = "finished", req'[m].collectOnly
               PROVE  /\ \A r \in Req : Live(r)' /\ ChatOf(r) = ChatOf(m) /\ r <= m =>
                           /\ req'[r].phase = "finished" /\ req'[r].jobs = {}
                           /\ Good(r)' => ~Sound(GenOf[r])'
                      /\ \A g \in Records : GenChat[g] = ChatOf(m) => ~Sound(g)'
      BY <1>5 DEF CollectOnly
  <2>1. CASE m = n
    <3>1. ASSUME NEW r \in Req, Live(r), ChatOf(r) = ChatOf(m), r <= m
          PROVE  r \in pub.states
      <4>1. SUFFICES ASSUME r \notin pub.states PROVE FALSE
          OBVIOUS
      <4>2. n < r
          BY <1>1, <2>1, <3>1, <4>1 DEF TInv, SelectedStill
      <4> QED BY <1>1, <2>1, <3>1, <4>2, Constants
    <3> QED BY <1>1, <1>4, <1>5, <2>1, <3>1
  <2>2. CASE m # n
    <3>1. req[m].phase = "finished" /\ req[m].collectOnly
        BY <1>3, <2>2
    <3> QED BY <1>4, <1>5, <3>1, Constants DEF TInv, CollectOnly
  <2> QED BY <2>1, <2>2
<1> QED BY <1>6, <1>7, <1>8, <1>9, <1>10, <1>11, <1>12, <1>13, <1>14, <1>15 DEF TInv

\* The record of a tail cannot be built.
LEMMA BuildFailsKeeps ==
    ASSUME TInv, BuildFails
    PROVE  TInv'
<1>1. /\ pub.at = "build" /\ CollectLater /\ impaired' = impaired \cup {GenOf[pub.rec.by]}
      /\ UNCHANGED <<manifest, disk, stores, tails, control>>
    BY DEF BuildFails, store
<1>2. PICK by \in pub.states : by = pub.rec.by /\ Good(by)
    BY <1>1 DEF TInv, Candidate
<1>3. \A q \in pub.states : /\ q \in Req /\ ChatOf(q) = PubChat /\ GenOf[q] \in Gen /\ Live(q)
                            /\ req[q].phase = "finished" /\ Admitted(q) /\ q \in Nat
    BY <1>1, SelectedFacts, Constants DEF Selecting, Admitted
<1>4. impaired' \subseteq Gen /\ impaired \subseteq impaired' /\ GenOf[by] \in impaired'
    BY <1>1, <1>2, <1>3 DEF TInv, Types
<1>5. ASSUME NEW r \in pub.states, Good(r), Sound(GenOf[r])'
      PROVE  FALSE
  <2>1. Current(GenOf[r]) /\ Sound(GenOf[r]) /\ GenOf[r] # GenOf[by]
      BY <1>1, <1>4, <1>5 DEF Sound, Current
  <2>2. r <= by
      BY <1>1, <1>2, <1>5, <2>1 DEF TInv, Candidate
  <2>3. r < by
      BY <1>2, <1>3, <2>1, <2>2
  <2> QED BY <1>2, <1>3, <2>1, <2>3 DEF TInv, Succession
\* A record of the chat is older than the request, so its generation is too.
<1>6. ASSUME NEW g \in Records, GenChat[g] = PubChat, Sound(g)'
      PROVE  FALSE
  <2>1. Current(g) /\ g # GenOf[by] /\ g \in Gen
      BY <1>1, <1>4, <1>6 DEF Sound, Current, Records
  <2>2. PICK q \in Req : q = tails[g].by /\ GenOf[q] = g /\ req[q].phase = "gone"
      BY <2>1 DEF TInv, RecordsGood, Types, RecordType
  <2>3. ChatOf(q) = ChatOf(by) /\ Admitted(q)
      BY <1>2, <1>3, <1>6, <2>2 DEF ChatOf, Admitted
  <2>4. q < by
      BY <1>2, <1>3, <2>2, <2>3 DEF TInv, Departure
  <2> QED BY <1>2, <1>3, <2>1, <2>2, <2>3, <2>4 DEF TInv, Succession
<1> QED BY <1>1, <1>4, <1>5, <1>6, CollectLaterKeeps DEF Selecting

\* The collection of a chat's files fails.
LEMMA CollectFailsKeeps ==
    ASSUME TInv, CollectFails
    PROVE  TInv'
<1>1. /\ pub.at = "collect" /\ CollectLater /\ Collects
      /\ UNCHANGED <<manifest, disk, stores, tails, control, impaired>>
    BY DEF CollectFails, store
<1>2. \A q \in pub.states : q \in Req /\ ChatOf(q) = PubChat /\ req[q].phase = "finished" /\ GenOf[q] \in Gen
    BY <1>1, SelectedFacts DEF Selecting
<1>3. \A g \in Gen : Sound(g)' <=> Sound(g)
    BY <1>1 DEF Sound, Current
<1>4. \A r \in pub.states : Good(r) => ~Sound(GenOf[r])'
    BY <1>1, <1>2, <1>3 DEF TInv, Candidate
<1>5. \A g \in Records : GenChat[g] = PubChat => ~Sound(g)
  <2>1. CASE \A g \in Gen : ~RecordOf(PubChat, g)
      BY <2>1 DEF RecordOf, Records
  <2>2. CASE pub.reason = "collect"
    <3>1. PICK m \in pub.states : req[m].collectOnly
        BY <1>1, <2>2 DEF TInv, Candidate
    <3> QED BY <1>2, <3>1 DEF TInv, CollectOnly
  <2> QED BY <1>1, <2>1, <2>2 DEF Collects
<1>6. impaired' \subseteq Gen /\ impaired \subseteq impaired' /\ Records \subseteq Gen
    BY <1>1 DEF TInv, Types, Records
<1> QED BY <1>1, <1>3, <1>4, <1>5, <1>6, CollectLaterKeeps DEF Selecting

-----------------------------------------------------------------------------
(***************************************************************************)
(* publish.                                                                *)
(***************************************************************************)
\* What a publication does, whether it commits the head or keeps the previous one.
CommitEffect(by) ==
    LET c == FlushChat
        g == FlushGen
    IN  /\ pub.at = "publish" /\ Installed /\ pub' = IdlePub
        /\ UNCHANGED <<stores, req, impaired>>
        /\ control' \in [Chat -> ControlType] /\ \A d \in Chat : control'[d].gen = control[d].gen
        /\ by = manifest[c].by \/ (by = pub.rec.by /\ Complete)
        /\ manifest' = [manifest EXCEPT ![c].by = by]
        /\ disk' = disk \/ (Current(g) /\ disk' = Collected(c, by) /\ tails'[g] = NoRecord)
        /\ tails' \in [Gen -> RecordType] /\ \A h \in Gen : h # g => tails'[h] = tails[h]
        /\ tails'[g] = tails[g] \/ (tails'[g] = NoRecord /\ (Sound(g) => by = pub.rec.by))

\* A publication commits the new head or keeps the previous one.
LEMMA CommitKeeps ==
    ASSUME TInv, NEW by, CommitEffect(by)
    PROVE  TInv'
<1>1. PICK c \in Chat, g \in Gen, rby \in Req :
        /\ c = FlushChat /\ g = FlushGen /\ rby = pub.rec.by /\ GenOf[rby] = g /\ ChatOf(rby) = c
        /\ GenChat[g] = c /\ req[rby].phase = "gone" /\ Good(rby)
        /\ Current(g) => g \in Records /\ tails[g].by = rby
    BY FlushFacts DEF CommitEffect, Flushing
<1>2. /\ pub' = IdlePub /\ UNCHANGED <<stores, req, impaired>>
      /\ control' \in [Chat -> ControlType] /\ \A d \in Chat : control'[d].gen = control[d].gen
      /\ by = manifest[c].by \/ (by = rby /\ Current(g) /\ HeadOf(rby) \subseteq disk)
      /\ manifest' = [manifest EXCEPT ![c].by = by]
      /\ disk' = disk \/ (Current(g) /\ disk' = Collected(c, by) /\ tails'[g] = NoRecord)
      /\ tails' \in [Gen -> RecordType] /\ \A h \in Gen : h # g => tails'[h] = tails[h]
      /\ tails'[g] = tails[g] \/ (tails'[g] = NoRecord /\ (Sound(g) => by = rby))
      /\ tails[g].by = rby
      /\ \A r \in Req : ChatOf(r) = c => ~Live(r)
    BY <1>1 DEF CommitEffect, Complete, Installed, States, Live
<1>3. /\ manifest \in [Chat -> ManifestType] /\ by \in Req \cup {0}
    BY <1>2 DEF TInv, Types, ManifestType
<1>4. /\ manifest' \in [Chat -> ManifestType] /\ manifest'[c].by = by
      /\ \A d \in Chat : d # c => manifest'[d] = manifest[d]
      /\ \A d \in Chat : manifest'[d].gen = manifest[d].gen /\ manifest'[d].retired = manifest[d].retired
    BY <1>1, <1>2, <1>3 DEF ManifestType
<1>5. /\ \A h \in Gen : (Current(h)' <=> Current(h)) /\ (Sound(h)' <=> Sound(h))
      /\ \A r \in Req : (Live(r)' <=> Live(r)) /\ (Admitted(r)' <=> Admitted(r)) /\ (Good(r)' <=> Good(r))
    BY <1>2, <1>4, Constants DEF Current, Sound, Live, Admitted, Good
<1>6. SelectedStill' /\ Candidate' /\ Flushed' /\ Types'
    BY <1>2, <1>4, IdleAgain DEF TInv, Types
<1>7. OwnGeneration'
    BY <1>2, <1>4 DEF TInv, OwnGeneration
<1>8. Arrival' /\ Departure' /\ Quieted'
    BY <1>2, <1>5 DEF TInv, Arrival, Departure, Quieted
<1>9. Activated' /\ Succession'
    BY <1>2, <1>4, <1>5, Constants DEF TInv, Activated, Succession
<1>10. /\ Records' \subseteq Records /\ Records \subseteq Gen
       /\ \A h \in Records' : tails'[h] = tails[h]
    BY <1>2 DEF Records
<1>11. by # 0 => ChatOf(by) = c /\ GenOf[by] = manifest[c].gen /\ req[by].phase = "gone" /\ by \in Req
    BY <1>1, <1>2, <1>3 DEF TInv, Heads, Current
<1>12. Heads'
    BY <1>2, <1>4, <1>11 DEF TInv, Heads
<1>13. \A b \in disk : b \in disk' \/ (BlockChat(b) = c /\ b \notin HeadOf(by))
    BY <1>2 DEF Collected
<1>14. HeadOnDisk'
  <2>1. HeadOf(by) \subseteq disk'
      BY <1>2, <1>13 DEF TInv, HeadOnDisk
  <2>2. ASSUME NEW d \in Chat, d # c PROVE HeadOf(manifest[d].by) \subseteq disk'
    <3>1. CASE manifest[d].by = 0
        BY <3>1 DEF HeadOf
    <3>2. CASE manifest[d].by # 0
      <4>1. manifest[d].by \in Req /\ ChatOf(manifest[d].by) = d /\ HeadOf(manifest[d].by) \subseteq disk
          BY <3>2 DEF TInv, Types, ManifestType, Heads, HeadOnDisk
      <4> QED BY <1>13, <2>2, <4>1, HeadBlocks
    <3> QED BY <3>1, <3>2
  <2> QED BY <1>4, <2>1, <2>2 DEF HeadOnDisk
<1>15. Current(g) => manifest[c].by <= by
  <2>1. Current(g) => manifest[c].by <= rby
      BY <1>1 DEF TInv, RecordsGood
  <2>2. manifest[c].by \in Nat
      BY <1>3, Constants DEF ManifestType
  <2> QED BY <1>2, <2>1, <2>2
<1>16. RecordsGood'
  <2> SUFFICES ASSUME NEW h \in Records'
               PROVE  /\ tails[h].by # 0 /\ GenOf[tails[h].by] = h /\ req[tails[h].by].phase = "gone"
                      /\ Good(tails[h].by)
                      /\ Current(h) => manifest'[GenChat[h]].by <= tails[h].by
    <3>1. \A h \in Records' : h \in Gen /\ tails[h].by \in Req \cup {0}
        BY <1>10 DEF TInv, Types, RecordType
    <3> QED BY <1>2, <1>5, <1>10, <3>1 DEF RecordsGood, Good
  <2>1. h \in Records /\ h \in Gen
      BY <1>10
  <2>2. /\ tails[h].by # 0 /\ GenOf[tails[h].by] = h /\ req[tails[h].by].phase = "gone"
        /\ Good(tails[h].by) /\ (Current(h) => manifest[GenChat[h]].by <= tails[h].by)
      BY <2>1 DEF TInv, RecordsGood
  <2>3. ASSUME Current(h), GenChat[h] = c PROVE manifest'[c].by <= tails[h].by
    <3>1. CASE by = manifest[c].by
        BY <1>4, <2>2, <2>3, <3>1
    <3>2. CASE by = rby /\ Current(g)
      <4>1. h = g
          BY <1>1, <2>3, <3>2 DEF Current
      <4> QED BY <1>2, <1>4, <3>2, <4>1, Constants
    <3> QED BY <1>2, <3>1, <3>2
  <2>4. GenChat[h] \in Chat
      BY <2>1, Constants
  <2> QED BY <1>4, <2>2, <2>3, <2>4
<1>17. RequestHeld'
  <2> SUFFICES ASSUME NEW r \in Req, req[r].phase = "finished", Good(r), Sound(GenOf[r])
               PROVE  /\ "prefix" \notin req[r].jobs => PrefixBlocks(r) \subseteq disk'
                      /\ "tail" \notin req[r].jobs => req[r].ram
      BY <1>2, <1>5, Constants DEF RequestHeld
  <2>1. ChatOf(r) # c
      BY <1>2 DEF Live
  <2>2. \A b \in HeadOf(r) : b \in disk => b \in disk'
      BY <1>13, <2>1, HeadBlocks
  <2> QED BY <2>2, HeadParts DEF TInv, RequestHeld
<1>18. RecordHeld'
  <2> SUFFICES ASSUME NEW h \in Records', Sound(h)
               PROVE  tails[h].ram /\ PrefixBlocks(tails[h].by) \subseteq disk'
      BY <1>5, <1>10 DEF RecordHeld
  <2>1. /\ h \in Records /\ h \in Gen /\ tails[h].ram /\ PrefixBlocks(tails[h].by) \subseteq disk
        /\ tails[h].by \in Req /\ ChatOf(tails[h].by) = GenChat[h]
      BY <1>10 DEF TInv, RecordHeld, RecordsGood, Types, RecordType, ChatOf
  <2>2. CASE disk' = disk
      BY <2>1, <2>2
  <2>3. CASE Current(g) /\ tails'[g] = NoRecord
    <3>1. h # g
        BY <2>3 DEF Records
    <3>2. GenChat[h] # c
        BY <1>1, <2>3, <3>1 DEF Sound, Current
    <3> QED BY <1>13, <2>1, <3>2, HeadBlocks, HeadParts
  <2> QED BY <1>2, <2>2, <2>3
<1>19. CollectOnly'
  <2>1. \A h \in Records' : h \in Records /\ h \in Gen
      BY <1>10
  <2> QED BY <1>2, <1>5, <2>1, Constants DEF TInv, CollectOnly
<1>20. Settled'
  <2> SUFFICES ASSUME NEW r \in Req, req[r].phase = "gone", Good(r), Sound(GenOf[r])
               PROVE  r <= manifest'[ChatOf(r)].by \/ r <= tails'[GenOf[r]].by
      BY <1>2, <1>5, Constants DEF Settled
  <2>1. /\ r <= manifest[ChatOf(r)].by \/ r <= tails[GenOf[r]].by
        /\ GenOf[r] \in Gen /\ ChatOf(r) \in Chat /\ GenChat[GenOf[r]] = ChatOf(r)
      BY Constants DEF TInv, Settled
  <2>2. CASE ChatOf(r) # c
      BY <1>1, <1>2, <1>4, <2>1, <2>2
  <2>3. CASE ChatOf(r) = c /\ GenOf[r] # g
    <3>1. ~Current(g)
        BY <1>1, <2>1, <2>3 DEF Sound, Current
    <3> QED BY <1>2, <1>4, <2>1, <2>3, <3>1
  <2>4. CASE ChatOf(r) = c /\ GenOf[r] = g
    <3>1. Current(g) /\ r \in Nat /\ manifest[c].by \in Nat /\ by \in Nat
      <4>1. Current(g)
          BY <2>4 DEF Sound
      <4>2. manifest[c].by \in Req \cup {0}
          BY <1>3 DEF ManifestType
      <4> QED BY <1>3, <4>1, <4>2, RequestNumbers
    <3>2. CASE r <= manifest[c].by
        BY <1>4, <1>15, <2>4, <3>1, <3>2
    <3>3. CASE r <= tails[g].by
        BY <1>2, <1>4, <2>4, <3>3
    <3> QED BY <2>1, <2>4, <3>2, <3>3
  <2> QED BY <2>2, <2>3, <2>4
<1> QED BY <1>6, <1>7, <1>8, <1>9, <1>12, <1>14, <1>16, <1>17, <1>18, <1>19, <1>20 DEF TInv

\* publish commits the head and collects, or keeps the previous one.
LEMMA PublishEffect ==
    ASSUME TInv, Publish
    PROVE  \E by \in Req \cup {0} :
             /\ CommitEffect(by)
             /\ \/ by = pub.rec.by /\ Complete /\ (Answer(FlushChat, "flushed") \/ UNCHANGED control)
                \/ /\ by = manifest[FlushChat].by /\ pub.rec.by \in givenUp'
                   /\ Answer(FlushChat, "rejected") \/ UNCHANGED control
             /\ pub.reason = "explicit" \/ UNCHANGED control
             /\ givenUp \subseteq givenUp' /\ givenUp' \subseteq givenUp \cup {pub.rec.by}
<1> DEFINE c == FlushChat
           done == pub.ok /\ Complete
           by == IF done THEN pub.rec.by ELSE manifest[c].by
           a == IF done THEN "flushed" ELSE "rejected"
<1>1. /\ pub.at = "publish" /\ Installed
      /\ manifest' = [manifest EXCEPT ![c].by = by]
      /\ disk' = IF Current(FlushGen) THEN Collected(c, by) ELSE disk
      /\ tails' = [tails EXCEPT ![FlushGen] = NoRecord]
      /\ IF pub.reason = "explicit" THEN Answer(c, a) ELSE UNCHANGED control
      /\ pub' = IdlePub
      /\ givenUp' = IF done THEN givenUp ELSE givenUp \cup {pub.rec.by}
      /\ UNCHANGED <<stores, req, impaired>>
    BY DEF Publish, RemoveRecord, AnswerExplicit
<1>2. pub.rec.by \in Req /\ FlushGen \in Gen /\ c \in Chat
    BY <1>1, FlushFacts DEF Flushing
<1>3. by \in Req \cup {0}
    BY <1>2 DEF TInv, Types, ManifestType
<1>4. a \in {"none", "pending", "flushed", "rejected", "error", "already_durable"}
    OBVIOUS
<1>5. /\ control' \in [Chat -> ControlType]
      /\ \A d \in Chat : control'[d].gen = control[d].gen
  <2> HIDE DEF a
  <2> QED BY <1>1, <1>2, <1>4, AnswerType DEF TInv
<1>6. Sound(FlushGen) => done
    BY <1>1, SoundComplete DEF TInv, Flushed, Flushing
<1>7. tails' \in [Gen -> RecordType] /\ tails'[FlushGen] = NoRecord
      /\ \A h \in Gen : h # FlushGen => tails'[h] = tails[h]
    BY <1>1, <1>2, NoRecordType DEF TInv, Types
<1>8. by = manifest[c].by \/ (by = pub.rec.by /\ done)
    OBVIOUS
<1>9. Sound(FlushGen) => by = pub.rec.by
    BY <1>6
<1> HIDE DEF by
<1>10. CommitEffect(by)
    BY <1>1, <1>5, <1>7, <1>8, <1>9 DEF CommitEffect
<1>11. CASE done
  <2>1. /\ by = pub.rec.by /\ Complete /\ (Answer(c, "flushed") \/ UNCHANGED control)
        /\ givenUp' = givenUp
      BY <1>1, <1>11 DEF by
  <2> QED BY <1>1, <1>3, <1>10, <2>1
<1>12. CASE ~done
  <2>1. /\ by = manifest[c].by /\ (Answer(c, "rejected") \/ UNCHANGED control)
        /\ givenUp' = givenUp \cup {pub.rec.by}
      BY <1>1, <1>12 DEF by
  <2> QED BY <1>1, <1>3, <1>10, <2>1
<1> QED BY <1>11, <1>12

\* The head is committed, and the collection after it fails.
LEMMA PublishFailsEffect ==
    ASSUME TInv, PublishFails
    PROVE  /\ CommitEffect(pub.rec.by) /\ Complete /\ pub.rec.by \in Req
           /\ Answer(FlushChat, "error") \/ control' = control
<1>1. /\ pub.at = "publish" /\ Installed /\ Complete
      /\ manifest' = [manifest EXCEPT ![FlushChat].by = pub.rec.by]
      /\ Answer(FlushChat, "error") \/ control' = control
      /\ pub' = IdlePub
      /\ UNCHANGED <<disk, stores, req, tails, impaired>>
    BY DEF PublishFails, AnswerExplicit
<1>2. pub.rec.by \in Req /\ FlushGen \in Gen /\ FlushChat \in Chat
    BY <1>1, FlushFacts DEF Flushing
<1>3. /\ control' \in [Chat -> ControlType]
      /\ \A d \in Chat : control'[d].gen = control[d].gen
    BY <1>1, <1>2, AnswerType DEF TInv
<1> QED BY <1>1, <1>2, <1>3 DEF CommitEffect, TInv, Types

\* publish, and its failure.
LEMMA PublishKeeps ==
    ASSUME TInv, Publish \/ PublishFails
    PROVE  TInv'
BY PublishEffect, PublishFailsEffect, CommitKeeps

-----------------------------------------------------------------------------
(***************************************************************************)
(* What the publisher gave up: a complete request of the current           *)
(* generation is lost to the durable head only behind such a one.          *)
(***************************************************************************)
\* The request, or a later one of its generation, was given up.
Covered(r) == \E q \in givenUp : GenOf[q] = GenOf[r] /\ q >= r

\* Without looking at errors: a good request that has left is durable, or older
\* than the record, or was given up.
LeftSettled ==
    \A r \in Req : req[r].phase = "gone" /\ Good(r) /\ Current(GenOf[r]) =>
        r <= manifest[ChatOf(r)].by \/ r <= tails[GenOf[r]].by \/ Covered(r)
CollectCovered ==
    \A n, r \in Req :
        /\ req[n].phase = "finished" /\ req[n].collectOnly
        /\ Live(r) /\ ChatOf(r) = ChatOf(n) /\ r <= n /\ Good(r) /\ Current(GenOf[r])
        => Covered(r)
CandidateCovers ==
    /\ pub.at \in {"build", "install"} =>
         \A r \in pub.states : Good(r) /\ Current(GenOf[r]) => r <= pub.rec.by \/ Covered(r)
    /\ pub.at = "collect" =>
         \A r \in pub.states : Good(r) /\ Current(GenOf[r]) => Covered(r)

GInv == givenUp \subseteq Req /\ LeftSettled /\ CollectCovered /\ CandidateCovers

\* The publisher has nothing in hand.
LEMMA NothingInHand ==
    ASSUME pub'.at \notin Selecting
    PROVE  CandidateCovers'
BY DEF CandidateCovers, Selecting

\* Requests that were given up stay so.
LEMMA CoveredStays ==
    ASSUME givenUp \subseteq givenUp', NEW r, Covered(r)
    PROVE  Covered(r)'
BY DEF Covered

\* A step that leaves the requests, the heads and the records' requests alone.
LEMMA GivenUpKept ==
    ASSUME GInv, UNCHANGED <<manifest, req, givenUp>>, \A g \in Gen : tails'[g].by = tails[g].by
    PROVE  givenUp' \subseteq Req /\ LeftSettled' /\ CollectCovered'
<1>1. /\ \A r \in Req : (Good(r)' <=> Good(r)) /\ (Live(r)' <=> Live(r)) /\ (Covered(r)' <=> Covered(r))
      /\ \A g \in Gen : Current(g)' <=> Current(g)
    BY DEF Good, Live, Covered, Current
<1>2. LeftSettled'
    BY <1>1, Constants DEF GInv, LeftSettled
<1>3. CollectCovered'
    BY <1>1, Constants DEF GInv, CollectCovered
<1> QED BY <1>2, <1>3 DEF GInv

\* _publish_ready selects.
LEMMA SelectGivesUpNothing ==
    ASSUME TInv, GInv, NEW c \in Chat, Select(c)
    PROVE  GInv'
<1> DEFINE rs == States(c)
           collect == req[Newest(rs)].collectOnly
           none == collect \/ Successful(rs) = {}
<1>1. /\ pub = IdlePub /\ rs # {} /\ Quiet(rs)
      /\ pub' = [IdlePub EXCEPT !.states = rs,
             !.reason = IF collect THEN "collect" ELSE "publish",
             !.at = IF none THEN "collect" ELSE "build",
             !.rec.by = IF none THEN 0 ELSE Newest(Successful(rs))]
      /\ UNCHANGED <<manifest, req, tails, givenUp>>
    BY DEF Select, store
<1>2. rs \in SUBSET Req /\ Successful(rs) \in SUBSET Req /\ Successful(rs) \subseteq rs
    BY DEF States, Successful
<1>3. Newest(rs) \in rs /\ \A q \in rs : q <= Newest(rs)
    BY <1>1, <1>2, NewestIn
<1>4. ~none => \A q \in Successful(rs) : q <= Newest(Successful(rs))
    BY <1>2, NewestIn
<1>5. /\ pub'.states = rs
      /\ pub'.at = IF none THEN "collect" ELSE "build"
      /\ pub'.rec.by = IF none THEN 0 ELSE Newest(Successful(rs))
    BY <1>1 DEF IdlePub, NoRecord
<1>6. \A r \in rs : r \in Req /\ ChatOf(r) = c /\ req[r].phase = "finished" /\ Live(r) /\ r \in Nat
    BY <1>1, <1>2, Constants DEF States, Quiet, Live
<1> HIDE DEF rs, collect
\* A request that is not a candidate although it is good is to be collected.
<1>7. ASSUME NEW r \in rs, Good(r), Current(GenOf[r]), r \notin Successful(rs) \/ collect
      PROVE  Covered(r)
  <2>1. CASE collect
    <3>1. Newest(rs) \in Req /\ req[Newest(rs)].phase = "finished" /\ req[Newest(rs)].collectOnly
          /\ ChatOf(r) = ChatOf(Newest(rs)) /\ r <= Newest(rs)
        BY <1>3, <1>6, <1>7, <2>1 DEF collect
    <3> QED BY <1>6, <1>7, <3>1 DEF GInv, CollectCovered
  <2>2. CASE r \notin Successful(rs)
    <3>1. req[r].collectOnly /\ r <= r
        BY <1>6, <1>7, <2>2 DEF Successful, Good
    <3> QED BY <1>6, <1>7, <3>1 DEF GInv, CollectCovered
  <2> QED BY <1>7, <2>1, <2>2
<1>8. \A r \in rs : (Good(r)' <=> Good(r)) /\ (Current(GenOf[r])' <=> Current(GenOf[r])) /\ (Covered(r) => Covered(r)')
    BY <1>1 DEF Good, Current, Covered
<1>9. CandidateCovers'
  <2>1. CASE none
    <3>1. \A r \in rs : Good(r) /\ Current(GenOf[r]) => Covered(r)
        BY <1>7, <2>1
    <3> QED BY <1>5, <1>8, <2>1, <3>1 DEF CandidateCovers
  <2>2. CASE ~none
    <3>1. \A r \in rs : Good(r) /\ Current(GenOf[r]) => r <= Newest(Successful(rs)) \/ Covered(r)
        BY <1>4, <1>7, <2>2
    <3> QED BY <1>5, <1>8, <2>2, <3>1 DEF CandidateCovers
  <2> QED BY <2>1, <2>2
<1>10. givenUp' \subseteq Req /\ LeftSettled' /\ CollectCovered'
    BY <1>1, GivenUpKept
<1> QED BY <1>9, <1>10 DEF GInv

\* Its record is built.
LEMMA BuildGivesUpNothing ==
    ASSUME TInv, GInv, Build
    PROVE  GInv'
<1>1. /\ pub.at = "build" /\ pub'.at = "install" /\ pub'.states = pub.states /\ pub'.rec.by = pub.rec.by
      /\ UNCHANGED <<manifest, req, tails, givenUp>>
  <2>1. pub \in PubType
      BY DEF TInv, Types
  <2>2. /\ pub.at = "build" /\ UNCHANGED <<manifest, req, tails, givenUp>>
        /\ pub' = [pub EXCEPT !.at = "install",
             !.rec = [by |-> pub.rec.by, ram |-> req[pub.rec.by].ram,
                      force |-> pub.rec.by \in DueReq \/ Replaces(pub.rec.by)]]
      BY DEF Build, store
  <2> QED BY <2>1, <2>2 DEF PubType
<1>2. pub.states \subseteq Req
    BY DEF TInv, Types, PubType
<1>3. \A r \in pub.states : /\ Good(r)' <=> Good(r)
                            /\ Current(GenOf[r])' <=> Current(GenOf[r])
                            /\ Covered(r) => Covered(r)'
    BY <1>1, <1>2 DEF Good, Current, Covered
<1>4. CandidateCovers'
    BY <1>1, <1>3 DEF GInv, CandidateCovers
<1>5. givenUp' \subseteq Req /\ LeftSettled' /\ CollectCovered'
    BY <1>1, GivenUpKept
<1> QED BY <1>4, <1>5 DEF GInv

\* A request or a generation arrives.
LEMMA ArrivalGivesUpNothing ==
    ASSUME TInv, GInv, ArrivalEffect, givenUp' = givenUp
    PROVE  GInv'
<1>1. /\ \A r \in Req : req[r].phase # "new" => req'[r] = req[r]
      /\ \A r \in Req : req'[r].phase \in {"new", "finished", "gone"} => req'[r] = req[r]
      /\ \A r \in Req : Admitted(r) /\ Current(GenOf[r])' =>
           /\ Current(GenOf[r]) /\ manifest'[ChatOf(r)] = manifest[ChatOf(r)]
           /\ tails'[GenOf[r]] = tails[GenOf[r]]
      /\ pub' = pub
    BY ArrivalFacts DEF ArrivalEffect
<1>2. \A r \in Req : Covered(r) => Covered(r)'
    BY DEF Covered
<1>3. LeftSettled'
  <2> SUFFICES ASSUME NEW r \in Req, req'[r].phase = "gone", Good(r)', Current(GenOf[r])'
               PROVE  r <= manifest'[ChatOf(r)].by \/ r <= tails'[GenOf[r]].by \/ Covered(r)'
      BY DEF LeftSettled
  <2>1. req'[r] = req[r] /\ Admitted(r) /\ Good(r)
      BY <1>1 DEF Admitted, Good
  <2> QED BY <1>1, <1>2, <2>1 DEF GInv, LeftSettled
<1>4. CollectCovered'
  <2> SUFFICES ASSUME NEW n \in Req, NEW r \in Req, req'[n].phase = "finished", req'[n].collectOnly,
                      Live(r)', ChatOf(r) = ChatOf(n), r <= n, Good(r)', Current(GenOf[r])'
               PROVE  Covered(r)'
      BY DEF CollectCovered
  <2>1. req'[n] = req[n] /\ req[n].phase # "new" /\ n \in Nat /\ r \in Nat
      BY <1>1, Constants
  <2>2. ~Arrives(r)
      BY <2>1, ArrivesLast DEF TInv
  <2>3. req'[r] = req[r]
      BY <2>2 DEF ArrivalEffect, SameOrArrives
  <2>4. Live(r) /\ Good(r) /\ Admitted(r)
      BY <2>3 DEF Live, Good, Admitted
  <2> QED BY <1>1, <1>2, <2>1, <2>4 DEF GInv, CollectCovered
<1>5. CandidateCovers'
  <2>1. pub.at \in Selecting => \A q \in pub.states : q \in Req /\ req'[q] = req[q] /\ Admitted(q)
      BY <1>1 DEF TInv, SelectedStill, Types, PubType, Admitted
  <2>2. pub.at \in Selecting => \A q \in pub.states :
          /\ Good(q)' => Good(q)
          /\ Current(GenOf[q])' => Current(GenOf[q])
          /\ Covered(q) => Covered(q)'
      BY <1>1, <1>2, <2>1 DEF Good
  <2> QED BY <1>1, <2>2 DEF GInv, CandidateCovers, Selecting
<1> QED BY <1>3, <1>4, <1>5 DEF GInv

\* A request ends, or the pool works for it.
LEMMA ProgressGivesUpNothing ==
    ASSUME TInv, GInv, NEW r \in Req, ProgressEffect(r), givenUp' = givenUp
    PROVE  GInv'
<1>1. /\ UNCHANGED <<manifest, tails, pub>>
      /\ \A q \in Req : q # r => req'[q] = req[q]
      /\ req[r].phase = "running" \/ req[r].jobs # {}
      /\ req'[r].phase = "finished" /\ (req'[r].collectOnly <=> req[r].collectOnly)
      /\ r \in Nat /\ r <= r
    BY Constants DEF ProgressEffect
<1>2. /\ req[r].phase \in {"running", "finished"} /\ ~req[r].collectOnly
      /\ ~(req[r].phase = "finished" /\ req[r].jobs = {})
  <2>1. req[r].phase \in {"running", "finished"} /\ ~(req[r].phase = "finished" /\ req[r].jobs = {})
      BY <1>1 DEF TInv, Quieted
  <2>2. ~req[r].collectOnly
      BY <1>1, <2>1 DEF TInv, CollectOnly, Quieted, Live
  <2> QED BY <2>1, <2>2
<1>3. /\ \A q \in Req : Covered(q)' <=> Covered(q)
      /\ \A g \in Gen : Current(g)' <=> Current(g)
      /\ \A q \in Req : Live(q)' <=> Live(q)
      /\ \A q \in Req : q # r => (Good(q)' <=> Good(q))
    BY <1>1, <1>2 DEF Covered, Current, Live, Good
<1>4. LeftSettled'
    BY <1>1, <1>3, Constants DEF GInv, LeftSettled
<1>5. CollectCovered'
  <2> SUFFICES ASSUME NEW n \in Req, NEW q \in Req, req'[n].phase = "finished", req'[n].collectOnly,
                      Live(q), ChatOf(q) = ChatOf(n), q <= n, Good(q)', Current(GenOf[q])
               PROVE  Covered(q)
      BY <1>3, Constants DEF CollectCovered
  <2>1. n # r /\ req[n].phase = "finished" /\ req[n].collectOnly
      BY <1>1, <1>2
  <2>2. req[q].phase = "finished" /\ req[q].jobs = {}
      BY <2>1 DEF TInv, CollectOnly
  <2>3. q # r
      BY <1>2, <2>2
  <2> QED BY <1>3, <2>1, <2>3 DEF GInv, CollectCovered
<1>6. CandidateCovers'
  <2>1. pub.at \in Selecting => \A q \in pub.states : q \in Req /\ q # r
      BY <1>2 DEF TInv, SelectedStill, Types, PubType
  <2>2. pub.at \in Selecting => \A q \in pub.states :
          (Good(q)' <=> Good(q)) /\ (Current(GenOf[q])' <=> Current(GenOf[q])) /\ (Covered(q)' <=> Covered(q))
      BY <1>3, <2>1, Constants
  <2> QED BY <1>1, <2>2 DEF GInv, CandidateCovers, Selecting
<1> QED BY <1>4, <1>5, <1>6 DEF GInv, ProgressEffect

\* A publisher's step that leaves the requests, the heads and the records'
\* requests alone, with nothing selected after it.
LEMMA QuietGivesUpNothing ==
    ASSUME TInv, GInv, UNCHANGED <<manifest, req, givenUp>>,
           \A g \in Gen : tails'[g].by = tails[g].by,
           pub'.at \notin Selecting \/ pub' = pub
    PROVE  GInv'
<1>1. CandidateCovers'
  <2>1. CASE pub'.at \notin Selecting
      BY <2>1, NothingInHand
  <2>2. CASE pub' = pub
    <3>1. pub.states \subseteq Req
        BY DEF TInv, Types, PubType
    <3>2. \A r \in pub.states : /\ Good(r)' <=> Good(r)
                                /\ Current(GenOf[r])' <=> Current(GenOf[r])
                                /\ Covered(r) => Covered(r)'
        BY <3>1 DEF Good, Current, Covered
    <3> QED BY <2>2, <3>2 DEF GInv, CandidateCovers
  <2> QED BY <2>1, <2>2
<1>2. givenUp' \subseteq Req /\ LeftSettled' /\ CollectCovered'
    BY GivenUpKept
<1> QED BY <1>1, <1>2 DEF GInv

\* A flush starts: the request of the record stays the same.
LEMMA FlushStartGivesUpNothing ==
    ASSUME TInv, GInv, NEW g, NEW reason, FlushStart(g, reason)
    PROVE  GInv'
<1>1. /\ g \in Gen /\ tails \in [Gen -> RecordType]
      /\ tails' = [tails EXCEPT ![g].force = TRUE]
      /\ pub' = [IdlePub EXCEPT !.at = "write", !.rec = tails[g], !.reason = reason]
      /\ UNCHANGED <<manifest, req, givenUp>>
    BY DEF FlushStart, Flushable, Records, store, TInv, Types
<1>2. \A h \in Gen : tails'[h].by = tails[h].by
    BY <1>1 DEF RecordType
<1>3. pub'.at \notin Selecting
    BY <1>1 DEF IdlePub, Selecting
<1> QED BY <1>1, <1>2, <1>3, QuietGivesUpNothing

\* Of two selected requests, the later one is of the generation of the earlier
\* one if that is the current one.
LEMMA SelectedInOrder ==
    ASSUME TInv, pub.at \in Selecting, NEW q \in pub.states, NEW r \in pub.states,
           Current(GenOf[r]), r <= q
    PROVE  GenOf[q] = GenOf[r]
<1>1. /\ q \in Req /\ r \in Req /\ ChatOf(q) = ChatOf(r) /\ Admitted(q) /\ Admitted(r)
      /\ q \in Nat /\ r \in Nat
    BY SelectedFacts, Constants DEF Admitted
<1>2. CASE q = r
    BY <1>2
<1>3. CASE r < q
    BY <1>1, <1>3 DEF TInv, Succession
<1> QED BY <1>1, <1>2, <1>3

\* The selected requests leave.
LEMMA LeaveGivesUp ==
    ASSUME TInv, GInv, LeaveEffect, givenUp \subseteq givenUp', givenUp' \subseteq Req,
           \A r \in pub.states : Good(r) /\ Current(GenOf[r]) =>
             r <= tails'[GenOf[r]].by \/ Covered(r)'
    PROVE  GInv'
<1>1. pub.at \in Selecting /\ Leave(pub.states) /\ pub' = IdlePub /\ UNCHANGED manifest
    BY DEF LeaveEffect
<1>2. /\ \A r \in Req : r \notin pub.states => req'[r] = req[r]
      /\ \A r \in Req : /\ Live(r)' <=> Live(r) /\ r \notin pub.states
                        /\ Good(r)' <=> Good(r)
      /\ \A r \in Req : req'[r].phase \in {"new", "finished"} => req'[r] = req[r]
    BY <1>1, LeaveFacts
<1>3. \A q \in pub.states : q \in Req /\ ChatOf(q) = PubChat /\ GenChat[GenOf[q]] = PubChat /\ Live(q)
    BY <1>1, SelectedFacts
<1>4. \A g \in Gen : Current(g)' <=> Current(g)
    BY <1>1 DEF Current
<1>5. LeftSettled'
  <2> SUFFICES ASSUME NEW r \in Req, req'[r].phase = "gone", Good(r)', Current(GenOf[r])'
               PROVE  r <= manifest'[ChatOf(r)].by \/ r <= tails'[GenOf[r]].by \/ Covered(r)'
      BY DEF LeftSettled
  <2>1. Good(r) /\ Current(GenOf[r]) /\ GenOf[r] \in Gen
      BY <1>2, <1>4, Constants
  <2>2. CASE r \in pub.states
      BY <2>1, <2>2
  <2>3. CASE r \notin pub.states
    <3>1. req[r].phase = "gone"
        BY <1>2, <2>3
    <3>2. r <= manifest[ChatOf(r)].by \/ r <= tails[GenOf[r]].by \/ Covered(r)'
        BY <2>1, <3>1, CoveredStays DEF GInv, LeftSettled
    <3>3. CASE tails'[GenOf[r]] # tails[GenOf[r]]
      <4>1. PICK by \in pub.states : GenOf[r] = GenOf[by] /\ tails'[GenOf[r]].by = by
          BY <2>1, <3>3 DEF LeaveEffect, RecordSameOrNew
      <4>2. by \in Req /\ ChatOf(by) = ChatOf(r) /\ Live(by)
          BY <1>3, <4>1 DEF ChatOf
      <4>3. r < by
          BY <3>1, <4>2 DEF TInv, Departure
      <4> QED BY <4>1, <4>2, <4>3, Constants
    <3> QED BY <1>1, <3>2, <3>3
  <2> QED BY <2>2, <2>3
<1>6. CollectCovered'
  <2> SUFFICES ASSUME NEW n \in Req, NEW r \in Req, req'[n].phase = "finished", req'[n].collectOnly,
                      Live(r)', ChatOf(r) = ChatOf(n), r <= n, Good(r)', Current(GenOf[r])'
               PROVE  Covered(r)'
      BY DEF CollectCovered
  <2>1. req[n].phase = "finished" /\ req[n].collectOnly /\ Live(r) /\ Good(r) /\ Current(GenOf[r])
      BY <1>2, <1>4, Constants
  <2> QED BY <2>1, CoveredStays DEF GInv, CollectCovered
<1>7. CandidateCovers'
    BY <1>1, NothingInHand DEF IdlePub, Selecting
<1> QED BY <1>5, <1>6, <1>7 DEF GInv

\* The candidate is dropped, and stands for the older ones.
LEMMA BuildRejectsGivesUp ==
    ASSUME TInv, GInv, BuildRejects
    PROVE  GInv'
<1>1. pub.at = "build" /\ givenUp' = givenUp \cup {pub.rec.by} /\ LeaveEffect
    BY BuildRejectsKeeps DEF BuildRejects
<1>2. PICK by \in pub.states : by = pub.rec.by /\ by \in Req
    BY <1>1, SelectedFacts DEF TInv, Candidate, Selecting
<1>3. givenUp \subseteq givenUp' /\ givenUp' \subseteq Req /\ by \in givenUp'
    BY <1>1, <1>2 DEF GInv
<1>4. ASSUME NEW r \in pub.states, Good(r), Current(GenOf[r])
      PROVE  Covered(r)'
  <2>1. CASE Covered(r)
      BY <1>3, <2>1, CoveredStays
  <2>2. CASE r <= by
    <3>1. GenOf[by] = GenOf[r] /\ r \in Nat /\ by \in Nat
        BY <1>1, <1>4, <2>2, SelectedInOrder, SelectedFacts, Constants DEF Selecting
    <3> QED BY <1>3, <2>2, <3>1 DEF Covered
  <2> QED BY <1>1, <1>2, <1>4, <2>1, <2>2 DEF GInv, CandidateCovers
<1> QED BY <1>1, <1>3, <1>4, LeaveGivesUp

\* The record of the candidate is installed.
LEMMA InstallGivesUpNothing ==
    ASSUME TInv, GInv, Install
    PROVE  GInv'
<1>1. /\ pub.at = "install" /\ givenUp' = givenUp /\ LeaveEffect
      /\ tails' = [tails EXCEPT ![GenOf[pub.rec.by]] = pub.rec]
    BY InstallKeeps DEF Install
<1>2. PICK by \in pub.states : by = pub.rec.by /\ by \in Req /\ GenOf[by] \in Gen
    BY <1>1, SelectedFacts DEF TInv, Candidate, Selecting
<1>3. tails'[GenOf[by]].by = by
    BY <1>1, <1>2 DEF TInv, Types
<1>4. ASSUME NEW r \in pub.states, Good(r), Current(GenOf[r])
      PROVE  r <= tails'[GenOf[r]].by \/ Covered(r)'
  <2>1. CASE Covered(r)
      BY <1>1, <2>1, CoveredStays
  <2>2. CASE r <= by
    <3>1. GenOf[by] = GenOf[r]
        BY <1>1, <1>4, <2>2, SelectedInOrder DEF Selecting
    <3> QED BY <1>3, <2>2, <3>1
  <2> QED BY <1>1, <1>2, <1>4, <2>1, <2>2 DEF GInv, CandidateCovers
<1> QED BY <1>1, <1>4, LeaveGivesUp DEF GInv

\* Without a candidate: what is good was given up before.
LEMMA CollectFailedGivesUpNothing ==
    ASSUME TInv, GInv, CollectFailed
    PROVE  GInv'
<1>1. pub.at = "collect" /\ givenUp' = givenUp /\ LeaveEffect
    BY CollectFailedKeeps DEF CollectFailed
<1>2. \A r \in pub.states : Good(r) /\ Current(GenOf[r]) => Covered(r)'
    BY <1>1, CoveredStays DEF GInv, CandidateCovers
<1> QED BY <1>1, <1>2, LeaveGivesUp DEF GInv

\* After an error the chat is only collected.
LEMMA CollectLaterGivesUp ==
    ASSUME TInv, GInv, pub.at \in Selecting, CollectLater, UNCHANGED <<manifest, tails>>,
           givenUp \subseteq givenUp', givenUp' \subseteq Req,
           \A r \in pub.states : Good(r) /\ Current(GenOf[r]) => Covered(r)'
    PROVE  GInv'
<1> DEFINE n == Newest(pub.states)
<1>1. /\ n \in pub.states /\ n \in Req /\ n \in Nat
      /\ \A q \in pub.states : q \in Req /\ ChatOf(q) = ChatOf(n)
    BY SelectedFacts, Constants DEF PubChat
<1> HIDE DEF n
<1>2. pub' = IdlePub /\ req' = [req EXCEPT ![n].collectOnly = TRUE] /\ req \in [Req -> RequestType]
    BY DEF CollectLater, n, TInv, Types
<1>3. /\ \A q \in Req : q # n => req'[q] = req[q]
      /\ \A q \in Req : /\ req'[q].phase = req[q].phase /\ req'[q].head = req[q].head
                        /\ req'[q].failed = req[q].failed
    BY <1>1, <1>2 DEF RequestType
<1>4. /\ \A q \in Req : (Live(q)' <=> Live(q)) /\ (Good(q)' <=> Good(q))
      /\ \A g \in Gen : Current(g)' <=> Current(g)
    BY <1>3 DEF Live, Good, Current
<1>5. LeftSettled'
  <2> SUFFICES ASSUME NEW r \in Req, req'[r].phase = "gone", Good(r)', Current(GenOf[r])'
               PROVE  r <= manifest[ChatOf(r)].by \/ r <= tails[GenOf[r]].by \/ Covered(r)'
      BY DEF LeftSettled
  <2>1. req[r].phase = "gone" /\ Good(r) /\ Current(GenOf[r])
      BY <1>3, <1>4, Constants
  <2> QED BY <2>1, CoveredStays DEF GInv, LeftSettled
<1>6. CollectCovered'
  <2> SUFFICES ASSUME NEW m \in Req, NEW r \in Req, req'[m].phase = "finished", req'[m].collectOnly,
                      Live(r)', ChatOf(r) = ChatOf(m), r <= m, Good(r)', Current(GenOf[r])'
               PROVE  Covered(r)'
      BY DEF CollectCovered
  <2>1. Live(r) /\ Good(r) /\ Current(GenOf[r]) /\ r \in Nat
      BY <1>4, Constants
  <2>2. CASE m = n
    <3>1. r \in pub.states
      <4>1. SUFFICES ASSUME r \notin pub.states PROVE FALSE
          OBVIOUS
      <4>2. n < r
          BY <1>1, <2>1, <2>2, <4>1 DEF TInv, SelectedStill
      <4> QED BY <1>1, <2>1, <2>2, <4>2
    <3> QED BY <2>1, <3>1
  <2>3. CASE m # n
    <3>1. req[m].phase = "finished" /\ req[m].collectOnly
        BY <1>3, <2>3
    <3> QED BY <2>1, <3>1, CoveredStays DEF GInv, CollectCovered
  <2> QED BY <2>2, <2>3
<1>7. CandidateCovers'
    BY <1>2, NothingInHand DEF IdlePub, Selecting
<1> QED BY <1>5, <1>6, <1>7 DEF GInv

\* The record cannot be built, or the collection fails.
LEMMA FailuresGiveUp ==
    ASSUME TInv, GInv, BuildFails \/ CollectFails
    PROVE  GInv'
<1>1. CASE BuildFails
  <2>1. /\ pub.at = "build" /\ givenUp' = givenUp \cup {pub.rec.by} /\ CollectLater
        /\ UNCHANGED <<manifest, tails>>
      BY <1>1 DEF BuildFails, store
  <2>2. PICK by \in pub.states : by = pub.rec.by /\ by \in Req
      BY <2>1, SelectedFacts DEF TInv, Candidate, Selecting
  <2>3. givenUp \subseteq givenUp' /\ givenUp' \subseteq Req /\ by \in givenUp'
      BY <2>1, <2>2 DEF GInv
  <2>4. ASSUME NEW r \in pub.states, Good(r), Current(GenOf[r])
        PROVE  Covered(r)'
    <3>1. CASE Covered(r)
        BY <2>3, <3>1, CoveredStays
    <3>2. CASE r <= by
      <4>1. GenOf[by] = GenOf[r] /\ r \in Nat /\ by \in Nat
          BY <2>1, <2>4, <3>2, SelectedInOrder, SelectedFacts, Constants DEF Selecting
      <4> QED BY <2>3, <3>2, <4>1 DEF Covered
    <3> QED BY <2>1, <2>2, <2>4, <3>1, <3>2 DEF GInv, CandidateCovers
  <2> QED BY <2>1, <2>3, <2>4, CollectLaterGivesUp DEF Selecting
<1>2. CASE CollectFails
  <2>1. pub.at = "collect" /\ CollectLater /\ UNCHANGED <<manifest, tails, givenUp>>
      BY <1>2 DEF CollectFails, store
  <2>2. \A r \in pub.states : Good(r) /\ Current(GenOf[r]) => Covered(r)'
      BY <2>1, CoveredStays DEF GInv, CandidateCovers
  <2> QED BY <2>1, <2>2, CollectLaterGivesUp DEF Selecting, GInv
<1> QED BY <1>1, <1>2

\* A publication commits the head, or gives it up.
LEMMA CommitGivesUp ==
    ASSUME TInv, GInv, NEW by \in Req \cup {0}, CommitEffect(by),
           givenUp \subseteq givenUp', givenUp' \subseteq Req,
           by = pub.rec.by \/ (by = manifest[FlushChat].by /\ pub.rec.by \in givenUp')
    PROVE  GInv'
<1>1. PICK c \in Chat, g \in Gen, rby \in Req :
        /\ c = FlushChat /\ g = FlushGen /\ rby = pub.rec.by /\ GenOf[rby] = g /\ GenChat[g] = c
        /\ rby \in Nat
    BY FlushFacts, Constants DEF CommitEffect, Flushing
<1>2. /\ pub' = IdlePub /\ UNCHANGED req
      /\ by = manifest[c].by \/ (by = rby /\ Current(g))
      /\ manifest' = [manifest EXCEPT ![c].by = by] /\ manifest \in [Chat -> ManifestType]
      /\ \A h \in Gen : h # g => tails'[h] = tails[h]
      /\ tails[g].by = rby
    BY <1>1 DEF CommitEffect, Complete, Installed, TInv, Types
<1>3. /\ manifest'[c].by = by /\ \A d \in Chat : d # c => manifest'[d] = manifest[d]
      /\ \A d \in Chat : manifest'[d].gen = manifest[d].gen
      /\ manifest[c].by \in Req \cup {0}
    BY <1>1, <1>2 DEF ManifestType
<1>4. /\ \A h \in Gen : Current(h)' <=> Current(h)
      /\ \A r \in Req : (Live(r)' <=> Live(r)) /\ (Good(r)' <=> Good(r))
    BY <1>2, <1>3, Constants DEF Current, Live, Good
<1>5. by \in Nat /\ manifest[c].by \in Nat
    BY <1>3, RequestNumbers
<1>6. Current(g) => manifest[c].by <= by
  <2>1. rby # 0
      BY <1>1, Constants
  <2>2. Current(g) => manifest[c].by <= rby
      BY <1>1, <1>2, <2>1, NoRecordType DEF TInv, RecordsGood, Records
  <2> QED BY <1>2, <1>5, <2>2
<1>7. LeftSettled'
  <2> SUFFICES ASSUME NEW r \in Req, req[r].phase = "gone", Good(r), Current(GenOf[r])
               PROVE  r <= manifest'[ChatOf(r)].by \/ r <= tails'[GenOf[r]].by \/ Covered(r)'
      BY <1>2, <1>4, Constants DEF LeftSettled
  <2>1. /\ r <= manifest[ChatOf(r)].by \/ r <= tails[GenOf[r]].by \/ Covered(r)'
        /\ GenOf[r] \in Gen /\ ChatOf(r) \in Chat /\ GenChat[GenOf[r]] = ChatOf(r) /\ r \in Nat
      BY CoveredStays, Constants DEF GInv, LeftSettled
  <2>2. CASE ChatOf(r) # c
      BY <1>1, <1>2, <1>3, <2>1, <2>2
  <2>3. CASE ChatOf(r) = c /\ GenOf[r] # g
    <3>1. ~Current(g)
        BY <1>1, <2>1, <2>3 DEF Current
    <3> QED BY <1>2, <1>3, <2>1, <2>3, <3>1
  <2>4. CASE ChatOf(r) = c /\ GenOf[r] = g
    <3>1. CASE r <= manifest[c].by
        BY <1>3, <1>5, <1>6, <2>1, <2>4, <3>1
    <3>2. CASE r <= rby
      <4>1. CASE by = rby
          BY <1>3, <2>4, <3>2, <4>1
      <4>2. CASE rby \in givenUp'
          BY <1>1, <2>4, <3>2, <4>2 DEF Covered
      <4> QED BY <1>1, <4>1, <4>2
    <3> QED BY <1>2, <2>1, <2>4, <3>1, <3>2
  <2> QED BY <2>2, <2>3, <2>4
<1>8. CollectCovered'
    BY <1>2, <1>4, CoveredStays, Constants DEF GInv, CollectCovered
<1>9. CandidateCovers'
    BY <1>2, NothingInHand DEF IdlePub, Selecting
<1> QED BY <1>7, <1>8, <1>9 DEF GInv

\* publish, and its failure.
LEMMA PublishGivesUp ==
    ASSUME TInv, GInv, Publish \/ PublishFails
    PROVE  GInv'
<1>1. pub.rec.by \in Req
    BY FlushFacts DEF Publish, PublishFails, Flushing
<1>2. CASE Publish
  <2>1. PICK by \in Req \cup {0} :
          /\ CommitEffect(by)
          /\ by = pub.rec.by \/ (by = manifest[FlushChat].by /\ pub.rec.by \in givenUp')
          /\ givenUp \subseteq givenUp' /\ givenUp' \subseteq givenUp \cup {pub.rec.by}
      BY <1>2, PublishEffect
  <2> QED BY <1>1, <2>1, CommitGivesUp DEF GInv
<1>3. CASE PublishFails
  <2>1. givenUp' = givenUp
      BY <1>3 DEF PublishFails
  <2>2. PICK by \in Req \cup {0} : by = pub.rec.by /\ CommitEffect(by)
      BY <1>1, <1>3, PublishFailsEffect
  <2> QED BY <2>1, <2>2, CommitGivesUp DEF GInv
<1> QED BY <1>2, <1>3

\* Every step keeps account of what was given up.
LEMMA NextGInv == TInv /\ GInv /\ [Next]_vars => GInv'
<1> SUFFICES ASSUME TInv, GInv, [Next]_vars PROVE GInv'
    OBVIOUS
<1>1. ASSUME NEW r \in Req, Scheduler(r) PROVE GInv'
  <2>1. givenUp' = givenUp
      BY <1>1 DEF Scheduler, NewGeneration, NewTurn, Bypass, Finish, Cancel, FinishUnstored
  <2>2. ArrivalEffect \/ ProgressEffect(r)
      BY <1>1, NewGenerationKeeps, NewTurnKeeps, FinishKeeps, CancelKeeps, FinishUnstoredKeeps
      DEF Scheduler
  <2> QED BY <2>1, <2>2, ArrivalGivesUpNothing, ProgressGivesUpNothing
<1>2. ASSUME NEW r \in Req, Pool(r) PROVE GInv'
  <2>1. givenUp' = givenUp
      BY <1>2 DEF Pool, CopyTail, WritePrefix, WritePrefixFails
  <2>2. ProgressEffect(r)
      BY <1>2, CopyTailKeeps, WritePrefixKeeps DEF Pool
  <2> QED BY <2>1, <2>2, ProgressGivesUpNothing
<1>3. CASE Publisher
  <2>1. CASE (\E c \in Chat : Select(c)) \/ Build
      BY <2>1, SelectGivesUpNothing, BuildGivesUpNothing
  <2>2. CASE BuildRejects \/ Install \/ CollectFailed
      BY <2>2, BuildRejectsGivesUp, InstallGivesUpNothing, CollectFailedGivesUpNothing
  <2>3. CASE BuildFails \/ CollectFails \/ Publish \/ PublishFails
      BY <2>3, FailuresGiveUp, PublishGivesUp
  <2>4. CASE (\E g \in Gen : FlushDue(g)) \/ Evict \/ \E c \in Chat : FlushExplicit(c)
      BY <2>4, FlushStartGivesUpNothing DEF FlushDue, Evict, FlushExplicit
  <2>5. CASE Overtaken \/ PublishOvertaken \/ WriteTailFails
    <3>1. UNCHANGED <<manifest, req, tails, givenUp>> /\ pub' = IdlePub
        BY <2>5 DEF Overtaken, PublishOvertaken, WriteTailFails, store
    <3> QED BY <3>1, QuietGivesUpNothing DEF IdlePub, Selecting
  <2>6. CASE WriteTail \/ Prepare
    <3>1. UNCHANGED <<manifest, req, tails, givenUp>>
        BY <2>6 DEF WriteTail, Prepare, store
    <3>2. pub'.at \notin Selecting
        BY <2>6 DEF WriteTail, Prepare, Selecting, TInv, Types, PubType
    <3> QED BY <3>1, <3>2, QuietGivesUpNothing
  <2>7. CASE \E c \in Chat : AnswerWithoutRecord(c)
    <3>1. UNCHANGED <<manifest, req, tails, givenUp, pub>>
        BY <2>7 DEF AnswerWithoutRecord, store
    <3> QED BY <3>1, QuietGivesUpNothing
  <2> QED BY <1>3, <2>1, <2>2, <2>3, <2>4, <2>5, <2>6, <2>7 DEF Publisher
<1>4. CASE Owner
  <2>1. CASE \E c \in AskingChats : AskFlush(c)
    <3>1. UNCHANGED <<manifest, req, tails, givenUp, pub>>
        BY <2>1 DEF AskFlush, store
    <3> QED BY <3>1, QuietGivesUpNothing
  <2>2. CASE \E g \in Gen : Compact(g)
    <3>1. givenUp' = givenUp /\ ArrivalEffect
        BY <2>2, CompactKeeps DEF Compact
    <3> QED BY <3>1, ArrivalGivesUpNothing
  <2> QED BY <1>4, <2>1, <2>2 DEF Owner
<1>5. CASE UNCHANGED vars
  <2>1. UNCHANGED <<manifest, req, tails, givenUp, pub>>
      BY <1>5 DEF vars
  <2> QED BY <2>1, QuietGivesUpNothing
<1> QED BY <1>1, <1>2, <1>3, <1>4, <1>5 DEF Next

-----------------------------------------------------------------------------
(***************************************************************************)
(* The theorems.                                                           *)
(***************************************************************************)
\* Every step preserves the invariant.
LEMMA NextTInv == TInv /\ [Next]_vars => TInv'
<1> SUFFICES ASSUME TInv, [Next]_vars PROVE TInv'
    OBVIOUS
<1>1. ASSUME NEW r \in Req, Scheduler(r) PROVE TInv'
    BY <1>1, NewGenerationKeeps, NewTurnKeeps, FinishKeeps, CancelKeeps, FinishUnstoredKeeps
    DEF Scheduler
<1>2. ASSUME NEW r \in Req, Pool(r) PROVE TInv'
    BY <1>2, CopyTailKeeps, WritePrefixKeeps DEF Pool
<1>3. CASE Publisher
    BY <1>3, SelectKeeps, BuildKeeps, BuildRejectsKeeps, BuildFailsKeeps, InstallKeeps,
       CollectFailedKeeps, CollectFailsKeeps, OvertakenKeeps, FlushKeeps, AnswerWithoutRecordKeeps,
       WriteTailKeeps, WriteTailFailsKeeps, PrepareKeeps, PublishKeeps DEF Publisher
<1>4. CASE Owner
  <2>1. AskingChats \subseteq Chat
      BY TierAssumption
  <2> QED BY <1>4, <2>1, AskFlushKeeps, CompactKeeps DEF Owner
<1>5. CASE UNCHANGED vars
  <2>1. UNCHANGED <<manifest, disk, stores, req, tails, pub, control, impaired>>
      BY <1>5 DEF vars
  <2>2. ArrivalEffect
      BY <2>1 DEF ArrivalEffect, ChatKeptOrRetired, SameOrArrives, SameOrDropped, TInv, Types, OwnGeneration
  <2> QED BY <2>2, ArrivalKeeps
<1> QED BY <1>1, <1>2, <1>3, <1>4, <1>5 DEF Next

\* The invariant that the rest follows from: what the publisher selected, built
\* or is flushing outside the mutex stays in order with what arrives meanwhile.
THEOREM TierInvariant == Spec => []TInv
<1>1. Init => TInv
    BY InitTInv
<1>2. TInv /\ [Next]_vars => TInv'
    BY NextTInv
<1> QED BY <1>1, <1>2, PTL DEF Spec

\* The published head of a chat is complete on disk at every moment (publish,
\* _collect, activate).
THEOREM HeadStaysOnDisk == Spec => []HeadOnDisk
<1>1. TInv => HeadOnDisk
    BY DEF TInv
<1> QED BY <1>1, TierInvariant, PTL

\* A tail record of the chat's generation can be restored and flushed, unless
\* the generation met an I/O error or a block that was never stored.
THEOREM TailsStayRestorable == Spec => []TailRestorable
<1>1. TInv => TailRestorable
  <2> SUFFICES ASSUME TInv, NEW g \in Records \ impaired, Current(g)
               PROVE  HeadOf(tails[g].by) \subseteq
                        disk \cup (IF tails[g].ram THEN {TailBlock(tails[g].by)} ELSE {})
      BY DEF TailRestorable
  <2>1. tails[g].ram /\ PrefixBlocks(tails[g].by) \subseteq disk
      BY DEF TInv, RecordHeld, Sound
  <2>2. tails[g].by \in Req
      BY DEF TInv, RecordsGood, Types, RecordType, Records
  <2> QED BY <2>1, <2>2, HeadParts
<1> QED BY <1>1, TierInvariant, PTL

\* A committed head is that of the record, and in the record's generation.
LEMMA CommitFacts ==
    ASSUME TInv, NEW by, CommitEffect(by), by = pub.rec.by, Complete
    PROVE  /\ FlushChat \in Chat /\ by \in Req /\ Good(by) /\ GenOf[by] = manifest[FlushChat].gen
           /\ manifest[FlushChat].by <= by
           /\ manifest'[FlushChat].by = by /\ \A c \in Chat : c # FlushChat => manifest'[c] = manifest[c]
<1>1. /\ FlushChat \in Chat /\ FlushGen \in Gen /\ by \in Req /\ Good(by) /\ FlushGen = GenOf[by]
      /\ GenChat[FlushGen] = FlushChat
      /\ Current(FlushGen) => FlushGen \in Records /\ tails[FlushGen].by = by
    BY FlushFacts DEF CommitEffect, Flushing
<1>2. Current(FlushGen)
    BY DEF Complete
<1>3. manifest' = [manifest EXCEPT ![FlushChat].by = by] /\ manifest \in [Chat -> ManifestType]
    BY DEF CommitEffect, TInv, Types
<1>4. manifest'[FlushChat].by = by /\ \A c \in Chat : c # FlushChat => manifest'[c] = manifest[c]
    BY <1>1, <1>3 DEF ManifestType
<1>5. manifest[FlushChat].by <= by
    BY <1>1, <1>2 DEF TInv, RecordsGood
<1> QED BY <1>1, <1>2, <1>4, <1>5 DEF Current

\* No other step but the activation of a generation changes a manifest.
LEMMA ManifestSteps ==
    ASSUME TInv, [Next]_vars
    PROVE  \/ UNCHANGED manifest
           \/ \A c \in Chat : manifest'[c] = manifest[c] \/ manifest'[c].gen # manifest[c].gen
           \/ CommitEffect(pub.rec.by) /\ Complete
<1>1. ASSUME NEW g \in Gen, Activate(g)
      PROVE  \A c \in Chat : manifest'[c] = manifest[c] \/ manifest'[c].gen # manifest[c].gen
  <2>1. CASE Current(g)
      BY <1>1, <2>1 DEF Activate, store
  <2>2. CASE ~Current(g)
    <3>1. PICK new : manifest' = [manifest EXCEPT ![GenChat[g]] = new] /\ new.gen = g
        BY <1>1, <2>2 DEF Activate
    <3>2. manifest \in [Chat -> ManifestType] /\ GenChat[g] \in Chat
        BY Constants DEF TInv, Types
    <3> QED BY <2>2, <3>1, <3>2 DEF Current
  <2> QED BY <2>1, <2>2
<1>2. ASSUME NEW r \in Req, Scheduler(r) PROVE UNCHANGED manifest \/ \E g \in Gen : Activate(g)
  <2>1. CASE NewGeneration(r)
      BY <2>1, Constants DEF NewGeneration
  <2> QED BY <1>2, <2>1 DEF Scheduler, NewTurn, Bypass, Finish, Cancel, FinishUnstored, store
<1>3. ASSUME NEW r \in Req, Pool(r) PROVE UNCHANGED manifest
    BY <1>3 DEF Pool, CopyTail, WritePrefix, WritePrefixFails, store
<1>4. CASE Publisher
  <2>1. CASE Publish
    <3>1. PICK by : CommitEffect(by) /\ ((by = pub.rec.by /\ Complete) \/ by = manifest[FlushChat].by)
        BY <2>1, PublishEffect
    <3>2. CASE by = manifest[FlushChat].by
      <4>1. manifest' = [manifest EXCEPT ![FlushChat].by = manifest[FlushChat].by]
          BY <3>1, <3>2 DEF CommitEffect
      <4>2. manifest \in [Chat -> ManifestType]
          BY DEF TInv, Types
      <4> QED BY <4>1, <4>2 DEF ManifestType
    <3> QED BY <3>1, <3>2
  <2>2. CASE PublishFails
      BY <2>2, PublishFailsEffect
  <2>3. CASE CollectFailed
      BY <2>3 DEF CollectFailed, Collect, store
  <2>4. CASE \E c \in Chat : Select(c) \/ FlushExplicit(c) \/ AnswerWithoutRecord(c)
      BY <2>4 DEF Select, FlushExplicit, FlushStart, AnswerWithoutRecord, store
  <2>5. CASE (\E g \in Gen : FlushDue(g)) \/ Evict
      BY <2>5 DEF FlushDue, Evict, FlushStart, store
  <2>6. CASE Build \/ BuildRejects \/ BuildFails \/ Install \/ CollectFails \/ Overtaken
      BY <2>6 DEF Build, BuildRejects, BuildFails, Install, CollectFails, Overtaken, store
  <2>7. CASE WriteTail \/ WriteTailFails \/ Prepare \/ PublishOvertaken
      BY <2>7 DEF WriteTail, WriteTailFails, Prepare, PublishOvertaken, store
  <2> QED BY <1>4, <2>1, <2>2, <2>3, <2>4, <2>5, <2>6, <2>7 DEF Publisher
<1>5. CASE Owner
  <2>1. CASE \E c \in AskingChats : AskFlush(c)
      BY <2>1 DEF AskFlush, store
  <2>2. CASE \E g \in Gen : Compact(g)
      BY <1>1, <2>2 DEF Compact
  <2> QED BY <1>5, <2>1, <2>2 DEF Owner
<1>6. CASE UNCHANGED vars
    BY <1>6 DEF vars
<1> QED BY <1>1, <1>2, <1>3, <1>4, <1>5, <1>6 DEF Next

\* Within a generation the durable head only moves to later requests, and never
\* to one that failed or was cancelled (publish, _publish_ready).
THEOREM HeadsNeverRegress == Spec => HeadNeverRegresses
<1>1. ASSUME TInv, [Next]_vars, NEW c \in Chat,
             manifest'[c].gen = manifest[c].gen, manifest'[c].by # manifest[c].by
      PROVE  manifest'[c].by > manifest[c].by /\ ~req[manifest'[c].by].failed
  <2>1. CommitEffect(pub.rec.by) /\ Complete
      BY <1>1, ManifestSteps
  <2>2. PICK by : by = pub.rec.by /\ CommitEffect(by)
      BY <2>1
  <2>3. /\ by \in Req /\ Good(by) /\ manifest[FlushChat].by <= by
        /\ manifest'[FlushChat].by = by /\ c = FlushChat
      BY <1>1, <2>1, <2>2, CommitFacts
  <2>4. manifest[c].by \in Nat /\ by \in Nat
    <3>1. manifest[c].by \in Req \cup {0}
        BY <1>1 DEF TInv, Types, ManifestType
    <3> QED BY <2>3, <3>1, RequestNumbers
  <2> QED BY <1>1, <2>3, <2>4 DEF Good
<1>2. TInv /\ [Next]_vars =>
        \A c \in Chat : manifest'[c].gen = manifest[c].gen /\ manifest'[c].by # manifest[c].by =>
          manifest'[c].by > manifest[c].by /\ ~req[manifest'[c].by].failed
    BY <1>1
<1> QED BY <1>2, TierInvariant, PTL DEF Spec, HeadNeverRegresses

\* What an answer writes.
LEMMA AnswerValue ==
    ASSUME Types, NEW c \in Chat, NEW a, Answer(c, a)
    PROVE  control'[c].answer = a /\ \A d \in Chat : d # c => control'[d] = control[d]
BY DEF Types, Answer, ControlType

\* No other step but these writes an answer.
LEMMA AnswerSteps ==
    ASSUME TInv, [Next]_vars
    PROVE  \/ UNCHANGED control
           \/ \E c \in Chat : AskFlush(c) \/ AnswerWithoutRecord(c)
           \/ FlushChat \in Chat /\ Answer(FlushChat, "error")
           \/ Publish
<1>1. ASSUME NEW r \in Req, Scheduler(r) \/ Pool(r) PROVE UNCHANGED control
    BY <1>1 DEF Scheduler, NewGeneration, NewTurn, Bypass, Finish, Cancel, FinishUnstored,
                Pool, CopyTail, WritePrefix, WritePrefixFails
<1>2. CASE Publisher
  <2>1. pub.at \in Flushing => FlushChat \in Chat
      BY FlushFacts
  <2>2. CASE PublishFails
      BY <2>1, <2>2, PublishFailsEffect DEF PublishFails, Flushing
  <2>3. CASE WriteTailFails
      BY <2>1, <2>3 DEF WriteTailFails, AnswerExplicit, Flushing
  <2>4. CASE \E c \in Chat : Select(c) \/ FlushExplicit(c)
      BY <2>4 DEF Select, FlushExplicit, FlushStart
  <2>5. CASE (\E g \in Gen : FlushDue(g)) \/ Evict
      BY <2>5 DEF FlushDue, Evict, FlushStart
  <2>6. CASE Build \/ BuildRejects \/ BuildFails \/ Install \/ CollectFailed \/ CollectFails \/ Overtaken
      BY <2>6 DEF Build, BuildRejects, BuildFails, Install, CollectFailed, CollectFails, Overtaken
  <2>7. CASE WriteTail \/ Prepare \/ PublishOvertaken
      BY <2>7 DEF WriteTail, Prepare, PublishOvertaken
  <2> QED BY <1>2, <2>2, <2>3, <2>4, <2>5, <2>6, <2>7 DEF Publisher
<1>3. CASE Owner
  <2>1. CASE \E c \in AskingChats : AskFlush(c)
      BY <2>1, TierAssumption
  <2>2. CASE \E g \in Gen : Compact(g)
      BY <2>2 DEF Compact
  <2> QED BY <1>3, <2>1, <2>2 DEF Owner
<1>4. CASE UNCHANGED vars
    BY <1>4 DEF vars
<1> QED BY <1>1, <1>2, <1>3, <1>4 DEF Next

\* What the publisher gave up is accounted for at every moment.
LEMMA GivenUpInvariant == Spec => []GInv
<1>1. Init => GInv
    BY DEF Init, GInv, LeftSettled, CollectCovered, CandidateCovers, NewState, IdlePub
<1>2. TInv /\ GInv /\ [Next]_vars => GInv'
    BY NextGInv
<1> QED BY <1>1, <1>2, TierInvariant, PTL DEF Spec

\* What an answer that claims durability relies on: the generation is current,
\* and the durable head is, after the answer, the record's or the same, with no
\* record left.
LEMMA Answered ==
    ASSUME TInv, [Next]_vars, NEW c \in Chat, NEW g \in Gen, control[c].gen = g,
           control[c].answer = "pending", control'[c].answer \in {"flushed", "already_durable"}
    PROVE  /\ Current(g) /\ GenChat[g] = c
           /\ manifest[c].by \in Nat /\ manifest'[c].by \in Nat /\ tails[g].by \in Nat
           /\ manifest[c].by <= manifest'[c].by /\ tails[g].by <= manifest'[c].by
<1>1. Types /\ g # None /\ GenChat[g] = c
    BY Constants DEF TInv, OwnGeneration
<1>2. tails[g].by \in Nat /\ manifest[c].by \in Nat
  <2>1. tails[g].by \in Req \cup {0} /\ manifest[c].by \in Req \cup {0}
      BY <1>1 DEF Types, RecordType, ManifestType
  <2> QED BY <2>1, RequestNumbers
<1>3. CASE UNCHANGED control
    BY <1>3
<1>4. ASSUME NEW d \in Chat, AskFlush(d) PROVE FALSE
  <2>1. control[d].answer = "none" /\ control' = [control EXCEPT ![d] = [gen |-> manifest[d].gen, answer |-> "pending"]]
      BY <1>4 DEF AskFlush, NoControl
  <2>2. d # c
      BY <2>1
  <2>3. control'[c] = control[c]
      BY <1>1, <2>1, <2>2 DEF Types
  <2> QED BY <2>3
<1>5. CASE FlushChat \in Chat /\ Answer(FlushChat, "error")
  <2>1. control'[FlushChat].answer = "error" /\ (c # FlushChat => control'[c] = control[c])
      BY <1>1, <1>5, AnswerValue
  <2> QED BY <2>1
<1>6. CASE \E d \in Chat : AnswerWithoutRecord(d)
  <2>1. PICK d \in Chat, a \in {"already_durable", "error"} :
            /\ AnswerWithoutRecord(d) /\ Answer(d, a)
            /\ a = IF stores[d] = control[d].gen /\ Current(control[d].gen)
                   THEN "already_durable" ELSE "error"
      BY <1>6 DEF AnswerWithoutRecord
  <2>2. control'[d].answer = a /\ (c # d => control'[c] = control[c])
      BY <1>1, <2>1, AnswerValue
  <2>3. c = d /\ Current(g)
      BY <2>1, <2>2
  <2>4. UNCHANGED manifest /\ g \notin Records
      BY <2>1, <2>3 DEF AnswerWithoutRecord, store
  <2>5. tails[g].by = 0
      BY <2>4, NoRecordType DEF Records
  <2> QED BY <1>1, <1>2, <2>3, <2>4, <2>5
<1>7. CASE Publish
  <2>1. PICK by : /\ CommitEffect(by)
                  /\ \/ by = pub.rec.by /\ Complete /\ (Answer(FlushChat, "flushed") \/ UNCHANGED control)
                     \/ by = manifest[FlushChat].by /\ (Answer(FlushChat, "rejected") \/ UNCHANGED control)
                  /\ pub.reason = "explicit" \/ UNCHANGED control
      BY <1>7, PublishEffect
  <2>2. pub.at \in Flushing /\ FlushChat \in Chat
      BY <2>1, FlushFacts DEF CommitEffect, Flushing
  <2>3. ~UNCHANGED control
      OBVIOUS
  <2>4. c = FlushChat /\ ~Answer(FlushChat, "rejected")
    <3>1. c = FlushChat
        BY <1>1, <2>1, <2>2, <2>3, AnswerValue
    <3>2. Answer(FlushChat, "rejected") => control'[FlushChat].answer = "rejected"
        BY <1>1, <2>2, AnswerValue
    <3> QED BY <3>1, <3>2
  <2>5. by = pub.rec.by /\ Complete /\ pub.reason = "explicit"
      BY <2>1, <2>3, <2>4
  <2>6. FlushGen = g
      BY <2>2, <2>4, <2>5 DEF TInv, Flushed
  <2>7. Current(g) /\ tails[g].by = by
      BY <2>1, <2>5, <2>6 DEF Complete, CommitEffect, Installed
  <2>8. manifest[c].by <= by /\ manifest'[c].by = by
      BY <2>1, <2>4, <2>5, CommitFacts
  <2> QED BY <1>1, <1>2, <2>7, <2>8
<1> QED BY <1>3, <1>4, <1>5, <1>6, <1>7, AnswerSteps

\* A flush that is answered "flushed" or "already_durable" left no complete
\* request of the generation behind the durable head, except what the publisher
\* had given up: the generation met an error, and a snapshot of that request or
\* of a later one was found incomplete (_force_identity, _flush_record,
\* _publish_ready).
THEOREM FlushAnswersTrue == Spec => FlushAnswerTrue
<1>1. ASSUME TInv, GInv, [Next]_vars, NEW c \in Chat, NEW r \in Req, LeftBehind(c, r)
      PROVE  /\ GenOf[r] \in impaired
             /\ \E q \in givenUp : GenOf[q] = GenOf[r] /\ q >= r
  <2>1. PICK g \in Gen : g = GenOf[r] /\ GenChat[g] = ChatOf(r) /\ r \in Nat
      BY Constants
  <2>2. /\ control[c].gen = g /\ control[c].answer = "pending"
        /\ control'[c].answer \in {"flushed", "already_durable"}
        /\ req[r].phase = "gone" /\ Good(r) /\ r > manifest'[c].by
      BY <1>1, <2>1 DEF LeftBehind, Good
  <2>3. /\ Current(g) /\ GenChat[g] = c
        /\ manifest[c].by \in Nat /\ manifest'[c].by \in Nat /\ tails[g].by \in Nat
        /\ manifest[c].by <= manifest'[c].by /\ tails[g].by <= manifest'[c].by
      BY <1>1, <2>2, Answered
  <2>4. ~(r <= manifest[c].by) /\ ~(r <= tails[g].by)
      BY <2>1, <2>2, <2>3
  <2>5. g \in impaired
      BY <1>1, <2>1, <2>2, <2>3, <2>4 DEF TInv, Settled, Sound
  <2>6. Covered(r)
      BY <1>1, <2>1, <2>2, <2>3, <2>4 DEF GInv, LeftSettled
  <2> QED BY <2>1, <2>5, <2>6 DEF Covered
<1>2. TInv /\ GInv /\ [Next]_vars =>
        \A c \in Chat, r \in Req : LeftBehind(c, r) =>
          /\ GenOf[r] \in impaired
          /\ \E q \in givenUp : GenOf[q] = GenOf[r] /\ q >= r
    BY <1>1
<1> QED BY <1>2, TierInvariant, GivenUpInvariant, PTL DEF Spec, FlushAnswerTrue
=============================================================================
