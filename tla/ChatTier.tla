------------------------------- MODULE ChatTier -------------------------------
(***************************************************************************)
(* The engine's snapshot tier: ChatFileSystemTierManager of                *)
(* experiments/radiance-public/radiance_chat_tier.py.                      *)
(*                                                                         *)
(* The scheduler thread admits requests, names the head each one settles   *)
(* on and submits its store jobs.  Pool workers write prefix blocks to the *)
(* chat's store and copy the changing tail to RAM.  One publisher thread   *)
(* turns the newest settled request of a quiet chat into a tail record,    *)
(* and flushes records: tail to disk, verification, publication.  It       *)
(* leaves the tier's mutex between those steps.                            *)
(*                                                                         *)
(* Each call of a ChatStore is one step here, which its lock justifies;    *)
(* ChatStore.tla models what happens inside, and crashes.  A request's     *)
(* head is the prefix blocks of its own and of earlier turns, and one tail *)
(* block of its own.  The publisher's passes over chats, records and       *)
(* control files are one choice of the next piece of work.  Only the       *)
(* publisher looks at a request, and only once it has finished and no job  *)
(* of it is outstanding: so its end is one step (head, jobs, finished),    *)
(* and a job is polled (get_finished_jobs) when the pool completes it.     *)
(***************************************************************************)
EXTENDS Naturals, Sequences, FiniteSets

CONSTANTS
    Chat, Gen,          \* chats, and compaction generations of all chats
    None,               \* Python's None
    GenChat,            \* the chat of a generation
    GenOf,              \* the generations that the requests with a qwen_chat name,
                        \* in the order they arrive
    Rewriting,          \* requests whose prompt replaces the turns before it
    DueReq,             \* requests whose head is 8192 tokens past the durable one
    Troubled,           \* requests that may be cancelled, lose blocks to a full
                        \* CPU tier or meet an I/O error
    AskingChats,        \* chats whose owner asks for a flush, once each
    MaxTailChats        \* TAIL_RAM_MAX_CHATS

\* A request is its sequence number; 0 is no request.
Req == 1..Len(GenOf)
ChatOf(r) == GenChat[GenOf[r]]

ASSUME TierAssumption ==
    /\ None \notin Chat \cup Gen
    /\ GenChat \in [Gen -> Chat] /\ GenOf \in Seq(Gen)
    /\ Rewriting \subseteq Req /\ DueReq \subseteq Req /\ Troubled \subseteq Req
    /\ AskingChats \subseteq Chat /\ MaxTailChats \in Nat \ {0}

VARIABLES
    manifest,   \* per chat: chat.json's generation, the request whose head it
                \* names, the retired generations
    disk,       \* block files of the current generations
    stores,     \* _chat_stores: generation of the engine's store for a chat
    req,        \* _chat_requests, and requests before and after they are in it
    tails,      \* _tail_heads: per generation of a chat a record
    lru,        \* its keys, least recently accessed first
    pub,        \* what the publisher thread is doing
    control,    \* flush request of a chat's owner: control file and answer
    impaired,   \* history: generations that met an I/O error or a block that
                \* was never stored
    givenUp     \* history: requests whose snapshot the publisher rejected or
                \* could not build

store == <<manifest, disk>>
vars == <<manifest, disk, stores, req, tails, lru, pub, control, impaired, givenUp>>

NewState == [phase |-> "new", head |-> FALSE, failed |-> FALSE, jobs |-> {},
             ram |-> FALSE, collectOnly |-> FALSE]
NoRecord == [by |-> 0, ram |-> FALSE, force |-> FALSE]
IdlePub == [at |-> "idle", states |-> {}, rec |-> NoRecord, reason |-> "none", ok |-> FALSE]
NoControl == [gen |-> None, answer |-> "none"]

\* A turn extends the turns of its generation since the last rewriting one.
Turns(r) == {q \in 1..r : GenOf[q] = GenOf[r] /\ \A p \in (q + 1)..r : p \notin Rewriting}
PrefixBlocks(r) == {<<"prefix", q>> : q \in Turns(r)}
TailBlock(r) == <<"tail", r>>
HeadOf(r) == IF r = 0 THEN {} ELSE PrefixBlocks(r) \cup {TailBlock(r)}
BlockChat(b) == ChatOf(b[2])

\* Mutant: the wrong end of the sequence.
Oldest(rs) == CHOOSE r \in rs : \A q \in rs : q >= r

Newest(rs) == CHOOSE r \in rs : \A q \in rs : q <= r

\* _states_for_chat
States(c) == {r \in Req : ChatOf(r) = c /\ req[r].phase \in {"running", "finished"}}
Quiet(rs) == \A r \in rs : req[r].phase = "finished" /\ req[r].jobs = {}

(***************************************************************************)
(* The chat's store, one call a step.                                      *)
(***************************************************************************)
Current(g) == manifest[GenChat[g]].gen = g

\* activate: the predecessor's blocks go (its head stays as a fallback that
\* requests of the new generation never read).
Activate(g) ==
    LET c == GenChat[g] IN
    IF Current(g) THEN UNCHANGED store
    ELSE /\ manifest' = [manifest EXCEPT ![c] =
              [gen |-> g, by |-> 0, retired |-> @.retired \cup ({@.gen} \ {None})]]
         /\ disk' = {b \in disk : BlockChat(b) # c}

Collected(c, by) == {b \in disk : BlockChat(b) # c \/ b \in HeadOf(by)}

\* collect keeps the head; a retired store's call does nothing.
Collect(g) ==
    /\ disk' = IF Current(g) THEN Collected(GenChat[g], manifest[GenChat[g]].by) ELSE disk
    /\ UNCHANGED manifest

\* The command line compacts the chat.
Compact(g) ==
    LET chat == manifest[GenChat[g]] IN
    /\ chat.gen \notin {None, g} /\ g \notin chat.retired
    /\ Activate(g)
    /\ UNCHANGED <<stores, req, tails, lru, pub, control, impaired, givenUp>>

(***************************************************************************)
(* The scheduler thread.                                                   *)
(***************************************************************************)
RecordOf(c, g) == GenChat[g] = c /\ tails[g] # NoRecord

\* on_new_request.  A generation the engine has no store for is activated and
\* replaces the chat's tail records ...
Arrives(r) == req[r].phase = "new" /\ \A q \in 1..(r - 1) : req[q].phase # "new"

Admit(r) == req' = [req EXCEPT ![r].phase = "running"]

NewGeneration(r) ==
    LET c == ChatOf(r) IN
    /\ Arrives(r)
    /\ stores[c] # GenOf[r] /\ GenOf[r] \notin manifest[c].retired
    /\ Activate(GenOf[r])
    /\ stores' = [stores EXCEPT ![c] = GenOf[r]]
    /\ tails' = [g \in Gen |-> IF RecordOf(c, g) THEN NoRecord ELSE tails[g]]
    /\ lru' = SelectSeq(lru, LAMBDA g : ~RecordOf(c, g))
    /\ Admit(r)
    /\ UNCHANGED <<pub, control, impaired, givenUp>>

\* ... the store's own generation continues ...
NewTurn(r) ==
    /\ Arrives(r)
    /\ stores[ChatOf(r)] = GenOf[r] /\ Current(GenOf[r])
    /\ Admit(r)
    /\ UNCHANGED <<store, stores, tails, lru, pub, control, impaired, givenUp>>

\* ... and a retired one runs without the durable store.
Bypass(r) ==
    /\ Arrives(r)
    /\ GenOf[r] \in manifest[ChatOf(r)].retired
    /\ req' = [req EXCEPT ![r].phase = "bypass"]
    /\ UNCHANGED <<store, stores, tails, lru, pub, control, impaired, givenUp>>

\* set_snapshot_head, submit_store and on_request_finished: the head is named,
\* the prefix and then the tail are stored.
Finish(r) ==
    /\ req[r].phase = "running"
    /\ req' = [req EXCEPT ![r].phase = "finished", ![r].head = TRUE,
                          ![r].jobs = {"prefix", "tail"}]
    /\ UNCHANGED <<store, stores, tails, lru, pub, control, impaired, givenUp>>

\* A request that is cancelled: its head is marked failed, if it has one.
Cancel(r) ==
    /\ req[r].phase = "running" /\ r \in Troubled
    /\ \E head \in BOOLEAN :
         req' = [req EXCEPT ![r].phase = "finished", ![r].head = head, ![r].failed = head,
                            ![r].jobs = {"prefix"}]
    /\ UNCHANGED <<store, stores, tails, lru, pub, control, impaired, givenUp>>

\* The CPU tier had no room for the prefix or for the tail of a complete request:
\* it is never offered to this tier.
FinishUnstored(r, job) ==
    /\ req[r].phase = "running" /\ r \in Troubled
    /\ req' = [req EXCEPT ![r].phase = "finished", ![r].head = TRUE, ![r].jobs = {job}]
    /\ impaired' = impaired \cup {GenOf[r]}
    /\ UNCHANGED <<store, stores, tails, lru, pub, control, givenUp>>

(***************************************************************************)
(* The pool: _store.                                                       *)
(***************************************************************************)
Done(r, job, success) ==
    req' = [req EXCEPT ![r].jobs = @ \ {job}, ![r].failed = @ \/ ~success,
                       ![r].ram = @ \/ job = "tail"]

\* The tail of the head is copied to RAM.
CopyTail(r) ==
    /\ "tail" \in req[r].jobs
    /\ Done(r, "tail", TRUE)
    /\ UNCHANGED <<store, stores, tails, lru, pub, control, impaired, givenUp>>

\* Other blocks are written; a retired generation or an I/O error fails the job.
WritePrefix(r) ==
    /\ "prefix" \in req[r].jobs
    /\ disk' = IF Current(GenOf[r]) THEN disk \cup PrefixBlocks(r) ELSE disk
    /\ Done(r, "prefix", Current(GenOf[r]))
    /\ UNCHANGED <<manifest, stores, tails, lru, pub, control, impaired, givenUp>>

WritePrefixFails(r) ==
    /\ "prefix" \in req[r].jobs /\ r \in Troubled
    /\ Current(GenOf[r])
    /\ \E written \in SUBSET PrefixBlocks(r) : disk' = disk \cup written
    /\ Done(r, "prefix", FALSE)
    /\ UNCHANGED <<manifest, stores, tails, lru, pub, control, impaired, givenUp>>

(***************************************************************************)
(* The publisher: _publish_ready for a quiet chat.                         *)
(***************************************************************************)
\* Mutant: a cancelled request is as good as another.
AnyHead(rs) == {r \in rs : req[r].head /\ ~req[r].collectOnly}

Successful(rs) == {r \in rs : req[r].head /\ ~req[r].failed /\ ~req[r].collectOnly}

\* Under the mutex: every request has ended and no job is left; the candidate
\* is the newest successful one, unless the chat is only to be collected.
Select(c) ==
    LET rs == States(c)
        collect == req[Newest(rs)].collectOnly IN
    /\ pub = IdlePub
    /\ rs # {} /\ Quiet(rs)
    /\ pub' = [IdlePub EXCEPT !.states = rs,
         !.reason = IF collect THEN "collect" ELSE "publish",
         !.at = IF collect \/ Successful(rs) = {} THEN "collect" ELSE "build",
         !.rec.by = IF collect \/ Successful(rs) = {} THEN 0 ELSE Newest(Successful(rs))]
    /\ UNCHANGED <<store, stores, req, tails, lru, control, impaired, givenUp>>

TailOnDisk(r) == Current(GenOf[r]) /\ TailBlock(r) \in disk

\* A head without the prefix blocks of the durable one replaces it.
Replaces(r) ==
    LET durable == manifest[ChatOf(r)].by IN
    durable # 0 /\ ~(PrefixBlocks(durable) \subseteq PrefixBlocks(r))

\* _build_tail_record, outside the mutex: the tail must be in RAM or on disk ...
Build ==
    LET by == pub.rec.by IN
    /\ pub.at = "build"
    /\ req[by].ram \/ TailOnDisk(by)
    /\ pub' = [pub EXCEPT !.at = "install",
         !.rec = [by |-> by, ram |-> req[by].ram, force |-> by \in DueReq \/ Replaces(by)]]
    /\ UNCHANGED <<store, stores, req, tails, lru, control, impaired, givenUp>>

Leave(rs) == req' = [r \in Req |-> IF r \in rs THEN [req[r] EXCEPT !.phase = "gone"] ELSE req[r]]

\* ... or the candidate is dropped with the other requests (ValueError) ...
BuildRejects ==
    /\ pub.at = "build"
    /\ ~(req[pub.rec.by].ram \/ TailOnDisk(pub.rec.by))
    /\ Leave(pub.states)
    /\ givenUp' = givenUp \cup {pub.rec.by}
    /\ pub' = IdlePub
    /\ UNCHANGED <<store, stores, tails, lru, control, impaired>>

\* ... and after an OSError the chat is only collected.
CollectLater ==
    /\ req' = [req EXCEPT ![Newest(pub.states)].collectOnly = TRUE]
    /\ pub' = IdlePub

BuildFails ==
    /\ pub.at = "build" /\ pub.rec.by \in Troubled
    /\ CollectLater
    /\ impaired' = impaired \cup {GenOf[pub.rec.by]}
    /\ givenUp' = givenUp \cup {pub.rec.by}
    /\ UNCHANGED <<store, stores, tails, lru, control>>

Touch(g) == Append(SelectSeq(lru, LAMBDA h : h # g), g)

PubChat == ChatOf(Newest(pub.states))

\* Under the mutex again: unless a request arrived meanwhile, the record is
\* installed ...
Install ==
    LET by == pub.rec.by IN
    /\ pub.at = "install" /\ States(PubChat) = pub.states
    /\ tails' = [tails EXCEPT ![GenOf[by]] = pub.rec]
    /\ lru' = Touch(GenOf[by])
    /\ Leave(pub.states)
    /\ pub' = IdlePub
    /\ UNCHANGED <<store, stores, control, impaired, givenUp>>

\* Mutant: a failed request is collected although a record of the chat is in RAM.
CollectsAlways == TRUE
\* ... or what a failed request left is collected, if no record of the chat
\* needs it.
Collects == pub.reason = "collect" \/ \A g \in Gen : ~RecordOf(PubChat, g)

CollectFailed ==
    /\ pub.at = "collect" /\ States(PubChat) = pub.states
    /\ IF Collects THEN Collect(GenOf[Newest(pub.states)]) ELSE UNCHANGED store
    /\ Leave(pub.states)
    /\ pub' = IdlePub
    /\ UNCHANGED <<stores, tails, lru, control, impaired, givenUp>>

\* An OSError while collecting.
CollectFails ==
    /\ pub.at = "collect" /\ States(PubChat) = pub.states
    /\ Collects /\ Current(GenOf[Newest(pub.states)])
    /\ Newest(pub.states) \in Troubled
    /\ CollectLater
    /\ UNCHANGED <<store, stores, tails, lru, control, impaired, givenUp>>

Overtaken ==
    /\ pub.at \in {"install", "collect"} /\ States(PubChat) # pub.states
    /\ pub' = IdlePub
    /\ UNCHANGED <<store, stores, req, tails, lru, control, impaired, givenUp>>

(***************************************************************************)
(* The publisher: _flush_record and its callers.                           *)
(***************************************************************************)
Records == {g \in Gen : tails[g] # NoRecord}
Flushable(g) == g \in Records /\ States(GenChat[g]) = {}

\* Every caller leaves the record forced: it stays due if the flush fails.
FlushStart(g, reason) ==
    /\ pub = IdlePub /\ Flushable(g)
    /\ tails' = [tails EXCEPT ![g].force = TRUE]
    /\ pub' = [IdlePub EXCEPT !.at = "write", !.rec = tails[g], !.reason = reason]
    /\ UNCHANGED <<store, stores, req, lru, control, impaired, givenUp>>

FlushDue(g) == tails[g].force /\ FlushStart(g, "due")

\* _enforce_tail_budget: too many tails in RAM, the oldest must go.
Evict ==
    LET eligible == SelectSeq(lru, Flushable) IN
    /\ Cardinality(Records) > MaxTailChats /\ eligible # << >>
    /\ FlushStart(eligible[1], "evict")

FlushChat == ChatOf(pub.rec.by)
FlushGen == GenOf[pub.rec.by]

Answer(c, answer) == control' = [control EXCEPT ![c].answer = answer]
AnswerExplicit(answer) ==
    IF pub.reason = "explicit" THEN Answer(FlushChat, answer) ELSE UNCHANGED control

RemoveRecord ==
    /\ tails' = [tails EXCEPT ![FlushGen] = NoRecord]
    /\ lru' = SelectSeq(lru, LAMBDA g : g # FlushGen)

\* The tail goes to disk ...
WriteTail ==
    /\ pub.at = "write"
    /\ ~pub.rec.ram \/ Current(FlushGen)
    /\ disk' = IF pub.rec.ram THEN disk \cup {TailBlock(pub.rec.by)} ELSE disk
    /\ pub' = [pub EXCEPT !.at = "prepare"]
    /\ UNCHANGED <<manifest, stores, req, tails, lru, control, impaired, givenUp>>

\* Mutant: a record that could not be written is dropped.
WriteTailFailsDropping ==
    /\ pub.at = "write" /\ pub.rec.ram
    /\ pub.rec.by \in Troubled \/ ~Current(FlushGen)
    /\ AnswerExplicit("error")
    /\ RemoveRecord
    /\ pub' = IdlePub
    /\ UNCHANGED <<store, stores, req, impaired, givenUp>>

\* ... or an I/O error or a retired generation leaves the record for later.
WriteTailFails ==
    /\ pub.at = "write" /\ pub.rec.ram
    /\ pub.rec.by \in Troubled \/ ~Current(FlushGen)
    /\ AnswerExplicit("error")
    /\ pub' = IdlePub
    /\ UNCHANGED <<store, stores, req, tails, lru, impaired, givenUp>>

\* Mutant: a head is committed without looking at its blocks.
CompleteUnverified == Current(FlushGen)

Complete == Current(FlushGen) /\ HeadOf(pub.rec.by) \subseteq disk

\* prepare_publication
Prepare ==
    /\ pub.at = "prepare"
    /\ pub' = [pub EXCEPT !.at = "publish", !.ok = Complete]
    /\ UNCHANGED <<store, stores, req, tails, lru, control, impaired, givenUp>>

Installed == tails[FlushGen].by = pub.rec.by /\ States(FlushChat) = {}

\* publish, under the mutex: commit and collect, or keep the previous head,
\* collect and drop the record.
Publish ==
    LET c == FlushChat
        by == IF pub.ok /\ Complete THEN pub.rec.by ELSE manifest[c].by IN
    /\ pub.at = "publish" /\ Installed
    /\ givenUp' = IF pub.ok /\ Complete THEN givenUp ELSE givenUp \cup {pub.rec.by}
    /\ manifest' = [manifest EXCEPT ![c].by = by]
    /\ disk' = IF Current(FlushGen) THEN Collected(c, by) ELSE disk
    /\ RemoveRecord
    /\ AnswerExplicit(IF pub.ok /\ Complete THEN "flushed" ELSE "rejected")
    /\ pub' = IdlePub
    /\ UNCHANGED <<stores, req, impaired>>

\* An OSError of the collection: the head is committed, the record stays.
PublishFails ==
    /\ pub.at = "publish" /\ Installed /\ pub.ok /\ Complete
    /\ pub.rec.by \in Troubled
    /\ manifest' = [manifest EXCEPT ![FlushChat].by = pub.rec.by]
    /\ AnswerExplicit("error")
    /\ pub' = IdlePub
    /\ UNCHANGED <<disk, stores, req, tails, lru, impaired, givenUp>>

PublishOvertaken ==
    /\ pub.at = "publish" /\ ~Installed
    /\ pub' = IdlePub
    /\ UNCHANGED <<store, stores, req, tails, lru, control, impaired, givenUp>>

(***************************************************************************)
(* Control files: request_tail_flush and _force_identity.                  *)
(***************************************************************************)
\* The owner asks for the generation it knows as the chat's.
AskFlush(c) ==
    /\ control[c] = NoControl /\ manifest[c].gen # None
    /\ control' = [control EXCEPT ![c] = [gen |-> manifest[c].gen, answer |-> "pending"]]
    /\ UNCHANGED <<store, stores, req, tails, lru, pub, impaired, givenUp>>

Asked(c) == control[c].answer = "pending" /\ States(c) = {}

FlushExplicit(c) == Asked(c) /\ FlushStart(control[c].gen, "explicit")

\* Mutant: no answer for a generation the backend does not hold.
AnswerHeldOnly(c) ==
    /\ pub = IdlePub
    /\ Asked(c) /\ control[c].gen \notin Records
    /\ stores[c] = control[c].gen /\ Current(control[c].gen)
    /\ Answer(c, "already_durable")
    /\ UNCHANGED <<store, stores, req, tails, lru, pub, impaired, givenUp>>

\* No record: what was settled is on disk already.
AnswerWithoutRecord(c) ==
    /\ pub = IdlePub
    /\ Asked(c) /\ control[c].gen \notin Records
    /\ Answer(c, IF stores[c] = control[c].gen /\ Current(control[c].gen)
                 THEN "already_durable" ELSE "error")
    /\ UNCHANGED <<store, stores, req, tails, lru, pub, impaired, givenUp>>

-----------------------------------------------------------------------------
Init ==
    /\ manifest = [c \in Chat |-> [gen |-> None, by |-> 0, retired |-> {}]]
    /\ disk = {}
    /\ stores = [c \in Chat |-> None]
    /\ req = [r \in Req |-> NewState]
    /\ tails = [g \in Gen |-> NoRecord]
    /\ lru = << >>
    /\ pub = IdlePub
    /\ control = [c \in Chat |-> NoControl]
    /\ impaired = {}
    /\ givenUp = {}

Scheduler(r) ==
    \/ NewGeneration(r) \/ NewTurn(r) \/ Bypass(r)
    \/ Finish(r) \/ Cancel(r) \/ \E job \in {"prefix", "tail"} : FinishUnstored(r, job)

Pool(r) == CopyTail(r) \/ WritePrefix(r) \/ WritePrefixFails(r)

Publisher ==
    \/ \E c \in Chat : Select(c)
    \/ Build \/ BuildRejects \/ BuildFails
    \/ Install \/ CollectFailed \/ CollectFails \/ Overtaken
    \/ \E g \in Gen : FlushDue(g)
    \/ Evict
    \/ \E c \in Chat : FlushExplicit(c) \/ AnswerWithoutRecord(c)
    \/ WriteTail \/ WriteTailFails \/ Prepare
    \/ Publish \/ PublishFails \/ PublishOvertaken

Owner == (\E c \in AskingChats : AskFlush(c)) \/ \E g \in Gen : Compact(g)

Next == (\E r \in Req : Scheduler(r) \/ Pool(r)) \/ Publisher \/ Owner

Spec == Init /\ [][Next]_vars

\* Requests end, the pool works, and the publisher goes on: each of its passes
\* looks at every chat, record and control file.  I/O errors are transient: what
\* is tried again and again succeeds at last.
Fairness ==
    /\ WF_vars(\E r \in Req : Finish(r))
    /\ WF_vars(\E r \in Req : Pool(r))
    /\ WF_vars(pub # IdlePub /\ Publisher)
    /\ SF_vars(WriteTail) /\ SF_vars(Publish) /\ SF_vars(CollectFailed)
    /\ SF_vars(\E c \in Chat : Select(c))
    /\ SF_vars(\E c \in Chat : FlushExplicit(c) \/ AnswerWithoutRecord(c))
    /\ SF_vars(\E g \in Gen : Current(g) /\ FlushDue(g))
    /\ SF_vars(Evict)

FairSpec == Spec /\ Fairness

(***************************************************************************)
(* Properties.                                                             *)
(***************************************************************************)
\* The published head of a chat is complete on disk at every moment, whatever
\* requests are writing, failing or being collected meanwhile (publish, _collect).
HeadOnDisk == \A c \in Chat : HeadOf(manifest[c].by) \subseteq disk

\* A tail record of the chat's generation can be restored and flushed: its
\* prefix is on disk and its tail in RAM or on disk, unless the generation met
\* an I/O error or a block that was never stored (_publish_ready, line 623).
TailRestorable ==
    \A g \in Records \ impaired :
      LET rec == tails[g] IN
      Current(g) =>
        HeadOf(rec.by) \subseteq disk \cup (IF rec.ram THEN {TailBlock(rec.by)} ELSE {})

\* Within a generation the durable head only moves to later requests, and
\* never to one that failed or was cancelled.
HeadNeverRegresses ==
    [][\A c \in Chat :
         manifest'[c].gen = manifest[c].gen /\ manifest'[c].by # manifest[c].by =>
           manifest'[c].by > manifest[c].by /\ ~req[manifest'[c].by].failed]_vars

\* A complete request of the asked generation that the durable head does not
\* cover when its owner is told "flushed" or "already_durable".
LeftBehind(c, r) ==
    /\ control[c].answer = "pending" /\ control'[c].answer \in {"flushed", "already_durable"}
    /\ req[r].phase = "gone" /\ GenOf[r] = control[c].gen /\ req[r].head /\ ~req[r].failed
    /\ r > manifest'[c].by

\* A flush that is answered "flushed" or "already_durable" left nothing behind,
\* except what the publisher had given up: after an I/O error, or if a block was
\* never stored, it drops a snapshot it finds incomplete (_publish_ready, line
\* 633, _flush_record, line 559), and the answers that follow do not know of it.
FlushAnswerTrue ==
    [][\A c \in Chat, r \in Req :
         LeftBehind(c, r) =>
           /\ GenOf[r] \in impaired
           /\ \E q \in givenUp : GenOf[q] = GenOf[r] /\ q >= r]_vars

\* What the documentation says of a flush: "forces the old generation's RAM tail
\* to disk and waits for full-head verification", without an exception.  The
\* code does not do this: _force_identity first builds and flushes what is due
\* (_publish_ready, line 692), which drops a snapshot that is found incomplete,
\* and then answers "already_durable", for it finds no record (lines 696-706).
FlushMeansDurable == [][\A c \in Chat, r \in Req : ~LeftBehind(c, r)]_vars

\* Every flush request of a chat's owner is answered.
EveryFlushAnswered ==
    \A c \in AskingChats : control[c].answer = "pending" ~> control[c].answer # "pending"

\* A tail that is due reaches the disk and is published, it or a later one of
\* its generation, however often the flush fails or is overtaken: unless a newer
\* record took its place in RAM, its blocks were found incomplete, or the chat
\* was compacted (_publish_ready, _flush_record).
EveryDueTailFlushed ==
    \A r \in Req :
      LET g == GenOf[r] IN
      tails[g].by = r /\ tails[g].force ~>
        \/ Current(g) /\ manifest[GenChat[g]].by >= r
        \/ tails[g].by > r
        \/ r \in givenUp
        \/ ~Current(g)
=============================================================================
