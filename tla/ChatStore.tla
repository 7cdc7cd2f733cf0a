------------------------------ MODULE ChatStore ------------------------------
(***************************************************************************)
(* The files of one chat: class ChatStore and atomic_write of              *)
(* src/qwen_r9700_lab/radiance_cache.py.                                   *)
(*                                                                         *)
(* The engine's pool workers write and read blocks under the chat's lock   *)
(* shared; its publisher verifies a candidate head, then commits it and    *)
(* collects under the lock exclusively; activation (compaction) runs in    *)
(* the engine or in the command-line process.  A file operation is a step. *)
(* What a name means now (meta, dirs, files) and what is on the medium     *)
(* (metaDisk, dirsDisk, filesDisk) are kept apart: a directory's fsync     *)
(* makes them equal, and losing power keeps any part of the difference.    *)
(*                                                                         *)
(* Temporary files, I/O counters and the status texts of chat.json that    *)
(* nothing reads back (status, publication, gc, updated_at) are left out.  *)
(***************************************************************************)
EXTENDS Naturals, FiniteSets

CONSTANTS
    Generation,     \* compaction generations of the chat
    Key,            \* block names (object_key)
    Worker,         \* pool workers of the engine
    None,           \* Python's None
    MaxDamage,      \* bound: files that are damaged at a time
    MaxRetiredDamaged   \* bound: retired generations of a chat with damaged files

ASSUME StoreAssumption ==
    /\ None \notin Generation \cup Key
    /\ MaxDamage \in Nat /\ MaxRetiredDamaged \in Nat

VARIABLES
    meta,       \* chat.json: generation, head, fallback, retired_generations
    metaDisk,   \* ... on the medium
    dirs,       \* generation directories that exist
    dirsDisk,
    files,      \* files[g][k]: "good", "bad" when damaged, or absent: "none",
                \* "lost" when a reader removed it as damaged
    filesDisk,
    worker,     \* write_many or read_many call of each worker
    prep,       \* the publisher's candidate, prepare_publication's result
    excl,       \* the call that holds the chat's lock exclusively
    store,      \* generation of the engine's ChatStore for this chat
    engine      \* "down", "up"

disk == <<metaDisk, dirsDisk, filesDisk>>
vars == <<meta, metaDisk, dirs, dirsDisk, files, filesDisk, worker,
          prep, excl, store, engine>>

NoSnapshot == [gen |-> None, keys |-> {}]
NoMeta == [gen |-> None, head |-> {}, fallback |-> NoSnapshot, retired |-> {}]
IdleWorker == [gen |-> None, todo |-> {}, key |-> None]
NoPrep == [gen |-> None, keys |-> {}, ok |-> {}]
NoExcl == [kind |-> "none", proc |-> "none", at |-> "none", new |-> NoMeta]

\* The snapshot a restore can use: the head, or the fallback until there is one.
Recoverable(m) ==
    IF m.head # {} THEN [gen |-> m.gen, keys |-> m.head] ELSE m.fallback

BlocksOf(s) == {s.gen} \X s.keys

\* Blocks on the medium that are damaged, or were and have not been rewritten.
Damaged == {b \in Generation \X Key : filesDisk[b[1]][b[2]] \in {"bad", "lost"}}

(***************************************************************************)
(* The chat's flock.                                                       *)
(***************************************************************************)
SharedHeld == \E w \in Worker : worker[w] # IdleWorker
CanShare == excl = NoExcl
CanExclude == excl = NoExcl /\ ~SharedHeld

\* Another worker is between the rename and the fsync of this block (_WRITE_LOCKS).
KeyBusy(k) == \E w \in Worker : worker[w].key = k

(***************************************************************************)
(* write_many and read_many                                                *)
(***************************************************************************)
\* Mutant: the generation is not compared under the lock.
WriteStartUnchecked(w, keys) ==
    /\ engine = "up" /\ CanShare
    /\ worker[w] = IdleWorker
    /\ store # None
    /\ worker' = [worker EXCEPT ![w] = [gen |-> store, todo |-> keys, key |-> None]]
    /\ UNCHANGED <<meta, disk, dirs, files, prep, excl, store, engine>>

\* A store whose generation is not current returns False, or raises, at once.
WriteStart(w, keys) ==
    /\ engine = "up" /\ CanShare
    /\ worker[w] = IdleWorker
    /\ store # None /\ store = meta.gen
    /\ worker' = [worker EXCEPT ![w] = [gen |-> store, todo |-> keys, key |-> None]]
    /\ UNCHANGED <<meta, disk, dirs, files, prep, excl, store, engine>>

Present(g, k) == files[g][k] \in {"good", "bad"}

\* The call goes on with the blocks that are left, or returns.
Rest(w, todo) ==
    IF todo = {} THEN IdleWorker ELSE [gen |-> worker[w].gen, todo |-> todo, key |-> None]

\* The block is there already: reused, not written.
Reuse(w, k) ==
    /\ k \in worker[w].todo /\ worker[w].key = None /\ ~KeyBusy(k)
    /\ Present(worker[w].gen, k)
    /\ worker' = [worker EXCEPT ![w] = Rest(w, worker[w].todo \ {k})]
    /\ UNCHANGED <<meta, disk, dirs, files, prep, excl, store, engine>>

\* atomic_write: the complete temporary file takes the block's name ...
Rename(w, k) ==
    /\ k \in worker[w].todo /\ worker[w].key = None /\ ~KeyBusy(k)
    /\ ~Present(worker[w].gen, k)
    /\ files' = [files EXCEPT ![worker[w].gen][k] = "good"]
    /\ worker' = [worker EXCEPT ![w] = [gen |-> worker[w].gen,
                                        todo |-> worker[w].todo \ {k}, key |-> k]]
    /\ UNCHANGED <<meta, disk, dirs, prep, excl, store, engine>>

\* read_many finds a damaged block and removes its name ...
DropDamaged(w, k) ==
    /\ engine = "up" /\ CanShare
    /\ worker[w] = IdleWorker /\ ~KeyBusy(k)
    /\ store # None /\ store = meta.gen /\ files[store][k] = "bad"
    /\ files' = [files EXCEPT ![store][k] = "lost"]
    /\ worker' = [worker EXCEPT ![w] = [gen |-> store, todo |-> {}, key |-> k]]
    /\ prep' = [prep EXCEPT !.ok = @ \ {k}]
    /\ UNCHANGED <<meta, disk, dirs, excl, store, engine>>

\* ... and both persist the directory before they release the block.
SyncBlock(w) ==
    /\ worker[w].key # None
    /\ filesDisk' = [filesDisk EXCEPT ![worker[w].gen] = files[worker[w].gen]]
    /\ worker' = [worker EXCEPT ![w] = Rest(w, worker[w].todo)]
    /\ UNCHANGED <<meta, metaDisk, dirs, dirsDisk, files, prep, excl,
                   store, engine>>

\* No space, or an I/O error, before the block has its name: the call raises.
WriteFails(w) ==
    /\ worker[w] # IdleWorker /\ worker[w].key = None
    /\ worker' = [worker EXCEPT ![w] = IdleWorker]
    /\ UNCHANGED <<meta, disk, dirs, files, prep, excl, store, engine>>

(***************************************************************************)
(* prepare_publication                                                     *)
(***************************************************************************)
\* Every block is decoded and fingerprinted once; a missing or damaged one is
\* not verified.  A file that changes later has another fingerprint.  A store
\* that is not current reports every key missing, and nothing is committed.
Prepare(keys) ==
    /\ engine = "up" /\ CanShare
    /\ store # None /\ store = meta.gen
    /\ prep' = [gen |-> store, keys |-> keys,
                ok |-> {k \in keys : files[store][k] = "good"}]
    /\ UNCHANGED <<meta, disk, dirs, files, worker, excl, store, engine>>

(***************************************************************************)
(* The calls that hold the lock exclusively.                               *)
(***************************************************************************)
\* publish: the head is committed only if every file is the verified one.
Committed(complete, keys) ==
    IF complete THEN [meta EXCEPT !.head = keys, !.fallback = NoSnapshot] ELSE meta

PublishStart ==
    /\ engine = "up" /\ CanExclude
    /\ prep # NoPrep
    /\ IF prep.gen = meta.gen
       THEN excl' = [kind |-> "collect", proc |-> "engine", at |-> "save",
                     new |-> Committed(prep.ok = prep.keys, prep.keys)]
       ELSE excl' = NoExcl
    /\ prep' = NoPrep
    /\ UNCHANGED <<meta, disk, dirs, files, worker, store, engine>>

\* collect, by the publisher after a failure, or for the chat's generation when
\* an engine starts.
CollectStart ==
    /\ CanExclude
    /\ meta.gen # None
    /\ engine = "up" => store = meta.gen
    /\ excl' = [kind |-> IF engine = "up" THEN "collect" ELSE "startup",
                proc |-> "engine", at |-> "save", new |-> meta]
    /\ prep' = NoPrep
    /\ UNCHANGED <<meta, disk, dirs, files, worker, store, engine>>

\* A chat without chat.json needs no recovery.
StartEmpty ==
    /\ engine = "down" /\ excl = NoExcl /\ meta.gen = None
    /\ engine' = "up"
    /\ UNCHANGED <<meta, disk, dirs, files, worker, prep, excl, store>>

\* Mutant: the absent generation of a new chat is retired.
ActivatedRetiring(g) ==
    IF g = meta.gen
    THEN IF g \in dirs THEN meta ELSE [meta EXCEPT !.head = {}]
    ELSE [gen |-> g, head |-> {}, fallback |-> Recoverable(meta),
          retired |-> meta.retired \cup {meta.gen}]

\* The metadata activate(g) writes; the fallback is the last complete snapshot.
Activated(g) ==
    IF g = meta.gen
    THEN IF g \in dirs THEN meta ELSE [meta EXCEPT !.head = {}]
    ELSE [gen |-> g, head |-> {}, fallback |-> Recoverable(meta),
          retired |-> meta.retired \cup ({meta.gen} \ {None})]

\* Mutant: the new directory is not persisted before the metadata names it.
ActivateUnsynced(p, g) ==
    /\ p = "engine" => engine = "up"
    /\ CanExclude
    /\ g \notin meta.retired
    /\ p = "engine" => g # store
    /\ Damaged # {} => Cardinality(meta.retired) < MaxRetiredDamaged
    /\ dirs' = dirs \cup {g}
    /\ excl' = [kind |-> "activate", proc |-> p, at |-> "save", new |-> Activated(g)]
    /\ UNCHANGED <<meta, disk, files, worker, prep, store, engine>>

\* activate, from on_new_request or from the command line.  A retired
\* generation raises before anything is changed.
ActivateStart(p, g) ==
    /\ p = "engine" => engine = "up"
    /\ CanExclude
    /\ g \notin meta.retired
    /\ p = "engine" => g # store
    /\ Damaged # {} => Cardinality(meta.retired) < MaxRetiredDamaged
    /\ dirs' = dirs \cup {g}
    /\ excl' = [kind |-> "activate", proc |-> p, at |-> "syncdirs", new |-> Activated(g)]
    /\ UNCHANGED <<meta, disk, files, worker, prep, store, engine>>

At(label) == excl.at = label
Goto(label) == excl' = [excl EXCEPT !.at = label]

\* fsync of the generations directory: a directory that is gone stays gone.
SyncDirs ==
    /\ dirsDisk' = dirs
    /\ filesDisk' = [g \in Generation |->
                       IF g \in dirs THEN filesDisk[g] ELSE [k \in Key |-> "none"]]

ActivateSyncDirs ==
    /\ At("syncdirs") /\ Goto("save")
    /\ SyncDirs
    /\ UNCHANGED <<meta, metaDisk, dirs, files, worker, prep, store, engine>>

\* Mutant: deletion begins before the new metadata is on the medium.
SaveMetadataUnsynced ==
    /\ At("save") /\ Goto("delete")
    /\ meta' = excl.new
    /\ UNCHANGED <<disk, dirs, files, worker, prep, store, engine>>

\* save_metadata: rename, then fsync of the chat's directory.
SaveMetadata ==
    /\ At("save") /\ Goto("savesync")
    /\ meta' = excl.new
    /\ UNCHANGED <<disk, dirs, files, worker, prep, store, engine>>

SyncMetadata ==
    /\ At("savesync") /\ Goto("delete")
    /\ metaDisk' = meta
    /\ UNCHANGED <<meta, dirs, dirsDisk, files, filesDisk, worker, prep,
                   store, engine>>

\* What the call may delete: activate spares its own generation, collection its
\* head; both the fallback, of which activate deletes what the snapshot lacks.
Doomed(g, k) ==
    IF g = meta.gen THEN excl.kind # "activate" /\ k \notin meta.head
    ELSE IF g = meta.fallback.gen THEN excl.kind = "activate" /\ k \notin meta.fallback.keys
    ELSE TRUE

DoomedDir(g) == g \in dirs \ {meta.gen, meta.fallback.gen}

Unlink(g, k) ==
    /\ At("delete")
    /\ Doomed(g, k) /\ Present(g, k)
    /\ files' = [files EXCEPT ![g][k] = "none"]
    /\ UNCHANGED <<meta, disk, dirs, worker, prep, excl, store, engine>>

RemoveDir(g) ==
    /\ At("delete")
    /\ DoomedDir(g) /\ \A k \in Key : ~Present(g, k)
    /\ dirs' = dirs \ {g}
    /\ files' = [files EXCEPT ![g] = [k \in Key |-> "none"]]
    /\ UNCHANGED <<meta, disk, worker, prep, excl, store, engine>>

\* activate persists the fallback's directory, collection its own generation's.
Synced(g) ==
    IF g \notin dirs THEN [k \in Key |-> "none"]
    ELSE IF g = meta.gen /\ excl.kind = "activate" THEN filesDisk[g]
    ELSE IF g = meta.fallback.gen /\ excl.kind # "activate" THEN filesDisk[g]
    ELSE files[g]

\* The directories are persisted last; then the call returns.
FinishExclusive ==
    /\ At("delete")
    /\ \A g \in Generation : ~DoomedDir(g)
    /\ \A g \in Generation, k \in Key : Doomed(g, k) => ~Present(g, k)
    /\ dirsDisk' = dirs
    /\ filesDisk' = [g \in Generation |-> Synced(g)]
    /\ excl' = NoExcl
    /\ store' = IF excl.proc = "engine" THEN meta.gen ELSE store
    /\ engine' = IF excl.kind = "startup" THEN "up" ELSE engine
    /\ UNCHANGED <<meta, metaDisk, dirs, files, worker, prep>>

\* An OSError leaves the rest undone.
ExclusiveFails ==
    /\ excl # NoExcl /\ excl.kind # "startup"
    /\ excl' = NoExcl
    /\ UNCHANGED <<meta, disk, dirs, files, worker, prep, store, engine>>

(***************************************************************************)
(* Faults.                                                                 *)
(***************************************************************************)
\* The engine's process dies: its locks are free, what it renamed stays.
EngineDies ==
    /\ engine = "up" \/ excl.kind = "startup"
    /\ engine' = "down" /\ store' = None
    /\ worker' = [w \in Worker |-> IdleWorker]
    /\ prep' = NoPrep
    /\ excl' = IF excl.proc = "engine" THEN NoExcl ELSE excl
    /\ UNCHANGED <<meta, disk, dirs, files>>

\* Any part of what was not synced is lost; everything is on the medium then.
PowerLoss ==
    /\ \E m \in {meta, metaDisk},
          gone \in SUBSET ((dirs \ dirsDisk) \cup (dirsDisk \ dirs)),
          old \in SUBSET {b \in Generation \X Key : files[b[1]][b[2]] # filesDisk[b[1]][b[2]]} :
          /\ meta' = m /\ metaDisk' = m
          /\ dirs' = (dirs \ gone) \cup (dirsDisk \cap gone)
          /\ dirsDisk' = dirs'
          /\ files' = [g \in Generation |-> [k \in Key |->
                         IF g \notin dirs' THEN "none"
                         ELSE IF <<g, k>> \in old THEN filesDisk[g][k] ELSE files[g][k]]]
          /\ filesDisk' = files'
    /\ engine' = "down" /\ store' = None
    /\ worker' = [w \in Worker |-> IdleWorker]
    /\ prep' = NoPrep /\ excl' = NoExcl

\* A file is truncated or overwritten from outside; its fingerprint changes.
Damage(g, k) ==
    /\ Cardinality(Damaged) < MaxDamage
    /\ Cardinality(meta.retired) < MaxRetiredDamaged
    /\ files[g][k] = "good" /\ filesDisk[g][k] = "good"
    /\ files' = [files EXCEPT ![g][k] = "bad"]
    /\ filesDisk' = [filesDisk EXCEPT ![g][k] = "bad"]
    /\ prep' = IF prep.gen = g THEN [prep EXCEPT !.ok = @ \ {k}] ELSE prep
    /\ UNCHANGED <<meta, metaDisk, dirs, dirsDisk, worker, excl, store, engine>>

-----------------------------------------------------------------------------
MetaType ==
    [gen : Generation \cup {None}, head : SUBSET Key, retired : SUBSET Generation,
     fallback : [gen : Generation \cup {None}, keys : SUBSET Key]]

FileType == [Generation -> [Key -> {"none", "good", "bad", "lost"}]]

\* Every variable keeps its type: in particular what chat.json lists as retired are
\* generations, never the absent one of a new chat (activate, line 393).
TypeOK ==
    /\ meta \in MetaType /\ metaDisk \in MetaType
    /\ dirs \subseteq Generation /\ dirsDisk \subseteq Generation
    /\ files \in FileType /\ filesDisk \in FileType
    /\ worker \in [Worker -> [gen : Generation \cup {None}, todo : SUBSET Key,
                              key : Key \cup {None}]]
    /\ prep \in [gen : Generation \cup {None}, keys : SUBSET Key, ok : SUBSET Key]
    /\ excl \in [kind : {"none", "activate", "collect", "startup"},
                  proc : {"none", "engine", "cli"},
                  at : {"none", "syncdirs", "save", "savesync", "delete"},
                  new : MetaType]
    /\ store \in Generation \cup {None}
    /\ engine \in {"down", "up"}

Init ==
    /\ meta = NoMeta /\ metaDisk = NoMeta
    /\ dirs = {} /\ dirsDisk = {}
    /\ files = [g \in Generation |-> [k \in Key |-> "none"]]
    /\ filesDisk = files
    /\ worker = [w \in Worker |-> IdleWorker]
    /\ prep = NoPrep /\ excl = NoExcl
    /\ store = None /\ engine = "down"

Block(w) ==
    \/ \E keys \in (SUBSET Key) \ {{}} : WriteStart(w, keys)
    \/ \E k \in Key : Reuse(w, k) \/ Rename(w, k) \/ DropDamaged(w, k)
    \/ SyncBlock(w) \/ WriteFails(w)

Publication ==
    \/ \E keys \in (SUBSET Key) \ {{}} : Prepare(keys)
    \/ PublishStart \/ CollectStart \/ StartEmpty

Exclusive ==
    \/ \E p \in {"engine", "cli"}, g \in Generation : ActivateStart(p, g)
    \/ ActivateSyncDirs \/ SaveMetadata \/ SyncMetadata
    \/ \E g \in Generation, k \in Key : Unlink(g, k)
    \/ \E g \in Generation : RemoveDir(g)
    \/ FinishExclusive \/ ExclusiveFails

Fault == EngineDies \/ PowerLoss \/ \E g \in Generation, k \in Key : Damage(g, k)

Next == (\E w \in Worker : Block(w)) \/ Publication \/ Exclusive \/ Fault

Spec == Init /\ [][Next]_vars

(***************************************************************************)
(* Properties.                                                             *)
(***************************************************************************)
\* The store implements a snapshot that is never lost: what chat.json names,
\* before and after any crash, is complete on the medium unless a file of it
\* was damaged, and only a commit replaces it.
Manifest(m) == [current |-> m.gen, retired |-> m.retired, snapshot |-> Recoverable(m)]

Snapshot == INSTANCE SnapshotStore WITH
    now <- Manifest(meta),
    saved <- Manifest(metaDisk),
    blocks <- {b \in Generation \X Key : filesDisk[b[1]][b[2]] = "good"},
    damaged <- Damaged

SnapshotNeverLost == Snapshot!Spec

\* A generation that compaction retired is never written again, however late a
\* worker of the old generation is (write_many, line 506): its files only go.
RetiredNeverWritten ==
    [][\A g \in meta.retired \cap meta'.retired, k \in Key :
         files'[g][k] = "good" /\ engine' = "up" => files[g][k] = "good"]_vars

\* The directory of the chat's generation is there whenever chat.json names it,
\* also after a loss of power, so that no activation empties a head (line 385).
GenerationExists ==
    /\ meta.gen # None => meta.gen \in dirs
    /\ metaDisk.gen # None => metaDisk.gen \in dirsDisk
=============================================================================
