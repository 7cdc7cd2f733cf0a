--------------------------- MODULE ChatStore_proofs ---------------------------
(***************************************************************************)
(* The chat store keeps its promise for any number of generations, blocks  *)
(* and workers: it implements SnapshotStore.  The inductive invariant says *)
(* what the code relies on between the steps of its calls: the snapshots   *)
(* that the visible and the durable chat.json name are held in both views  *)
(* of the directory; a visible block that is not durable yet belongs to a  *)
(* worker that has not finished, to an engine that died (startup collects  *)
(* it), or to a retired generation; nothing is deleted while the two       *)
(* chat.json differ.                                                       *)
(***************************************************************************)
EXTENDS ChatStore, TLAPS

Absent == [k \in Key |-> "none"]

\* The blocks of a snapshot are there for processes and after a loss of power.
Held(s) ==
    \A k \in s.keys :
        /\ s.gen \in dirs /\ s.gen \in dirsDisk
        /\ files[s.gen][k] # "none" /\ filesDisk[s.gen][k] # "none"

ShapeOf(m) ==
    /\ m.gen \notin m.retired
    /\ m.fallback.gen \in m.retired \cup {None}
    /\ m.gen # None => m.gen \in dirs /\ m.gen \in dirsDisk
    /\ m.gen = None => m.head = {}

Manifests ==
    /\ ShapeOf(meta) /\ ShapeOf(metaDisk)
    /\ Held(Recoverable(meta)) /\ Held(Recoverable(metaDisk))

Directories ==
    \A g \in Generation, k \in Key :
        /\ g \notin dirs => files[g][k] = "none"
        /\ files[g][k] \in {"bad", "lost"} => filesDisk[g][k] \in {"bad", "lost"}

Syncing(g, k) == \E w \in Worker : worker[w].gen = g /\ worker[w].key = k

\* A visible block of a generation that may still be used is durable, or is
\* going to be made so or collected.
Durable ==
    \A g \in Generation, k \in Key :
        g \notin meta.retired /\ Present(g, k) /\ filesDisk[g][k] = "none" =>
            Syncing(g, k) \/ (g = meta.gen /\ engine = "down")

Workers ==
    \A w \in Worker : worker[w] # IdleWorker =>
        excl = NoExcl /\ engine = "up" /\ meta.gen # None /\ worker[w].gen = meta.gen

\* Verified blocks stay as they were until the publisher uses the result.
Candidate ==
    prep # NoPrep =>
        /\ engine = "up" /\ excl.kind \in {"none", "activate"}
        /\ prep.gen # None /\ prep.keys # {}
        /\ prep.gen \in meta.retired \cup {meta.gen}
        /\ prep.gen = meta.gen => \A k \in prep.ok : files[prep.gen][k] = "good"

\* What the holder of the exclusive lock is about to write: the same, a
\* verified head, or the next generation.
Commits ==
    /\ excl.new.head # {}
    /\ excl.new = [meta EXCEPT !.head = excl.new.head, !.fallback = NoSnapshot]
    /\ Held([gen |-> meta.gen, keys |-> excl.new.head])

Activates ==
    /\ excl.new.gen # meta.gen /\ excl.new.gen \notin meta.retired
    /\ excl.new = [gen |-> excl.new.gen, head |-> {}, fallback |-> Recoverable(meta),
                   retired |-> meta.retired \cup ({meta.gen} \ {None})]

Intent ==
    /\ excl.at \in {"syncdirs", "save"} =>
         /\ excl.new.gen # None /\ excl.new.gen \in dirs
         /\ excl.new = meta \/ Commits \/ Activates
    /\ excl.at = "save" => excl.new.gen \in dirsDisk
    /\ excl.at \in {"savesync", "delete"} => meta.gen # None
    /\ excl.at = "delete" => metaDisk = meta
    /\ excl.at = "none" \/ excl.kind = "none" => excl = NoExcl
    /\ excl.kind = "startup" => engine = "down"

Inv ==
    /\ TypeOK
    /\ Manifests
    /\ Directories
    /\ Durable
    /\ Workers
    /\ Candidate
    /\ Intent
\* Both kinds of snapshot a manifest can name are snapshots.
LEMMA SnapshotType ==
    ASSUME NEW m \in MetaType
    PROVE  Recoverable(m) \in [gen : Generation \cup {None}, keys : SUBSET Key]
BY DEF MetaType, Recoverable

\* Whoever holds the lock exclusively excludes the workers.
LEMMA NobodyShares ==
    ASSUME Inv, excl # NoExcl
    PROVE  \A w \in Worker : worker[w] = IdleWorker
BY DEF Inv, Workers

\* write_many: the worker takes the shared lock and finds the generation current.
LEMMA WriteStartKeeps ==
    ASSUME Inv, NEW w \in Worker, NEW keys \in (SUBSET Key) \ {{}}, WriteStart(w, keys)
    PROVE  Inv'
<1>1. TypeOK'
  BY StoreAssumption DEF Inv, WriteStart, disk, TypeOK, MetaType, FileType,
       CanShare, IdleWorker
<1>2. Manifests'
  BY DEF Inv, WriteStart, disk, Manifests, ShapeOf, Held, Recoverable
<1>3. Directories'
  BY DEF Inv, WriteStart, disk, Directories
<1>4. Durable'
  BY StoreAssumption DEF Inv, WriteStart, disk, TypeOK, MetaType, FileType, Durable,
       Syncing, Present, CanShare, IdleWorker
<1>5. Workers'
  BY StoreAssumption DEF Inv, WriteStart, disk, TypeOK, MetaType, FileType, Workers,
       CanShare, IdleWorker
<1>6. Candidate'
  BY DEF Inv, WriteStart, disk, Candidate
<1>7. Intent'
  BY DEF Inv, WriteStart, disk, Intent, Commits, Activates, Held, Recoverable
<1> QED BY <1>1, <1>2, <1>3, <1>4, <1>5, <1>6, <1>7 DEF Inv

\* write_many: a good block that is already there is not written again.
LEMMA ReuseKeeps ==
    ASSUME Inv, NEW w \in Worker, NEW k \in Key, Reuse(w, k)
    PROVE  Inv'
<1>w. /\ worker[w] \in [gen : Generation \cup {None}, todo : SUBSET Key, key : Key \cup {None}]
      /\ worker[w] # IdleWorker
  BY StoreAssumption DEF Inv, TypeOK, IdleWorker, Reuse
<1>v. /\ excl = NoExcl /\ engine = "up" /\ worker[w].gen = meta.gen
      /\ meta.gen \in Generation /\ meta.gen \in dirs /\ meta.gen \notin meta.retired
  BY <1>w DEF Inv, TypeOK, MetaType, Workers, Manifests, ShapeOf
<1>1. TypeOK'
  BY DEF Inv, Reuse, Rest, IdleWorker, disk, TypeOK
<1>2. Manifests'
  BY DEF Inv, Reuse, disk, Manifests, ShapeOf, Held, Recoverable
<1>3. Directories'
  BY DEF Inv, Reuse, disk, Directories
<1>4. Durable'
  BY StoreAssumption DEF Inv, Reuse, Rest, IdleWorker, disk, TypeOK, Durable, Syncing, Present
<1>5. Workers'
  <2>1. worker'[w] # IdleWorker => worker'[w].gen = meta.gen
    BY <1>v DEF Inv, TypeOK, Reuse, Rest
  <2>2. \A v \in Worker : v # w => worker'[v] = worker[v]
    BY DEF Inv, TypeOK, Reuse
  <2> QED BY <1>v, <2>1, <2>2, StoreAssumption DEF Inv, TypeOK, Workers, Reuse, disk
<1>6. Candidate'
  BY DEF Inv, Reuse, disk, Candidate
<1>7. Intent'
  BY DEF Inv, Reuse, disk, Intent, Commits, Activates, Held, Recoverable
<1> QED BY <1>1, <1>2, <1>3, <1>4, <1>5, <1>6, <1>7 DEF Inv

\* atomic_write: the rename of a complete temporary file.
LEMMA RenameKeeps ==
    ASSUME Inv, NEW w \in Worker, NEW k \in Key, Rename(w, k)
    PROVE  Inv'
<1>w. /\ worker[w] \in [gen : Generation \cup {None}, todo : SUBSET Key, key : Key \cup {None}]
      /\ worker[w] # IdleWorker
  BY StoreAssumption DEF Inv, TypeOK, IdleWorker, Rename
<1>v. /\ excl = NoExcl /\ engine = "up" /\ worker[w].gen = meta.gen
      /\ meta.gen \in Generation /\ meta.gen \in dirs /\ meta.gen \notin meta.retired
  BY <1>w DEF Inv, TypeOK, MetaType, Workers, Manifests, ShapeOf
<1>1. TypeOK'
  <2>1. files' \in FileType
    BY DEF Inv, Rename, TypeOK, FileType
  <2>2. worker' \in [Worker -> [gen : Generation \cup {None}, todo : SUBSET Key,
                               key : Key \cup {None}]]
    BY <1>w DEF Inv, Rename, TypeOK
  <2> QED BY <2>1, <2>2 DEF Inv, Rename, TypeOK, disk
<1>2. Manifests'
  BY StoreAssumption, SMTT(30) DEF Inv, Rename, disk, TypeOK, MetaType, FileType, Manifests,
       ShapeOf, Held, Recoverable, KeyBusy, IdleWorker
<1>3. Directories'
  BY <1>v DEF Inv, Rename, TypeOK, FileType, Directories, disk
<1>4. Durable'
  BY StoreAssumption DEF Inv, Rename, disk, TypeOK, MetaType, FileType, Durable,
       Syncing, Present, KeyBusy, IdleWorker
<1>5. Workers'
  <2>1. worker'[w] # IdleWorker => worker'[w].gen = meta.gen
    BY <1>v DEF Inv, TypeOK, Rename
  <2>2. \A v \in Worker : v # w => worker'[v] = worker[v]
    BY DEF Inv, TypeOK, Rename
  <2> QED BY <1>v, <2>1, <2>2, StoreAssumption DEF Inv, TypeOK, Workers, Rename, disk
<1>6. Candidate'
  BY StoreAssumption DEF Inv, Rename, disk, TypeOK, MetaType, FileType, Candidate,
       KeyBusy, IdleWorker
<1>7. Intent'
  BY StoreAssumption DEF Inv, Rename, disk, TypeOK, MetaType, FileType, Intent,
       Commits, Activates, Held, Recoverable, KeyBusy, IdleWorker
<1> QED BY <1>1, <1>2, <1>3, <1>4, <1>5, <1>6, <1>7 DEF Inv

\* read_many: a damaged block's name is removed.
LEMMA DropDamagedKeeps ==
    ASSUME Inv, NEW w \in Worker, NEW k \in Key, DropDamaged(w, k)
    PROVE  Inv'
<1>1. TypeOK'
  <2>1. files' \in FileType
    BY DEF Inv, DropDamaged, TypeOK, FileType
  <2>2. prep' \in [gen : Generation \cup {None}, keys : SUBSET Key, ok : SUBSET Key]
    BY DEF Inv, DropDamaged, TypeOK
  <2>3. worker' \in [Worker -> [gen : Generation \cup {None}, todo : SUBSET Key,
                               key : Key \cup {None}]]
    BY DEF Inv, DropDamaged, TypeOK
  <2> QED BY <2>1, <2>2, <2>3 DEF Inv, DropDamaged, TypeOK, disk
<1>2. Manifests'
  <2>1. ASSUME NEW s \in [gen : Generation \cup {None}, keys : SUBSET Key], Held(s)
        PROVE  Held(s)'
    BY <2>1 DEF Held, Inv, TypeOK, FileType, DropDamaged, disk, CanShare
  <2>2. Held(Recoverable(meta)') /\ Held(Recoverable(metaDisk)')
    BY DEF Inv, Manifests, Recoverable, disk, DropDamaged
  <2> QED BY <2>1, <2>2, SnapshotType
        DEF Inv, TypeOK, Manifests, ShapeOf, Recoverable, disk, DropDamaged
<1>3. Directories'
  BY StoreAssumption DEF Inv, DropDamaged, disk, TypeOK, MetaType, FileType,
       Directories, CanShare, IdleWorker, KeyBusy, NoPrep
<1>4. Durable'
  BY StoreAssumption DEF Inv, DropDamaged, disk, TypeOK, MetaType, FileType,
       Durable, Syncing, Present, CanShare, IdleWorker, KeyBusy, NoPrep
<1>5. Workers'
  BY StoreAssumption DEF Inv, DropDamaged, disk, TypeOK, MetaType, FileType,
       Workers, CanShare, IdleWorker, KeyBusy, NoPrep
<1>6. Candidate'
  <2>1. /\ prep'.gen = prep.gen /\ prep'.keys = prep.keys /\ prep'.ok = prep.ok \ {k}
        /\ prep' = [gen |-> prep.gen, keys |-> prep.keys, ok |-> prep.ok \ {k}]
    BY DEF Inv, DropDamaged, TypeOK
  <2>a. prep = NoPrep => prep' = NoPrep
    BY <2>1 DEF NoPrep
  <2>2. ASSUME NEW j \in prep.ok \ {k}, prep.gen \in Generation
        PROVE  files'[prep.gen][j] = files[prep.gen][j]
    BY DEF Inv, DropDamaged, TypeOK, FileType
  <2> QED BY <2>1, <2>2, <2>a, StoreAssumption DEF Inv, DropDamaged, TypeOK, MetaType, Candidate, disk
<1>7. Intent'
  BY StoreAssumption DEF Inv, DropDamaged, disk, TypeOK, MetaType, FileType, Intent,
       Commits, Activates, Held, Recoverable, CanShare, IdleWorker, KeyBusy, NoPrep
<1> QED BY <1>1, <1>2, <1>3, <1>4, <1>5, <1>6, <1>7 DEF Inv

\* atomic_write: the fsync of the directory after a block's rename.
LEMMA SyncBlockKeeps ==
    ASSUME Inv, NEW w \in Worker, SyncBlock(w)
    PROVE  Inv'
<1>w. /\ worker[w] \in [gen : Generation \cup {None}, todo : SUBSET Key, key : Key \cup {None}]
      /\ worker[w] # IdleWorker
  BY StoreAssumption DEF Inv, TypeOK, IdleWorker, SyncBlock
<1>v. /\ excl = NoExcl /\ engine = "up" /\ worker[w].gen = meta.gen
      /\ meta.gen \in Generation /\ meta.gen \in dirs /\ meta.gen \notin meta.retired
  BY <1>w DEF Inv, TypeOK, MetaType, Workers, Manifests, ShapeOf
<1>1. TypeOK'
  <2>1. filesDisk' \in FileType
    BY DEF Inv, SyncBlock, TypeOK, FileType
  <2> QED BY <2>1 DEF Inv, SyncBlock, Rest, IdleWorker, TypeOK
<1>2. Manifests'
  <2>1. ASSUME NEW s \in [gen : Generation \cup {None}, keys : SUBSET Key], Held(s)
        PROVE  Held(s)'
    BY <2>1 DEF Held, Inv, TypeOK, FileType, SyncBlock, disk
  <2>2. Held(Recoverable(meta)') /\ Held(Recoverable(metaDisk)')
    BY DEF Inv, Manifests, Recoverable, disk, SyncBlock
  <2> QED BY <2>1, <2>2, SnapshotType
        DEF Inv, TypeOK, Manifests, ShapeOf, Recoverable, disk, SyncBlock
<1>3. Directories'
  BY StoreAssumption DEF Inv, SyncBlock, disk, TypeOK, MetaType, FileType,
       Directories, IdleWorker
<1>4. Durable'
  <2>1. ASSUME NEW g \in Generation, NEW k \in Key
        PROVE  /\ g = meta.gen => filesDisk'[g][k] = files[g][k]
               /\ g # meta.gen => filesDisk'[g][k] = filesDisk[g][k]
    BY <1>v DEF Inv, SyncBlock, TypeOK, FileType
  <2>2. ASSUME NEW g \in Generation, NEW k \in Key, g # meta.gen, Syncing(g, k)
        PROVE  Syncing(g, k)'
    BY <1>v, <2>2 DEF Inv, SyncBlock, TypeOK, Syncing
  <2> QED BY <1>v, <2>1, <2>2 DEF Inv, SyncBlock, Durable, Present
<1>5. Workers'
  <2>1. worker'[w] # IdleWorker => worker'[w].gen = meta.gen
    BY <1>v DEF Inv, TypeOK, SyncBlock, Rest
  <2>2. \A v \in Worker : v # w => worker'[v] = worker[v]
    BY DEF Inv, TypeOK, SyncBlock
  <2> QED BY <1>v, <2>1, <2>2, StoreAssumption DEF Inv, TypeOK, Workers, SyncBlock, disk
<1>6. Candidate'
  BY DEF Inv, SyncBlock, disk, Candidate
<1>7. Intent'
  BY StoreAssumption DEF Inv, SyncBlock, disk, TypeOK, MetaType, FileType, Intent,
       Commits, Activates, Held, Recoverable, IdleWorker
<1> QED BY <1>1, <1>2, <1>3, <1>4, <1>5, <1>6, <1>7 DEF Inv

\* write_many: an OSError ends the worker's call.
LEMMA WriteFailsKeeps ==
    ASSUME Inv, NEW w \in Worker, WriteFails(w)
    PROVE  Inv'
<1>1. TypeOK'
  BY StoreAssumption DEF Inv, WriteFails, disk, TypeOK, MetaType, FileType,
       IdleWorker
<1>2. Manifests'
  BY DEF Inv, WriteFails, disk, Manifests, ShapeOf, Held, Recoverable
<1>3. Directories'
  BY DEF Inv, WriteFails, disk, Directories
<1>4. Durable'
  BY StoreAssumption DEF Inv, WriteFails, disk, TypeOK, MetaType, FileType, Durable,
       Syncing, Present, IdleWorker
<1>5. Workers'
  BY StoreAssumption, ZenonT(60) DEF Inv, WriteFails, disk, TypeOK, MetaType, FileType, Workers,
       IdleWorker
<1>6. Candidate'
  BY DEF Inv, WriteFails, disk, Candidate
<1>7. Intent'
  BY DEF Inv, WriteFails, disk, Intent, Commits, Activates, Held, Recoverable
<1> QED BY <1>1, <1>2, <1>3, <1>4, <1>5, <1>6, <1>7 DEF Inv

\* prepare_publication: the publisher has verified the blocks of a head.
LEMMA PrepareKeeps ==
    ASSUME Inv, NEW keys \in (SUBSET Key) \ {{}}, Prepare(keys)
    PROVE  Inv'
<1>1. TypeOK'
  BY StoreAssumption DEF Inv, Prepare, disk, TypeOK, MetaType, FileType, CanShare,
       NoPrep
<1>2. Manifests'
  BY DEF Inv, Prepare, disk, Manifests, ShapeOf, Held, Recoverable
<1>3. Directories'
  BY DEF Inv, Prepare, disk, Directories
<1>4. Durable'
  BY DEF Inv, Prepare, disk, Durable, Syncing, Present
<1>5. Workers'
  BY DEF Inv, Prepare, disk, Workers
<1>6. Candidate'
  <2>1. /\ prep' = [gen |-> meta.gen, keys |-> keys,
                  ok |-> {k \in keys : files[meta.gen][k] = "good"}]
        /\ meta.gen # None /\ engine' = "up" /\ meta' = meta /\ files' = files
    BY DEF Prepare
  <2>2. excl'.kind \in {"none", "activate"}
    BY DEF Prepare, CanShare, NoExcl
  <2> QED BY <2>1, <2>2 DEF Candidate
<1>7. Intent'
  BY DEF Inv, Prepare, disk, Intent, Commits, Activates, Held, Recoverable
<1> QED BY <1>1, <1>2, <1>3, <1>4, <1>5, <1>6, <1>7 DEF Inv

\* publish: the exclusive lock, and the head if all its blocks are still as verified.
LEMMA PublishStartKeeps ==
    ASSUME Inv, PublishStart
    PROVE  Inv'
<1>1. TypeOK'
  <2>1. Committed(prep.ok = prep.keys, prep.keys) \in MetaType
    BY DEF Inv, TypeOK, MetaType, Committed, NoSnapshot
  <2>2. excl' \in [kind : {"none", "activate", "collect", "startup"},
                  proc : {"none", "engine", "cli"},
                  at : {"none", "syncdirs", "save", "savesync", "delete"},
                  new : MetaType]
    BY <2>1 DEF Inv, PublishStart, TypeOK, CanExclude, NoExcl
  <2> QED BY <2>2 DEF Inv, PublishStart, TypeOK, NoPrep, disk
<1>2. Manifests'
  BY DEF Inv, PublishStart, disk, Manifests, ShapeOf, Held, Recoverable
<1>3. Directories'
  BY DEF Inv, PublishStart, disk, Directories
<1>4. Durable'
  BY DEF Inv, PublishStart, disk, Durable, Syncing, Present
<1>5. Workers'
  BY StoreAssumption DEF Inv, PublishStart, disk, TypeOK, MetaType, FileType,
       Workers, CanExclude, SharedHeld, NoExcl, NoPrep, NoMeta, NoSnapshot
<1>6. Candidate'
  BY StoreAssumption DEF Inv, PublishStart, disk, TypeOK, MetaType, FileType,
       Candidate, CanExclude, SharedHeld, NoExcl, NoPrep, NoMeta, NoSnapshot
<1>7. Intent'
  <2>1. CASE prep.gen # meta.gen
    BY <2>1 DEF Inv, PublishStart, Intent, NoExcl, disk
  <2>2. CASE prep.gen = meta.gen
    <3>1. /\ excl'.kind = "collect" /\ excl'.at = "save"
          /\ excl'.new = Committed(prep.ok = prep.keys, prep.keys)
          /\ UNCHANGED <<meta, metaDisk, dirs, dirsDisk, files, filesDisk, engine>>
      BY <2>2 DEF PublishStart, disk
    <3>2. /\ meta.gen \in Generation /\ meta.gen \in dirs /\ meta.gen \in dirsDisk
          /\ meta.gen \notin meta.retired /\ prep.keys # {}
          /\ \A k \in prep.ok : files[meta.gen][k] = "good"
      BY <2>2, StoreAssumption DEF Inv, PublishStart, TypeOK, MetaType, Candidate, Manifests, ShapeOf
    <3>3. \A k \in prep.ok : filesDisk[meta.gen][k] # "none"
      BY <3>2, StoreAssumption
      DEF Inv, PublishStart, CanExclude, SharedHeld, IdleWorker, TypeOK, Durable, Syncing, Present
    <3>4. CASE prep.ok = prep.keys
      <4>1. excl'.new = [meta EXCEPT !.head = prep.keys, !.fallback = NoSnapshot]
        BY <3>1, <3>4 DEF Committed
      <4>2. excl'.new.head = prep.keys /\ excl'.new.gen = meta.gen
        BY <4>1 DEF Inv, TypeOK, MetaType
      <4>3. Commits'
        <5>1. Held([gen |-> meta.gen, keys |-> excl.new.head])'
          BY <3>1, <3>2, <3>3, <3>4, <4>2 DEF Held
        <5> QED BY <3>1, <3>2, <4>1, <4>2, <5>1 DEF Commits
      <4> QED BY <3>1, <3>2, <4>2, <4>3, StoreAssumption DEF Intent
    <3>5. CASE prep.ok # prep.keys
      BY <3>1, <3>2, <3>5, StoreAssumption DEF Intent, Committed
    <3> QED BY <3>4, <3>5
  <2> QED BY <2>1, <2>2
<1> QED BY <1>1, <1>2, <1>3, <1>4, <1>5, <1>6, <1>7 DEF Inv

\* collect: the exclusive lock, and the blocks that no manifest names.
LEMMA CollectStartKeeps ==
    ASSUME Inv, CollectStart
    PROVE  Inv'
<1>1. TypeOK'
  BY StoreAssumption DEF Inv, CollectStart, disk, TypeOK, MetaType, FileType,
       CanExclude, SharedHeld, NoPrep
<1>2. Manifests'
  BY DEF Inv, CollectStart, disk, Manifests, ShapeOf, Held, Recoverable
<1>3. Directories'
  BY DEF Inv, CollectStart, disk, Directories
<1>4. Durable'
  BY DEF Inv, CollectStart, disk, Durable, Syncing, Present
<1>5. Workers'
  BY StoreAssumption DEF Inv, CollectStart, disk, TypeOK, MetaType, FileType,
       Workers, CanExclude, SharedHeld, NoPrep
<1>6. Candidate'
  BY StoreAssumption DEF Inv, CollectStart, disk, TypeOK, MetaType, FileType,
       Candidate, CanExclude, SharedHeld, NoPrep
<1>7. Intent'
  BY DEF Inv, CollectStart, Intent, Manifests, ShapeOf, TypeOK, disk
<1> QED BY <1>1, <1>2, <1>3, <1>4, <1>5, <1>6, <1>7 DEF Inv

\* Start-up of a chat without chat.json: nothing to recover.
LEMMA StartEmptyKeeps ==
    ASSUME Inv, StartEmpty
    PROVE  Inv'
<1>1. TypeOK'
  BY StoreAssumption DEF Inv, StartEmpty, disk, TypeOK, MetaType, FileType
<1>2. Manifests'
  BY DEF Inv, StartEmpty, disk, Manifests, ShapeOf, Held, Recoverable
<1>3. Directories'
  BY DEF Inv, StartEmpty, disk, Directories
<1>4. Durable'
  BY StoreAssumption, SMTT(30) DEF Inv, StartEmpty, disk, TypeOK, MetaType, FileType, Durable,
       Syncing, Present
<1>5. Workers'
  BY StoreAssumption DEF Inv, StartEmpty, disk, TypeOK, MetaType, FileType, Workers
<1>6. Candidate'
  BY StoreAssumption DEF Inv, StartEmpty, disk, TypeOK, MetaType, FileType,
       Candidate
<1>7. Intent'
  <2>1. excl' = NoExcl
    BY DEF StartEmpty
  <2> QED BY <2>1 DEF Intent, NoExcl
<1> QED BY <1>1, <1>2, <1>3, <1>4, <1>5, <1>6, <1>7 DEF Inv

\* activate: the exclusive lock and the next generation.
LEMMA ActivateStartKeeps ==
    ASSUME Inv, NEW p \in {"engine", "cli"}, NEW g \in Generation, ActivateStart(p, g)
    PROVE  Inv'
<1>a. /\ Activated(g) \in MetaType /\ Activated(g).gen = g
      /\ g = meta.gen => Activated(g) = meta
  BY DEF Inv, TypeOK, MetaType, Activated, Recoverable, Manifests, ShapeOf
<1>1. TypeOK'
  BY <1>a DEF Inv, ActivateStart, TypeOK, disk
<1>2. Manifests'
  BY StoreAssumption DEF Inv, ActivateStart, disk, TypeOK, MetaType, FileType,
       Manifests, ShapeOf, Held, Recoverable, CanExclude, SharedHeld
<1>3. Directories'
  BY StoreAssumption DEF Inv, ActivateStart, disk, TypeOK, MetaType, FileType,
       Directories, CanExclude, SharedHeld
<1>4. Durable'
  BY DEF Inv, ActivateStart, disk, Durable, Syncing, Present
<1>5. Workers'
  BY StoreAssumption DEF Inv, ActivateStart, disk, TypeOK, MetaType, FileType,
       Workers, CanExclude, SharedHeld
<1>6. Candidate'
  BY StoreAssumption DEF Inv, ActivateStart, disk, TypeOK, MetaType, FileType,
       Candidate, CanExclude, SharedHeld
<1>7. Intent'
  <2>1. CASE g = meta.gen
    BY <2>1, <1>a, StoreAssumption DEF Inv, ActivateStart, Intent, disk
  <2>2. CASE g # meta.gen
    <3>1. Activated(g) = [gen |-> g, head |-> {}, fallback |-> Recoverable(meta),
                          retired |-> meta.retired \cup ({meta.gen} \ {None})]
      BY <2>2 DEF Activated
    <3>2. Recoverable(meta)' = Recoverable(meta) /\ excl'.new = Activated(g)
      BY DEF ActivateStart, Recoverable
    <3>3. Activates'
      BY <2>2, <3>1, <3>2, <1>a DEF ActivateStart, Activates
    <3> QED BY <3>3, <1>a, StoreAssumption DEF ActivateStart, Intent
  <2> QED BY <2>1, <2>2
<1> QED BY <1>1, <1>2, <1>3, <1>4, <1>5, <1>6, <1>7 DEF Inv

\* activate: the new generation's directory is synced before chat.json names it.
LEMMA ActivateSyncDirsKeeps ==
    ASSUME Inv, ActivateSyncDirs
    PROVE  Inv'
<1>1. TypeOK'
  BY StoreAssumption DEF Inv, ActivateSyncDirs, disk, TypeOK, MetaType, FileType,
       At, Goto, SyncDirs
<1>2. Manifests'
  BY StoreAssumption DEF Inv, ActivateSyncDirs, disk, TypeOK, MetaType, FileType,
       Manifests, ShapeOf, Held, Recoverable, At, Goto, SyncDirs
<1>3. Directories'
  BY StoreAssumption DEF Inv, ActivateSyncDirs, disk, TypeOK, MetaType, FileType,
       Directories, At, Goto, SyncDirs
<1>4. Durable'
  BY StoreAssumption DEF Inv, ActivateSyncDirs, disk, TypeOK, MetaType, FileType,
       Durable, Syncing, Present, At, Goto, SyncDirs, Directories
<1>5. Workers'
  BY StoreAssumption DEF Inv, ActivateSyncDirs, disk, TypeOK, MetaType, FileType,
       Workers, At, Goto, SyncDirs, NoExcl
<1>6. Candidate'
  BY StoreAssumption DEF Inv, ActivateSyncDirs, disk, TypeOK, MetaType, FileType,
       Candidate, At, Goto, SyncDirs
<1>7. Intent'
  <2>1. /\ excl' = [excl EXCEPT !.at = "save"] /\ excl.at = "syncdirs"
        /\ meta' = meta /\ dirs' = dirs /\ dirsDisk' = dirs /\ files' = files /\ engine' = engine
        /\ excl'.new = excl.new /\ excl'.at = "save" /\ excl'.kind = excl.kind
    BY DEF Inv, ActivateSyncDirs, At, Goto, SyncDirs, TypeOK
  <2>2. \A g \in dirs, k \in Key : filesDisk'[g][k] = filesDisk[g][k]
    BY DEF Inv, ActivateSyncDirs, SyncDirs, TypeOK
  <2>3. Commits => Commits'
    <3> SUFFICES ASSUME Commits PROVE Commits'
      OBVIOUS
    <3>1. excl.new.head \subseteq Key /\ meta.gen \in dirs
      BY DEF Inv, TypeOK, MetaType, Commits, Held
    <3>2. Held([gen |-> meta.gen, keys |-> excl.new.head])'
      BY <2>1, <2>2, <3>1 DEF Commits, Held
    <3> QED BY <2>1, <3>2 DEF Commits
  <2>4. Activates => Activates'
    BY <2>1 DEF Activates, Recoverable
  <2>5. /\ excl.new.gen # None /\ excl.new.gen \in dirs
        /\ excl.new = meta \/ Commits \/ Activates
        /\ excl.kind # "none" /\ (excl.kind = "startup" => engine = "down")
    BY <2>1 DEF Inv, Intent, NoExcl
  <2> QED BY <2>1, <2>3, <2>4, <2>5 DEF Intent
<1> QED BY <1>1, <1>2, <1>3, <1>4, <1>5, <1>6, <1>7 DEF Inv

\* The rename of chat.json: visible, and perhaps not yet on the medium.
LEMMA SaveMetadataKeeps ==
    ASSUME Inv, SaveMetadata
    PROVE  Inv'
<1>a. /\ meta' = excl.new /\ excl.new \in MetaType /\ excl.at = "save" /\ excl # NoExcl
      /\ UNCHANGED <<metaDisk, dirs, dirsDisk, files, filesDisk, engine, worker, prep>>
      /\ excl.new.gen # None /\ excl.new.gen \in dirs /\ excl.new.gen \in dirsDisk
      /\ excl' = [excl EXCEPT !.at = "savesync"]
  BY DEF Inv, SaveMetadata, At, Goto, TypeOK, Intent, disk, NoExcl
<1>b. excl.new = meta \/ Commits \/ Activates
  BY <1>a DEF Inv, Intent
<1>c. /\ excl.new.gen \notin excl.new.retired /\ meta.retired \subseteq excl.new.retired
      /\ excl.new.fallback.gen \in excl.new.retired \cup {None}
      /\ meta.gen = excl.new.gen \/ meta.gen \in excl.new.retired \cup {None}
      /\ Held(Recoverable(excl.new))
  <2>1. CASE excl.new = meta
    BY <2>1 DEF Inv, Manifests, ShapeOf
  <2>2. CASE Commits
    <3>1. /\ excl.new.gen = meta.gen /\ excl.new.retired = meta.retired
          /\ excl.new.fallback = NoSnapshot
          /\ Recoverable(excl.new) = [gen |-> meta.gen, keys |-> excl.new.head]
      BY <2>2 DEF Inv, TypeOK, MetaType, Commits, Recoverable
    <3> QED BY <2>2, <3>1 DEF Inv, Manifests, ShapeOf, Commits, NoSnapshot
  <2>3. CASE Activates
    <3>1. /\ excl.new.retired = meta.retired \cup ({meta.gen} \ {None})
          /\ excl.new.fallback = Recoverable(meta)
          /\ Recoverable(excl.new) = Recoverable(meta)
      BY <2>3 DEF Activates, Recoverable
    <3>2. Recoverable(meta).gen \in meta.retired \cup {meta.gen, None}
      BY DEF Inv, Manifests, ShapeOf, Recoverable
    <3> QED BY <2>3, <3>1, <3>2 DEF Inv, Manifests, Activates
  <2> QED BY <1>b, <2>1, <2>2, <2>3
<1>1. TypeOK'
  BY <1>a DEF Inv, SaveMetadata, TypeOK, disk
<1>2. Manifests'
  <2>1. Held(Recoverable(meta))' /\ Held(Recoverable(metaDisk))'
    BY <1>a, <1>c DEF Inv, Manifests, Held, Recoverable
  <2> QED BY <1>a, <1>c, <2>1 DEF Inv, Manifests, ShapeOf
<1>3. Directories'
  BY DEF Inv, SaveMetadata, disk, Directories
<1>4. Durable'
  BY <1>a, <1>c, StoreAssumption DEF Inv, TypeOK, Durable, Syncing, Present
<1>5. Workers'
  BY <1>a, NobodyShares DEF Workers
<1>6. Candidate'
  <2>1. ASSUME prep # NoPrep, prep.gen = excl.new.gen
        PROVE  prep.gen = meta.gen
    BY <1>a, <1>c, <2>1 DEF Inv, Candidate
  <2> QED BY <1>a, <1>c, <2>1, StoreAssumption DEF Inv, TypeOK, MetaType, Candidate
<1>7. Intent'
  BY <1>a DEF Inv, TypeOK, Intent
<1> QED BY <1>1, <1>2, <1>3, <1>4, <1>5, <1>6, <1>7 DEF Inv

\* The fsync after it: both versions of chat.json are equal again.
LEMMA SyncMetadataKeeps ==
    ASSUME Inv, SyncMetadata
    PROVE  Inv'
<1>1. TypeOK'
  BY StoreAssumption DEF Inv, SyncMetadata, disk, TypeOK, MetaType, FileType, At,
       Goto
<1>2. Manifests'
  BY StoreAssumption DEF Inv, SyncMetadata, disk, TypeOK, MetaType, FileType,
       Manifests, ShapeOf, Held, Recoverable, At, Goto
<1>3. Directories'
  BY DEF Inv, SyncMetadata, disk, Directories
<1>4. Durable'
  BY DEF Inv, SyncMetadata, disk, Durable, Syncing, Present
<1>5. Workers'
  BY StoreAssumption DEF Inv, SyncMetadata, disk, TypeOK, MetaType, FileType,
       Workers, At, Goto, NoExcl
<1>6. Candidate'
  BY StoreAssumption DEF Inv, SyncMetadata, disk, TypeOK, MetaType, FileType,
       Candidate, At, Goto
<1>7. Intent'
  <2>1. /\ excl.at = "savesync" /\ excl' = [excl EXCEPT !.at = "delete"]
        /\ excl'.at = "delete" /\ excl'.kind = excl.kind
        /\ meta' = meta /\ metaDisk' = meta /\ engine' = engine
    BY DEF Inv, SyncMetadata, At, Goto, TypeOK
  <2>2. /\ meta.gen # None /\ excl.kind # "none"
        /\ excl.kind = "startup" => engine = "down"
    BY <2>1 DEF Inv, Intent, NoExcl
  <2> QED BY <2>1, <2>2 DEF Intent
<1> QED BY <1>1, <1>2, <1>3, <1>4, <1>5, <1>6, <1>7 DEF Inv

\* A doomed block is removed: no manifest on either side names it.
LEMMA UnlinkKeeps ==
    ASSUME Inv, NEW g \in Generation, NEW k \in Key, Unlink(g, k)
    PROVE  Inv'
<1>a. /\ metaDisk = meta /\ excl # NoExcl /\ meta.gen # None
      /\ meta.fallback.gen \in meta.retired \cup {None} /\ meta.gen \notin meta.retired
      /\ meta.gen \in dirs /\ meta.gen \in dirsDisk
  BY DEF Inv, Unlink, At, Intent, NoExcl, Manifests, ShapeOf
<1>1. TypeOK'
  BY StoreAssumption DEF Inv, Unlink, disk, TypeOK, MetaType, FileType, At
<1>2. Manifests'
  <2>1. ASSUME NEW j \in Recoverable(meta).keys
        PROVE  /\ Recoverable(meta).gen \in Generation /\ j \in Key
               /\ ~(Recoverable(meta).gen = g /\ j = k)
    BY <1>a, StoreAssumption, SnapshotType
    DEF Inv, Unlink, TypeOK, MetaType, Manifests, Held, Recoverable, Doomed
  <2>2. Held(Recoverable(meta))'
    BY <2>1, SMTT(30) DEF Inv, Unlink, TypeOK, FileType, Manifests, Held, Recoverable, disk
  <2> QED BY <1>a, <2>2 DEF Inv, Unlink, Manifests, ShapeOf, disk
<1>3. Directories'
  BY StoreAssumption DEF Inv, Unlink, disk, TypeOK, MetaType, FileType, Directories,
       At
<1>4. Durable'
  BY StoreAssumption DEF Inv, Unlink, disk, TypeOK, MetaType, FileType, Durable,
       Syncing, Present, At
<1>5. Workers'
  BY DEF Inv, Unlink, disk, Workers
<1>6. Candidate'
  <2>1. prep # NoPrep => g # meta.gen
    BY <1>a DEF Inv, Unlink, Candidate, Doomed, Intent
  <2> QED BY <2>1 DEF Inv, Unlink, TypeOK, FileType, Candidate, disk
<1>7. Intent'
  BY StoreAssumption DEF Inv, Unlink, disk, TypeOK, MetaType, FileType, Intent,
       Commits, Activates, Held, Recoverable, At
<1> QED BY <1>1, <1>2, <1>3, <1>4, <1>5, <1>6, <1>7 DEF Inv

\* The directory of a retired generation is removed.
LEMMA RemoveDirKeeps ==
    ASSUME Inv, NEW g \in Generation, RemoveDir(g)
    PROVE  Inv'
<1>a. /\ metaDisk = meta /\ excl # NoExcl /\ meta.gen # None
      /\ meta.fallback.gen \in meta.retired \cup {None} /\ meta.gen \notin meta.retired
      /\ meta.gen \in dirs /\ meta.gen \in dirsDisk
  BY DEF Inv, RemoveDir, At, Intent, NoExcl, Manifests, ShapeOf
<1>1. TypeOK'
  BY StoreAssumption DEF Inv, RemoveDir, disk, TypeOK, MetaType, FileType, At
<1>2. Manifests'
  <2>1. ASSUME NEW j \in Recoverable(meta).keys
        PROVE  Recoverable(meta).gen \in Generation /\ Recoverable(meta).gen # g
    BY <1>a, StoreAssumption, SnapshotType
    DEF Inv, RemoveDir, TypeOK, MetaType, Manifests, Held, Recoverable, DoomedDir
  <2>2. Held(Recoverable(meta))'
    BY <2>1 DEF Inv, RemoveDir, TypeOK, FileType, Manifests, Held, Recoverable, disk
  <2> QED BY <1>a, <2>2 DEF Inv, RemoveDir, TypeOK, Manifests, ShapeOf, DoomedDir, disk
<1>3. Directories'
  BY StoreAssumption DEF Inv, RemoveDir, disk, TypeOK, MetaType, FileType,
       Directories, At
<1>4. Durable'
  BY StoreAssumption DEF Inv, RemoveDir, disk, TypeOK, MetaType, FileType, Durable,
       Syncing, Present, At
<1>5. Workers'
  BY DEF Inv, RemoveDir, disk, Workers
<1>6. Candidate'
  BY <1>a DEF Inv, RemoveDir, TypeOK, FileType, Candidate, DoomedDir
<1>7. Intent'
  BY StoreAssumption DEF Inv, RemoveDir, disk, TypeOK, MetaType, FileType, Intent,
       Commits, Activates, Held, Recoverable, At
<1> QED BY <1>1, <1>2, <1>3, <1>4, <1>5, <1>6, <1>7 DEF Inv

\* The exclusive call ends with the fsync of the directories.
LEMMA FinishExclusiveKeeps ==
    ASSUME Inv, FinishExclusive
    PROVE  Inv'
<1>a. /\ metaDisk = meta /\ excl # NoExcl /\ meta.gen # None
      /\ meta.fallback.gen \in meta.retired \cup {None} /\ meta.gen \notin meta.retired
      /\ meta.gen \in dirs /\ meta.gen \in dirsDisk
  BY DEF Inv, FinishExclusive, At, Intent, NoExcl, Manifests, ShapeOf
<1>b. ASSUME NEW g \in Generation, NEW k \in Key
      PROVE  /\ filesDisk'[g][k] \in {"none", files[g][k], filesDisk[g][k]}
             /\ g \in dirs => filesDisk'[g][k] \in {files[g][k], filesDisk[g][k]}
             /\ g \in dirs /\ g # meta.fallback.gen
                  /\ ~(g = meta.gen /\ excl.kind = "activate") => filesDisk'[g][k] = files[g][k]
             /\ g = meta.gen /\ excl.kind = "activate" => filesDisk'[g][k] = filesDisk[g][k]
  BY <1>a DEF Inv, FinishExclusive, TypeOK, FileType, Synced
<1>c. filesDisk' \in FileType
  BY DEF Inv, FinishExclusive, TypeOK, FileType, Synced
<1>1. TypeOK'
  BY <1>c DEF Inv, FinishExclusive, TypeOK, MetaType, NoExcl, NoMeta, NoSnapshot
<1>2. Manifests'
  <2>1. ASSUME NEW j \in Recoverable(meta).keys
        PROVE  Recoverable(meta).gen \in Generation /\ j \in Key
    BY <1>a, SnapshotType DEF Inv, TypeOK, Manifests, Held
  <2>2. Held(Recoverable(meta))'
    BY <1>b, <2>1 DEF Inv, FinishExclusive, Manifests, Held, Recoverable
  <2> QED BY <1>a, <2>2 DEF Inv, FinishExclusive, TypeOK, Manifests, ShapeOf
<1>3. Directories'
  BY <1>b DEF Inv, FinishExclusive, Directories
<1>4. Durable'
  <2>1. \A w \in Worker : worker[w] = IdleWorker
    BY <1>a, NobodyShares
  <2> QED BY <1>a, <1>b, <2>1, StoreAssumption
        DEF Inv, FinishExclusive, TypeOK, Durable, Directories, Syncing, Present, IdleWorker
<1>5. Workers'
  BY StoreAssumption DEF Inv, FinishExclusive, disk, TypeOK, MetaType, FileType,
       Workers, At
<1>6. Candidate'
  BY DEF Inv, FinishExclusive, Candidate, NoExcl, Intent
<1>7. Intent'
  BY DEF FinishExclusive, Intent, NoExcl
<1> QED BY <1>1, <1>2, <1>3, <1>4, <1>5, <1>6, <1>7 DEF Inv

\* An OSError ends the exclusive call wherever it is.
LEMMA ExclusiveFailsKeeps ==
    ASSUME Inv, ExclusiveFails
    PROVE  Inv'
<1>1. TypeOK'
  BY DEF Inv, ExclusiveFails, TypeOK, MetaType, NoExcl, NoMeta, NoSnapshot, disk
<1>2. Manifests'
  BY DEF Inv, ExclusiveFails, disk, Manifests, ShapeOf, Held, Recoverable
<1>3. Directories'
  BY DEF Inv, ExclusiveFails, disk, Directories
<1>4. Durable'
  BY DEF Inv, ExclusiveFails, disk, Durable, Syncing, Present
<1>5. Workers'
  BY StoreAssumption DEF Inv, ExclusiveFails, disk, TypeOK, MetaType, FileType,
       Workers
<1>6. Candidate'
  BY DEF Inv, ExclusiveFails, Candidate, NoExcl
<1>7. Intent'
  BY DEF ExclusiveFails, Intent, NoExcl
<1> QED BY <1>1, <1>2, <1>3, <1>4, <1>5, <1>6, <1>7 DEF Inv

\* The engine dies: locks and intents go, files stay.
LEMMA EngineDiesKeeps ==
    ASSUME Inv, EngineDies
    PROVE  Inv'
<1>1. TypeOK'
  BY DEF Inv, EngineDies, TypeOK, MetaType, NoExcl, NoPrep, NoMeta, NoSnapshot, IdleWorker, disk
<1>2. Manifests'
  BY DEF Inv, EngineDies, disk, Manifests, ShapeOf, Held, Recoverable
<1>3. Directories'
  BY DEF Inv, EngineDies, disk, Directories
<1>4. Durable'
  BY StoreAssumption DEF Inv, EngineDies, TypeOK, Durable, Syncing, Present, Workers, IdleWorker, disk
<1>5. Workers'
  BY StoreAssumption DEF Inv, EngineDies, disk, TypeOK, MetaType, FileType, Workers,
       NoPrep, NoExcl
<1>6. Candidate'
  BY StoreAssumption DEF Inv, EngineDies, disk, TypeOK, MetaType, FileType,
       Candidate, NoPrep, NoExcl
<1>7. Intent'
  BY StoreAssumption DEF Inv, EngineDies, disk, TypeOK, MetaType, FileType, Intent,
       Commits, Activates, Held, Recoverable, NoPrep, NoExcl
<1> QED BY <1>1, <1>2, <1>3, <1>4, <1>5, <1>6, <1>7 DEF Inv

\* A loss of power keeps any part of what was not synced.
LEMMA PowerLossKeeps ==
    ASSUME Inv, PowerLoss
    PROVE  Inv'
<1>p. /\ meta' \in {meta, metaDisk} /\ metaDisk' = meta' /\ dirsDisk' = dirs' /\ filesDisk' = files'
      /\ \A g \in dirs \cap dirsDisk : g \in dirs'
      /\ dirs' \subseteq dirs \cup dirsDisk
      /\ files' \in FileType
      /\ \A g \in Generation, k \in Key :
           files'[g][k] \in IF g \in dirs' THEN {files[g][k], filesDisk[g][k]} ELSE {"none"}
  <2> PICK m \in {meta, metaDisk},
           gone \in SUBSET ((dirs \ dirsDisk) \cup (dirsDisk \ dirs)),
           old \in SUBSET {b \in Generation \X Key : files[b[1]][b[2]] # filesDisk[b[1]][b[2]]} :
          /\ meta' = m /\ metaDisk' = m
          /\ dirs' = (dirs \ gone) \cup (dirsDisk \cap gone)
          /\ dirsDisk' = dirs'
          /\ files' = [g \in Generation |-> [k \in Key |->
                         IF g \notin dirs' THEN "none"
                         ELSE IF <<g, k>> \in old THEN filesDisk[g][k] ELSE files[g][k]]]
          /\ filesDisk' = files'
    BY DEF PowerLoss
  <2>1. files' \in FileType
    BY DEF Inv, TypeOK, FileType
  <2>2. \A g \in Generation, k \in Key :
           files'[g][k] \in IF g \in dirs' THEN {files[g][k], filesDisk[g][k]} ELSE {"none"}
    OBVIOUS
  <2> QED BY <2>1, <2>2
<1>1. TypeOK'
  BY <1>p DEF Inv, PowerLoss, TypeOK, MetaType, NoExcl, NoPrep, NoMeta, NoSnapshot, IdleWorker
<1>2. Manifests'
  <2>1. ASSUME NEW m \in {meta, metaDisk}, NEW k \in Recoverable(m).keys
        PROVE  /\ Recoverable(m).gen \in dirs'
               /\ files'[Recoverable(m).gen][k] # "none"
    <3>1. /\ Recoverable(m).gen \in dirs \cap dirsDisk
          /\ files[Recoverable(m).gen][k] # "none" /\ filesDisk[Recoverable(m).gen][k] # "none"
      BY <2>1 DEF Inv, Manifests, Held
    <3>2. Recoverable(m).gen \in Generation /\ k \in Key
      BY <2>1, <3>1, SnapshotType DEF Inv, TypeOK
    <3> QED BY <1>p, <3>1, <3>2
  <2>2. Held(Recoverable(meta))'
    BY <1>p, <2>1 DEF Held, Recoverable
  <2>3. ShapeOf(meta)'
    BY <1>p DEF Inv, Manifests, ShapeOf
  <2> QED BY <1>p, <2>2, <2>3 DEF Manifests, ShapeOf, Held, Recoverable
<1>3. Directories'
  BY <1>p, ZenonT(60) DEF Inv, TypeOK, FileType, Directories
<1>4. Durable'
  BY <1>p DEF Durable, Present
<1>5. Workers'
  BY StoreAssumption DEF Inv, PowerLoss, disk, TypeOK, MetaType, FileType, Workers,
       NoPrep, NoExcl
<1>6. Candidate'
  BY StoreAssumption DEF Inv, PowerLoss, disk, TypeOK, MetaType, FileType,
       Candidate, NoPrep, NoExcl
<1>7. Intent'
  BY StoreAssumption DEF Inv, PowerLoss, disk, TypeOK, MetaType, FileType, Intent,
       Commits, Activates, Held, Recoverable, NoPrep, NoExcl
<1> QED BY <1>1, <1>2, <1>3, <1>4, <1>5, <1>6, <1>7 DEF Inv

\* A block file is damaged from outside.
LEMMA DamageKeeps ==
    ASSUME Inv, NEW g \in Generation, NEW k \in Key, Damage(g, k)
    PROVE  Inv'
<1>p. /\ prep' \in [gen : Generation \cup {None}, keys : SUBSET Key, ok : SUBSET Key]
      /\ prep'.gen = prep.gen /\ prep'.keys = prep.keys /\ prep'.ok \subseteq prep.ok
      /\ prep.gen = g => k \notin prep'.ok
  BY StoreAssumption DEF Inv, Damage, TypeOK
<1>q. prep = NoPrep => prep' = NoPrep
  BY StoreAssumption DEF Damage, NoPrep
<1>f. files' \in FileType /\ filesDisk' \in FileType
  BY DEF Inv, Damage, TypeOK, FileType
<1>1. TypeOK'
  BY <1>p, <1>f DEF Inv, Damage, TypeOK
<1>2. Manifests'
  <2>1. ASSUME NEW s \in [gen : Generation \cup {None}, keys : SUBSET Key], Held(s)
        PROVE  Held(s)'
    BY <2>1 DEF Held, Inv, TypeOK, FileType, Damage, disk
  <2>2. Held(Recoverable(meta)') /\ Held(Recoverable(metaDisk)')
    BY DEF Inv, Manifests, Recoverable, disk, Damage
  <2> QED BY <2>1, <2>2, SnapshotType
        DEF Inv, TypeOK, Manifests, ShapeOf, Recoverable, disk, Damage
<1>3. Directories'
  BY StoreAssumption DEF Inv, Damage, disk, TypeOK, MetaType, FileType, Directories
<1>4. Durable'
  BY StoreAssumption DEF Inv, Damage, disk, TypeOK, MetaType, FileType, Durable,
       Syncing, Present
<1>5. Workers'
  BY DEF Inv, Damage, disk, Workers
<1>6. Candidate'
  <2>1. ASSUME NEW j \in prep'.ok, prep.gen \in Generation
        PROVE  files'[prep.gen][j] = files[prep.gen][j]
    BY <1>p, <2>1 DEF Inv, Damage, TypeOK, FileType
  <2> QED BY <1>p, <1>q, <2>1, StoreAssumption DEF Inv, Damage, TypeOK, MetaType, Candidate
<1>7. Intent'
  BY StoreAssumption DEF Inv, Damage, disk, TypeOK, MetaType, FileType, Intent,
       Commits, Activates, Held, Recoverable
<1> QED BY <1>1, <1>2, <1>3, <1>4, <1>5, <1>6, <1>7 DEF Inv

\* The initial states satisfy the invariant.
LEMMA InitInv == Init => Inv
<1> SUFFICES ASSUME Init PROVE Inv
  OBVIOUS
<1>1. TypeOK
  BY DEF Init, TypeOK, MetaType, FileType, NoMeta, NoSnapshot, IdleWorker, NoPrep, NoExcl
<1>2. Manifests
  BY DEF Init, Manifests, ShapeOf, Held, Recoverable, NoMeta, NoSnapshot
<1>3. Directories
  BY DEF Init, Directories
<1>4. Durable
  BY DEF Init, Durable, Present
<1>5. Workers /\ Candidate
  BY DEF Init, Workers, Candidate
<1>6. Intent
  BY DEF Init, Intent, NoExcl
<1> QED BY <1>1, <1>2, <1>3, <1>4, <1>5, <1>6 DEF Inv

\* Every step, faults included, preserves the invariant.
LEMMA NextInv == Inv /\ [Next]_vars => Inv'
<1> SUFFICES ASSUME Inv, [Next]_vars PROVE Inv'
  OBVIOUS
<1>1. CASE UNCHANGED vars
  BY <1>1 DEF vars, Inv, TypeOK, Manifests, ShapeOf, Held, Recoverable, Directories, Durable,
       Syncing, Present, Workers, Candidate, Intent, Commits, Activates
<1>2. ASSUME NEW w \in Worker, Block(w)
      PROVE  Inv'
  BY <1>2, WriteStartKeeps, ReuseKeeps, RenameKeeps, DropDamagedKeeps, SyncBlockKeeps,
     WriteFailsKeeps DEF Block
<1>3. CASE Publication
  BY <1>3, PrepareKeeps, PublishStartKeeps, CollectStartKeeps, StartEmptyKeeps DEF Publication
<1>4. CASE Exclusive
  BY <1>4, ActivateStartKeeps, ActivateSyncDirsKeeps, SaveMetadataKeeps, SyncMetadataKeeps,
     UnlinkKeeps, RemoveDirKeeps, FinishExclusiveKeeps, ExclusiveFailsKeeps DEF Exclusive
<1>5. CASE Fault
  BY <1>5, EngineDiesKeeps, PowerLossKeeps, DamageKeeps DEF Fault
<1> QED BY <1>1, <1>2, <1>3, <1>4, <1>5 DEF Next

\* The invariant holds in every state.
LEMMA Invariance == Spec => []Inv
BY InitInv, NextInv, PTL DEF Spec

\* No call of the store, failure or crash leaves a value out of place; in
\* particular activating the first generation retires none.
THEOREM TypeCorrect == Spec => []TypeOK
<1>1. Inv => TypeOK
  BY DEF Inv
<1> QED BY <1>1, Invariance, PTL

\* activate (line 377) persists the new directory before chat.json names it: the
\* directory of the current generation exists, also after losing power.
THEOREM GenerationStays == Spec => []GenerationExists
<1>1. Inv => GenerationExists
  BY DEF Inv, Manifests, ShapeOf, GenerationExists
<1> QED BY <1>1, Invariance, PTL

\* No worker, however late, writes a block of a generation that compaction
\* retired (write_many, line 506).
THEOREM RetiredStays == Spec => RetiredNeverWritten
<1>1. ASSUME Inv, [Next]_vars
      PROVE  [\A g \in meta.retired \cap meta'.retired, k \in Key :
                files'[g][k] = "good" /\ engine' = "up" => files[g][k] = "good"]_vars
  <2> SUFFICES ASSUME Next, NEW g \in meta.retired, NEW k \in Key,
                      files'[g][k] = "good", engine' = "up"
               PROVE  files[g][k] = "good"
    BY <1>1
  <2>0. g \in Generation
    BY <1>1 DEF Inv, TypeOK, MetaType
  <2>1. ASSUME NEW w \in Worker, Block(w)
        PROVE  files[g][k] = "good"
    <3>1. ASSUME NEW j \in Key, Rename(w, j)
          PROVE  files[g][k] = "good"
      <4>1. worker[w] # IdleWorker
        BY <1>1, <3>1 DEF Rename, IdleWorker
      <4>2. worker[w].gen # g
        BY <1>1, <4>1 DEF Inv, Workers, Manifests, ShapeOf
      <4> QED BY <1>1, <3>1, <2>0, <4>2 DEF Inv, TypeOK, FileType, Rename
    <3>2. ASSUME NEW j \in Key, DropDamaged(w, j)
          PROVE  files[g][k] = "good"
      BY <1>1, <3>2, <2>0 DEF Inv, TypeOK, FileType, DropDamaged
    <3> QED BY <2>1, <3>1, <3>2 DEF Block, WriteStart, Reuse, SyncBlock, WriteFails
  <2>2. CASE Publication
    BY <2>2 DEF Publication, Prepare, PublishStart, CollectStart, StartEmpty
  <2>3. CASE Exclusive
    <3>1. ASSUME NEW h \in Generation, NEW j \in Key, Unlink(h, j)
          PROVE  files[g][k] = "good"
      BY <1>1, <3>1, <2>0 DEF Inv, TypeOK, FileType, Unlink
    <3>2. ASSUME NEW h \in Generation, RemoveDir(h)
          PROVE  files[g][k] = "good"
      BY <1>1, <3>2, <2>0 DEF Inv, TypeOK, FileType, RemoveDir
    <3> QED BY <2>3, <3>1, <3>2
          DEF Exclusive, ActivateStart, ActivateSyncDirs, SaveMetadata, SyncMetadata,
              FinishExclusive, ExclusiveFails
  <2>4. CASE Fault
    <3>1. ASSUME NEW h \in Generation, NEW j \in Key, Damage(h, j)
          PROVE  files[g][k] = "good"
      BY <1>1, <3>1, <2>0 DEF Inv, TypeOK, FileType, Damage
    <3> QED BY <2>4, <3>1 DEF Fault, EngineDies, PowerLoss
  <2> QED BY <2>1, <2>2, <2>3, <2>4 DEF Next
<1> QED BY <1>1, Invariance, PTL DEF Spec, RetiredNeverWritten

-----------------------------------------------------------------------------
(***************************************************************************)
(* The refinement.                                                         *)
(***************************************************************************)
GoodBlocks == {b \in Generation \X Key : filesDisk[b[1]][b[2]] = "good"}
View == <<Manifest(meta), Manifest(metaDisk), GoodBlocks, Damaged>>

\* The invariant gives what SnapshotStore promises: both versions of chat.json name
\* a snapshot whose blocks are good on the medium, or damaged from outside.
LEMMA Restores ==
    ASSUME Inv
    PROVE  Snapshot!Restorable
<1>1. ASSUME NEW m \in MetaType, Held(Recoverable(m)),
             NEW b \in {Recoverable(m).gen} \X Recoverable(m).keys
      PROVE  b \in GoodBlocks \cup Damaged
  <2>1. PICK k \in Recoverable(m).keys : b = <<Recoverable(m).gen, k>>
    OBVIOUS
  <2>2. Recoverable(m).gen \in Generation /\ k \in Key
    BY <1>1, SnapshotType DEF Inv, TypeOK, Held
  <2>3. filesDisk[Recoverable(m).gen][k] \in {"good", "bad", "lost"}
    BY <1>1, <2>2 DEF Inv, TypeOK, FileType, Held
  <2> QED BY <2>1, <2>2, <2>3 DEF GoodBlocks, Damaged
<1> QED BY <1>1 DEF Inv, TypeOK, Manifests, Snapshot!Restorable, Snapshot!BlocksOf, Manifest,
                    GoodBlocks

\* A step that leaves chat.json alone, and on the medium damages nothing.
LEMMA Exchanges ==
    ASSUME Inv', UNCHANGED <<meta, metaDisk>>,
           \A g \in Generation, k \in Key :
               filesDisk'[g][k] \in {"bad", "lost"} => filesDisk[g][k] \in {"bad", "lost"}
    PROVE  Snapshot!Next
<1>1. Snapshot!Exchange
  <2>1. GoodBlocks' \subseteq Generation \X Key
    BY DEF GoodBlocks
  <2>2. Damaged' \subseteq Damaged
    BY DEF Damaged
  <2>3. UNCHANGED <<Manifest(meta), Manifest(metaDisk)>>
    BY DEF Manifest, Recoverable
  <2> QED BY <2>1, <2>2, <2>3 DEF Snapshot!Exchange, GoodBlocks
<1>2. Snapshot!Restorable'
  BY Restores, PTL
<1> QED BY <1>1, <1>2 DEF Snapshot!Next

\* chat.json is replaced by the same, by a commit or by an activation.
LEMMA SaveRefines ==
    ASSUME Inv, Inv', SaveMetadata
    PROVE  Snapshot!Next \/ UNCHANGED View
<1>1. /\ meta' = excl.new /\ UNCHANGED <<metaDisk, filesDisk>>
      /\ excl.new = meta \/ Commits \/ Activates
      /\ excl.new \in MetaType /\ excl.new.gen # None
  BY DEF Inv, TypeOK, Intent, SaveMetadata, At, disk
<1>2. UNCHANGED <<Manifest(metaDisk), GoodBlocks, Damaged>>
  BY <1>1 DEF Manifest, Recoverable, GoodBlocks, Damaged
<1>3. Snapshot!Restorable'
  BY Restores, PTL
<1>4. CASE excl.new = meta
  BY <1>1, <1>2, <1>4 DEF View, Manifest, Recoverable
<1>5. CASE Commits
  <2>1. /\ meta'.head = excl.new.head /\ meta'.gen = meta.gen /\ meta'.retired = meta.retired
        /\ excl.new.head # {} /\ excl.new.head \in SUBSET Key /\ meta.gen # None
    BY <1>1, <1>5 DEF Inv, TypeOK, MetaType, Commits
  <2>2. Manifest(meta)' = [Manifest(meta) EXCEPT
                             !.snapshot = [gen |-> Manifest(meta).current, keys |-> excl.new.head]]
    <3>1. Manifest(meta)' = [current |-> meta.gen, retired |-> meta.retired,
                             snapshot |-> [gen |-> meta.gen, keys |-> excl.new.head]]
      BY <2>1 DEF Manifest, Recoverable
    <3>2. Manifest(meta) = [current |-> meta.gen, retired |-> meta.retired,
                            snapshot |-> Recoverable(meta)]
      BY DEF Manifest
    <3> QED BY <3>1, <3>2
  <2>3. Snapshot!Commit(excl.new.head)
    BY <1>2, <2>1, <2>2 DEF Snapshot!Commit, Manifest, GoodBlocks
  <2> QED BY <1>3, <2>1, <2>3 DEF Snapshot!Next
<1>6. CASE Activates
  <2>1. /\ meta'.head = {} /\ meta'.gen = excl.new.gen /\ meta'.fallback = Recoverable(meta)
        /\ meta'.retired = meta.retired \cup ({meta.gen} \ {None})
        /\ excl.new.gen # meta.gen /\ excl.new.gen \notin meta.retired
        /\ excl.new.gen \in Generation
    BY <1>1, <1>6 DEF Activates, MetaType
  <2>2. Recoverable(meta)' = Recoverable(meta)
    BY <2>1 DEF Recoverable
  <2>3. Manifest(meta)' = [current |-> excl.new.gen,
                           retired |-> meta.retired \cup ({meta.gen} \ {None}),
                           snapshot |-> Recoverable(meta)]
    BY <2>1, <2>2 DEF Manifest
  <2>4. Snapshot!Activate(excl.new.gen)
    BY <1>2, <2>1, <2>3 DEF Snapshot!Activate, Manifest, GoodBlocks
  <2> QED BY <1>3, <2>1, <2>4 DEF Snapshot!Next
<1> QED BY <1>1, <1>4, <1>5, <1>6

\* A death, a loss of power or damage is a step of SnapshotStore or none.
LEMMA FaultRefines ==
    ASSUME Inv, Inv', Fault
    PROVE  Snapshot!Next \/ UNCHANGED View
<1>r. Snapshot!Restorable'
  BY Restores, PTL
<1>1. CASE EngineDies
  BY <1>1 DEF EngineDies, disk, View, Manifest, Recoverable, GoodBlocks, Damaged
<1>2. CASE PowerLoss
  <2>1. /\ meta' \in {meta, metaDisk} /\ metaDisk' = meta'
        /\ \A g \in Generation, k \in Key :
             filesDisk'[g][k] \in {"none", files[g][k], filesDisk[g][k]}
    BY <1>2 DEF PowerLoss
  <2>2. Damaged' \subseteq Damaged
    BY <2>1 DEF Inv, Directories, Damaged
  <2>3. PICK m \in {Manifest(meta), Manifest(metaDisk)} :
          Manifest(meta)' = m /\ Manifest(metaDisk)' = m
    BY <2>1 DEF Manifest, Recoverable
  <2>4. GoodBlocks' \subseteq Generation \X Key
    BY DEF GoodBlocks
  <2>5. Snapshot!PowerLoss(m)
    BY <2>2, <2>3, <2>4 DEF Snapshot!PowerLoss, GoodBlocks
  <2> QED BY <1>r, <2>5 DEF Snapshot!Next
<1>3. ASSUME NEW g \in Generation, NEW k \in Key, Damage(g, k)
      PROVE  Snapshot!Next
  <2>1. /\ UNCHANGED <<meta, metaDisk>> /\ filesDisk[g][k] = "good"
        /\ \A h \in Generation, j \in Key :
             filesDisk'[h][j] = IF h = g /\ j = k THEN "bad" ELSE filesDisk[h][j]
    BY <1>3 DEF Inv, TypeOK, FileType, Damage
  <2>2. GoodBlocks' = GoodBlocks \ {<<g, k>>}
    BY <2>1 DEF GoodBlocks
  <2>3. Damaged' = Damaged \cup {<<g, k>>}
    BY <2>1 DEF Damaged
  <2>4. UNCHANGED <<Manifest(meta), Manifest(metaDisk)>>
    BY <2>1 DEF Manifest, Recoverable
  <2>5. Snapshot!Damage(<<g, k>>)
    BY <2>2, <2>3, <2>4 DEF Snapshot!Damage, GoodBlocks
  <2> QED BY <1>r, <2>5 DEF Snapshot!Next
<1> QED BY <1>1, <1>2, <1>3 DEF Fault

\* Every step of the files is a step of SnapshotStore or none.
LEMMA NextRefines ==
    ASSUME Inv, Inv', [Next]_vars
    PROVE  [Snapshot!Next]_View
<1>q. ASSUME UNCHANGED <<meta, metaDisk, filesDisk>>
      PROVE  UNCHANGED View
  BY <1>q DEF View, Manifest, Recoverable, GoodBlocks, Damaged
<1>1. CASE UNCHANGED vars
  BY <1>1, <1>q DEF vars
<1>2. ASSUME NEW w \in Worker, Block(w)
      PROVE  [Snapshot!Next]_View
  <2>1. CASE SyncBlock(w)
    <3>1. \A g \in Generation, k \in Key : filesDisk'[g][k] \in {files[g][k], filesDisk[g][k]}
      BY <2>1 DEF Inv, TypeOK, FileType, SyncBlock
    <3> QED BY <2>1, <3>1, Exchanges DEF Inv, Directories, SyncBlock
  <2> QED BY <1>2, <1>q, <2>1
        DEF Block, WriteStart, Reuse, Rename, DropDamaged, WriteFails, disk
<1>3. CASE Publication
  BY <1>3, <1>q DEF Publication, Prepare, PublishStart, CollectStart, StartEmpty, disk
<1>4. CASE Exclusive
  <2>1. CASE ActivateSyncDirs
    <3>1. \A g \in Generation, k \in Key : filesDisk'[g][k] \in {"none", filesDisk[g][k]}
      BY <2>1 DEF ActivateSyncDirs, SyncDirs
    <3> QED BY <2>1, <3>1, Exchanges DEF ActivateSyncDirs
  <2>2. CASE SaveMetadata
    BY <2>2, SaveRefines
  <2>3. CASE SyncMetadata
    <3>1. Manifest(metaDisk)' = Manifest(meta) /\ UNCHANGED <<Manifest(meta), GoodBlocks, Damaged>>
      BY <2>3 DEF SyncMetadata, Manifest, Recoverable, GoodBlocks, Damaged
    <3>2. Snapshot!Save
      BY <3>1 DEF Snapshot!Save, GoodBlocks
    <3>3. Snapshot!Restorable'
      BY Restores, PTL
    <3> QED BY <3>2, <3>3 DEF Snapshot!Next
  <2>4. CASE FinishExclusive
    <3>1. \A g \in Generation, k \in Key :
            filesDisk'[g][k] \in {"none", files[g][k], filesDisk[g][k]}
      BY <2>4 DEF FinishExclusive, Synced
    <3> QED BY <2>4, <3>1, Exchanges DEF Inv, Directories, FinishExclusive
  <2> QED BY <1>4, <1>q, <2>1, <2>2, <2>3, <2>4
        DEF Exclusive, ActivateStart, Unlink, RemoveDir, ExclusiveFails, disk
<1>5. CASE Fault
  BY <1>5, FaultRefines
<1> QED BY <1>1, <1>2, <1>3, <1>4, <1>5 DEF Next

\* Whatever stops, and whenever (writers, publisher, compaction, loss of power),
\* the snapshot that chat.json names is complete on the medium up to damage from
\* outside, and only the commit of a complete successor (publish, line 703)
\* replaces it.
THEOREM SnapshotKept == Spec => SnapshotNeverLost
<1>1. Init => Snapshot!Init
  <2> SUFFICES ASSUME Init PROVE Snapshot!Init
    OBVIOUS
  <2>1. GoodBlocks = {} /\ Damaged = {}
    BY DEF Init, GoodBlocks, Damaged
  <2>2. Manifest(meta) = Snapshot!Empty /\ Manifest(metaDisk) = Snapshot!Empty
    BY DEF Init, NoMeta, NoSnapshot, Manifest, Recoverable, Snapshot!Empty, Snapshot!NoSnapshot
  <2> QED BY <2>1, <2>2 DEF Snapshot!Init, GoodBlocks
<1>2. Inv /\ Inv' /\ [Next]_vars => [Snapshot!Next]_View
  BY NextRefines
<1> QED BY <1>1, <1>2, Invariance, PTL
      DEF Spec, SnapshotNeverLost, Snapshot!Spec, View, GoodBlocks
=============================================================================
