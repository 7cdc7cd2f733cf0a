---------------------------- MODULE SnapshotStore ----------------------------
(***************************************************************************)
(* What the chat store promises whoever restores a chat: at every instant, *)
(* whatever process or machine stops, one complete snapshot can be read    *)
(* back.  It changes only when a complete successor of the chat's current  *)
(* generation is committed; compacting the chat (Activate) retires the     *)
(* current generation and leaves the snapshot alone.  A change is lost at  *)
(* most until it is saved, and blocks of a snapshot are never given up.    *)
(***************************************************************************)
CONSTANTS Generation, Key, None

VARIABLES
    now,        \* the manifest processes see: current, retired, snapshot
    saved,      \* the manifest that survives a loss of power
    blocks,     \* <<generation, key>> of the blocks held durably
    damaged     \* blocks damaged from outside and not yet rewritten

NoSnapshot == [gen |-> None, keys |-> {}]
Empty == [current |-> None, retired |-> {}, snapshot |-> NoSnapshot]

BlocksOf(s) == {s.gen} \X s.keys

\* Both manifests name only blocks that are held, or that were damaged.
Restorable ==
    BlocksOf(now.snapshot) \cup BlocksOf(saved.snapshot) \subseteq blocks \cup damaged

Init == now = Empty /\ saved = Empty /\ blocks = {} /\ damaged = {}

Activate(g) ==
    /\ g # now.current /\ g \notin now.retired
    /\ now' = [current |-> g, retired |-> now.retired \cup ({now.current} \ {None}),
               snapshot |-> now.snapshot]
    /\ UNCHANGED <<saved, blocks, damaged>>

Commit(keys) ==
    /\ now.current # None /\ keys # {}
    /\ now' = [now EXCEPT !.snapshot = [gen |-> now.current, keys |-> keys]]
    /\ UNCHANGED <<saved, blocks, damaged>>

Save ==
    /\ saved' = now
    /\ UNCHANGED <<now, blocks, damaged>>

\* Blocks outside the snapshots come and go.
Exchange ==
    /\ blocks' \subseteq Generation \X Key
    /\ damaged' \subseteq damaged
    /\ UNCHANGED <<now, saved>>

PowerLoss(m) ==
    /\ now' = m /\ saved' = m
    /\ blocks' \subseteq Generation \X Key
    /\ damaged' \subseteq damaged

Damage(b) ==
    /\ blocks' = blocks \ {b}
    /\ damaged' = damaged \cup {b}
    /\ UNCHANGED <<now, saved>>

Next ==
    /\ \/ \E g \in Generation : Activate(g)
       \/ \E keys \in SUBSET Key : Commit(keys)
       \/ Save
       \/ Exchange
       \/ \E m \in {now, saved} : PowerLoss(m)
       \/ \E b \in Generation \X Key : Damage(b)
    /\ Restorable'

Spec == Init /\ [][Next]_<<now, saved, blocks, damaged>>
=============================================================================
