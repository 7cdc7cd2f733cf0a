-------------------------- MODULE AnswerPriorities --------------------------
(***************************************************************************)
(* The scheduler's registry of answer priorities: AnswerPriorities in      *)
(* experiments/radiance-public/radiance_fair_scheduler.py.                 *)
(*                                                                         *)
(* A row is the last update accepted for a chat.  It gives the chat its    *)
(* priority for 60 seconds (the lease) and stays for another hour as a     *)
(* tombstone, so that older updates are recognised.  Only the order of     *)
(* these two deadlines matters: a row's lease is "held", then "lapsed",    *)
(* then "stale" (any update may purge it).                                 *)
(***************************************************************************)
EXTENDS Integers, FiniteSets

CONSTANTS
    Chat,           \* chat identities
    Client,         \* client nonces
    None,           \* Python's None
    RegistryLimit   \* 4096

Priority == 0..2
Lease == {"held", "lapsed", "stale"}
RowType == [client : Client, answer : Nat, sequence : Nat, priority : Priority,
            active : BOOLEAN, lease : Lease]

ASSUME RegistryAssumption ==
    /\ None \notin Chat \cup Client
    /\ None \notin Priority /\ None \notin RowType
    /\ RegistryLimit \in Nat \ {0}

VARIABLE chats      \* AnswerPriorities.chats: the row of each chat, or None

RegistryInit == chats = [ch \in Chat |-> None]

Row(u) == [client |-> u.client, answer |-> u.answer, sequence |-> u.sequence,
           priority |-> u.priority, active |-> u.active, lease |-> "held"]

\* The same update again.
Duplicate(u) ==
    LET old == chats[u.chat]
    IN old # None /\ [old EXCEPT !.lease = "held"] = Row(u)

\* "stale priority update", or another window's answer is active.
Refused(u) ==
    LET old == chats[u.chat]
    IN /\ old # None
       /\ IF old.client = u.client THEN u.sequence <= old.sequence
          ELSE old.active /\ old.lease = "held"

\* Mutant: a row goes when its lease ends, not an hour later.
PurgedAtLease == [ch \in Chat |-> IF chats[ch] # None /\ chats[ch].lease # "held"
                                  THEN None ELSE chats[ch]]

Purged == [ch \in Chat |-> IF chats[ch] # None /\ chats[ch].lease = "stale"
                           THEN None ELSE chats[ch]]

\* "priority registry is full": raised after the purge.
Full(u) ==
    /\ Purged[u.chat] = None
    /\ Cardinality({ch \in Chat : Purged[ch] # None}) >= RegistryLimit

\* update(value) returns, rather than raises.
Applies(u) == Duplicate(u) \/ (~Refused(u) /\ ~Full(u))

\* Mutant: a duplicate renews the lease.
UpdatedRenewing(u) ==
    IF Duplicate(u) THEN [chats EXCEPT ![u.chat] = Row(u)]
    ELSE IF Refused(u) THEN chats
    ELSE IF Full(u) THEN Purged
    ELSE [Purged EXCEPT ![u.chat] = Row(u)]

\* The registry after update(value).
Updated(u) ==
    IF Duplicate(u) \/ Refused(u) THEN chats
    ELSE IF Full(u) THEN Purged
    ELSE [Purged EXCEPT ![u.chat] = Row(u)]

\* level(key) for a bank of the chat.
LevelOf(ch) ==
    LET row == chats[ch]
    IN IF row # None /\ row.active /\ row.lease = "held" THEN row.priority ELSE 0

\* The monotonic clock passes a deadline of the row.
LeaseEnds(ch) ==
    /\ chats[ch] # None /\ chats[ch].lease = "held"
    /\ chats' = [chats EXCEPT ![ch].lease = "lapsed"]

TombstoneEnds(ch) ==
    /\ chats[ch] # None /\ chats[ch].lease = "lapsed"
    /\ chats' = [chats EXCEPT ![ch].lease = "stale"]
=============================================================================
