------------------------------ MODULE MC_Fair ------------------------------
(* Instances of FairScheduler for TLC.  Chats, keys and requests are       *)
(* strings: "a1" is generation 1 of chat "a".                              *)
EXTENDS FairScheduler

\* Three chats, one generation each, one request each.
ThreeKeys == {"a1", "b1", "c1"}
ThreeChatOf == [k \in ThreeKeys |-> IF k = "a1" THEN "a" ELSE IF k = "b1" THEN "b" ELSE "c"]
ThreeReq == {"ra", "rb", "rc"}
ThreeKeyOf == [r \in ThreeReq |-> IF r = "ra" THEN "a1" ELSE IF r = "rb" THEN "b1" ELSE "c1"]
UrgentC == [x \in {"a", "b", "c"} |-> IF x = "c" THEN {0, 2} ELSE {0}]
NoPriorities == [x \in {"a", "b", "c"} |-> {0}]

\* Three chats with a request each; chat "a" is compacted to a second
\* generation, which has a request of its own.
GenKeys == {"a1", "a2", "b1", "c1"}
GenChatOf == [k \in GenKeys |-> IF k = "b1" THEN "b" ELSE IF k = "c1" THEN "c" ELSE "a"]
GenReq == {"ra", "ra2", "rb", "rc"}
GenKeyOf == [r \in GenReq |-> CASE r = "ra" -> "a1" [] r = "ra2" -> "a2"
                                 [] r = "rb" -> "b1" [] r = "rc" -> "c1"]
HeldA == [x \in {"a", "b", "c"} |-> CASE x = "a" -> {0, 1} [] x = "b" -> {0, 2} [] x = "c" -> {0}]

\* Two chats with a bank each and one request at a time each, as Pi sends them.
PairKeys == {"a1", "b1"}
PairChatOf == [k \in PairKeys |-> IF k = "a1" THEN "a" ELSE "b"]
PairReq == {"ra", "rb"}
PairKeyOf == [r \in PairReq |-> IF r = "rb" THEN "b1" ELSE "a1"]
PairPriorities == [x \in {"a", "b"} |-> {0}]
=============================================================================
