------------------------------ MODULE MC_Tier ------------------------------
EXTENDS ChatTier

\* "a1" is generation 1 of chat "a".
ChatOfGen == [g \in Gen |-> IF g = "b1" THEN "b" ELSE "a"]

\* Two turns of chat a and one of chat b.
TwoTurns == <<"a1", "a1", "b1">>
=============================================================================
