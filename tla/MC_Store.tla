------------------------------ MODULE MC_Store ------------------------------
EXTENDS ChatStore, TLC

\* Generations and keys are opaque identifiers: interchangeable.
Identifiers == Permutations(Generation) \cup Permutations(Key)
=============================================================================
