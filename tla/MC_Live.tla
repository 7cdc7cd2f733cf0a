------------------------------ MODULE MC_Live ------------------------------
(* The instance of LiveCommit for TLC: the private roots of a round may get *)
(* the names of an earlier one, or others.                                  *)
EXTENDS LiveCommit, TLC

CONSTANTS r1, r2

TwoNames == {r1, r2}

Names == Permutations(TwoNames)
=============================================================================
