---------------------------- MODULE MCNarrowing -----------------------------
(* Narrowing with two interchangeable variables.                            *)
EXTENDS Narrowing, TLC

CONSTANTS v, w

MCVariables == {v, w}
MCSymmetry  == Permutations(MCVariables)
=============================================================================
