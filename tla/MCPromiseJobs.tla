--------------------------- MODULE MCPromiseJobs ----------------------------
(***************************************************************************)
(* Instances of PromiseJobs for TLC.                                        *)
(***************************************************************************)
EXTENDS PromiseJobs, TLC

\* Sound for the invariants and the action properties: no promise or plain
\* value is named anywhere.  Not used where liveness is checked.
Symmetry == Permutations(Promise) \cup Permutations(Plain)
=============================================================================
