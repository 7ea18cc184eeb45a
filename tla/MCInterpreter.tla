--------------------------- MODULE MCInterpreter ----------------------------
(***************************************************************************)
(* Instances of Interpreter for TLC.                                        *)
(***************************************************************************)
EXTENDS Interpreter, TLC

\* Sound: addresses are interchangeable, except those of the constant table.
Symmetry == Permutations(Object \ Literal) \cup Permutations(Literal)
=============================================================================
