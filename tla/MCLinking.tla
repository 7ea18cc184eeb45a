----------------------------- MODULE MCLinking -----------------------------
(* Symbols are numbers.  Fn is main() and the implementations.              *)
EXTENDS Linking, FiniteSetsExt

Pairs == Method \X Struct
MCSymbolOf ==
  [x \in Pairs |-> 2 + Cardinality({y \in Pairs : 10 * y[1] + y[2] < 10 * x[1] + x[2]})]

\* main() refers to at most two things, an implementation to at most one
\* method or struct.
MCBodies ==
  [f \in Fn |->
     IF f = Main
     THEN UNION {kSubset(n, Extern \cup Method \cup Struct \cup {2}) : n \in 0..2}
     ELSE UNION {kSubset(n, Method \cup Struct) : n \in 0..1}]
=============================================================================
