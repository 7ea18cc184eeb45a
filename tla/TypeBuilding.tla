---------------------------- MODULE TypeBuilding ----------------------------
(***************************************************************************)
(* A program that declares types from types (GetTypeIdFor of                *)
(* type_context.cc), next to what each type means: the set of values a      *)
(* variable of that type may hold.                                          *)
(***************************************************************************)
EXTENDS TypeAlgebra

CONSTANTS MaxSteps    \* bound: declarations of a program

VARIABLES
  implements,   \* the interfaces each struct implements
  left, right,  \* the two types at hand
  means,        \* history: what each of them means
  coarse,       \* history: an intersection met a type it cannot take apart
  steps

vars == <<implements, left, right, means, coarse, steps>>

\* Values are told apart by the type they were made with.
Values == {"Nil", "i32"} \cup Struct

Names == {Named(n) : n \in {"i32", "any", "never", "Nil"} \cup Struct \cup Interface}

MeaningOf(n) ==
  CASE n.kind = "any"         -> Values
    [] n.kind = "never"       -> {}
    [] n.kind \in Interface   -> {s \in Struct : n.kind \in implements[s]}
    [] OTHER                  -> {n.kind}

\* What a type denotes.
Denotes(type) ==
  LET values[t \in Type] ==
        CASE t.kind \in {"alias", "union"} -> UNION {values[m] : m \in t.of}
          [] t.kind = "optional" -> {"Nil"} \cup values[Member(t)]
          [] t.kind = "intersection" -> {v \in Values : \A m \in t.of : v \in values[m]}
          [] OTHER -> MeaningOf(t)
  IN  values[type]

Mentions(type, kinds) ==
  LET parts[t \in Type] == {t} \cup UNION {parts[m] : m \in t.of}
  IN  \E t \in parts[type] : t.kind \in kinds

Init ==
  /\ implements \in [Struct -> SUBSET Interface]
  /\ left \in Names /\ right \in Names
  /\ means = <<MeaningOf(left), MeaningOf(right)>>
  /\ coarse = FALSE
  /\ steps = 0

Declare(t, meaning) ==
  /\ steps < MaxSteps /\ steps' = steps + 1
  /\ t \in Written /\ left' = t
  /\ means' = <<meaning, means[2]>>
  /\ UNCHANGED <<implements, right>>

DeclareUnion ==
  /\ Declare(GetUnionOf(implements, {left, right}), means[1] \cup means[2])
  /\ UNCHANGED coarse

DeclareIntersection ==
  /\ Declare(GetIntersectionOf(implements, <<left, right>>), means[1] \cap means[2])
  /\ coarse' = (coarse \/ Mentions(left, {"alias", "any"})
                       \/ Mentions(right, {"alias", "any"}))

\* Nil cannot be written as a type.
DeclareOptional ==
  /\ left # Nil
  /\ Declare(OptionalOf(left), means[1] \cup {"Nil"})
  /\ UNCHANGED coarse

\* An alias of a name is that name; only other types get one of their own.
DeclareAlias ==
  /\ left.of # {}
  /\ Declare(AliasOf(left), means[1])
  /\ UNCHANGED coarse

\* Another name is used.
TakeName ==
  /\ steps < MaxSteps /\ steps' = steps + 1
  /\ \E n \in Names : left' = n /\ means' = <<MeaningOf(n), means[1]>>
  /\ right' = left
  /\ UNCHANGED <<implements, coarse>>

Next ==
  \/ DeclareUnion \/ DeclareIntersection \/ DeclareOptional \/ DeclareAlias
  \/ TakeName

Spec == Init /\ [][Next]_vars

-----------------------------------------------------------------------------
(* Properties.                                                              *)

\* Declaring a type keeps its meaning: what GetUnionOf and GetIntersectionOf
\* flatten, absorb, distribute or collapse to Never denotes the values the
\* declaration says - unless an intersection met `any` or an alias.
MeaningKept == ~ coarse => Denotes(left) = means[1]

\* A value is only accepted where every value of its type may be stored
\* (IsTypeSubsetOf), whatever the types were built from.
SubsetSound ==
  IsTypeSubsetOf(implements, left, right) => Denotes(left) \subseteq Denotes(right)

\* After `if (x != Nil) ... else ...` the two things known of an optional x, the
\* type it wraps and Nil, are joined again (GetUnionOf).  Whatever was wrapped, the
\* result has exactly the values of the declared type; and it is that type itself,
\* the same TypeId, but in two cases: GetUnionOf opens a wrapped optional, so that
\* `(A?)?` comes back as `A?`, and drops `never`, of which Nil alone is left.
BranchesRejoin ==
  IsOptional(left) =>
    LET wrapped  == UnwrapOptional(left)
        rejoined == GetUnionOf(implements, {wrapped, Nil})
    IN  /\ Denotes(rejoined) = Denotes(left)
        /\ rejoined = IF wrapped \in {Never, OptionalOf(Never)} THEN Nil
                      ELSE IF IsOptional(wrapped) THEN wrapped
                      ELSE left
=============================================================================
