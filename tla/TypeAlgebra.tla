---------------------------- MODULE TypeAlgebra -----------------------------
(***************************************************************************)
(* Types of the compiler: interning (type_registry.cc), union, intersection *)
(* and the subset relation (type_context.cc), as operators on type terms.   *)
(* Structural interning makes equal terms equal TypeIds, so a term stands   *)
(* for its TypeId; the order of the ids inside a union is not kept.         *)
(***************************************************************************)
EXTENDS Naturals

CONSTANTS
  Kind,         \* the kinds of types, and the names of those that have one
  Struct,       \* names of structs
  Interface,    \* names of interfaces
  MaxDepth      \* bound: how deep the types a program writes are nested

BuiltIn == {"i32", "any", "never", "Nil", "error", "optional", "alias", "union", "intersection"}

ASSUME KindAssumption ==
  /\ BuiltIn \cup Struct \cup Interface \subseteq Kind
  /\ BuiltIn \cap (Struct \cup Interface) = {} /\ Struct \cap Interface = {}
  /\ MaxDepth \in Nat \ {0}

\* A type: its kind, or its name if it is built in, a struct or an interface;
\* and the set of types it is made of.
Named(n)        == [kind |-> n, of |-> {}]
OptionalOf(t)   == [kind |-> "optional", of |-> {t}]
AliasOf(t)      == [kind |-> "alias", of |-> {t}]

Error == Named("error")
AnyType == Named("any")
Never == Named("never")
Nil   == Named("Nil")

IsUnion(t)     == t.kind = "union"
IsOptional(t)  == t.kind = "optional"
IsInterface(t) == t.kind \in Interface
IsStruct(t)    == t.kind \in Struct \cup Interface
Member(t)      == CHOOSE m \in t.of : TRUE
Single(types)  == \E t \in types : types = {t}

\* Types that are nested at most n deep: those a program writes, and those that
\* are made of them on the way.
Nested[n \in Nat] ==
  {t \in [kind : Kind, of : SUBSET (IF n = 0 THEN {} ELSE Nested[n - 1])] :
     t.kind \in {"optional", "alias"} => Single(t.of)}
Written == Nested[MaxDepth]
Type    == Nested[3 * MaxDepth + 1]

\* The interfaces an implements-relation gives a type.
Interfaces(implements, t) ==
  IF t.kind \in Struct THEN {Named(i) : i \in implements[t.kind]} ELSE {}

\* UnwrapOptional gives no value for any other type.
HasUnwrapped(t)   == IsOptional(t)
UnwrapOptional(t) == Member(t)
IsTypeNilable(t)  == t = Nil \/ HasUnwrapped(t)

FollowAlias(type) ==
  LET follow[t \in Type] == IF t.kind = "alias" THEN follow[Member(t)] ELSE t
  IN  follow[type]

-----------------------------------------------------------------------------
(* Mutant of IsTypeSubsetOf: an optional is taken for the type it wraps.    *)
SubsetUnwraps(implements, sub, super) ==
  LET below[t \in Type] ==
        {s \in Type :
           \/ s = t
           \/ t.kind = "any" \/ s.kind = "never"
           \/ Named(t.kind) \in Interfaces(implements, s)
           \/ IsOptional(s) /\ UnwrapOptional(s) = t
           \/ IsOptional(t) /\ s \in below[UnwrapOptional(t)]}
  IN  sub \in below[super]

\* The rules for a template variable and for a placeholder as the subtype are
\* left out: no program here compares one.
IsTypeSubsetOf(implements, sub, super) ==
  LET below[super0 \in Type] ==
        {sub0 \in Type :
           LET s == FollowAlias(sub0)
               t == FollowAlias(super0)
           IN  \/ sub0 = super0
               \/ s = t
               \/ s = Never \/ t = AnyType
               \/ s = Error \/ t = Error
               \/ IsUnion(t) /\ (IF IsUnion(s) THEN s.of \subseteq t.of ELSE s \in t.of)
               \/ ~ IsUnion(s) /\ IsOptional(t) /\
                    (\/ s = Nil
                     \/ (IF IsOptional(s) THEN UnwrapOptional(s) ELSE s)
                          \in below[UnwrapOptional(t)])
               \/ t \in Interfaces(implements, s)}
  IN  sub \in below[super]

AreDisjointTypes(implements, t1, t2) ==
  /\ t1 # t2
  /\ ~ (IsInterface(t1) /\ IsInterface(t2))
  /\ t1 \notin Interfaces(implements, t2)
  /\ t2 \notin Interfaces(implements, t1)

-----------------------------------------------------------------------------
\* `A | (A & B)` is A, and `Foo | Hashable` is Hashable if Foo implements it.
FlattenSubtypesUnion(implements, types) ==
  {t \in types :
     IF t.kind = "intersection"
     THEN t.of \cap {u \in types : u.kind # "intersection"} = {}
     ELSE Interfaces(implements, t) \cap types = {}}

\* Mutant: the Nil of an optional member is dropped.
UnionDropsNil(implements, types) ==
  LET flat(t) == IF IsUnion(t) \/ IsOptional(t) THEN t.of ELSE {t}
      members == FlattenSubtypesUnion(implements,
                                      (UNION {flat(t) : t \in types}) \ {Never, Nil})
  IN  IF members = {} THEN Never
      ELSE IF Single(members) THEN CHOOSE m \in members : TRUE
      ELSE [kind |-> "union", of |-> members]

GetUnionOf(implements, types) ==
  LET flat(t) ==
        IF IsUnion(t) THEN t.of
        ELSE IF IsOptional(t) THEN {UnwrapOptional(t), Nil} ELSE {t}
      normalized == (UNION {flat(t) : t \in types}) \ {Never}
      members    == FlattenSubtypesUnion(implements, normalized \ {Nil})
      union      == IF Single(members)
                    THEN CHOOSE m \in members : TRUE
                    ELSE [kind |-> "union", of |-> members]
  IN  IF members = {} THEN (IF Nil \in normalized THEN Nil ELSE Never)
      ELSE IF Nil \in normalized THEN OptionalOf(union) ELSE union

FlattenKeepsSuper(implements, types) ==  \* mutant: the wider type is kept
  IF \E t, u \in types : /\ ~ IsTypeSubsetOf(implements, t, u)
                         /\ AreDisjointTypes(implements, t, u)
  THEN {Never}
  ELSE {u \in types :
          ~ \E t \in types \ {u} : IsTypeSubsetOf(implements, u, t)}

\* `Foo & Hashable` is Foo; two types without a common value make it Never.
FlattenSubtypesIntersection(implements, types) ==
  IF \E t, u \in types : /\ ~ IsTypeSubsetOf(implements, t, u)
                         /\ AreDisjointTypes(implements, t, u)
  THEN {Never}
  ELSE {u \in types :
          ~ \E t \in types \ {u} : IsTypeSubsetOf(implements, t, u)}

\* ts is a vector of two types.  An intersection of unions is the union of the
\* intersections of their members: of `plain`, what was no union so far, with one
\* member of each type that was.
GetIntersectionOf(implements, ts) ==
  LET split(t) == IsUnion(t) \/ IsOptional(t)
      parts(t) == IF IsUnion(t) THEN t.of ELSE {UnwrapOptional(t), Nil}
      flat(t)  == IF t.kind = "intersection" THEN t.of ELSE {t}
      meet[r \in (SUBSET Written) \X (SUBSET (1..2)) \X [1..2 -> Written]] ==
        LET types  == r[3]
            unions == {i \in r[2] : split(types[i])}
            plain  == FlattenSubtypesIntersection(implements,
                        r[1] \cup UNION {flat(types[i]) : i \in r[2] \ unions})
            member(i) == IF i \in unions THEN parts(types[i]) ELSE {types[i]}
            picks  == {p \in [1..2 -> member(1) \cup member(2)] :
                         \A i \in 1..2 : p[i] \in member(i)}
        IN  IF Never \in plain THEN Never
            ELSE IF unions # {}
            THEN GetUnionOf(implements, {meet[<<plain, unions, p>>] : p \in picks})
            ELSE IF plain = {} THEN Never
            ELSE IF Single(plain) THEN CHOOSE t \in plain : TRUE
            ELSE [kind |-> "intersection", of |-> plain]
  IN  meet[<<{}, {1, 2}, ts>>]
=============================================================================
