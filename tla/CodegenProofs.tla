---------------------------- MODULE CodegenProofs ----------------------------
(***************************************************************************)
(* Code for functions of any size: every variable has its slot, every      *)
(* closure gets what it captures, and the code is balanced.                *)
(*                                                                         *)
(* The first part is about Slots: what a closure pushes belongs to the     *)
(* function that makes it, every slot lies inside the frame, and in        *)
(* functions of a regular shape every binding has the slot the call puts   *)
(* it in.  The inductive invariant is AnalysisInv: the scopes form a tree, *)
(* a function's bindings are numbered without gaps or repetition, its code *)
(* accesses everything it declares, and the block being checked lies in    *)
(* the function it emits for.                                              *)
(*                                                                         *)
(* The second part is about Emission, with two invariants.  A label that   *)
(* has been given out is either placed or waits at exactly one place among *)
(* the steps still to emit.  And there is a height for every label and for *)
(* every step still to emit, such that each step fits between its two      *)
(* heights: the stack a path arrives with at a label is the one the label  *)
(* was given when its form was chosen.                                     *)
(***************************************************************************)
EXTENDS Slots, Emission, WellFoundedInduction, SequenceTheorems, FiniteSetTheorems,
        TLAPS

-----------------------------------------------------------------------------
(* Induction and recursive functions.                                      *)

\* Induction over the numbers, of a set instead of a predicate: the least number
\* outside of it would be the successor of a number inside.
LEMMA SetInduction ==
    ASSUME NEW S, 0 \in S, \A n \in Nat : n \in S => n + 1 \in S
    PROVE  Nat \subseteq S
<1>. DEFINE R == OpToRel(<, Nat)
            T == Nat \ S
<1>1. IsWellFoundedOn(R, Nat)
  BY NatLessThanWellFounded
<1>2. SUFFICES ASSUME T # {} PROVE FALSE
  OBVIOUS
<1>3. T \subseteq Nat
  OBVIOUS
<1>4. \A x, y \in Nat : <<y, x>> \in R <=> y < x
  BY DEF OpToRel
<1>. HIDE DEF R
<1>5. PICK x \in T : \A y \in T : ~(<<y, x>> \in R)
  BY <1>1, <1>2, <1>3, WFMin
<1>6. x # 0 /\ x - 1 \in Nat /\ x \in Nat /\ x - 1 < x
  BY <1>5
<1>7. x - 1 \notin T
  BY <1>4, <1>5, <1>6
<1>. QED
  BY <1>5, <1>6, <1>7

\* A set that holds every number all of whose predecessors it holds.
LEMMA StrongInduction ==
    ASSUME NEW S, NEW n \in Nat,
           \A i \in 1..n : (\A j \in 1..(i - 1) : j \in S) => i \in S
    PROVE  \A i \in 1..n : i \in S
<1>. DEFINE T == {m \in Nat : m <= n => \A j \in 1..m : j \in S}
<1>1. 0 \in T
  OBVIOUS
<1>2. ASSUME NEW m \in Nat, m \in T PROVE m + 1 \in T
  <2>. SUFFICES ASSUME m + 1 <= n PROVE \A j \in 1..(m + 1) : j \in S
    OBVIOUS
  <2>1. m <= n /\ m + 1 \in 1..n /\ (m + 1) - 1 = m
    OBVIOUS
  <2>2. \A j \in 1..m : j \in S
    BY <1>2, <2>1
  <2>3. m + 1 \in S
    BY <2>1, <2>2
  <2>. QED
    BY <2>2, <2>3
<1>. HIDE DEF T
<1>3. Nat \subseteq T
  BY <1>1, <1>2, SetInduction
<1>4. n \in T
  BY <1>3
<1>. QED
  BY <1>4 DEF T

\* Climbing from i towards the root: parents come before their children.
ClimbsDown(n, stop, parent) ==
    \A i \in 1..n : ~stop[i] => parent[i] \in 1..(i - 1)
IsClimb(f, n, stop, base, parent) ==
    f = [i \in 1..n |-> IF stop[i] THEN base[i] ELSE f[parent[i]]]

\* A function climbing towards the root exists.
LEMMA Climbing ==
    ASSUME NEW n \in Nat, NEW stop, NEW base, NEW parent, ClimbsDown(n, stop, parent)
    PROVE  \E f : IsClimb(f, n, stop, base, parent)
<1>. DEFINE Upto(m) == \E f : IsClimb(f, m, stop, base, parent)
            S == {m \in Nat : m <= n => Upto(m)}
<1>1. 0 \in S
  <2>. DEFINE f == [i \in 1..0 |-> 0]
  <2>1. f = [i \in 1..0 |-> IF stop[i] THEN base[i] ELSE f[parent[i]]]
    OBVIOUS
  <2>. HIDE DEF f
  <2>2. Upto(0)
    BY <2>1 DEF IsClimb
  <2>. QED
    BY <2>2
<1>2. ASSUME NEW m \in Nat, m \in S PROVE m + 1 \in S
  <2>. SUFFICES ASSUME m + 1 <= n PROVE Upto(m + 1)
    OBVIOUS
  <2>1. PICK f : f = [i \in 1..m |-> IF stop[i] THEN base[i] ELSE f[parent[i]]]
    BY <1>2 DEF IsClimb
  <2>2. \A i \in 1..(m + 1) : ~stop[i] => parent[i] \in 1..(i - 1)
    BY DEF ClimbsDown
  <2>. DEFINE g == [i \in 1..(m + 1) |-> IF stop[i] THEN base[i] ELSE f[parent[i]]]
  <2>3. \A i \in 1..m : g[i] = f[i]
    <3>1. \A i \in 1..m : g[i] = IF stop[i] THEN base[i] ELSE f[parent[i]]
      OBVIOUS
    <3>2. \A i \in 1..m : f[i] = IF stop[i] THEN base[i] ELSE f[parent[i]]
      BY <2>1
    <3>. HIDE DEF g
    <3>. QED
      BY <3>1, <3>2
  <2>4. \A i \in 1..(m + 1) : ~stop[i] => parent[i] \in 1..m
    BY <2>2
  <2>5. \A i \in 1..(m + 1) : ~stop[i] => g[parent[i]] = f[parent[i]]
    BY <2>3, <2>4
  <2>6. g = [i \in 1..(m + 1) |-> IF stop[i] THEN base[i] ELSE g[parent[i]]]
    BY <2>5
  <2>. HIDE DEF g
  <2>. QED
    BY <2>6 DEF IsClimb
<1>3. Nat \subseteq S
  <2>. HIDE DEF S
  <2>. QED
    BY <1>1, <1>2, SetInduction
<1>. QED
  BY <1>3

-----------------------------------------------------------------------------
(* The scopes of the program and the functions they lie in.                *)

Binding == [name : Name, kind : {"Variable", "Capture", "Argument"},
            idx : Nat, fn : Nat]
Scope == [type : {"RootScope", "FunctionInstanceScope", "BlockScope"},
          parent : Nat, next : Nat, bindings : Seq(Binding)]

\* The scopes sc form a tree whose root is the first of them.
IsTree(sc) ==
    /\ sc \in Seq(Scope) /\ Len(sc) >= 1
    /\ \A i \in 2..Len(sc) : sc[i].parent \in 1..(i - 1)

IsFunction(sc, i) == sc[i].type = "FunctionInstanceScope"

\* FunctionScope, of any scopes.
Up(sc, s) ==
    LET up[i \in 1..Len(sc)] ==
            IF i = ROOT \/ sc[i].type = "FunctionInstanceScope"
            THEN i ELSE up[sc[i].parent]
    IN  up[s]

\* FunctionScope is Up of the current scopes.
LEMMA UpIsFunctionScope ==
    /\ \A s : FunctionScope(s) = Up(scopes, s)
    /\ \A s : FunctionScope(s)' = Up(scopes', s)
  BY DEF FunctionScope, Up

\* The equation the function scope is defined by.
LEMMA UpEquation ==
    ASSUME NEW sc, IsTree(sc), NEW s \in 1..Len(sc)
    PROVE  Up(sc, s) = IF s = ROOT \/ IsFunction(sc, s) THEN s
                       ELSE Up(sc, sc[s].parent)
<1>. DEFINE n == Len(sc)
            stop == [i \in 1..n |-> i = ROOT \/ sc[i].type = "FunctionInstanceScope"]
            base == [i \in 1..n |-> i]
            parent == [i \in 1..n |-> sc[i].parent]
            Eq(g) == g = [i \in 1..n |->
                            IF i = ROOT \/ sc[i].type = "FunctionInstanceScope"
                            THEN i ELSE g[sc[i].parent]]
            h == CHOOSE g : Eq(g)
<1>1. n \in Nat /\ \A i \in 1..n : i # ROOT => sc[i].parent \in 1..(i - 1)
  BY DEF IsTree, ROOT
<1>2. ClimbsDown(n, stop, parent)
  BY <1>1 DEF ClimbsDown
<1>3. PICK f : IsClimb(f, n, stop, base, parent)
  <2>. HIDE DEF n, stop, base, parent
  <2>. QED
    BY <1>1, <1>2, Climbing
<1>4. Eq(f)
  BY <1>1, <1>3 DEF IsClimb
<1>5. Eq(h)
  <2>. HIDE DEF Eq
  <2>. QED
    BY <1>4
<1>6. \A i : Up(sc, i) = h[i]
  BY DEF Up
<1>7. \A i \in 1..n : h[i] = IF i = ROOT \/ sc[i].type = "FunctionInstanceScope"
                             THEN i ELSE h[sc[i].parent]
  <2>. HIDE DEF h
  <2>. QED
    BY <1>5
<1>. HIDE DEF h
<1>. QED
  BY <1>6, <1>7 DEF IsFunction

\* The scope of a function lies around s, and is its own function scope.
LEMMA UpRange ==
    ASSUME NEW sc, IsTree(sc)
    PROVE  \A s \in 1..Len(sc) :
             /\ Up(sc, s) \in 1..s
             /\ Up(sc, s) = ROOT \/ IsFunction(sc, Up(sc, s))
             /\ Up(sc, Up(sc, s)) = Up(sc, s)
<1>. DEFINE n == Len(sc)
            S == {s \in Nat : /\ Up(sc, s) \in 1..s
                              /\ Up(sc, s) = ROOT \/ IsFunction(sc, Up(sc, s))
                              /\ Up(sc, Up(sc, s)) = Up(sc, s)}
<1>1. n \in Nat /\ \A i \in 1..n : i # ROOT => sc[i].parent \in 1..(i - 1)
  BY DEF IsTree, ROOT
<1>2. ASSUME NEW i \in 1..n, \A j \in 1..(i - 1) : j \in S PROVE i \in S
  <2>1. CASE i = ROOT \/ IsFunction(sc, i)
    <3>1. Up(sc, i) = i
      BY <2>1, UpEquation
    <3>. QED
      BY <2>1, <3>1
  <2>2. CASE ~(i = ROOT \/ IsFunction(sc, i))
    <3>. DEFINE p == sc[i].parent
    <3>1. Up(sc, i) = Up(sc, p)
      BY <2>2, UpEquation
    <3>2. p \in 1..(i - 1)
      BY <1>1, <2>2
    <3>3. p \in S
      BY <1>2, <3>2
    <3>. HIDE DEF p
    <3>4. 1..p \subseteq 1..i
      BY <3>2
    <3>. QED
      BY <3>1, <3>3, <3>4
  <2>. QED
    BY <2>1, <2>2
<1>3. \A i \in 1..n : i \in S
  <2>. HIDE DEF S, n
  <2>. QED
    BY <1>1, <1>2, StrongInduction
<1>. QED
  BY <1>3

\* Scopes that come later change nothing about it.
LEMMA UpStable ==
    ASSUME NEW sc, NEW new, IsTree(sc), IsTree(new), Len(sc) <= Len(new),
           \A i \in 1..Len(sc) :
               new[i].type = sc[i].type /\ new[i].parent = sc[i].parent
    PROVE  \A s \in 1..Len(sc) : Up(new, s) = Up(sc, s)
<1>. DEFINE n == Len(sc)
            S == {s \in Nat : Up(new, s) = Up(sc, s)}
<1>1. /\ n \in Nat /\ \A i \in 1..n : i # ROOT => sc[i].parent \in 1..(i - 1)
      /\ \A i \in 1..n : i \in 1..Len(new)
  BY DEF IsTree, ROOT
<1>2. ASSUME NEW i \in 1..n, \A j \in 1..(i - 1) : j \in S PROVE i \in S
  <2>1. /\ Up(sc, i) = IF i = ROOT \/ IsFunction(sc, i) THEN i ELSE Up(sc, sc[i].parent)
        /\ Up(new, i) = IF i = ROOT \/ IsFunction(new, i) THEN i ELSE Up(new, new[i].parent)
    BY <1>1, UpEquation
  <2>2. IsFunction(new, i) <=> IsFunction(sc, i)
    BY DEF IsFunction
  <2>3. ASSUME i # ROOT PROVE Up(new, new[i].parent) = Up(sc, sc[i].parent)
    <3>1. sc[i].parent \in S
      BY <1>1, <1>2, <2>3
    <3>. QED
      BY <3>1
  <2>. QED
    BY <2>1, <2>2, <2>3
<1>3. \A i \in 1..n : i \in S
  <2>. HIDE DEF S, n
  <2>. QED
    BY <1>1, <1>2, StrongInduction
<1>. QED
  BY <1>3

-----------------------------------------------------------------------------
(* The bindings, and what a name is found to mean.                         *)

Bound(sc, i) == ToSet(sc[i].bindings)
Decl(sc) == {b \in Binding : \E i \in 1..Len(sc) : b \in Bound(sc, i)}

\* A binding belongs to the function its scope lies in.
BoundHere(sc) ==
    \A i \in 1..Len(sc) : \A b \in Bound(sc, i) : b.fn = Up(sc, i)

\* What is bound in a scope is declared.
LEMMA BoundDeclared ==
    ASSUME NEW sc, IsTree(sc), NEW i \in 1..Len(sc)
    PROVE  Bound(sc, i) \subseteq Decl(sc)
<1>1. sc[i] \in Scope
  BY DEF IsTree
<1>2. sc[i].bindings \in Seq(Binding)
  BY <1>1 DEF Scope
<1>3. Bound(sc, i) \subseteq Binding
  BY <1>2 DEF Bound, ToSet
<1>. QED
  BY <1>3 DEF Decl

\* What a name is found to mean: a binding of the function around the use, or,
\* if that has none, one of the function around that.
LEMMA FoundBindings ==
    ASSUME IsTree(scopes), BoundHere(scopes), active \in 1..Len(scopes), NEW n
    PROVE  /\ \A b \in FindBindingFor(n, "Function") :
                b \in Decl(scopes) /\ b.fn = Up(scopes, active)
           /\ FindBindingFor(n, "Function") = {} =>
                \A b \in FindBindingFor(n, "Closure") :
                    /\ b \in Decl(scopes)
                    /\ b.fn = Up(scopes, scopes[Up(scopes, active)].parent)
<1>. DEFINE m == Len(scopes)
            here(i) == {b \in Bindings(i) : b.name = n}
            boundary(i) == scopes[i].type = "FunctionInstanceScope"
            EqNear(g) == g = [i \in 1..Len(scopes) |->
                            IF here(i) # {} \/ boundary(i) \/ i = ROOT
                            THEN here(i) ELSE g[scopes[i].parent]]
            near == CHOOSE g : EqNear(g)
            EqFar(g) == g = [i \in 1..Len(scopes) |->
                            IF here(i) # {} \/ i = ROOT THEN here(i)
                            ELSE IF boundary(i) THEN near[scopes[i].parent]
                                 ELSE g[scopes[i].parent]]
            far == CHOOSE g : EqFar(g)
            parent == [i \in 1..m |-> scopes[i].parent]
            stopNear == [i \in 1..m |-> here(i) # {} \/ boundary(i) \/ i = ROOT]
            baseNear == [i \in 1..m |-> here(i)]
            stopFar == [i \in 1..m |-> here(i) # {} \/ i = ROOT \/ boundary(i)]
            baseFar == [i \in 1..m |-> IF here(i) # {} \/ i = ROOT THEN here(i)
                                       ELSE near[scopes[i].parent]]
<1>1. /\ FindBindingFor(n, "Function") = near[active]
      /\ FindBindingFor(n, "Closure") = far[active]
  BY DEF FindBindingFor
<1>2. m \in Nat /\ \A i \in 1..m : i # ROOT => scopes[i].parent \in 1..(i - 1)
  BY DEF IsTree, ROOT
<1>3. ClimbsDown(m, stopNear, parent) /\ ClimbsDown(m, stopFar, parent)
  BY <1>2 DEF ClimbsDown
<1>4. EqNear(near)
  <2>1. PICK f : IsClimb(f, m, stopNear, baseNear, parent)
    <3>. HIDE DEF m, stopNear, baseNear, parent
    <3>. QED
      BY <1>2, <1>3, Climbing
  <2>2. EqNear(f)
    BY <1>2, <2>1 DEF IsClimb
  <2>. HIDE DEF EqNear
  <2>. QED
    BY <2>2
<1>5. EqFar(far)
  <2>1. PICK f : IsClimb(f, m, stopFar, baseFar, parent)
    <3>. HIDE DEF m, stopFar, baseFar, parent
    <3>. QED
      BY <1>2, <1>3, Climbing
  <2>. HIDE DEF near
  <2>2. EqFar(f)
    <3>1. f = [i \in 1..m |-> IF stopFar[i] THEN baseFar[i] ELSE f[parent[i]]]
      BY <2>1 DEF IsClimb
    <3>2. \A i \in 1..m :
            (IF stopFar[i] THEN baseFar[i] ELSE f[parent[i]])
              = IF here(i) # {} \/ i = ROOT THEN here(i)
                ELSE IF boundary(i) THEN near[scopes[i].parent]
                     ELSE f[scopes[i].parent]
      OBVIOUS
    <3>. HIDE DEF stopFar, baseFar, parent
    <3>. QED
      BY <3>1, <3>2
  <2>. HIDE DEF EqFar
  <2>. QED
    BY <2>2
<1>6. \A i \in 1..m : near[i] = IF here(i) # {} \/ boundary(i) \/ i = ROOT
                               THEN here(i) ELSE near[scopes[i].parent]
  <2>. HIDE DEF near, here, boundary
  <2>. QED
    BY <1>4
<1>7. \A i \in 1..m : far[i] = IF here(i) # {} \/ i = ROOT THEN here(i)
                               ELSE IF boundary(i) THEN near[scopes[i].parent]
                                    ELSE far[scopes[i].parent]
  <2>. HIDE DEF near, far, here, boundary
  <2>. QED
    BY <1>5
<1>8. \A i \in 1..m : \A b \in here(i) : b \in Decl(scopes) /\ b.fn = Up(scopes, i)
  <2>1. \A i : Bindings(i) = Bound(scopes, i)
    BY DEF Bindings, Bound
  <2>. QED
    BY <2>1, BoundDeclared DEF BoundHere
<1>9. \A i \in 1..m : Up(scopes, i) = IF i = ROOT \/ boundary(i) THEN i
                                      ELSE Up(scopes, scopes[i].parent)
  BY UpEquation DEF IsFunction
<1>. HIDE DEF near, far, here, boundary
<1>. DEFINE N == {i \in Nat : \A b \in near[i] :
                                b \in Decl(scopes) /\ b.fn = Up(scopes, i)}
            F == {i \in Nat : near[i] = {} => \A b \in far[i] :
                    /\ b \in Decl(scopes)
                    /\ b.fn = Up(scopes, scopes[Up(scopes, i)].parent)}
<1>10. \A i \in 1..m : i \in N
  <2>1. ASSUME NEW i \in 1..m, \A j \in 1..(i - 1) : j \in N PROVE i \in N
    <3>1. CASE here(i) # {} \/ boundary(i) \/ i = ROOT
      BY <1>6, <1>8, <3>1
    <3>2. CASE ~(here(i) # {} \/ boundary(i) \/ i = ROOT)
      <4>1. scopes[i].parent \in N
        BY <1>2, <2>1, <3>2
      <4>2. near[i] = near[scopes[i].parent] /\ Up(scopes, i) = Up(scopes, scopes[i].parent)
        BY <1>6, <1>9, <3>2
      <4>. QED
        BY <4>1, <4>2
    <3>. QED
      BY <3>1, <3>2
  <2>. HIDE DEF N, m
  <2>. QED
    BY <1>2, <2>1, StrongInduction
<1>11. \A i \in 1..m : i \in F
  <2>1. ASSUME NEW i \in 1..m, \A j \in 1..(i - 1) : j \in F PROVE i \in F
    <3>. SUFFICES ASSUME near[i] = {}, NEW b \in far[i]
                  PROVE  /\ b \in Decl(scopes)
                         /\ b.fn = Up(scopes, scopes[Up(scopes, i)].parent)
      OBVIOUS
    <3>1. CASE here(i) # {} \/ i = ROOT
      <4>1. near[i] = here(i) /\ far[i] = here(i)
        BY <1>6, <1>7, <3>1
      <4>. QED
        BY <4>1
    <3>2. CASE here(i) = {} /\ i # ROOT /\ boundary(i)
      <4>1. far[i] = near[scopes[i].parent] /\ Up(scopes, i) = i
        BY <1>7, <1>9, <3>2
      <4>2. scopes[i].parent \in 1..m
        BY <1>2, <3>2
      <4>3. scopes[i].parent \in N
        BY <1>10, <4>2
      <4>. QED
        BY <4>1, <4>3
    <3>3. CASE here(i) = {} /\ i # ROOT /\ ~boundary(i)
      <4>1. /\ far[i] = far[scopes[i].parent] /\ near[i] = near[scopes[i].parent]
            /\ Up(scopes, i) = Up(scopes, scopes[i].parent)
        BY <1>6, <1>7, <1>9, <3>3
      <4>2. scopes[i].parent \in F
        BY <1>2, <2>1, <3>3
      <4>. QED
        BY <4>1, <4>2
    <3>. QED
      BY <3>1, <3>2, <3>3
  <2>. HIDE DEF F, m
  <2>. QED
    BY <1>2, <2>1, StrongInduction
<1>12. active \in N /\ active \in F
  BY <1>10, <1>11
<1>. QED
  BY <1>1, <1>12

-----------------------------------------------------------------------------
(* Inserting a binding, adding a scope.                                    *)

\* What holds of the bindings: those of a scope come in the order of their
\* indices, those of a function have the indices 0 up to its counter, each its
\* own, and its arguments are the first of them.
BindInv(sc) ==
    /\ BoundHere(sc)
    /\ \A i \in 1..Len(sc) : \A p, q \in 1..Len(sc[i].bindings) :
            p < q => sc[i].bindings[p].idx < sc[i].bindings[q].idx
    /\ \A b \in Decl(sc) : b.idx < sc[b.fn].next
    /\ \A b, c \in Decl(sc) : b.fn = c.fn /\ b.idx = c.idx => b = c
    /\ \A i \in 1..Len(sc) : \A x \in 0..(sc[i].next - 1) :
            \E b \in Decl(sc) : b.fn = i /\ b.idx = x
    /\ \A b \in Decl(sc) : b.kind = "Argument" => b \in Bound(sc, b.fn)
    /\ \A b, c \in Decl(sc) :
            b.fn = c.fn /\ b.kind = "Argument" /\ c.kind # "Argument"
                => b.idx < c.idx

\* A scope with two fields changed.
With(r, bindings, next) == [r EXCEPT !.bindings = bindings, !.next = next]

\* What changing those fields yields.
LEMMA ScopeWith ==
    ASSUME NEW r \in Scope, NEW bindings \in Seq(Binding), NEW next \in Nat
    PROVE  /\ With(r, bindings, next) \in Scope
           /\ With(r, bindings, next).type = r.type
           /\ With(r, bindings, next).parent = r.parent
           /\ With(r, bindings, next).next = next
           /\ With(r, bindings, next).bindings = bindings
<1>. DEFINE u == [r EXCEPT !.bindings = bindings]
            t == [u EXCEPT !.next = next]
<1>1. u \in Scope /\ u.type = r.type /\ u.parent = r.parent /\ u.bindings = bindings
  BY DEF Scope
<1>2. With(r, bindings, next) = t
  BY DEF With
<1>. HIDE DEF u
<1>3. /\ t \in Scope /\ t.type = u.type /\ t.parent = u.parent
      /\ t.next = next /\ t.bindings = u.bindings
  BY <1>1 DEF Scope
<1>. HIDE DEF t
<1>. QED
  BY <1>1, <1>2, <1>3

\* The scopes with the binding b inserted into s.
Inserted(sc, s, b) ==
    [i \in 1..Len(sc) |->
        [sc[i] EXCEPT
            !.bindings = IF i = s THEN Append(@, b) ELSE @,
            !.next = IF i = b.fn THEN @ + 1 ELSE @]]

\* Inserting a binding keeps the tree of scopes.
LEMMA InsertedScopes ==
    ASSUME NEW sc, IsTree(sc), NEW s \in 1..Len(sc), NEW b \in Binding
    PROVE  LET new == Inserted(sc, s, b)
           IN  /\ IsTree(new) /\ Len(new) = Len(sc)
               /\ \A i \in 1..Len(sc) :
                    /\ new[i].type = sc[i].type /\ new[i].parent = sc[i].parent
                    /\ Up(new, i) = Up(sc, i)
                    /\ new[i].next = IF i = b.fn THEN sc[i].next + 1 ELSE sc[i].next
                    /\ new[i].bindings = IF i = s THEN Append(sc[i].bindings, b)
                                         ELSE sc[i].bindings
<1>. DEFINE new == Inserted(sc, s, b)
            n == Len(sc)
<1>1. n \in Nat /\ sc \in Seq(Scope) /\ \A i \in 1..n : sc[i] \in Scope
  BY DEF IsTree
<1>2. new = [i \in 1..n |->
                [sc[i] EXCEPT
                    !.bindings = IF i = s THEN Append(sc[i].bindings, b)
                                 ELSE sc[i].bindings,
                    !.next = IF i = b.fn THEN sc[i].next + 1 ELSE sc[i].next]]
  BY DEF Inserted
<1>3. ASSUME NEW i \in 1..n
      PROVE  /\ new[i] \in Scope
             /\ new[i].type = sc[i].type /\ new[i].parent = sc[i].parent
             /\ new[i].next = IF i = b.fn THEN sc[i].next + 1 ELSE sc[i].next
             /\ new[i].bindings = IF i = s THEN Append(sc[i].bindings, b)
                                  ELSE sc[i].bindings
  <2>. DEFINE bindings == IF i = s THEN Append(sc[i].bindings, b) ELSE sc[i].bindings
              next == IF i = b.fn THEN sc[i].next + 1 ELSE sc[i].next
  <2>1. sc[i].bindings \in Seq(Binding) /\ sc[i].next \in Nat /\ sc[i] \in Scope
    BY <1>1 DEF Scope
  <2>2. bindings \in Seq(Binding) /\ next \in Nat
    BY <2>1
  <2>3. new[i] = With(sc[i], bindings, next)
    <3>. HIDE DEF new
    <3>. QED
      BY <1>2 DEF With
  <2>. HIDE DEF bindings, next, new
  <2>4. /\ new[i] \in Scope
        /\ new[i].type = sc[i].type /\ new[i].parent = sc[i].parent
        /\ new[i].next = next /\ new[i].bindings = bindings
    <3>. DEFINE r == sc[i]
                w == With(r, bindings, next)
    <3>1. r \in Scope
      BY <2>1
    <3>. HIDE DEF r
    <3>2. /\ w \in Scope /\ w.type = r.type /\ w.parent = r.parent
          /\ w.next = next /\ w.bindings = bindings
      BY <2>2, <3>1, ScopeWith
    <3>3. new[i] = w
      BY <2>3 DEF r
    <3>. HIDE DEF w
    <3>. QED
      BY <3>2, <3>3 DEF r
  <2>. QED
    BY <2>4 DEF bindings, next
<1>4. new \in Seq(Scope) /\ Len(new) = n
  <2>1. new = [i \in 1..n |-> new[i]]
    BY <1>2
  <2>. HIDE DEF new, n
  <2>. QED
    BY <1>1, <1>3, <2>1
<1>. HIDE DEF new
<1>5. IsTree(new)
  BY <1>1, <1>3, <1>4 DEF IsTree
<1>6. \A i \in 1..n : Up(new, i) = Up(sc, i)
  <2>1. Len(sc) <= Len(new)
    BY <1>1, <1>4
  <2>. QED
    BY <1>3, <1>5, <2>1, UpStable
<1>. QED
  BY <1>3, <1>4, <1>5, <1>6 DEF new

\* Inserting the next binding of the function around s keeps the bindings right.
LEMMA InsertedBindings ==
    ASSUME NEW sc, IsTree(sc), BindInv(sc), NEW s \in 1..Len(sc),
           NEW b \in Binding, b.fn = Up(sc, s), b.idx = sc[b.fn].next,
           b.kind # "Argument"
    PROVE  LET new == Inserted(sc, s, b)
           IN  /\ BindInv(new)
               /\ Decl(new) = Decl(sc) \cup {b}
               /\ b \notin Decl(sc)
<1>. DEFINE new == Inserted(sc, s, b)
            n == Len(sc)
            f == b.fn
            old(i) == sc[i].bindings
<1>1. /\ IsTree(new) /\ Len(new) = n
      /\ \A i \in 1..n :
           /\ Up(new, i) = Up(sc, i)
           /\ new[i].next = IF i = f THEN sc[i].next + 1 ELSE sc[i].next
           /\ new[i].bindings = IF i = s THEN Append(old(i), b) ELSE old(i)
  BY InsertedScopes
<1>. HIDE DEF new
<1>2. /\ n \in Nat
      /\ \A i \in 1..n : old(i) \in Seq(Binding) /\ sc[i].next \in Nat
  <2>1. sc \in Seq(Scope)
    BY DEF IsTree
  <2>2. n \in Nat /\ \A i \in 1..n : sc[i] \in Scope
    BY <2>1
  <2>3. \A r \in Scope : r.bindings \in Seq(Binding) /\ r.next \in Nat
    BY DEF Scope
  <2>. QED
    BY <2>2, <2>3
<1>3. f \in 1..n
  <2>1. Up(sc, s) \in 1..s
    BY UpRange
  <2>. QED
    BY <1>2, <2>1
<1>4. \A i \in 1..n : Bound(new, i) = IF i = s THEN Bound(sc, i) \cup {b} ELSE Bound(sc, i)
  <2>. SUFFICES ASSUME NEW i \in 1..n
                PROVE  Bound(new, i) = IF i = s THEN Bound(sc, i) \cup {b} ELSE Bound(sc, i)
    OBVIOUS
  <2>. DEFINE q == old(i)
  <2>1. CASE i = s
    <3>1. q \in Seq(Binding)
      BY <1>2
    <3>2. new[i].bindings = Append(q, b)
      BY <1>1, <2>1
    <3>. DEFINE r == Append(q, b)
    <3>. HIDE DEF q
    <3>3. /\ Len(q) \in Nat /\ Len(r) = Len(q) + 1 /\ r \in Seq(Binding)
          /\ \A j \in 1..Len(q) : r[j] = q[j]
          /\ r[Len(q) + 1] = b
      BY <3>1, AppendProperties
    <3>. HIDE DEF r
    <3>4. {r[j] : j \in 1..Len(r)} = {q[j] : j \in 1..Len(q)} \cup {b}
      <4>1. \A j \in 1..Len(r) : j = Len(q) + 1 \/ j \in 1..Len(q)
        BY <3>3
      <4>2. \A j \in 1..Len(q) : j \in 1..Len(r)
        BY <3>3
      <4>3. Len(q) + 1 \in 1..Len(r)
        BY <3>3
      <4>. QED
        BY <3>3, <4>1, <4>2, <4>3
    <3>5. DOMAIN r = 1..Len(r) /\ DOMAIN q = 1..Len(q)
      BY <3>1, <3>3
    <3>6. Bound(new, i) = {r[j] : j \in 1..Len(r)} /\ Bound(sc, i) = {q[j] : j \in 1..Len(q)}
      BY <3>2, <3>5 DEF Bound, ToSet, q, r
    <3>. QED
      BY <2>1, <3>4, <3>6
  <2>2. CASE i # s
    BY <1>1, <2>2 DEF Bound
  <2>. QED
    BY <2>1, <2>2
<1>5. Decl(new) = Decl(sc) \cup {b}
  BY <1>1, <1>4 DEF Decl
<1>6. \A c \in Decl(sc) : c.fn \in 1..n /\ c.idx \in Nat /\ c.idx < sc[c.fn].next
  <2>. SUFFICES ASSUME NEW c \in Decl(sc)
                PROVE  c.fn \in 1..n /\ c.idx \in Nat /\ c.idx < sc[c.fn].next
    OBVIOUS
  <2>1. PICK i \in 1..n : c \in Bound(sc, i)
    BY DEF Decl
  <2>2. c.fn = Up(sc, i)
    BY <2>1 DEF BindInv, BoundHere
  <2>3. Up(sc, i) \in 1..i
    BY UpRange
  <2>4. c \in Binding
    BY DEF Decl
  <2>. QED
    BY <1>2, <2>2, <2>3, <2>4 DEF BindInv, Binding
<1>7. b \notin Decl(sc) /\ \A c \in Decl(sc) : c.fn = f => c.idx < b.idx
  <2>1. b.idx \in Nat
    BY DEF Binding
  <2>. QED
    BY <1>6, <2>1
<1>8. BoundHere(new)
  <2>1. BoundHere(sc)
    BY DEF BindInv
  <2>. QED
    BY <1>1, <1>4, <2>1 DEF BoundHere
<1>9. ASSUME NEW i \in 1..n
      PROVE  \A p, q \in 1..Len(new[i].bindings) :
                p < q => new[i].bindings[p].idx < new[i].bindings[q].idx
  <2>. DEFINE o == old(i)
  <2>1. o \in Seq(Binding) /\ \A p, q \in 1..Len(o) : p < q => o[p].idx < o[q].idx
    BY <1>2 DEF BindInv
  <2>2. CASE i # s
    BY <1>1, <2>1, <2>2
  <2>3. CASE i = s
    <3>. DEFINE r == Append(o, b)
    <3>1. new[i].bindings = r
      BY <1>1, <2>3
    <3>2. \A p \in 1..Len(o) : o[p].idx < b.idx
      <4>1. \A p \in 1..Len(o) : o[p] \in Bound(sc, i)
        BY <2>1 DEF Bound, ToSet
      <4>2. \A p \in 1..Len(o) : o[p] \in Decl(sc) /\ o[p].fn = Up(sc, i)
        BY <4>1, BoundDeclared DEF BindInv, BoundHere
      <4>. QED
        BY <1>7, <2>3, <4>2
    <3>. HIDE DEF o
    <3>3. /\ Len(o) \in Nat /\ Len(r) = Len(o) + 1
          /\ \A j \in 1..Len(o) : r[j] = o[j]
          /\ r[Len(o) + 1] = b
      BY <2>1, AppendProperties
    <3>. HIDE DEF r
    <3>4. ASSUME NEW p \in 1..Len(r), NEW q \in 1..Len(r), p < q
          PROVE  r[p].idx < r[q].idx
      <4>1. p \in 1..Len(o) /\ (q \in 1..Len(o) \/ q = Len(o) + 1)
        BY <3>3, <3>4
      <4>. QED
        BY <2>1, <3>2, <3>3, <3>4, <4>1
    <3>. QED
      BY <3>1, <3>4
  <2>. QED
    BY <2>2, <2>3
<1>10. \A c \in Decl(new) : c.idx < new[c.fn].next
  <2>1. \A c \in Decl(sc) : c.idx < new[c.fn].next
    <3>. SUFFICES ASSUME NEW c \in Decl(sc) PROVE c.idx < new[c.fn].next
      OBVIOUS
    <3>1. c.fn \in 1..n /\ c.idx \in Nat /\ c.idx < sc[c.fn].next
      BY <1>6
    <3>2. sc[c.fn].next \in Nat
      BY <1>2, <3>1
    <3>3. new[c.fn].next = sc[c.fn].next + 1 \/ new[c.fn].next = sc[c.fn].next
      BY <1>1, <3>1
    <3>. QED
      BY <3>1, <3>2, <3>3
  <2>2. b.idx < new[f].next
    <3>1. new[f].next = sc[f].next + 1 /\ sc[f].next \in Nat
      BY <1>1, <1>2, <1>3
    <3>. QED
      BY <3>1
  <2>. QED
    BY <1>5, <2>1, <2>2
<1>11. \A c, d \in Decl(new) : c.fn = d.fn /\ c.idx = d.idx => c = d
  <2>1. \A c, d \in Decl(sc) : c.fn = d.fn /\ c.idx = d.idx => c = d
    BY DEF BindInv
  <2>2. \A c \in Decl(sc) : c.fn = f => c.idx # b.idx
    <3>1. b.idx \in Nat
      BY DEF Binding
    <3>. QED
      BY <1>6, <1>7, <3>1
  <2>. QED
    BY <1>5, <2>1, <2>2
<1>12. \A i \in 1..n : \A x \in 0..(new[i].next - 1) :
            \E c \in Decl(new) : c.fn = i /\ c.idx = x
  <2>. SUFFICES ASSUME NEW i \in 1..n, NEW x \in 0..(new[i].next - 1)
                PROVE  \E c \in Decl(new) : c.fn = i /\ c.idx = x
    OBVIOUS
  <2>1. sc[i].next \in Nat
    BY <1>2
  <2>2. x \in 0..(sc[i].next - 1) \/ (i = f /\ x = sc[i].next)
    BY <1>1, <2>1
  <2>3. CASE x \in 0..(sc[i].next - 1)
    <3>1. \E c \in Decl(sc) : c.fn = i /\ c.idx = x
      BY <2>3 DEF BindInv
    <3>. QED
      BY <1>5, <3>1
  <2>4. CASE i = f /\ x = sc[i].next
    BY <1>5, <2>4
  <2>. QED
    BY <2>2, <2>3, <2>4
<1>13. \A c \in Decl(new) : c.kind = "Argument" => c \in Bound(new, c.fn)
  BY <1>4, <1>5, <1>6 DEF BindInv
<1>14. \A c, d \in Decl(new) :
            c.fn = d.fn /\ c.kind = "Argument" /\ d.kind # "Argument" => c.idx < d.idx
  BY <1>5, <1>7 DEF BindInv
<1>15. BindInv(new)
  BY <1>1, <1>8, <1>9, <1>10, <1>11, <1>12, <1>13, <1>14 DEF BindInv
<1>. QED
  BY <1>5, <1>7, <1>15 DEF new

\* A new scope: a block without bindings, or a function with its arguments.
IsNew(e, id) ==
    /\ e \in Scope /\ e.parent \in 1..(id - 1)
    /\ e.next = Len(e.bindings)
    /\ \A i \in 1..Len(e.bindings) :
         /\ e.bindings[i].fn = id /\ e.bindings[i].idx = i - 1
         /\ e.bindings[i].kind = "Argument"
    /\ e.bindings # <<>> => e.type = "FunctionInstanceScope"

\* A new scope keeps the tree of scopes.
LEMMA ExtendedScopes ==
    ASSUME NEW sc, IsTree(sc), NEW e, IsNew(e, Len(sc) + 1)
    PROVE  LET new == Append(sc, e)
           IN  /\ IsTree(new) /\ Len(new) = Len(sc) + 1 /\ new[Len(sc) + 1] = e
               /\ \A i \in 1..Len(sc) : new[i] = sc[i] /\ Up(new, i) = Up(sc, i)
               /\ e.type = "FunctionInstanceScope"
                    => Up(new, Len(sc) + 1) = Len(sc) + 1
               /\ e.type # "FunctionInstanceScope"
                    => Up(new, Len(sc) + 1) = Up(sc, e.parent)
<1>. DEFINE new == Append(sc, e)
            n == Len(sc)
            k == n + 1
<1>1. /\ n \in Nat /\ n >= 1 /\ sc \in Seq(Scope) /\ e \in Scope /\ e.parent \in 1..n
      /\ k \in Nat /\ k # ROOT /\ k - 1 = n
  BY DEF IsTree, IsNew, ROOT
<1>2. /\ new \in Seq(Scope) /\ Len(new) = n + 1
      /\ \A i \in 1..n : new[i] = sc[i]
      /\ new[n + 1] = e
  BY <1>1, AppendProperties
<1>. HIDE DEF new
<1>3. IsTree(new)
  <2>1. ASSUME NEW i \in 2..(n + 1) PROVE new[i].parent \in 1..(i - 1)
    <3>1. CASE i = n + 1
      BY <1>1, <1>2, <3>1
    <3>2. CASE i # n + 1
      <4>1. i \in 2..n /\ i \in 1..n
        BY <1>1, <3>2
      <4>. QED
        BY <1>2, <4>1 DEF IsTree
    <3>. QED
      BY <3>1, <3>2
  <2>. QED
    BY <1>1, <1>2, <2>1 DEF IsTree
<1>4. \A i \in 1..n : Up(new, i) = Up(sc, i)
  <2>1. Len(sc) <= Len(new)
    BY <1>1, <1>2
  <2>2. \A i \in 1..Len(sc) : new[i].type = sc[i].type /\ new[i].parent = sc[i].parent
    BY <1>2
  <2>. QED
    BY <1>3, <2>1, <2>2, UpStable
<1>5. Up(new, k) = IF k = ROOT \/ IsFunction(new, k) THEN k ELSE Up(new, new[k].parent)
  <2>1. k \in 1..Len(new)
    BY <1>1, <1>2
  <2>. HIDE DEF k
  <2>. QED
    BY <1>3, <2>1, UpEquation
<1>6. /\ e.type = "FunctionInstanceScope" => Up(new, k) = k
      /\ e.type # "FunctionInstanceScope" => Up(new, k) = Up(sc, e.parent)
  BY <1>1, <1>2, <1>4, <1>5 DEF IsFunction
<1>. QED
  BY <1>2, <1>3, <1>4, <1>6 DEF new

\* A new scope adds its arguments and nothing else.
LEMMA ExtendedBindings ==
    ASSUME NEW sc, IsTree(sc), BindInv(sc), NEW e, IsNew(e, Len(sc) + 1)
    PROVE  LET new == Append(sc, e)
           IN  /\ BindInv(new)
               /\ Decl(sc) \subseteq Decl(new)
               /\ \A b \in Decl(new) \ Decl(sc) :
                    b.fn = Len(sc) + 1 /\ b.kind = "Argument"
<1>. DEFINE new == Append(sc, e)
            n == Len(sc)
            k == n + 1
            q == e.bindings
<1>1. /\ IsTree(new) /\ Len(new) = k /\ new[k] = e
      /\ \A i \in 1..n : new[i] = sc[i] /\ Up(new, i) = Up(sc, i)
      /\ e.type = "FunctionInstanceScope" => Up(new, k) = k
  BY ExtendedScopes
<1>. HIDE DEF new
<1>2. n \in Nat /\ k \in Nat /\ \A i \in 1..k : i = k \/ i \in 1..n
  BY DEF IsTree
<1>3. /\ q \in Seq(Binding) /\ e.next = Len(q) /\ Len(q) \in Nat
      /\ \A i \in 1..Len(q) : q[i].fn = k /\ q[i].idx = i - 1 /\ q[i].kind = "Argument"
      /\ q # <<>> => e.type = "FunctionInstanceScope"
  <2>1. \A r \in Scope : r.bindings \in Seq(Binding)
    BY DEF Scope
  <2>. QED
    BY <2>1 DEF IsNew
<1>4. \A i \in 1..n : Bound(new, i) = Bound(sc, i)
  BY <1>1 DEF Bound
<1>5. /\ \A i \in 1..Len(q) : q[i] \in Bound(new, k)
      /\ \A b \in Bound(new, k) : \E i \in 1..Len(q) : b = q[i]
  <2>. HIDE DEF q, k
  <2>1. new[k].bindings = q
    BY <1>1 DEF q
  <2>2. DOMAIN q = 1..Len(q)
    BY <1>3
  <2>. QED
    BY <2>1, <2>2 DEF Bound, ToSet
<1>. HIDE DEF q
<1>6. \A b \in Bound(new, k) : b.fn = k /\ b.kind = "Argument" /\ b \in Binding
  <2>1. \A i \in 1..Len(q) : q[i] \in Binding
    BY <1>3
  <2>. HIDE DEF k
  <2>. QED
    BY <1>3, <1>5, <2>1
<1>7. /\ \A b \in Decl(new) : b \in Decl(sc) \/ b \in Bound(new, k)
      /\ Decl(sc) \subseteq Decl(new)
      /\ Bound(new, k) \subseteq Decl(new)
  <2>1. \A i \in 1..n : i \in 1..k
    BY <1>2
  <2>2. k \in 1..k
    BY <1>2
  <2>3. \A b : b \in Decl(new) <=> b \in Binding /\ \E i \in 1..k : b \in Bound(new, i)
    BY <1>1 DEF Decl
  <2>4. \A b : b \in Decl(sc) <=> b \in Binding /\ \E i \in 1..n : b \in Bound(sc, i)
    BY DEF Decl
  <2>. HIDE DEF n, k
  <2>. QED
    BY <1>2, <1>4, <1>6, <2>1, <2>2, <2>3, <2>4
<1>8. \A c \in Decl(sc) : c.fn \in 1..n
  <2>. SUFFICES ASSUME NEW c \in Decl(sc) PROVE c.fn \in 1..n
    OBVIOUS
  <2>1. PICK i \in 1..n : c \in Bound(sc, i)
    BY DEF Decl
  <2>2. c.fn = Up(sc, i) /\ Up(sc, i) \in 1..i
    BY <2>1, UpRange DEF BindInv, BoundHere
  <2>. QED
    BY <1>2, <2>2
<1>9. \A c \in Decl(sc) : c.fn # k
  BY <1>2, <1>8
<1>10. BoundHere(new)
  <2>1. \A b \in Bound(new, k) : b.fn = Up(new, k)
    <3>. SUFFICES ASSUME NEW b \in Bound(new, k) PROVE b.fn = Up(new, k)
      OBVIOUS
    <3>1. q # <<>>
      BY <1>3, <1>5
    <3>. QED
      BY <1>1, <1>3, <1>6, <3>1
  <2>2. \A i \in 1..n : \A b \in Bound(new, i) : b.fn = Up(new, i)
    BY <1>1, <1>4 DEF BindInv, BoundHere
  <2>. HIDE DEF k, n
  <2>. QED
    BY <1>1, <1>2, <2>1, <2>2 DEF BoundHere
<1>11. ASSUME NEW i \in 1..k
       PROVE  \A p, r \in 1..Len(new[i].bindings) :
                p < r => new[i].bindings[p].idx < new[i].bindings[r].idx
  <2>1. CASE i = k
    <3>1. new[i].bindings = q
      BY <1>1, <2>1 DEF q
    <3>2. \A p, r \in 1..Len(q) : p < r => q[p].idx < q[r].idx
      BY <1>3
    <3>. QED
      BY <3>1, <3>2
  <2>2. CASE i \in 1..n
    BY <1>1, <2>2 DEF BindInv
  <2>. QED
    BY <1>2, <2>1, <2>2
<1>12. \A b \in Decl(new) : b.idx < new[b.fn].next
  <2>1. \A b \in Decl(sc) : b.idx < new[b.fn].next
    BY <1>1, <1>8 DEF BindInv
  <2>2. \A b \in Bound(new, k) : b.idx < new[b.fn].next
    <3>1. new[k].next = Len(q)
      BY <1>1, <1>3
    <3>2. \A i \in 1..Len(q) : q[i].idx < Len(q)
      BY <1>3
    <3>. QED
      BY <1>5, <1>6, <3>1, <3>2
  <2>. QED
    BY <1>7, <2>1, <2>2
<1>13. \A b, c \in Decl(new) : b.fn = c.fn /\ b.idx = c.idx => b = c
  <2>1. \A b, c \in Decl(sc) : b.fn = c.fn /\ b.idx = c.idx => b = c
    BY DEF BindInv
  <2>2. \A b, c \in Bound(new, k) : b.idx = c.idx => b = c
    <3>1. \A i, j \in 1..Len(q) : q[i].idx = q[j].idx => i = j
      BY <1>3
    <3>. SUFFICES ASSUME NEW b \in Bound(new, k), NEW c \in Bound(new, k),
                         b.idx = c.idx
                  PROVE  b = c
      OBVIOUS
    <3>. HIDE DEF new, k, q
    <3>2. PICK i \in 1..Len(q) : b = q[i]
      BY <1>5
    <3>3. PICK j \in 1..Len(q) : c = q[j]
      BY <1>5
    <3>. QED
      BY <3>1, <3>2, <3>3
  <2>. QED
    BY <1>6, <1>7, <1>9, <2>1, <2>2
<1>14. ASSUME NEW i \in 1..k, NEW x \in 0..(new[i].next - 1)
       PROVE  \E b \in Decl(new) : b.fn = i /\ b.idx = x
  <2>1. CASE i = k
    <3>1. x \in 0..(Len(q) - 1)
      BY <1>1, <1>3, <2>1
    <3>2. x + 1 \in 1..Len(q) /\ (x + 1) - 1 = x
      BY <1>3, <3>1
    <3>3. q[x + 1] \in Decl(new) /\ q[x + 1].fn = k /\ q[x + 1].idx = x
      BY <1>3, <1>5, <1>7, <3>2
    <3>. QED
      BY <2>1, <3>3
  <2>2. CASE i \in 1..n
    <3>1. x \in 0..(sc[i].next - 1)
      BY <1>1, <2>2
    <3>2. \E b \in Decl(sc) : b.fn = i /\ b.idx = x
      BY <2>2, <3>1 DEF BindInv
    <3>. QED
      BY <1>7, <3>2
  <2>. QED
    BY <1>2, <2>1, <2>2
<1>15. \A b \in Decl(new) : b.kind = "Argument" => b \in Bound(new, b.fn)
  BY <1>4, <1>6, <1>7, <1>8 DEF BindInv
<1>16. \A b, c \in Decl(new) :
            b.fn = c.fn /\ b.kind = "Argument" /\ c.kind # "Argument" => b.idx < c.idx
  BY <1>6, <1>7, <1>9 DEF BindInv
<1>17. BindInv(new)
  <2>. HIDE DEF k, n
  <2>. QED
    BY <1>1, <1>10, <1>11, <1>12, <1>13, <1>14, <1>15, <1>16 DEF BindInv
<1>18. \A b \in Decl(new) \ Decl(sc) : b.fn = k /\ b.kind = "Argument"
  BY <1>6, <1>7
<1>. QED
  BY <1>7, <1>17, <1>18 DEF new

-----------------------------------------------------------------------------
(* The functions: what their code accesses and what they capture.          *)

Access(b) == [op |-> "access", binding |-> b]
Instruction == [op : {"access"}, binding : Binding] \cup [op : {"closure"}, fn : Nat]
Fn == [scope : Nat, captures : Seq(Binding), code : Seq(Instruction)]

\* The captures declared in the function with the scope s.
Captured(sc, s) == {b \in Decl(sc) : b.fn = s /\ b.kind = "Capture"}

\* What a function's code does: it accesses bindings that are declared, it makes
\* closures of functions declared in it,
CodeOK(sc, fs, f) ==
    \A i \in 1..Len(fs[f].code) :
        LET op == fs[f].code[i]
        IN  /\ op.op = "access" => op.binding \in Decl(sc)
            /\ op.op = "closure" =>
                 /\ op.fn \in 1..Len(fs)
                 /\ Up(sc, sc[fs[op.fn].scope].parent) = fs[f].scope

\* it captures bindings of the function it is declared in,
CapturesOK(sc, fs, f) ==
    \A i \in 1..Len(fs[f].captures) :
        /\ fs[f].captures[i] \in Decl(sc)
        /\ fs[f].captures[i].fn = Up(sc, sc[fs[f].scope].parent)

\* and it accesses every binding it declares, one for each of its captures.
DeclaresOK(sc, fs, f) ==
    /\ \A b \in Decl(sc) : b.fn = fs[f].scope /\ b.kind # "Argument" =>
            \E i \in 1..Len(fs[f].code) : fs[f].code[i] = Access(b)
    /\ IsFiniteSet(Captured(sc, fs[f].scope))
    /\ Len(fs[f].captures) = Cardinality(Captured(sc, fs[f].scope))

FnInv(sc, fs) ==
    /\ fs \in Seq(Fn)
    /\ \A f \in 1..Len(fs) :
         /\ fs[f].scope \in 2..Len(sc) /\ IsFunction(sc, fs[f].scope)
         /\ CodeOK(sc, fs, f) /\ CapturesOK(sc, fs, f) /\ DeclaresOK(sc, fs, f)
    /\ \A f, g \in 1..Len(fs) : fs[f].scope = fs[g].scope => f = g

\* The scopes new are sc with something added.
Grows(sc, new) ==
    /\ IsTree(sc) /\ IsTree(new) /\ Len(sc) <= Len(new)
    /\ \A i \in 1..Len(sc) :
         /\ new[i].type = sc[i].type /\ new[i].parent = sc[i].parent
         /\ Up(new, i) = Up(sc, i)
    /\ Decl(sc) \subseteq Decl(new)

\* The parent of a function's scope keeps its place.
LEMMA GrowsUp ==
    ASSUME NEW sc, NEW new, Grows(sc, new), NEW s \in 2..Len(sc)
    PROVE  /\ s \in 1..Len(sc) /\ s \in 2..Len(new)
           /\ IsFunction(new, s) = IsFunction(sc, s)
           /\ Up(new, new[s].parent) = Up(sc, sc[s].parent)
<1>1. Len(sc) \in Nat /\ Len(new) \in Nat /\ sc[s].parent \in 1..(s - 1)
  BY DEF Grows, IsTree
<1>2. s \in 1..Len(sc) /\ s \in 2..Len(new) /\ sc[s].parent \in 1..Len(sc)
  BY <1>1 DEF Grows
<1>. QED
  BY <1>2 DEF Grows, IsFunction

\* More scopes leave what holds of the functions.
LEMMA FnGrows ==
    ASSUME NEW sc, NEW new, NEW fs, FnInv(sc, fs), Grows(sc, new),
           \A b \in Decl(new) \ Decl(sc) : b.fn \notin 2..Len(sc)
    PROVE  FnInv(new, fs)
<1>1. \A f \in 1..Len(fs) : fs[f].scope \in 2..Len(sc) /\ IsFunction(sc, fs[f].scope)
  BY DEF FnInv
<1>2. ASSUME NEW f \in 1..Len(fs)
      PROVE  /\ fs[f].scope \in 2..Len(new) /\ IsFunction(new, fs[f].scope)
             /\ CodeOK(new, fs, f) /\ CapturesOK(new, fs, f) /\ DeclaresOK(new, fs, f)
  <2>1. fs[f].scope \in 2..Len(new) /\ IsFunction(new, fs[f].scope)
    BY <1>1, GrowsUp
  <2>2. CodeOK(new, fs, f)
    <3>1. CodeOK(sc, fs, f)
      BY DEF FnInv
    <3>2. \A g \in 1..Len(fs) :
            Up(new, new[fs[g].scope].parent) = Up(sc, sc[fs[g].scope].parent)
      BY <1>1, GrowsUp
    <3>. QED
      BY <3>1, <3>2 DEF CodeOK, Grows
  <2>3. CapturesOK(new, fs, f)
    <3>1. CapturesOK(sc, fs, f)
      BY DEF FnInv
    <3>2. Up(new, new[fs[f].scope].parent) = Up(sc, sc[fs[f].scope].parent)
      BY <1>1, GrowsUp
    <3>. QED
      BY <3>1, <3>2 DEF CapturesOK, Grows
  <2>4. DeclaresOK(new, fs, f)
    <3>1. DeclaresOK(sc, fs, f)
      BY DEF FnInv
    <3>2. \A b \in Decl(new) : b.fn = fs[f].scope => b \in Decl(sc)
      BY <1>1
    <3>3. Captured(new, fs[f].scope) = Captured(sc, fs[f].scope)
      BY <3>2 DEF Captured, Grows
    <3>. QED
      BY <3>1, <3>2, <3>3 DEF DeclaresOK
  <2>. QED
    BY <2>1, <2>2, <2>3, <2>4
<1>. QED
  BY <1>2 DEF FnInv

\* The functions fs after t has emitted op, with the captures caps.
Emitted(fs, t, caps, op) ==
    [i \in 1..Len(fs) |->
        IF i = t THEN [scope |-> fs[i].scope, captures |-> caps,
                       code |-> Append(fs[i].code, op)]
        ELSE fs[i]]

\* What emitting an instruction yields.
LEMMA EmittedFns ==
    ASSUME NEW fs \in Seq(Fn), NEW t \in 1..Len(fs), NEW caps \in Seq(Binding),
           NEW op \in Instruction
    PROVE  LET new == Emitted(fs, t, caps, op)
           IN  /\ new \in Seq(Fn) /\ Len(new) = Len(fs)
               /\ \A f \in 1..Len(fs) : new[f].scope = fs[f].scope
               /\ \A f \in 1..Len(fs) : f # t => new[f] = fs[f]
               /\ new[t].captures = caps
               /\ Len(new[t].code) = Len(fs[t].code) + 1 /\ Len(fs[t].code) \in Nat
               /\ \A i \in 1..Len(fs[t].code) : new[t].code[i] = fs[t].code[i]
               /\ new[t].code[Len(fs[t].code) + 1] = op
<1>. DEFINE new == Emitted(fs, t, caps, op)
            r == [scope |-> fs[t].scope, captures |-> caps,
                  code |-> Append(fs[t].code, op)]
            code == fs[t].code
            longer == Append(code, op)
<1>1. \A f \in 1..Len(fs) : fs[f] \in Fn
  OBVIOUS
<1>2. code \in Seq(Instruction) /\ fs[t].scope \in Nat
  BY <1>1 DEF Fn
<1>. HIDE DEF code
<1>3. /\ longer \in Seq(Instruction) /\ Len(longer) = Len(code) + 1 /\ Len(code) \in Nat
      /\ \A i \in 1..Len(code) : longer[i] = code[i]
      /\ longer[Len(code) + 1] = op
  BY <1>2, AppendProperties
<1>4. r = [scope |-> fs[t].scope, captures |-> caps, code |-> longer]
  BY DEF code
<1>. HIDE DEF longer, r
<1>5. r \in Fn
  BY <1>2, <1>3, <1>4 DEF Fn
<1>6. new = [i \in 1..Len(fs) |-> IF i = t THEN r ELSE fs[i]]
  BY DEF Emitted, r
<1>. HIDE DEF new
<1>7. new \in Seq(Fn) /\ Len(new) = Len(fs)
  BY <1>1, <1>5, <1>6
<1>8. new[t] = r /\ \A f \in 1..Len(fs) : f # t => new[f] = fs[f]
  BY <1>6
<1>. QED
  BY <1>3, <1>4, <1>7, <1>8 DEF new, code

\* With each capture that is declared one binding is captured.
CaptureStep(sc, new, fs, t, caps) ==
    \/ /\ caps = fs[t].captures
       /\ \A b \in Decl(new) \ Decl(sc) : b.kind # "Capture"
    \/ \E d \in Decl(sc), b \in Binding :
         /\ caps = Append(fs[t].captures, d)
         /\ d.fn = Up(sc, sc[fs[t].scope].parent)
         /\ Decl(new) = Decl(sc) \cup {b} /\ b \notin Decl(sc)
         /\ b.kind = "Capture" /\ b.fn = fs[t].scope

\* An instruction more in t, that accesses what is declared with it.
LEMMA FnEmits ==
    ASSUME NEW sc, NEW new, NEW fs, FnInv(sc, fs), Grows(sc, new),
           NEW t \in 1..Len(fs), NEW op \in Instruction, NEW caps \in Seq(Binding),
           op.op = "access" => op.binding \in Decl(new),
           op.op = "closure" =>
               /\ op.fn \in 1..Len(fs)
               /\ Up(new, new[fs[op.fn].scope].parent) = fs[t].scope,
           \A b \in Decl(new) \ Decl(sc) : b.fn = fs[t].scope /\ op = Access(b),
           CaptureStep(sc, new, fs, t, caps)
    PROVE  FnInv(new, Emitted(fs, t, caps, op))
<1>. DEFINE out == Emitted(fs, t, caps, op)
<1>1. /\ fs \in Seq(Fn)
      /\ \A f \in 1..Len(fs) : fs[f].scope \in 2..Len(sc) /\ IsFunction(sc, fs[f].scope)
      /\ \A f, g \in 1..Len(fs) : fs[f].scope = fs[g].scope => f = g
      /\ \A f \in 1..Len(fs) :
            CodeOK(sc, fs, f) /\ CapturesOK(sc, fs, f) /\ DeclaresOK(sc, fs, f)
  BY DEF FnInv
<1>2. /\ out \in Seq(Fn) /\ Len(out) = Len(fs)
      /\ \A f \in 1..Len(fs) : out[f].scope = fs[f].scope
      /\ \A f \in 1..Len(fs) : f # t => out[f] = fs[f]
      /\ out[t].captures = caps
      /\ Len(out[t].code) = Len(fs[t].code) + 1 /\ Len(fs[t].code) \in Nat
      /\ \A i \in 1..Len(fs[t].code) : out[t].code[i] = fs[t].code[i]
      /\ out[t].code[Len(fs[t].code) + 1] = op
  BY <1>1, EmittedFns
<1>. HIDE DEF out
<1>3. \A f \in 1..Len(fs) :
         /\ fs[f].scope \in 2..Len(new) /\ IsFunction(new, fs[f].scope)
         /\ Up(new, new[fs[f].scope].parent) = Up(sc, sc[fs[f].scope].parent)
  BY <1>1, GrowsUp
<1>4. Decl(sc) \subseteq Decl(new)
  BY DEF Grows
<1>5. ASSUME NEW f \in 1..Len(fs), NEW i \in 1..Len(out[f].code)
      PROVE  LET o == out[f].code[i]
             IN  /\ o.op = "access" => o.binding \in Decl(new)
                 /\ o.op = "closure" =>
                      /\ o.fn \in 1..Len(out)
                      /\ Up(new, new[out[o.fn].scope].parent) = out[f].scope
  <2>1. CASE i \in 1..Len(fs[f].code) /\ out[f].code[i] = fs[f].code[i]
    <3>. DEFINE o == fs[f].code[i]
    <3>1. /\ o.op = "access" => o.binding \in Decl(sc)
          /\ o.op = "closure" =>
                      /\ o.fn \in 1..Len(fs)
                      /\ Up(sc, sc[fs[o.fn].scope].parent) = fs[f].scope
      BY <1>1, <2>1 DEF CodeOK
    <3>. HIDE DEF o
    <3>2. /\ o.op = "access" => o.binding \in Decl(new)
          /\ o.op = "closure" =>
                      /\ o.fn \in 1..Len(out)
                      /\ Up(new, new[out[o.fn].scope].parent) = out[f].scope
      BY <1>2, <1>3, <1>4, <3>1
    <3>. QED
      BY <2>1, <3>2 DEF o
  <2>2. CASE f = t /\ i = Len(fs[t].code) + 1
    <3>1. out[f].code[i] = op
      BY <1>2, <2>2
    <3>2. op.op = "closure" => Up(new, new[out[op.fn].scope].parent) = out[f].scope
      BY <1>2, <2>2
    <3>. QED
      BY <1>2, <3>1, <3>2
  <2>. QED
    BY <1>2, <2>1, <2>2, SMTT(20)
<1>6. ASSUME NEW f \in 1..Len(fs) PROVE CapturesOK(new, out, f)
  <2>1. \A i \in 1..Len(fs[f].captures) :
          /\ fs[f].captures[i] \in Decl(new)
          /\ fs[f].captures[i].fn = Up(new, new[out[f].scope].parent)
    BY <1>1, <1>2, <1>3, <1>4 DEF CapturesOK
  <2>2. CASE out[f].captures = fs[f].captures
    BY <2>1, <2>2 DEF CapturesOK
  <2>3. ASSUME f = t, NEW d \in Decl(sc), caps = Append(fs[t].captures, d),
               d.fn = Up(sc, sc[fs[t].scope].parent)
        PROVE  CapturesOK(new, out, f)
    <3>. DEFINE q == fs[t].captures
                r == Append(q, d)
    <3>1. q \in Seq(Binding) /\ d \in Binding
      <4>1. \A x \in Fn : x.captures \in Seq(Binding)
        BY DEF Fn
      <4>. QED
        BY <1>1, <4>1 DEF Decl
    <3>2. out[f].captures = r
      BY <1>2, <2>3
    <3>3. \A i \in 1..Len(q) :
            q[i] \in Decl(new) /\ q[i].fn = Up(new, new[out[f].scope].parent)
      BY <2>1, <2>3
    <3>. HIDE DEF q
    <3>4. /\ Len(q) \in Nat /\ Len(r) = Len(q) + 1
          /\ \A j \in 1..Len(q) : r[j] = q[j]
          /\ r[Len(q) + 1] = d
      BY <3>1, AppendProperties
    <3>. HIDE DEF r
    <3>5. \A i \in 1..Len(r) : i \in 1..Len(q) \/ i = Len(q) + 1
      BY <3>4
    <3>6. d \in Decl(new) /\ d.fn = Up(new, new[out[f].scope].parent)
      BY <1>2, <1>3, <1>4, <2>3
    <3>7. \A i \in 1..Len(r) :
            r[i] \in Decl(new) /\ r[i].fn = Up(new, new[out[f].scope].parent)
      BY <3>3, <3>4, <3>5, <3>6
    <3>. QED
      BY <3>2, <3>7 DEF CapturesOK
  <2>4. CASE f # t
    BY <1>2, <2>2, <2>4
  <2>. QED
    BY <1>2, <2>2, <2>3, <2>4 DEF CaptureStep
<1>7. ASSUME NEW f \in 1..Len(fs), NEW b \in Decl(new),
             b.fn = out[f].scope, b.kind # "Argument"
      PROVE  \E i \in 1..Len(out[f].code) : out[f].code[i] = Access(b)
  <2>1. CASE b \in Decl(sc)
    <3>1. PICK i \in 1..Len(fs[f].code) : fs[f].code[i] = Access(b)
      BY <1>1, <1>2, <1>7, <2>1 DEF DeclaresOK
    <3>2. i \in 1..Len(out[f].code) /\ out[f].code[i] = fs[f].code[i]
      <4>1. CASE f = t
        BY <1>2, <4>1
      <4>2. CASE f # t
        BY <1>2, <4>2
      <4>. QED
        BY <4>1, <4>2
    <3>. QED
      BY <3>1, <3>2
  <2>2. CASE b \notin Decl(sc)
    <3>1. b.fn = fs[t].scope /\ op = Access(b)
      BY <2>2
    <3>2. f = t
      BY <1>1, <1>2, <1>7, <3>1
    <3>3. Len(fs[t].code) + 1 \in 1..Len(out[f].code)
      BY <1>2, <3>2
    <3>. QED
      BY <1>2, <3>1, <3>2, <3>3
  <2>. QED
    BY <2>1, <2>2
<1>8. ASSUME NEW f \in 1..Len(fs)
      PROVE  /\ IsFiniteSet(Captured(new, out[f].scope))
             /\ Len(out[f].captures) = Cardinality(Captured(new, out[f].scope))
  <2>. DEFINE s == fs[f].scope
  <2>1. /\ IsFiniteSet(Captured(sc, s))
        /\ Len(fs[f].captures) = Cardinality(Captured(sc, s))
    BY <1>1 DEF DeclaresOK
  <2>2. out[f].scope = s
    BY <1>2
  <2>3. ASSUME out[f].captures = fs[f].captures,
               \A b \in Decl(new) \ Decl(sc) : b.kind # "Capture" \/ b.fn # s
        PROVE  /\ IsFiniteSet(Captured(new, s))
               /\ Len(out[f].captures) = Cardinality(Captured(new, s))
    <3>1. Captured(new, s) = Captured(sc, s)
      BY <1>4, <2>3 DEF Captured
    <3>. QED
      BY <2>1, <2>3, <3>1
  <2>4. ASSUME f = t, NEW d \in Decl(sc), NEW b \in Binding, caps = Append(fs[t].captures, d),
               Decl(new) = Decl(sc) \cup {b}, b \notin Decl(sc), b.kind = "Capture",
               b.fn = fs[t].scope
        PROVE  /\ IsFiniteSet(Captured(new, s))
               /\ Len(out[f].captures) = Cardinality(Captured(new, s))
    <3>1. Captured(new, s) = Captured(sc, s) \cup {b} /\ b \notin Captured(sc, s)
      BY <2>4 DEF Captured
    <3>2. IsFiniteSet(Captured(new, s))
            /\ Cardinality(Captured(new, s)) = Cardinality(Captured(sc, s)) + 1
      BY <2>1, <3>1, FS_AddElement
    <3>3. fs[t].captures \in Seq(Binding) /\ d \in Binding
      <4>1. \A x \in Fn : x.captures \in Seq(Binding)
        BY DEF Fn
      <4>. QED
        BY <1>1, <4>1 DEF Decl
    <3>4. Len(out[f].captures) = Len(fs[f].captures) + 1
      BY <1>2, <2>4, <3>3
    <3>. QED
      BY <2>1, <3>2, <3>4
  <2>5. CASE f # t
    <3>1. s # fs[t].scope
      BY <1>1, <2>5
    <3>. QED
      BY <1>2, <2>2, <2>3, <2>5, <3>1
  <2>. QED
    BY <1>2, <2>2, <2>3, <2>4, <2>5 DEF CaptureStep
<1>9. \A f \in 1..Len(out) :
         /\ out[f].scope \in 2..Len(new) /\ IsFunction(new, out[f].scope)
         /\ CodeOK(new, out, f) /\ CapturesOK(new, out, f) /\ DeclaresOK(new, out, f)
  <2>1. \A f \in 1..Len(fs) : CodeOK(new, out, f)
    BY <1>5 DEF CodeOK
  <2>2. \A f \in 1..Len(fs) : DeclaresOK(new, out, f)
    BY <1>7, <1>8 DEF DeclaresOK
  <2>. QED
    BY <1>2, <1>3, <1>6, <2>1, <2>2
<1>10. \A f, g \in 1..Len(out) : out[f].scope = out[g].scope => f = g
  BY <1>1, <1>2
<1>11. FnInv(new, out)
  BY <1>2, <1>9, <1>10 DEF FnInv
<1>. QED
  BY <1>11 DEF out

\* A function more, with the scope s.
LEMMA FnAppend ==
    ASSUME NEW sc, NEW fs, FnInv(sc, fs), NEW s \in 2..Len(sc), s \in Nat, IsFunction(sc, s),
           \A f \in 1..Len(fs) : fs[f].scope # s,
           \A b \in Decl(sc) : b.fn = s => b.kind = "Argument"
    PROVE  LET new == Append(fs, NewFunction(s))
           IN  /\ FnInv(sc, new) /\ Len(new) = Len(fs) + 1 /\ new[Len(fs) + 1].scope = s
               /\ \A f \in 1..Len(fs) : new[f] = fs[f]
<1>. DEFINE e == NewFunction(s)
            n == Len(fs)
            new == Append(fs, e)
<1>1. /\ fs \in Seq(Fn) /\ n \in Nat
      /\ \A f \in 1..n : fs[f].scope \in 2..Len(sc) /\ IsFunction(sc, fs[f].scope)
      /\ \A f, g \in 1..n : fs[f].scope = fs[g].scope => f = g
      /\ \A f \in 1..n :
            CodeOK(sc, fs, f) /\ CapturesOK(sc, fs, f) /\ DeclaresOK(sc, fs, f)
  BY DEF FnInv
<1>2. /\ e \in Fn /\ e.scope = s /\ Len(e.code) = 0 /\ Len(e.captures) = 0
  BY DEF NewFunction, Fn
<1>. HIDE DEF e, n
<1>3. /\ new \in Seq(Fn) /\ Len(new) = n + 1
      /\ \A f \in 1..n : new[f] = fs[f]
      /\ new[n + 1] = e
  BY <1>1, <1>2, AppendProperties DEF n
<1>. HIDE DEF new
<1>4. \A f \in 1..(n + 1) : f \in 1..n \/ f = n + 1
  BY <1>1
<1>5. \A f \in 1..n : f \in 1..(n + 1)
  BY <1>1
<1>6. ASSUME NEW f \in 1..n
      PROVE  /\ new[f].scope \in 2..Len(sc) /\ IsFunction(sc, new[f].scope)
             /\ CodeOK(sc, new, f) /\ CapturesOK(sc, new, f) /\ DeclaresOK(sc, new, f)
  <2>1. CodeOK(sc, new, f)
    <3>1. CodeOK(sc, fs, f)
      BY <1>1
    <3>. QED
      BY <1>3, <1>5, <3>1 DEF CodeOK, n
  <2>2. CapturesOK(sc, new, f)
    BY <1>1, <1>3 DEF CapturesOK
  <2>3. DeclaresOK(sc, new, f)
    <3>1. DeclaresOK(sc, fs, f) /\ new[f] = fs[f]
      BY <1>1, <1>3
    <3>. QED
      BY <3>1 DEF DeclaresOK
  <2>. QED
    BY <1>1, <1>3, <2>1, <2>2, <2>3
<1>7. /\ new[n + 1].scope \in 2..Len(sc) /\ IsFunction(sc, new[n + 1].scope)
      /\ CodeOK(sc, new, n + 1) /\ CapturesOK(sc, new, n + 1) /\ DeclaresOK(sc, new, n + 1)
  <2>1. 1..0 = {}
    OBVIOUS
  <2>2. CodeOK(sc, new, n + 1) /\ CapturesOK(sc, new, n + 1)
    BY <1>2, <1>3, <2>1 DEF CodeOK, CapturesOK
  <2>3. Captured(sc, s) = {}
    BY DEF Captured
  <2>4. DeclaresOK(sc, new, n + 1)
    BY <1>2, <1>3, <2>3, FS_EmptySet DEF DeclaresOK
  <2>. QED
    BY <1>2, <1>3, <2>2, <2>4
<1>8. \A f, g \in 1..(n + 1) : new[f].scope = new[g].scope => f = g
  BY <1>1, <1>2, <1>3, <1>4 DEF n
<1>9. FnInv(sc, new)
  BY <1>3, <1>4, <1>6, <1>7, <1>8 DEF FnInv
<1>. QED
  BY <1>2, <1>3, <1>9 DEF new, e, n

-----------------------------------------------------------------------------
(* The steps of the analysis.                                              *)

Level == [fn : Nat, back : Nat, ended : BOOLEAN, bodies : Seq(Nat)]

\* The active scope of the k-th block being checked.
ActiveAt(st, act, k) == IF k = Len(st) THEN act ELSE st[k + 1].back

\* The blocks being checked: a block whose statements are checked lies in the
\* function it is checked for.
StackOK(sc, fs, st, act, re) ==
    /\ act \in 1..Len(sc)
    /\ re \in Seq(Nat) /\ \A i \in 1..Len(re) : re[i] \in 1..Len(fs)
    /\ st \in Seq(Level)
    /\ \A k \in 1..Len(st) :
         /\ st[k].fn \in 1..Len(fs) /\ st[k].back \in 1..Len(sc)
         /\ \A i \in 1..Len(st[k].bodies) : st[k].bodies[i] \in 1..Len(fs)
         /\ ~st[k].ended => Up(sc, ActiveAt(st, act, k)) = fs[st[k].fn].scope

AnalysisInv ==
    /\ IsTree(scopes) /\ BindInv(scopes) /\ FnInv(scopes, fns)
    /\ StackOK(scopes, fns, stack, active, realized)

\* Nothing changes for the blocks being checked when something is added.
LEMMA StackGrows ==
    ASSUME NEW sc, NEW new, NEW fs, NEW fs2, NEW st, NEW act, NEW re,
           StackOK(sc, fs, st, act, re), Grows(sc, new),
           Len(fs) \in Nat, Len(fs2) \in Nat, Len(fs) <= Len(fs2),
           \A f \in 1..Len(fs) : fs2[f].scope = fs[f].scope
    PROVE  StackOK(new, fs2, st, act, re)
<1>1. \A f \in 1..Len(fs) : f \in 1..Len(fs2)
  OBVIOUS
<1>2. \A s \in 1..Len(sc) : s \in 1..Len(new) /\ Up(new, s) = Up(sc, s)
  BY DEF Grows, IsTree
<1>3. \A k \in 1..Len(st) : ActiveAt(st, act, k) \in 1..Len(sc)
  <2>1. Len(st) \in Nat
    BY DEF StackOK
  <2>. SUFFICES ASSUME NEW k \in 1..Len(st) PROVE ActiveAt(st, act, k) \in 1..Len(sc)
    OBVIOUS
  <2>2. k = Len(st) \/ k + 1 \in 1..Len(st)
    BY <2>1
  <2>. QED
    BY <2>2 DEF StackOK, ActiveAt
<1>. QED
  BY <1>1, <1>2, <1>3 DEF StackOK

\* The function whose code is being checked, in the scope that is active.
LEMMA CheckedFunction ==
    ASSUME AnalysisInv, Checking
    PROVE  /\ Top.fn \in 1..Len(fns) /\ active \in 1..Len(scopes)
           /\ Up(scopes, active) = fns[Top.fn].scope
           /\ fns[Top.fn].scope \in 2..Len(scopes)
           /\ Len(stack) \in 1..Len(stack) /\ Len(stack) \in Nat
<1>1. stack \in Seq(Level) /\ stack # <<>>
  BY DEF AnalysisInv, StackOK, Checking
<1>2. Len(stack) \in Nat /\ Len(stack) \in 1..Len(stack)
  BY <1>1
<1>3. ActiveAt(stack, active, Len(stack)) = active
  BY DEF ActiveAt
<1>4. /\ Top.fn \in 1..Len(fns) /\ active \in 1..Len(scopes)
      /\ Up(scopes, active) = fns[Top.fn].scope
  BY <1>2, <1>3 DEF AnalysisInv, StackOK, Checking, Top
<1>. QED
  BY <1>2, <1>4 DEF AnalysisInv, FnInv

\* A function symbol with its code replaced.
LEMMA FnWithCode ==
    ASSUME NEW r \in Fn, NEW x
    PROVE  [r EXCEPT !.code = x]
             = [scope |-> r.scope, captures |-> r.captures, code |-> x]
<1>1. r = [scope |-> r.scope, captures |-> r.captures, code |-> r.code]
  BY DEF Fn
<1>. QED
  BY <1>1

\* Emits, as one expression.
LEMMA EmitsOne ==
    ASSUME AnalysisInv, Checking, NEW op
    PROVE  Emits(op) = Emitted(fns, Top.fn, fns[Top.fn].captures, op)
<1>. DEFINE t == Top.fn
            r == [scope |-> fns[t].scope, captures |-> fns[t].captures,
                  code |-> Append(fns[t].code, op)]
<1>1. t \in 1..Len(fns) /\ fns \in Seq(Fn)
  BY CheckedFunction DEF AnalysisInv, FnInv
<1>2. fns = [i \in 1..Len(fns) |-> fns[i]] /\ fns[t] \in Fn
  BY <1>1
<1>3. [fns[t] EXCEPT !.code = Append(fns[t].code, op)] = r
  <2>. DEFINE q == fns[t]
              x == Append(fns[t].code, op)
  <2>1. q \in Fn
    BY <1>2
  <2>. HIDE DEF q, x
  <2>2. [q EXCEPT !.code = x]
          = [scope |-> q.scope, captures |-> q.captures, code |-> x]
    BY <2>1, FnWithCode
  <2>. QED
    BY <2>2 DEF q, x
<1>4. Emits(op) = [fns EXCEPT ![t] = [fns[t] EXCEPT !.code = Append(fns[t].code, op)]]
  BY DEF Emits
<1>. HIDE DEF t
<1>5. Emits(op) = [fns EXCEPT ![t] = r]
  BY <1>3, <1>4
<1>6. Emitted(fns, t, fns[t].captures, op) = [i \in 1..Len(fns) |-> IF i = t THEN r ELSE fns[i]]
  BY DEF Emitted
<1>. HIDE DEF r
<1>7. [fns EXCEPT ![t] = r] = [i \in 1..Len(fns) |-> IF i = t THEN r ELSE fns[i]]
  BY <1>1, <1>2
<1>. QED
  BY <1>5, <1>6, <1>7 DEF t

\* Declaring the next binding of the function being checked, in the active scope.
LEMMA NextBinding ==
    ASSUME AnalysisInv, Checking, NEW n \in Name, NEW kind \in {"Variable", "Capture"}
    PROVE  LET b == NewBinding(FunctionScope(active), n, kind)
               new == InsertNameIntoScope(active, b)
           IN  /\ b \in Binding /\ b.kind = kind /\ b.fn = fns[Top.fn].scope
               /\ BindInv(new) /\ Grows(scopes, new)
               /\ Decl(new) = Decl(scopes) \cup {b} /\ b \notin Decl(scopes)
<1>. DEFINE f == Up(scopes, active)
            b == NewBinding(FunctionScope(active), n, kind)
            new == Inserted(scopes, active, b)
<1>1. /\ IsTree(scopes) /\ BindInv(scopes) /\ active \in 1..Len(scopes)
      /\ f = fns[Top.fn].scope /\ f \in 2..Len(scopes)
  BY CheckedFunction DEF AnalysisInv
<1>2. FunctionScope(active) = f
  BY UpIsFunctionScope
<1>3. b = [name |-> n, kind |-> kind, idx |-> scopes[f].next, fn |-> f]
  BY <1>2 DEF NewBinding
<1>. HIDE DEF f, b
<1>4. f \in Nat /\ f \in 1..Len(scopes) /\ Len(scopes) \in Nat
  BY <1>1 DEF IsTree
<1>5. scopes[f].next \in Nat
  <2>1. \A r \in Scope : r.next \in Nat
    BY DEF Scope
  <2>. QED
    BY <1>1, <1>4, <2>1 DEF IsTree
<1>6. /\ b \in Binding /\ b.kind = kind /\ b.fn = f /\ b.idx = scopes[b.fn].next
      /\ b.kind # "Argument"
  BY <1>3, <1>4, <1>5 DEF Binding
<1>7. BindInv(new) /\ Decl(new) = Decl(scopes) \cup {b} /\ b \notin Decl(scopes)
  BY <1>1, <1>6, InsertedBindings DEF f
<1>8. Grows(scopes, new)
  <2>1. /\ IsTree(new) /\ Len(new) = Len(scopes)
        /\ \A i \in 1..Len(scopes) :
             /\ new[i].type = scopes[i].type /\ new[i].parent = scopes[i].parent
             /\ Up(new, i) = Up(scopes, i)
    BY <1>1, <1>6, InsertedScopes
  <2>. HIDE DEF new
  <2>. QED
    BY <1>1, <1>4, <1>7, <2>1 DEF Grows
<1>9. InsertNameIntoScope(active, b) = new
  BY DEF InsertNameIntoScope, Inserted
<1>. QED
  BY <1>1, <1>6, <1>7, <1>8, <1>9 DEF b

\* Nothing added is a way to grow.
LEMMA GrowsItself ==
    ASSUME NEW sc, IsTree(sc)
    PROVE  Grows(sc, sc)
<1>1. Len(sc) \in Nat
  BY DEF IsTree
<1>. QED
  BY <1>1 DEF Grows

\* The functions keep their scopes when one of them emits an instruction.
LEMMA EmittedKeep ==
    ASSUME NEW sc, NEW fs, FnInv(sc, fs), NEW t \in 1..Len(fs), NEW op \in Instruction,
           NEW caps \in Seq(Binding)
    PROVE  /\ Len(Emitted(fs, t, caps, op)) = Len(fs) /\ Len(fs) \in Nat
           /\ \A f \in 1..Len(fs) : Emitted(fs, t, caps, op)[f].scope = fs[f].scope
<1>1. fs \in Seq(Fn)
  BY DEF FnInv
<1>. QED
  BY <1>1, EmittedFns

\* The captures of a function are bindings.
LEMMA CapturesOf ==
    ASSUME NEW sc, NEW fs, FnInv(sc, fs), NEW t \in 1..Len(fs)
    PROVE  fs[t].captures \in Seq(Binding)
<1>1. fs[t] \in Fn
  BY DEF FnInv
<1>2. \A r \in Fn : r.captures \in Seq(Binding)
  BY DEF Fn
<1>. QED
  BY <1>1, <1>2

\* A step that only adds to the scopes and emits an instruction.
LEMMA EmitsKeeps ==
    ASSUME AnalysisInv, Checking, NEW new, NEW op \in Instruction, NEW caps \in Seq(Binding),
           Grows(scopes, new), BindInv(new),
           op.op = "access" => op.binding \in Decl(new),
           op.op # "closure",
           \A b \in Decl(new) \ Decl(scopes) :
               b.fn = fns[Top.fn].scope /\ op = Access(b),
           CaptureStep(scopes, new, fns, Top.fn, caps),
           scopes' = new, fns' = Emitted(fns, Top.fn, caps, op),
           UNCHANGED <<active, realized, stack>>
    PROVE  AnalysisInv'
<1>. DEFINE out == Emitted(fns, Top.fn, caps, op)
<1>1. Top.fn \in 1..Len(fns) /\ FnInv(scopes, fns)
  BY CheckedFunction DEF AnalysisInv
<1>2. FnInv(new, out)
  BY <1>1, FnEmits
<1>3. /\ Len(out) = Len(fns) /\ Len(fns) \in Nat
      /\ \A f \in 1..Len(fns) : out[f].scope = fns[f].scope
  BY <1>1, EmittedKeep
<1>. HIDE DEF out
<1>4. StackOK(new, out, stack, active, realized)
  <2>1. StackOK(scopes, fns, stack, active, realized)
    BY DEF AnalysisInv
  <2>. QED
    BY <1>3, <2>1, StackGrows
<1>5. IsTree(new)
  BY DEF Grows
<1>6. fns' = out
  BY DEF out
<1>. QED
  BY <1>2, <1>4, <1>5, <1>6 DEF AnalysisInv

\* Accessing a declared binding.
LEMMA AccessKeeps ==
    ASSUME AnalysisInv, Checking, NEW b \in Decl(scopes),
           fns' = Emits(Access(b)),
           UNCHANGED <<scopes, active, realized, stack>>
    PROVE  AnalysisInv'
<1>1. b \in Binding
  BY DEF Decl
<1>2. Access(b) \in Instruction /\ Access(b).op = "access" /\ Access(b).binding = b
  BY <1>1 DEF Access, Instruction
<1>3. IsTree(scopes) /\ BindInv(scopes) /\ FnInv(scopes, fns)
  BY DEF AnalysisInv
<1>4. Grows(scopes, scopes)
  BY <1>3, GrowsItself
<1>5. Top.fn \in 1..Len(fns)
  BY CheckedFunction
<1>6. fns[Top.fn].captures \in Seq(Binding)
  BY <1>3, <1>5, CapturesOf
<1>7. CaptureStep(scopes, scopes, fns, Top.fn, fns[Top.fn].captures)
  BY DEF CaptureStep
<1>8. fns' = Emitted(fns, Top.fn, fns[Top.fn].captures, Access(b))
  BY EmitsOne
<1>. DEFINE op == Access(b)
            caps == fns[Top.fn].captures
            new == scopes
<1>9. op.op = "access" => op.binding \in Decl(new)
  BY <1>2
<1>10. op.op # "closure"
  BY <1>2
<1>. QED
  BY <1>2, <1>3, <1>4, <1>6, <1>7, <1>8, <1>9, <1>10, EmitsKeeps

\* A use of a local name.
LEMMA UseLocalKeeps ==
    ASSUME AnalysisInv, NEW n \in Name, UseLocal(n)
    PROVE  AnalysisInv'
<1>1. Checking
  BY DEF UseLocal, Statement
<1>2. PICK b \in FindBindingFor(n, "Function") :
        fns' = Emits([op |-> "access", binding |-> b])
  BY DEF UseLocal
<1>3. b \in Decl(scopes)
  BY <1>2, FoundBindings DEF AnalysisInv, StackOK, BindInv
<1>4. fns' = Emits(Access(b))
  BY <1>2 DEF Access
<1>. QED
  BY <1>1, <1>3, <1>4, AccessKeeps DEF UseLocal

\* A use of an outer function's argument.
LEMMA UseOuterArgumentKeeps ==
    ASSUME AnalysisInv, NEW n \in Name, UseOuterArgument(n)
    PROVE  AnalysisInv'
<1>1. Checking
  BY DEF UseOuterArgument, Statement
<1>2. PICK b \in FindBindingFor(n, "Closure") :
        fns' = Emits([op |-> "access", binding |-> b])
  BY DEF UseOuterArgument
<1>3. FindBindingFor(n, "Function") = {}
  BY DEF UseOuterArgument
<1>4. b \in Decl(scopes)
  BY <1>2, <1>3, FoundBindings DEF AnalysisInv, StackOK, BindInv
<1>5. fns' = Emits(Access(b))
  BY <1>2 DEF Access
<1>. QED
  BY <1>1, <1>4, <1>5, AccessKeeps DEF UseOuterArgument

\* A let statement.
LEMMA LetKeeps ==
    ASSUME AnalysisInv, NEW n \in Name, Let(n)
    PROVE  AnalysisInv'
<1>1. Checking
  BY DEF Let, Statement
<1>. DEFINE b == NewBinding(FunctionScope(active), n, "Variable")
            new == InsertNameIntoScope(active, b)
            op == Access(b)
            caps == fns[Top.fn].captures
<1>2. scopes' = new /\ fns' = Emits(op) /\ UNCHANGED <<active, realized, stack>>
  BY DEF Let, Access
<1>3. /\ b \in Binding /\ b.kind = "Variable" /\ b.fn = fns[Top.fn].scope
      /\ BindInv(new) /\ Grows(scopes, new)
      /\ Decl(new) = Decl(scopes) \cup {b} /\ b \notin Decl(scopes)
  BY <1>1, NextBinding
<1>4. fns' = Emitted(fns, Top.fn, caps, op)
  BY <1>1, <1>2, EmitsOne
<1>. HIDE DEF b, new
<1>5. op \in Instruction /\ op.op = "access" /\ op.binding = b
  BY <1>3 DEF Access, Instruction
<1>6. caps \in Seq(Binding)
  <2>1. FnInv(scopes, fns) /\ Top.fn \in 1..Len(fns)
    BY <1>1, CheckedFunction DEF AnalysisInv
  <2>. QED
    BY <2>1, CapturesOf
<1>7. CaptureStep(scopes, new, fns, Top.fn, caps)
  BY <1>3 DEF CaptureStep
<1>8. \A c \in Decl(new) \ Decl(scopes) : c.fn = fns[Top.fn].scope /\ op = Access(c)
  BY <1>3
<1>9. op.op = "access" => op.binding \in Decl(new)
  BY <1>3, <1>5
<1>10. op.op # "closure"
  BY <1>5
<1>. HIDE DEF op, caps
<1>. QED
  BY <1>1, <1>2, <1>3, <1>4, <1>5, <1>6, <1>7, <1>8, <1>9, <1>10, EmitsKeeps
     DEF op, caps

\* A function symbol with its captures replaced.
LEMMA FnWithCaptures ==
    ASSUME NEW r \in Fn, NEW x
    PROVE  [r EXCEPT !.captures = x]
             = [scope |-> r.scope, captures |-> x, code |-> r.code]
<1>1. r = [scope |-> r.scope, captures |-> r.captures, code |-> r.code]
  BY DEF Fn
<1>. QED
  BY <1>1

CapturesAndEmits(fs, t, b, op) ==
    [fs EXCEPT ![t].captures = Append(@, b), ![t].code = Append(@, op)]

\* A capture and an instruction, as one expression.
LEMMA CapturesAndEmitsOne ==
    ASSUME NEW fs \in Seq(Fn), NEW t \in 1..Len(fs), NEW b, NEW op
    PROVE  CapturesAndEmits(fs, t, b, op)
             = Emitted(fs, t, Append(fs[t].captures, b), op)
<1>. DEFINE r == fs[t]
            caps == Append(r.captures, b)
            code == Append(r.code, op)
            r1 == [scope |-> r.scope, captures |-> caps, code |-> r.code]
            r2 == [scope |-> r.scope, captures |-> caps, code |-> code]
            s == [fs EXCEPT ![t].captures = Append(@, b)]
<1>1. r \in Fn /\ fs = [i \in 1..Len(fs) |-> fs[i]]
  OBVIOUS
<1>2. s = [fs EXCEPT ![t] = [r EXCEPT !.captures = caps]]
  OBVIOUS
<1>3. CapturesAndEmits(fs, t, b, op) = [s EXCEPT ![t].code = Append(@, op)]
  BY DEF CapturesAndEmits
<1>4. Emitted(fs, t, caps, op) = [i \in 1..Len(fs) |-> IF i = t THEN r2 ELSE fs[i]]
  BY DEF Emitted
<1>. HIDE DEF s
<1>5. s = [fs EXCEPT ![t] = r1]
  <2>. HIDE DEF r, caps
  <2>1. [r EXCEPT !.captures = caps] = r1
    BY <1>1, FnWithCaptures
  <2>. QED
    BY <1>2, <2>1
<1>6. s[t] = r1 /\ s = [i \in 1..Len(fs) |-> IF i = t THEN r1 ELSE fs[i]]
  <2>. HIDE DEF r1
  <2>. QED
    BY <1>1, <1>5
<1>7. [s EXCEPT ![t].code = Append(@, op)] = [s EXCEPT ![t] = [r1 EXCEPT !.code = code]]
  <2>. HIDE DEF r, caps
  <2>. QED
    BY <1>6
<1>8. [r1 EXCEPT !.code = code] = r2
  <2>. HIDE DEF r, caps, code
  <2>. QED
    OBVIOUS
<1>. HIDE DEF r, caps, code, r1, r2
<1>9. [s EXCEPT ![t].code = Append(@, op)] = [i \in 1..Len(fs) |-> IF i = t THEN r2 ELSE fs[i]]
  BY <1>6, <1>7, <1>8
<1>. QED
  BY <1>3, <1>4, <1>9 DEF caps, r

\* A use that captures.
LEMMA UseCapturedKeeps ==
    ASSUME AnalysisInv, NEW n \in Name, UseCaptured(n)
    PROVE  AnalysisInv'
<1>1. Checking
  BY DEF UseCaptured, Statement
<1>. DEFINE t == Top.fn
            c == NewBinding(FunctionScope(active), n, "Capture")
            new == InsertNameIntoScope(active, c)
            op == Access(c)
<1>2. PICK b \in FindBindingFor(n, "Closure") :
        scopes' = new /\ fns' = CapturesAndEmits(fns, t, b, op)
  BY DEF UseCaptured, Access, CapturesAndEmits
<1>3. UNCHANGED <<active, realized, stack>> /\ FindBindingFor(n, "Function") = {}
  BY DEF UseCaptured
<1>4. /\ c \in Binding /\ c.kind = "Capture" /\ c.fn = fns[t].scope
      /\ BindInv(new) /\ Grows(scopes, new)
      /\ Decl(new) = Decl(scopes) \cup {c} /\ c \notin Decl(scopes)
  BY <1>1, NextBinding
<1>5. /\ t \in 1..Len(fns) /\ fns \in Seq(Fn) /\ FnInv(scopes, fns)
      /\ Up(scopes, active) = fns[t].scope
  BY <1>1, CheckedFunction DEF AnalysisInv, FnInv
<1>6. /\ b \in Decl(scopes) /\ b \in Binding
      /\ b.fn = Up(scopes, scopes[fns[t].scope].parent)
  <2>1. IsTree(scopes) /\ BoundHere(scopes) /\ active \in 1..Len(scopes)
    BY DEF AnalysisInv, StackOK, BindInv
  <2>2. b \in Decl(scopes) /\ b.fn = Up(scopes, scopes[Up(scopes, active)].parent)
    BY <1>2, <1>3, <2>1, FoundBindings
  <2>3. b \in Binding
    BY <2>2 DEF Decl
  <2>. QED
    BY <1>5, <2>2, <2>3
<1>. DEFINE caps == Append(fns[t].captures, b)
<1>7. fns' = Emitted(fns, t, caps, op)
  BY <1>2, <1>5, CapturesAndEmitsOne
<1>. HIDE DEF c, new
<1>8. op \in Instruction /\ op.op = "access" /\ op.binding = c
  BY <1>4 DEF Access, Instruction
<1>9. caps \in Seq(Binding)
  <2>1. fns[t].captures \in Seq(Binding)
    BY <1>5, CapturesOf
  <2>. QED
    BY <1>6, <2>1, AppendProperties
<1>10. CaptureStep(scopes, new, fns, t, caps)
  BY <1>4, <1>6 DEF CaptureStep
<1>11. \A d \in Decl(new) \ Decl(scopes) : d.fn = fns[t].scope /\ op = Access(d)
  BY <1>4
<1>12. op.op = "access" => op.binding \in Decl(new)
  BY <1>4, <1>8
<1>13. op.op # "closure"
  BY <1>8
<1>. HIDE DEF op, caps
<1>. QED
  BY <1>1, <1>2, <1>3, <1>4, <1>7, <1>8, <1>9, <1>10, <1>11, <1>12, <1>13, EmitsKeeps

\* A sequence with one more element.
LEMMA Appended ==
    ASSUME NEW T, NEW q, q \in Seq(T), NEW x \in T, NEW r, r = Append(q, x)
    PROVE  /\ r \in Seq(T) /\ Len(r) = Len(q) + 1
           /\ \A i \in 1..Len(q) : r[i] = q[i]
           /\ r[Len(q) + 1] = x
  BY AppendProperties

\* The functions when one is added and then another emits.
LEMMA EmitThenAppend ==
    ASSUME NEW fs \in Seq(Fn), NEW t \in 1..Len(fs), NEW caps \in Seq(Binding),
           NEW op \in Instruction, NEW g \in Fn
    PROVE  Append(Emitted(fs, t, caps, op), g)
             = Emitted(Append(fs, g), t, caps, op)
<1>. DEFINE first == Emitted(fs, t, caps, op)
            more == Append(fs, g)
<1>0. first = Emitted(fs, t, caps, op) /\ more = Append(fs, g)
  OBVIOUS
<1>. HIDE DEF first, more
<1>. USE <1>0
<1>1. /\ first \in Seq(Fn) /\ Len(first) = Len(fs) /\ Len(fs) \in Nat
      /\ \A i \in 1..Len(fs) : first[i] =
            IF i = t THEN [scope |-> fs[i].scope, captures |-> caps,
                           code |-> Append(fs[i].code, op)]
            ELSE fs[i]
  <2>1. first \in Seq(Fn) /\ Len(first) = Len(fs)
    BY EmittedFns
  <2>2. \A i \in 1..Len(fs) : first[i] =
            IF i = t THEN [scope |-> fs[i].scope, captures |-> caps,
                           code |-> Append(fs[i].code, op)]
            ELSE fs[i]
    BY DEF Emitted
  <2>3. Len(fs) \in Nat
    OBVIOUS
  <2>. QED
    BY <2>1, <2>2, <2>3
<1>2. /\ more \in Seq(Fn) /\ Len(more) = Len(fs) + 1
      /\ \A i \in 1..Len(fs) : more[i] = fs[i]
      /\ more[Len(fs) + 1] = g
  BY AppendProperties
<1>3. t \in 1..Len(more)
  BY <1>1, <1>2
<1>4. /\ Emitted(more, t, caps, op) \in Seq(Fn)
      /\ Len(Emitted(more, t, caps, op)) = Len(fs) + 1
  <2>1. more \in Seq(Fn) /\ Len(more) = Len(fs) + 1
    BY <1>2
  <2>2. /\ Emitted(more, t, caps, op) \in Seq(Fn)
        /\ Len(Emitted(more, t, caps, op)) = Len(more)
    BY <1>3, <2>1, EmittedFns, ZenonT(30)
  <2>. QED
    BY <2>1, <2>2
<1>5. \A i \in 1..Len(more) : Emitted(more, t, caps, op)[i] =
            IF i = t THEN [scope |-> more[i].scope, captures |-> caps,
                           code |-> Append(more[i].code, op)]
            ELSE more[i]
  BY DEF Emitted
<1>. DEFINE all == Append(first, g)
            out == Emitted(more, t, caps, op)
<1>6. /\ all \in Seq(Fn) /\ Len(all) = Len(fs) + 1
      /\ \A i \in 1..Len(fs) : all[i] = first[i]
      /\ all[Len(fs) + 1] = g
  <2>1. first \in Seq(Fn) /\ Len(first) = Len(fs)
    BY <1>1
  <2>3. all = Append(first, g)
    OBVIOUS
  <2>. HIDE DEF all
  <2>2. /\ all \in Seq(Fn) /\ Len(all) = Len(first) + 1
        /\ \A i \in 1..Len(first) : all[i] = first[i]
        /\ all[Len(first) + 1] = g
    BY <2>1, <2>3, Appended
  <2>. QED
    BY <2>1, <2>2
<1>. HIDE DEF all, out
<1>7. \A i \in 1..Len(fs) : all[i] = out[i]
  <2>. SUFFICES ASSUME NEW i \in 1..Len(fs) PROVE all[i] = out[i]
    OBVIOUS
  <2>1. i \in 1..Len(more) /\ more[i] = fs[i]
    BY <1>1, <1>2
  <2>2. out[i] = IF i = t THEN [scope |-> more[i].scope, captures |-> caps,
                           code |-> Append(more[i].code, op)]
                 ELSE more[i]
    BY <1>5, <2>1 DEF out
  <2>. QED
    BY <1>1, <1>6, <2>1, <2>2
<1>8. out[Len(fs) + 1] = g
  <2>1. Len(fs) + 1 \in 1..Len(more) /\ Len(fs) + 1 # t
    BY <1>1, <1>2
  <2>2. more[Len(fs) + 1] = g
    BY <1>2
  <2>. QED
    BY <1>5, <2>1, <2>2 DEF out
<1>9. \A i \in 1..(Len(fs) + 1) : all[i] = out[i]
  BY <1>1, <1>6, <1>7, <1>8, SMTT(20)
<1>10. all = out
  <2>1. out \in Seq(Fn) /\ Len(out) = Len(fs) + 1
    BY <1>4 DEF out
  <2>2. \A i \in 1..Len(all) : all[i] = out[i]
    BY <1>6, <1>9
  <2>3. all = [i \in 1..Len(all) |-> all[i]] /\ out = [i \in 1..Len(out) |-> out[i]]
    BY <1>6, <2>1
  <2>. QED
    BY <1>6, <2>1, <2>2, <2>3
<1>. QED
  BY <1>10 DEF all, out, first, more

\* FunctionInstanceScope makes a new scope.
LEMMA NewFunctionScope ==
    ASSUME NEW id \in Nat, NEW parent \in 1..(id - 1),
           NEW arguments \in MainArguments \cup ClosureArguments,
           NEW e, e = FunctionInstanceScope(id, parent, arguments)
    PROVE  /\ IsNew(e, id) /\ e.type = "FunctionInstanceScope" /\ e.parent = parent
<1>. DEFINE bs == [i \in 1..Len(arguments) |->
                    [name |-> arguments[i], kind |-> "Argument", idx |-> i - 1,
                     fn |-> id]]
            k == Len(arguments)
<1>1. arguments \in Seq(Name) /\ k \in Nat
  BY ArgumentsAssumption
<1>2. \A i \in 1..k : bs[i] \in Binding
  <2>. SUFFICES ASSUME NEW i \in 1..k PROVE bs[i] \in Binding
    OBVIOUS
  <2>1. arguments[i] \in Name /\ i - 1 \in Nat
    BY <1>1
  <2>. QED
    BY <2>1 DEF Binding
<1>3. /\ \A i \in 1..k : bs[i].fn = id /\ bs[i].idx = i - 1 /\ bs[i].kind = "Argument"
      /\ DOMAIN bs = 1..k
  OBVIOUS
<1>4. e = [type |-> "FunctionInstanceScope", parent |-> parent, next |-> k,
           bindings |-> bs]
  BY DEF FunctionInstanceScope
<1>5. bs \in Seq(Binding) /\ Len(bs) = k
  <2>1. bs \in [1..k -> Binding]
    BY <1>2
  <2>. QED
    BY <1>1, <2>1
<1>. HIDE DEF bs, k
<1>6. parent \in Nat
  OBVIOUS
<1>7. /\ e.type = "FunctionInstanceScope" /\ e.parent = parent /\ e.next = k
      /\ e.bindings = bs
  BY <1>4
<1>8. e \in Scope
  BY <1>1, <1>4, <1>5, <1>6 DEF Scope
<1>. QED
  BY <1>3, <1>5, <1>7, <1>8 DEF IsNew

\* The scope of an if is a new scope.
LEMMA NewBlockScope ==
    ASSUME NEW id \in Nat, NEW parent \in 1..(id - 1), NEW e,
           e = [type |-> "BlockScope", parent |-> parent,
                next |-> 0, bindings |-> <<>>]
    PROVE  /\ IsNew(e, id) /\ e.type = "BlockScope" /\ e.parent = parent
<1>1. /\ e.type = "BlockScope" /\ e.parent = parent /\ e.next = 0
      /\ e.bindings = <<>>
  OBVIOUS
<1>2. e \in Scope
  BY DEF Scope
<1>. QED
  BY <1>1, <1>2 DEF IsNew

\* A new scope leaves what there is as it is.
LEMMA ScopeAdded ==
    ASSUME IsTree(scopes), BindInv(scopes), FnInv(scopes, fns), NEW e,
           IsNew(e, Len(scopes) + 1), NEW new, new = Append(scopes, e)
    PROVE  /\ IsTree(new) /\ BindInv(new) /\ Grows(scopes, new) /\ FnInv(new, fns)
           /\ Len(new) = Len(scopes) + 1 /\ Len(scopes) \in Nat
           /\ new[Len(scopes) + 1] = e
           /\ \A b \in Decl(new) : b.fn = Len(scopes) + 1 => b.kind = "Argument"
<1>. DEFINE n == Len(scopes)
<1>1. n \in Nat /\ n >= 1
  BY DEF IsTree
<1>2. /\ IsTree(new) /\ Len(new) = n + 1 /\ new[n + 1] = e
      /\ \A i \in 1..n : new[i] = scopes[i] /\ Up(new, i) = Up(scopes, i)
  BY ExtendedScopes
<1>3. /\ BindInv(new) /\ Decl(scopes) \subseteq Decl(new)
      /\ \A b \in Decl(new) \ Decl(scopes) : b.fn = n + 1 /\ b.kind = "Argument"
  BY ExtendedBindings
<1>4. Grows(scopes, new)
  BY <1>1, <1>2, <1>3 DEF Grows
<1>5. \A b \in Decl(new) \ Decl(scopes) : b.fn \notin 2..n
  BY <1>1, <1>3
<1>6. FnInv(new, fns)
  BY <1>4, <1>5, FnGrows
<1>7. \A b \in Decl(scopes) : b.fn \in 1..n
  <2>. SUFFICES ASSUME NEW b \in Decl(scopes) PROVE b.fn \in 1..n
    OBVIOUS
  <2>1. PICK i \in 1..n : b \in Bound(scopes, i)
    BY DEF Decl
  <2>2. b.fn = Up(scopes, i) /\ Up(scopes, i) \in 1..i
    BY <2>1, UpRange DEF BindInv, BoundHere
  <2>. QED
    BY <1>1, <2>2
<1>8. \A b \in Decl(new) : b.fn = n + 1 => b.kind = "Argument"
  BY <1>1, <1>3, <1>7
<1>. QED
  BY <1>1, <1>2, <1>3, <1>4, <1>6, <1>8

\* A closure expression.
LEMMA ClosureKeeps ==
    ASSUME AnalysisInv, NEW arguments \in ClosureArguments, Closure(arguments)
    PROVE  AnalysisInv'
<1>1. Checking
  BY DEF Closure, Statement
<1>. DEFINE n == Len(scopes)
            k == n + 1
            e == FunctionInstanceScope(k, active, arguments)
            new == Append(scopes, e)
            t == Top.fn
            g == Len(fns) + 1
            op == [op |-> "closure", fn |-> g]
            caps == fns[t].captures
            more == Append(fns, NewFunction(k))
<1>2. /\ scopes' = new /\ fns' = Append(Emits(op), NewFunction(k))
      /\ realized' = Append(realized, g)
      /\ active' = active /\ stack' = stack
  BY DEF Closure
<1>3. /\ IsTree(scopes) /\ BindInv(scopes) /\ FnInv(scopes, fns)
      /\ StackOK(scopes, fns, stack, active, realized)
      /\ t \in 1..Len(fns) /\ active \in 1..n /\ Up(scopes, active) = fns[t].scope
      /\ fns \in Seq(Fn) /\ Len(fns) \in Nat /\ n \in Nat
  <2>1. fns \in Seq(Fn)
    BY DEF AnalysisInv, FnInv
  <2>2. n \in Nat
    BY DEF AnalysisInv, IsTree
  <2>. QED
    BY <1>1, <2>1, <2>2, CheckedFunction DEF AnalysisInv
<1>4. IsNew(e, k) /\ e.type = "FunctionInstanceScope" /\ e.parent = active
  <2>1. k \in Nat /\ active \in 1..(k - 1)
    BY <1>3
  <2>. QED
    BY <2>1, NewFunctionScope
<1>. HIDE DEF e
<1>5. /\ IsTree(new) /\ BindInv(new) /\ Grows(scopes, new) /\ FnInv(new, fns)
      /\ Len(new) = k /\ new[k] = e
      /\ \A b \in Decl(new) : b.fn = k => b.kind = "Argument"
  BY <1>3, <1>4, ScopeAdded
<1>. HIDE DEF new
<1>6. /\ k \in 2..Len(new) /\ k \in Nat /\ IsFunction(new, k)
      /\ \A f \in 1..Len(fns) : fns[f].scope # k
  <2>1. n >= 1
    BY <1>3 DEF IsTree
  <2>2. \A f \in 1..Len(fns) : fns[f].scope \in 2..n
    BY <1>3 DEF FnInv
  <2>. QED
    BY <1>3, <1>4, <1>5, <2>1, <2>2 DEF IsFunction
<1>7. /\ FnInv(new, more) /\ Len(more) = g /\ more[g].scope = k
      /\ \A f \in 1..Len(fns) : more[f] = fns[f]
  BY <1>5, <1>6, FnAppend
<1>8. NewFunction(k) \in Fn
  BY <1>6 DEF NewFunction, Fn
<1>. HIDE DEF more
<1>9. t \in 1..Len(more) /\ g \in 1..Len(more) /\ g \in Nat /\ more[t] = fns[t]
  BY <1>3, <1>7
<1>10. op \in Instruction /\ op.op = "closure" /\ op.fn = g
  BY <1>9 DEF Instruction
<1>11. caps \in Seq(Binding) /\ caps = more[t].captures
  BY <1>3, <1>9, CapturesOf
<1>12. Up(new, new[more[op.fn].scope].parent) = more[t].scope
  BY <1>3, <1>4, <1>5, <1>7, <1>9, <1>10 DEF Grows
<1>13. FnInv(new, Emitted(more, t, caps, op))
  <2>1. Grows(new, new)
    BY <1>5, GrowsItself
  <2>2. CaptureStep(new, new, more, t, caps)
    BY <1>11 DEF CaptureStep
  <2>3. op.op = "access" => op.binding \in Decl(new)
    BY <1>10
  <2>4. \A b \in Decl(new) \ Decl(new) : b.fn = more[t].scope /\ op = Access(b)
    OBVIOUS
  <2>. HIDE DEF op, caps, t, g
  <2>. QED
    BY <1>7, <1>9, <1>10, <1>11, <1>12, <2>1, <2>2, <2>3, <2>4, FnEmits
<1>14. fns' = Emitted(more, t, caps, op)
  <2>1. Emits(op) = Emitted(fns, t, caps, op)
    BY <1>1, EmitsOne
  <2>. DEFINE nf == NewFunction(k)
              first == Emits(op)
  <2>2. more = Append(fns, nf) /\ fns' = Append(first, nf)
    BY <1>2 DEF more
  <2>3. nf \in Fn /\ op \in Instruction /\ caps \in Seq(Binding) /\ fns \in Seq(Fn)
    BY <1>3, <1>8, <1>10, <1>11
  <2>4. t \in 1..Len(fns) /\ first = Emitted(fns, t, caps, op)
    BY <1>3, <2>1
  <2>. HIDE DEF op, caps, t, g, nf, first
  <2>5. Append(Emitted(fns, t, caps, op), nf) = Emitted(Append(fns, nf), t, caps, op)
    BY <2>3, <2>4, EmitThenAppend DEF more
  <2>. QED
    BY <2>2, <2>4, <2>5
<1>. DEFINE out == Emitted(more, t, caps, op)
<1>15. /\ Len(out) = g
       /\ \A f \in 1..Len(fns) : out[f].scope = fns[f].scope
  <2>1. /\ Len(out) = Len(more)
        /\ \A f \in 1..Len(more) : out[f].scope = more[f].scope
    BY <1>7, <1>9, <1>10, <1>11, EmittedKeep
  <2>2. \A f \in 1..Len(fns) : f \in 1..Len(more)
    BY <1>3, <1>7
  <2>. QED
    BY <1>7, <2>1, <2>2
<1>. HIDE DEF out
<1>16. StackOK(new, out, stack, active, realized)
  <2>1. Len(out) \in Nat /\ Len(fns) <= Len(out)
    BY <1>3, <1>15
  <2>. QED
    BY <1>3, <1>5, <1>15, <2>1, StackGrows
<1>17. StackOK(new, out, stack, active, realized')
  <2>1. realized \in Seq(Nat) /\ \A i \in 1..Len(realized) : realized[i] \in 1..Len(out)
    BY <1>16 DEF StackOK
  <2>2. g \in Nat /\ g \in 1..Len(out)
    BY <1>3, <1>15
  <2>. HIDE DEF g
  <2>3. /\ realized' \in Seq(Nat) /\ Len(realized') = Len(realized) + 1
        /\ \A i \in 1..Len(realized) : realized'[i] = realized[i]
        /\ realized'[Len(realized) + 1] = g
    <3>1. realized \in Seq(Nat) /\ realized' = Append(realized, g)
      BY <1>2, <2>1
    <3>. QED
      BY <2>2, <3>1, Appended
  <2>4. Len(realized) \in Nat
    BY <2>1
  <2>5. \A i \in 1..Len(realized') : realized'[i] \in 1..Len(out)
    BY <2>1, <2>2, <2>3, <2>4, SMTT(20)
  <2>. QED
    BY <1>16, <2>3, <2>5 DEF StackOK
<1>. QED
  BY <1>2, <1>5, <1>13, <1>14, <1>17 DEF AnalysisInv, out

\* A block more on the stack: the one before it is left where it is.
LEMMA Entered ==
    ASSUME NEW sc, NEW fs, NEW st, NEW act, NEW re, NEW act2 \in 1..Len(sc),
           StackOK(sc, fs, st, act, re), NEW l \in Level, l.back = act,
           l.fn \in 1..Len(fs), ~l.ended => Up(sc, act2) = fs[l.fn].scope,
           l.bodies = <<>>, NEW st2, st2 = Append(st, l)
    PROVE  StackOK(sc, fs, st2, act2, re)
<1>1. st \in Seq(Level) /\ Len(st) \in Nat /\ act \in 1..Len(sc)
  BY DEF StackOK
<1>2. /\ st2 \in Seq(Level) /\ Len(st2) = Len(st) + 1
      /\ \A k \in 1..Len(st) : st2[k] = st[k]
      /\ st2[Len(st) + 1] = l
  BY <1>1, Appended
<1>3. ASSUME NEW k \in 1..Len(st2)
      PROVE  /\ st2[k].fn \in 1..Len(fs) /\ st2[k].back \in 1..Len(sc)
             /\ \A i \in 1..Len(st2[k].bodies) : st2[k].bodies[i] \in 1..Len(fs)
             /\ ~st2[k].ended => Up(sc, ActiveAt(st2, act2, k)) = fs[st2[k].fn].scope
  <2>1. CASE k = Len(st) + 1
    BY <1>1, <1>2, <2>1 DEF ActiveAt
  <2>2. CASE k \in 1..Len(st)
    <3>1. ActiveAt(st2, act2, k) = ActiveAt(st, act, k)
      <4>1. CASE k = Len(st)
        BY <1>1, <1>2, <4>1 DEF ActiveAt
      <4>2. CASE k # Len(st)
        <5>1. k + 1 \in 1..Len(st)
          BY <1>1, <2>2, <4>2
        <5>2. st2[k + 1] = st[k + 1] /\ k # Len(st2)
          BY <1>1, <1>2, <2>2, <5>1
        <5>. QED
          BY <4>2, <5>2 DEF ActiveAt
      <4>. QED
        BY <4>1, <4>2
    <3>. QED
      BY <1>2, <2>2, <3>1 DEF StackOK
  <2>. QED
    BY <1>1, <1>2, <2>1, <2>2
<1>. QED
  BY <1>2, <1>3 DEF StackOK

\* An if statement.
LEMMA IfKeeps ==
    ASSUME AnalysisInv, If
    PROVE  AnalysisInv'
<1>1. Checking
  BY DEF If, Statement
<1>. DEFINE n == Len(scopes)
            k == n + 1
            e == [type |-> "BlockScope", parent |-> active, next |-> 0,
                  bindings |-> <<>>]
            new == Append(scopes, e)
            l == [fn |-> Top.fn, back |-> active, ended |-> FALSE, bodies |-> <<>>]
<1>2. /\ scopes' = new /\ fns' = fns /\ realized' = realized
      /\ active' = k /\ stack' = Append(stack, l)
  BY DEF If
<1>3. /\ IsTree(scopes) /\ BindInv(scopes) /\ FnInv(scopes, fns)
      /\ StackOK(scopes, fns, stack, active, realized)
      /\ Top.fn \in 1..Len(fns) /\ active \in 1..n
      /\ Up(scopes, active) = fns[Top.fn].scope
      /\ Len(fns) \in Nat /\ n \in Nat
  <2>1. Len(fns) \in Nat
    BY DEF AnalysisInv, FnInv
  <2>2. n \in Nat
    BY DEF AnalysisInv, IsTree
  <2>. QED
    BY <1>1, <2>1, <2>2, CheckedFunction DEF AnalysisInv
<1>4. IsNew(e, k) /\ e.type = "BlockScope" /\ e.parent = active
  <2>1. k \in Nat /\ active \in 1..(k - 1)
    BY <1>3
  <2>. QED
    BY <2>1, NewBlockScope
<1>. HIDE DEF e
<1>5. /\ IsTree(new) /\ BindInv(new) /\ Grows(scopes, new) /\ FnInv(new, fns)
      /\ Len(new) = k /\ new[k] = e
  BY <1>3, <1>4, ScopeAdded
<1>6. Up(new, k) = fns[Top.fn].scope
  BY <1>3, <1>4, ExtendedScopes
<1>. HIDE DEF new
<1>7. StackOK(new, fns, stack, active, realized)
  BY <1>3, <1>5, StackGrows
<1>8. StackOK(new, fns, stack', active', realized')
  <2>1. l \in Level /\ l.back = active /\ l.fn = Top.fn /\ l.bodies = <<>>
    BY <1>3 DEF Level
  <2>2. k \in 1..Len(new)
    BY <1>3, <1>5
  <2>. HIDE DEF l, k
  <2>. QED
    BY <1>2, <1>3, <1>6, <1>7, <2>1, <2>2, Entered
<1>. QED
  BY <1>2, <1>5, <1>8 DEF AnalysisInv

\* The innermost block, and its scope, after its statements are checked or a
\* body is taken from it.
LEMMA Settled ==
    ASSUME NEW sc, NEW fs, NEW st, NEW act, NEW re, StackOK(sc, fs, st, act, re),
           st # <<>>, NEW l \in Level, l.fn = st[Len(st)].fn,
           l.back = st[Len(st)].back, l.ended,
           \A i \in 1..Len(l.bodies) : l.bodies[i] \in 1..Len(fs),
           NEW st2, st2 = [st EXCEPT ![Len(st)] = l]
    PROVE  /\ StackOK(sc, fs, st2, act, re)
           /\ Len(st2) = Len(st) /\ st2[Len(st)] = l
<1>1. st \in Seq(Level) /\ Len(st) \in Nat /\ Len(st) \in 1..Len(st)
  BY DEF StackOK
<1>2. /\ st2 \in Seq(Level) /\ Len(st2) = Len(st) /\ st2[Len(st)] = l
      /\ \A k \in 1..Len(st) : k # Len(st) => st2[k] = st[k]
  BY <1>1
<1>3. \A k \in 1..Len(st) : ActiveAt(st2, act, k) = ActiveAt(st, act, k)
  <2>. SUFFICES ASSUME NEW k \in 1..Len(st), k # Len(st)
                PROVE  st2[k + 1].back = st[k + 1].back
    BY <1>2 DEF ActiveAt
  <2>1. k + 1 \in 1..Len(st)
    BY <1>1
  <2>. QED
    BY <1>2, <2>1
<1>4. ASSUME NEW k \in 1..Len(st2)
      PROVE  /\ st2[k].fn \in 1..Len(fs) /\ st2[k].back \in 1..Len(sc)
             /\ \A i \in 1..Len(st2[k].bodies) : st2[k].bodies[i] \in 1..Len(fs)
             /\ ~st2[k].ended => Up(sc, ActiveAt(st2, act, k)) = fs[st2[k].fn].scope
  <2>1. k \in 1..Len(st)
    BY <1>2
  <2>2. CASE k = Len(st)
    BY <1>1, <1>2, <2>2 DEF StackOK
  <2>3. CASE k # Len(st)
    BY <1>2, <1>3, <2>1, <2>3 DEF StackOK
  <2>. QED
    BY <2>2, <2>3
<1>. QED
  BY <1>2, <1>4 DEF StackOK

\* A block with one field replaced.
LEMMA LevelWith ==
    ASSUME NEW r \in Level, NEW x
    PROVE  /\ [r EXCEPT !.ended = x]
                = [fn |-> r.fn, back |-> r.back, ended |-> x, bodies |-> r.bodies]
           /\ [r EXCEPT !.bodies = x]
                = [fn |-> r.fn, back |-> r.back, ended |-> r.ended, bodies |-> x]
<1>1. r = [fn |-> r.fn, back |-> r.back, ended |-> r.ended, bodies |-> r.bodies]
  BY DEF Level
<1>. QED
  BY <1>1

\* A block takes the bodies that wait.
LEMMA TakeBodiesKeeps ==
    ASSUME AnalysisInv, TakeBodies
    PROVE  AnalysisInv'
<1>. DEFINE n == Len(stack)
            r == stack[n]
            l == [fn |-> r.fn, back |-> r.back, ended |-> TRUE, bodies |-> realized]
<1>1. /\ stack \in Seq(Level) /\ stack # <<>> /\ n \in 1..n /\ n \in Nat
      /\ realized \in Seq(Nat)
      /\ \A i \in 1..Len(realized) : realized[i] \in 1..Len(fns)
      /\ StackOK(scopes, fns, stack, active, realized)
      /\ active \in 1..Len(scopes)
  BY DEF AnalysisInv, StackOK, TakeBodies
<1>2. /\ realized' = <<>> /\ UNCHANGED <<scopes, active, fns>>
      /\ stack' = [stack EXCEPT ![n].ended = TRUE, ![n].bodies = realized]
  BY DEF TakeBodies
<1>3. r \in Level
  BY <1>1
<1>4. stack' = [stack EXCEPT ![n] = l]
  <2>. DEFINE m == [fn |-> r.fn, back |-> r.back, ended |-> TRUE, bodies |-> r.bodies]
              s == [stack EXCEPT ![n].ended = TRUE]
  <2>2. s = [stack EXCEPT ![n] = [r EXCEPT !.ended = TRUE]]
    OBVIOUS
  <2>3. stack' = [s EXCEPT ![n].bodies = realized]
    BY <1>2
  <2>. HIDE DEF s
  <2>4. [r EXCEPT !.ended = TRUE] = m
    <3>. HIDE DEF r
    <3>. QED
      BY <1>3, LevelWith
  <2>5. s = [stack EXCEPT ![n] = m] /\ s[n] = m
    <3>1. n \in DOMAIN stack
      BY <1>1
    <3>. HIDE DEF r, m, n
    <3>2. s = [stack EXCEPT ![n] = m]
      BY <2>2, <2>4
    <3>. QED
      BY <3>1, <3>2
  <2>6. [m EXCEPT !.bodies = realized] = l
    <3>1. /\ m \in Level /\ m.fn = r.fn /\ m.back = r.back /\ m.ended = TRUE
      <4>. HIDE DEF r
      <4>. QED
        BY <1>3 DEF Level
    <3>2. [m EXCEPT !.bodies = realized]
            = [fn |-> m.fn, back |-> m.back, ended |-> m.ended, bodies |-> realized]
      <4>. HIDE DEF m
      <4>. QED
        BY <3>1, LevelWith
    <3>. QED
      BY <3>1, <3>2
  <2>. HIDE DEF l, r, m
  <2>7. [s EXCEPT ![n].bodies = realized] = [s EXCEPT ![n] = l]
    BY <2>5, <2>6
  <2>. QED
    BY <2>3, <2>5, <2>7
<1>5. l \in Level /\ l.fn = r.fn /\ l.back = r.back /\ l.ended /\ l.bodies = realized
  <2>. HIDE DEF r
  <2>. QED
    BY <1>1, <1>3 DEF Level
<1>. HIDE DEF l
<1>6. StackOK(scopes, fns, stack', active, realized)
  BY <1>1, <1>4, <1>5, Settled
<1>7. StackOK(scopes, fns, stack', active, realized')
  <2>. DEFINE none == <<>>
  <2>1. none \in Seq(Nat) /\ \A i \in 1..Len(none) : none[i] \in 1..Len(fns)
    OBVIOUS
  <2>2. realized' = none
    BY <1>2
  <2>. HIDE DEF none
  <2>. QED
    BY <1>6, <2>1, <2>2 DEF StackOK
<1>. QED
  BY <1>2, <1>7 DEF AnalysisInv

\* A body is checked.
LEMMA CheckBodyKeeps ==
    ASSUME AnalysisInv, CheckBody
    PROVE  AnalysisInv'
<1>. DEFINE n == Len(stack)
            r == stack[n]
            f == Head(r.bodies)
            rest == Tail(r.bodies)
            l == [fn |-> r.fn, back |-> r.back, ended |-> r.ended, bodies |-> rest]
            first == [stack EXCEPT ![n].bodies = Tail(@)]
            own == [fn |-> f, back |-> active, ended |-> FALSE, bodies |-> <<>>]
<1>1. /\ stack \in Seq(Level) /\ stack # <<>> /\ n \in 1..n /\ n \in Nat
      /\ StackOK(scopes, fns, stack, active, realized)
      /\ \A i \in 1..Len(r.bodies) : r.bodies[i] \in 1..Len(fns)
      /\ r.ended /\ r.bodies # <<>>
      /\ IsTree(scopes) /\ FnInv(scopes, fns)
  BY DEF AnalysisInv, StackOK, CheckBody, Top
<1>2. /\ UNCHANGED <<scopes, realized, fns>>
      /\ stack' = Append(first, own) /\ active' = fns[f].scope
  BY DEF CheckBody, Top
<1>3. r \in Level
  BY <1>1
<1>4. /\ r = [fn |-> r.fn, back |-> r.back, ended |-> r.ended, bodies |-> r.bodies]
      /\ r.bodies \in Seq(Nat)
  BY <1>3 DEF Level
<1>5. /\ f \in 1..Len(fns) /\ f \in Nat /\ rest \in Seq(Nat)
      /\ \A i \in 1..Len(rest) : rest[i] \in 1..Len(fns)
  <2>. DEFINE q == r.bodies
  <2>1. q \in Seq(Nat) /\ q # <<>> /\ \A i \in 1..Len(q) : q[i] \in 1..Len(fns)
    BY <1>1, <1>4
  <2>2. f = Head(q) /\ rest = Tail(q)
    OBVIOUS
  <2>. HIDE DEF q
  <2>3. Len(q) \in Nat /\ Len(q) >= 1 /\ f = q[1]
    BY <2>1, <2>2
  <2>4. /\ rest \in Seq(Nat) /\ Len(rest) = Len(q) - 1
        /\ \A i \in 1..Len(rest) : rest[i] = q[i + 1]
    BY <2>1, <2>2, HeadTailProperties
  <2>. HIDE DEF f, rest
  <2>5. \A i \in 1..Len(rest) : i + 1 \in 1..Len(q)
    BY <2>3, <2>4
  <2>6. f \in 1..Len(fns) /\ f \in Nat
    BY <2>1, <2>3
  <2>7. \A i \in 1..Len(rest) : rest[i] \in 1..Len(fns)
    BY <2>1, <2>4, <2>5
  <2>. QED
    BY <2>4, <2>6, <2>7
<1>6. first = [stack EXCEPT ![n] = l]
  <2>1. first = [stack EXCEPT ![n] = [r EXCEPT !.bodies = rest]]
    OBVIOUS
  <2>2. [r EXCEPT !.bodies = rest] = l
    <3>. HIDE DEF rest, r
    <3>. QED
      BY <1>4
  <2>. HIDE DEF rest, r, l, first
  <2>. QED
    BY <2>1, <2>2
<1>7. l \in Level /\ l.fn = r.fn /\ l.back = r.back /\ l.ended /\ l.bodies = rest
  <2>1. \A x \in Level : x.fn \in Nat /\ x.back \in Nat /\ x.ended \in BOOLEAN
    BY DEF Level
  <2>. HIDE DEF r, rest
  <2>. QED
    BY <1>1, <1>3, <1>5, <2>1 DEF Level
<1>. HIDE DEF l, first
<1>8. StackOK(scopes, fns, first, active, realized)
  BY <1>1, <1>5, <1>6, <1>7, Settled
<1>9. own \in Level /\ own.fn = f /\ own.back = active /\ own.bodies = <<>> /\ ~own.ended
  <2>1. active \in Nat
    <3>1. active \in 1..Len(scopes)
      BY <1>1 DEF StackOK
    <3>. QED
      BY <3>1
  <2>. HIDE DEF f
  <2>. QED
    BY <1>5, <2>1 DEF Level
<1>. HIDE DEF own, f
<1>10. /\ fns[f].scope \in 1..Len(scopes)
       /\ Up(scopes, fns[f].scope) = fns[f].scope
  <2>1. fns[f].scope \in 2..Len(scopes) /\ IsFunction(scopes, fns[f].scope)
    BY <1>1, <1>5 DEF FnInv
  <2>2. fns[f].scope \in 1..Len(scopes)
    BY <2>1
  <2>. QED
    BY <1>1, <2>1, <2>2, UpEquation
<1>11. StackOK(scopes, fns, stack', active', realized')
  BY <1>2, <1>5, <1>8, <1>9, <1>10, Entered
<1>. QED
  BY <1>2, <1>11 DEF AnalysisInv

\* A block is left.
LEMMA LeaveBlockKeeps ==
    ASSUME AnalysisInv, LeaveBlock
    PROVE  AnalysisInv'
<1>. DEFINE n == Len(stack)
            st2 == Front(stack)
<1>1. /\ stack \in Seq(Level) /\ stack # <<>> /\ n \in 1..n /\ n \in Nat
      /\ StackOK(scopes, fns, stack, active, realized)
  BY DEF AnalysisInv, StackOK, LeaveBlock
<1>2. /\ UNCHANGED <<scopes, realized, fns>>
      /\ stack' = st2 /\ active' = stack[n].back
  BY DEF LeaveBlock, Top
<1>3. /\ st2 \in Seq(Level) /\ Len(st2) = n - 1
      /\ \A k \in 1..(n - 1) : st2[k] = stack[k]
  <2>1. st2 = SubSeq(stack, 1, n - 1)
    BY DEF Front
  <2>2. st2 = [k \in 1..(n - 1) |-> stack[k]]
    BY <1>1, <2>1
  <2>3. \A k \in 1..(n - 1) : k \in 1..n /\ stack[k] \in Level
    BY <1>1
  <2>. HIDE DEF st2
  <2>4. n - 1 \in Nat
    BY <1>1
  <2>. QED
    BY <2>2, <2>3, <2>4
<1>. HIDE DEF st2
<1>4. ASSUME NEW k \in 1..(n - 1)
      PROVE  k \in 1..n /\ ActiveAt(st2, stack[n].back, k) = ActiveAt(stack, active, k)
  <2>1. k \in 1..n /\ k # n
    BY <1>1
  <2>2. CASE k = n - 1
    BY <1>1, <1>3, <2>1, <2>2 DEF ActiveAt
  <2>3. CASE k # n - 1
    <3>1. k + 1 \in 1..(n - 1)
      BY <1>1, <2>3
    <3>. QED
      BY <1>3, <2>1, <2>3, <3>1 DEF ActiveAt
  <2>. QED
    BY <2>1, <2>2, <2>3
<1>5. StackOK(scopes, fns, st2, stack[n].back, realized)
  BY <1>1, <1>3, <1>4 DEF StackOK
<1>. QED
  BY <1>2, <1>5 DEF AnalysisInv

\* The body of main is about to be checked.
LEMMA AnalysisInitially ==
    ASSUME Init
    PROVE  AnalysisInv
<1>. DEFINE root == [type |-> "RootScope", parent |-> ROOT, next |-> 0, bindings |-> <<>>]
            sc == <<root>>
<1>1. PICK arguments \in MainArguments :
        scopes = << root, FunctionInstanceScope(2, ROOT, arguments) >>
  BY DEF Init
<1>. DEFINE e == FunctionInstanceScope(2, ROOT, arguments)
            none == <<>>
<1>2. IsNew(e, 2) /\ e.type = "FunctionInstanceScope" /\ e.parent = ROOT
  <2>1. 2 \in Nat /\ ROOT \in 1..(2 - 1)
    BY DEF ROOT
  <2>. QED
    BY <2>1, NewFunctionScope
<1>3. IsTree(sc) /\ Len(sc) = 1 /\ Len(sc) + 1 = 2
  <2>1. root \in Scope
    BY DEF Scope, ROOT
  <2>. QED
    BY <2>1 DEF IsTree
<1>4. Decl(sc) = {} /\ \A i \in 1..Len(sc) : sc[i] = root /\ Bound(sc, i) = {}
  BY <1>3 DEF Decl, Bound, ToSet
<1>5. BindInv(sc)
  BY <1>4 DEF BindInv, BoundHere
<1>. HIDE DEF e
<1>6. scopes = Append(sc, e)
  BY <1>1 DEF e
<1>. HIDE DEF sc
<1>7. /\ IsTree(scopes) /\ Len(scopes) = 2 /\ scopes[2] = e
      /\ BindInv(scopes)
      /\ \A b \in Decl(scopes) \ Decl(sc) : b.fn = 2 /\ b.kind = "Argument"
  <2>1. IsNew(e, Len(sc) + 1)
    BY <1>2, <1>3
  <2>2. IsTree(Append(sc, e)) /\ Len(Append(sc, e)) = Len(sc) + 1 /\ Append(sc, e)[Len(sc) + 1] = e
    BY <1>3, <2>1, ExtendedScopes
  <2>3. /\ BindInv(Append(sc, e))
        /\ \A b \in Decl(Append(sc, e)) \ Decl(sc) :
             b.fn = Len(sc) + 1 /\ b.kind = "Argument"
    BY <1>3, <1>5, <2>1, ExtendedBindings
  <2>. QED
    BY <1>3, <1>6, <2>2, <2>3
<1>8. FnInv(scopes, none)
  <2>1. none \in Seq(Fn) /\ Len(none) = 0
    OBVIOUS
  <2>. QED
    BY <2>1 DEF FnInv
<1>9. IsFunction(scopes, 2)
  BY <1>2, <1>7 DEF IsFunction
<1>10. Append(none, NewFunction(2)) = fns
  BY DEF Init
<1>11. FnInv(scopes, fns) /\ Len(fns) = 1 /\ fns[1].scope = 2
  <2>. DEFINE s == 2
  <2>1. s \in 2..Len(scopes) /\ s \in Nat /\ Len(none) = 0
    BY <1>7
  <2>2. \A f \in 1..Len(none) : none[f].scope # s
    BY <2>1
  <2>3. \A b \in Decl(scopes) : b.fn = s => b.kind = "Argument"
    BY <1>4, <1>7
  <2>4. IsFunction(scopes, s) /\ fns = Append(none, NewFunction(s))
    BY <1>9, <1>10
  <2>. HIDE DEF s, none
  <2>6. /\ FnInv(scopes, Append(none, NewFunction(s)))
        /\ Len(Append(none, NewFunction(s))) = Len(none) + 1
        /\ Append(none, NewFunction(s))[Len(none) + 1].scope = s
    <3>1. s \in 2..Len(scopes) /\ s \in Nat
      BY <2>1
    <3>2. IsFunction(scopes, s)
      BY <2>4
    <3>. QED
      BY <1>8, <3>1, <2>2, <2>3, <3>2, FnAppend
  <2>5. /\ FnInv(scopes, fns) /\ Len(fns) = Len(none) + 1
        /\ fns[Len(none) + 1].scope = s
    BY <2>4, <2>6
  <2>. QED
    BY <2>1, <2>5 DEF s
<1>12. StackOK(scopes, fns, stack, active, realized)
  <2>. DEFINE l == [fn |-> 1, back |-> ROOT, ended |-> FALSE, bodies |-> <<>>]
  <2>1. stack = <<l>> /\ active = 2 /\ realized = <<>>
    BY DEF Init
  <2>2. l \in Level /\ l.fn = 1 /\ l.back = 1 /\ l.bodies = <<>>
    BY DEF Level, ROOT
  <2>3. Up(scopes, 2) = 2
    <3>1. 2 \in 1..Len(scopes)
      BY <1>7
    <3>. QED
      BY <1>7, <1>9, <3>1, UpEquation
  <2>. HIDE DEF l
  <2>4. stack \in Seq(Level) /\ Len(stack) = 1 /\ stack[1] = l
    BY <2>1, <2>2
  <2>5. \A k \in 1..Len(stack) : k = 1 /\ ActiveAt(stack, active, k) = 2
    BY <2>1, <2>4 DEF ActiveAt
  <2>6. active \in 1..Len(scopes) /\ 1 \in 1..Len(scopes) /\ 1 \in 1..Len(fns)
    BY <1>7, <1>11, <2>1
  <2>7. realized \in Seq(Nat) /\ Len(realized) = 0
    BY <2>1
  <2>. QED
    BY <1>11, <2>2, <2>3, <2>4, <2>5, <2>6, <2>7 DEF StackOK
<1>. QED
  BY <1>7, <1>11, <1>12 DEF AnalysisInv

\* What holds of the scopes, the functions and the blocks in every state.
THEOREM AnalysisIsRight == Spec => []AnalysisInv
<1>1. Init => AnalysisInv
  BY AnalysisInitially
<1>2. AnalysisInv /\ [Next]_vars => AnalysisInv'
  <2>. SUFFICES ASSUME AnalysisInv, [Next]_vars PROVE AnalysisInv'
    OBVIOUS
  <2>1. ASSUME NEW n \in Name, Let(n) PROVE AnalysisInv'
    BY <2>1, LetKeeps
  <2>2. ASSUME NEW n \in Name, UseLocal(n) PROVE AnalysisInv'
    BY <2>2, UseLocalKeeps
  <2>3. ASSUME NEW n \in Name, UseCaptured(n) PROVE AnalysisInv'
    BY <2>3, UseCapturedKeeps
  <2>4. ASSUME NEW n \in Name, UseOuterArgument(n) PROVE AnalysisInv'
    BY <2>4, UseOuterArgumentKeeps
  <2>5. ASSUME NEW arguments \in ClosureArguments, Closure(arguments)
        PROVE  AnalysisInv'
    BY <2>5, ClosureKeeps
  <2>6. CASE If
    BY <2>6, IfKeeps
  <2>7. CASE TakeBodies
    BY <2>7, TakeBodiesKeeps
  <2>8. CASE CheckBody
    BY <2>8, CheckBodyKeeps
  <2>9. CASE LeaveBlock
    BY <2>9, LeaveBlockKeeps
  <2>10. CASE UNCHANGED vars
    BY <2>10 DEF vars, AnalysisInv
  <2>. QED
    BY <2>1, <2>2, <2>3, <2>4, <2>5, <2>6, <2>7, <2>8, <2>9, <2>10 DEF Next
<1>. QED
  BY <1>1, <1>2, PTL DEF Spec

\* What a closure captures belongs to the function that makes the closure: a
\* capture is found in the function around, which emitted the closure.
THEOREM CapturesAreOwned == Spec => []CapturesOwned
<1>1. AnalysisInv => CapturesOwned
  <2>. SUFFICES ASSUME AnalysisInv, NEW g \in 1..Len(fns), NEW i \in 1..Len(fns[g].code),
                       fns[g].code[i].op = "closure",
                       NEW b \in ToSet(fns[fns[g].code[i].fn].captures)
                PROVE  b.fn = fns[g].scope
    BY DEF CapturesOwned
  <2>. DEFINE c == fns[g].code[i].fn
  <2>1. /\ c \in 1..Len(fns)
        /\ Up(scopes, scopes[fns[c].scope].parent) = fns[g].scope
    BY DEF AnalysisInv, FnInv, CodeOK
  <2>2. PICK j \in 1..Len(fns[c].captures) : b = fns[c].captures[j]
    <3>. DEFINE q == fns[c].captures
    <3>1. q \in Seq(Binding)
      BY <2>1, CapturesOf DEF AnalysisInv
    <3>2. b \in ToSet(q)
      OBVIOUS
    <3>. HIDE DEF q
    <3>3. \E j \in 1..Len(q) : b = q[j]
      BY <3>1, <3>2 DEF ToSet
    <3>. QED
      BY <3>3 DEF q
  <2>. QED
    BY <2>1, <2>2 DEF AnalysisInv, FnInv, CapturesOK
<1>. QED
  BY <1>1, AnalysisIsRight, PTL

-----------------------------------------------------------------------------
(* What the code generator makes of it: the order Build goes through.      *)

\* Steps that stay in a set, and what going through n of them yields.
StepsIn(step, n, T) == \A i \in 1..n : \A x \in T : step[i][x] \in T

IsRun(f, base, step, n, T) ==
    /\ f \in [0..n -> T]
    /\ f[0] = base
    /\ \A i \in 1..n : f[i] = step[i][f[i - 1]]

\* Going through steps that stay in a set is possible: what the recursive
\* functions of the model rest on.
LEMMA Iterates ==
    ASSUME NEW T, NEW n \in Nat, NEW base \in T, NEW step, StepsIn(step, n, T)
    PROVE  \E f : IsRun(f, base, step, n, T)
<1>. DEFINE Upto(m) == \E f : IsRun(f, base, step, m, T)
            S == {m \in Nat : m <= n => Upto(m)}
<1>1. 0 \in S
  <2>. DEFINE f == [i \in 0..0 |-> base]
  <2>1. f \in [0..0 -> T] /\ f[0] = base /\ 1..0 = {}
    OBVIOUS
  <2>. HIDE DEF f
  <2>2. \A i \in 1..0 : f[i] = step[i][f[i - 1]]
    BY <2>1
  <2>3. Upto(0)
    BY <2>1, <2>2 DEF IsRun
  <2>. QED
    BY <2>3
<1>2. ASSUME NEW m \in Nat, m \in S PROVE m + 1 \in S
  <2>. SUFFICES ASSUME m + 1 <= n PROVE Upto(m + 1)
    OBVIOUS
  <2>1. m <= n /\ m + 1 \in 1..n
    OBVIOUS
  <2>2. PICK f \in [0..m -> T] : /\ f[0] = base
                                 /\ \A i \in 1..m : f[i] = step[i][f[i - 1]]
    BY <1>2, <2>1 DEF IsRun
  <2>. DEFINE g == [i \in 0..(m + 1) |-> IF i = m + 1 THEN step[m + 1][f[m]] ELSE f[i]]
  <2>3. step[m + 1][f[m]] \in T
    <3>1. f[m] \in T
      OBVIOUS
    <3>. QED
      BY <2>1, <3>1 DEF StepsIn
  <2>4. \A i \in 0..(m + 1) : i # m + 1 => i \in 0..m
    OBVIOUS
  <2>5. g \in [0..(m + 1) -> T]
    BY <2>3, <2>4
  <2>6. /\ g[m + 1] = step[m + 1][f[m]] /\ \A i \in 0..m : g[i] = f[i]
    OBVIOUS
  <2>. HIDE DEF g
  <2>7. \A i \in 1..(m + 1) : i = m + 1 \/ (i \in 1..m /\ i \in 0..m)
    OBVIOUS
  <2>8. \A i \in 1..(m + 1) : i - 1 \in 0..m
    OBVIOUS
  <2>9. ASSUME NEW i \in 1..(m + 1) PROVE g[i] = step[i][g[i - 1]]
    <3>1. CASE i = m + 1
      <4>1. i - 1 = m /\ m \in 0..m
        BY <3>1
      <4>. QED
        BY <2>6, <3>1, <4>1
    <3>2. CASE i # m + 1
      BY <2>2, <2>6, <2>7, <2>8, <3>2
    <3>. QED
      BY <3>1, <3>2
  <2>10. g[0] = base
    BY <2>2, <2>6
  <2>. QED
    BY <2>5, <2>9, <2>10 DEF IsRun
<1>3. Nat \subseteq S
  <2>. HIDE DEF S
  <2>. QED
    BY <1>1, <1>2, SetInduction
<1>. QED
  BY <1>3

\* A set of numbers has a least one.
LEMMA Least ==
    ASSUME NEW S, S \subseteq Nat, S # {}
    PROVE  \E i \in S : \A j \in S : i <= j
<1>. DEFINE T == {n \in Nat : \A j \in S : n <= j}
<1>1. 0 \in T
  OBVIOUS
<1>2. SUFFICES ASSUME ~\E i \in S : \A j \in S : i <= j PROVE FALSE
  OBVIOUS
<1>3. ASSUME NEW n \in Nat, n \in T PROVE n + 1 \in T
  <2>1. n \notin S
    BY <1>2, <1>3
  <2>2. \A j \in S : n + 1 <= j
    BY <1>3, <2>1
  <2>. QED
    BY <2>2
<1>4. Nat \subseteq T
  <2>. HIDE DEF T
  <2>. QED
    BY <1>1, <1>3, SetInduction
<1>5. PICK i \in S : TRUE
  OBVIOUS
<1>6. i + 1 \in T
  BY <1>4
<1>. QED
  BY <1>5, <1>6

\* The elements of a sequence with one more.
LEMMA ToSetAppend ==
    ASSUME NEW T, NEW q, q \in Seq(T), NEW x \in T
    PROVE  ToSet(Append(q, x)) = ToSet(q) \cup {x}
<1>. DEFINE r == Append(q, x)
<1>1. /\ r \in Seq(T) /\ Len(r) = Len(q) + 1
      /\ \A i \in 1..Len(q) : r[i] = q[i]
      /\ r[Len(q) + 1] = x
  <2>1. r = Append(q, x)
    OBVIOUS
  <2>. HIDE DEF r
  <2>. QED
    BY <2>1, Appended
<1>2. Len(q) \in Nat /\ DOMAIN q = 1..Len(q) /\ DOMAIN r = 1..(Len(q) + 1)
  BY <1>1
<1>. HIDE DEF r
<1>3. \A i \in 1..(Len(q) + 1) : i \in 1..Len(q) \/ i = Len(q) + 1
  BY <1>2
<1>4. \A i \in 1..Len(q) : i \in 1..(Len(q) + 1)
  BY <1>2
<1>5. Len(q) + 1 \in 1..(Len(q) + 1)
  BY <1>2
<1>6. ToSet(r) = ToSet(q) \cup {x}
  BY <1>1, <1>2, <1>3, <1>4, <1>5 DEF ToSet
<1>. QED
  BY <1>6 DEF r

\* The elements of two sequences joined.
LEMMA ToSetConcat ==
    ASSUME NEW T, NEW q \in Seq(T), NEW r \in Seq(T)
    PROVE  /\ q \o r \in Seq(T) /\ Len(q \o r) = Len(q) + Len(r)
           /\ ToSet(q \o r) = ToSet(q) \cup ToSet(r)
<1>. DEFINE s == q \o r
            m == Len(q)
            n == Len(r)
<1>1. /\ s \in Seq(T) /\ Len(s) = m + n
      /\ \A i \in 1..(m + n) : s[i] = IF i <= m THEN q[i] ELSE r[i - m]
  BY ConcatProperties
<1>2. m \in Nat /\ n \in Nat /\ DOMAIN q = 1..m /\ DOMAIN r = 1..n /\ DOMAIN s = 1..(m + n)
  BY <1>1
<1>. HIDE DEF s, m, n
<1>3. \A i \in 1..m : i \in 1..(m + n) /\ s[i] = q[i]
  BY <1>1, <1>2
<1>4. \A i \in 1..n : i + m \in 1..(m + n) /\ s[i + m] = r[i]
  <2>. SUFFICES ASSUME NEW i \in 1..n PROVE i + m \in 1..(m + n) /\ s[i + m] = r[i]
    OBVIOUS
  <2>1. i + m \in 1..(m + n) /\ ~(i + m <= m) /\ (i + m) - m = i
    BY <1>2
  <2>. QED
    BY <1>1, <2>1
<1>5. \A i \in 1..(m + n) : i \in 1..m \/ (i - m \in 1..n /\ s[i] = r[i - m])
  BY <1>1, <1>2
<1>6. ToSet(s) = ToSet(q) \cup ToSet(r)
  <2>1. \A x \in ToSet(s) : x \in ToSet(q) \/ x \in ToSet(r)
    BY <1>2, <1>3, <1>5 DEF ToSet
  <2>2. \A x \in ToSet(q) : x \in ToSet(s)
    BY <1>2, <1>3 DEF ToSet
  <2>3. \A x \in ToSet(r) : x \in ToSet(s)
    BY <1>2, <1>4 DEF ToSet
  <2>. QED
    BY <2>1, <2>2, <2>3
<1>. QED
  BY <1>1, <1>6 DEF s, m, n

\* The bindings of one kind among the first ones of q.
IsKept(h, q, kind) ==
    /\ h \in [0..Len(q) -> Seq(Binding)]
    /\ h[0] = <<>>
    /\ \A i \in 1..Len(q) :
         h[i] = IF q[i].kind = kind THEN Append(h[i - 1], q[i]) ELSE h[i - 1]

\* OfKind goes through the scope and keeps the bindings of the kind.
LEMMA OfKindIsKept ==
    ASSUME NEW f, NEW kind, NEW q \in Seq(Binding),
           q = scopes[fns[f].scope].bindings
    PROVE  \E h : IsKept(h, q, kind) /\ OfKind(f, kind) = h[Len(q)]
<1>. DEFINE n == Len(q)
            T == Seq(Binding)
            step == [i \in 1..n |-> [x \in T |->
                        IF q[i].kind = kind THEN Append(x, q[i]) ELSE x]]
            Eq(g) == g = [i \in 0..n |->
                            IF i = 0 THEN <<>>
                            ELSE IF q[i].kind = kind THEN Append(g[i - 1], q[i])
                            ELSE g[i - 1]]
            h == CHOOSE g : Eq(g)
<1>1. n \in Nat /\ \A i \in 1..n : q[i] \in Binding
  OBVIOUS
<1>2. PICK f1 : f1 \in [0..n -> T] /\ f1[0] = <<>> /\ \A i \in 1..n : f1[i] = step[i][f1[i - 1]]
  <2>. DEFINE none == <<>>
  <2>1. none \in T
    OBVIOUS
  <2>2. StepsIn(step, n, T)
    <3>. SUFFICES ASSUME NEW i \in 1..n, NEW x \in T
                  PROVE  (IF q[i].kind = kind THEN Append(x, q[i]) ELSE x) \in T
      BY DEF StepsIn
    <3>. QED
      BY <1>1
  <2>. HIDE DEF step, n, none, T
  <2>3. \E f1 : IsRun(f1, none, step, n, T)
    BY <1>1, <2>1, <2>2, Iterates
  <2>. QED
    BY <2>3 DEF none, IsRun
<1>3. \A i \in 1..n : f1[i] = IF q[i].kind = kind THEN Append(f1[i - 1], q[i]) ELSE f1[i - 1]
  <2>1. \A i \in 1..n : i - 1 \in 0..n
    OBVIOUS
  <2>2. \A i \in 1..n : f1[i - 1] \in T
    BY <1>2, <2>1
  <2>3. \A i \in 1..n : \A x \in T :
          step[i][x] = IF q[i].kind = kind THEN Append(x, q[i]) ELSE x
    OBVIOUS
  <2>. HIDE DEF step, T
  <2>. QED
    BY <1>2, <2>2, <2>3
<1>4. Eq(f1)
  <2>1. \A i \in 0..n : i = 0 \/ i \in 1..n
    OBVIOUS
  <2>2. f1 = [i \in 0..n |-> f1[i]]
    BY <1>2
  <2>. HIDE DEF n
  <2>. QED
    BY <1>2, <1>3, <2>1, <2>2
<1>5. Eq(h)
  <2>. HIDE DEF Eq
  <2>. QED
    BY <1>4
<1>6. OfKind(f, kind) = h[n]
  BY DEF OfKind
<1>7. /\ h[0] = <<>>
      /\ \A i \in 1..n : h[i] = IF q[i].kind = kind THEN Append(h[i - 1], q[i]) ELSE h[i - 1]
  <2>1. 0 \in 0..n /\ \A i \in 1..n : i \in 0..n /\ i # 0
    BY <1>1
  <2>. HIDE DEF h, n
  <2>. QED
    BY <1>5, <2>1
<1>8. h \in [0..n -> T]
  <2>. DEFINE S == {i \in Nat : i <= n => h[i] \in T}
  <2>1. 0 \in S
    <3>. DEFINE none == <<>>
    <3>1. none \in T
      OBVIOUS
    <3>2. h[0] = none
      <4>. HIDE DEF h
      <4>. QED
        BY <1>7
    <3>. HIDE DEF h, T, none
    <3>. QED
      BY <3>1, <3>2
  <2>2. ASSUME NEW i \in Nat, i \in S PROVE i + 1 \in S
    <3>. SUFFICES ASSUME i + 1 <= n PROVE h[i + 1] \in T
      BY EmptySeq
    <3>1. i + 1 \in 1..n /\ (i + 1) - 1 = i /\ i <= n
      BY <1>1
    <3>2. h[i] \in T /\ q[i + 1] \in Binding
      BY <1>1, <2>2, <3>1
    <3>3. \A x \in T : Append(x, q[i + 1]) \in T
      BY <3>2
    <3>4. h[i + 1] = IF q[i + 1].kind = kind THEN Append(h[i], q[i + 1]) ELSE h[i]
      <4>. HIDE DEF h, n
      <4>. QED
        BY <1>7, <3>1
    <3>. HIDE DEF h, n, T
    <3>. QED
      BY <3>2, <3>3, <3>4
  <2>. HIDE DEF S
  <2>3. Nat \subseteq S
    BY <2>1, <2>2, SetInduction
  <2>4. \A i \in 0..n : h[i] \in T
    BY <2>3, SMTT(20) DEF S
  <2>5. h = [i \in 0..n |-> h[i]]
    <3>. HIDE DEF h, n
    <3>. QED
      BY <1>5
  <2>. HIDE DEF h, T
  <2>. QED
    BY <2>4, <2>5
<1>9. IsKept(h, q, kind)
  <2>. HIDE DEF h
  <2>. QED
    BY <1>7, <1>8 DEF IsKept
<1>. QED
  BY <1>6, <1>9

\* The indices in q rise from left to right.
Rises(q) == \A p, r \in 1..Len(q) : p < r => q[p].idx < q[r].idx

\* The bindings of one kind, in the order of their indices.
LEMMA KeptRises ==
    ASSUME NEW q \in Seq(Binding), Rises(q), NEW kind, NEW h, IsKept(h, q, kind)
    PROVE  /\ h[Len(q)] \in Seq(Binding)
           /\ ToSet(h[Len(q)]) = {b \in ToSet(q) : b.kind = kind}
           /\ Rises(h[Len(q)])
<1>. DEFINE n == Len(q)
            From(i) == {q[p] : p \in {p \in 1..i : q[p].kind = kind}}
            Right(i) == /\ h[i] \in Seq(Binding) /\ ToSet(h[i]) = From(i)
                        /\ Rises(h[i])
            S == {i \in Nat : i <= n => Right(i)}
<1>1. /\ n \in Nat /\ DOMAIN q = 1..n
      /\ \A i \in 1..n : q[i] \in Binding /\ q[i].idx \in Nat
      /\ \A i \in 0..n : h[i] \in Seq(Binding)
  <2>1. \A b \in Binding : b.idx \in Nat
    BY DEF Binding
  <2>2. \A i \in 0..n : h[i] \in Seq(Binding)
    BY DEF IsKept
  <2>3. n \in Nat /\ DOMAIN q = 1..n /\ \A i \in 1..n : q[i] \in Binding
    OBVIOUS
  <2>. QED
    BY <2>1, <2>2, <2>3
<1>2. 0 \in S
  <2>. DEFINE none == <<>>
  <2>1. none \in Seq(Binding) /\ ToSet(none) = {} /\ Rises(none)
    BY DEF ToSet, Rises
  <2>2. From(0) = {}
    OBVIOUS
  <2>3. h[0] = none
    BY DEF IsKept
  <2>. HIDE DEF none, From
  <2>. QED
    BY <2>1, <2>2, <2>3
<1>3. ASSUME NEW i \in Nat, i \in S PROVE i + 1 \in S
  <2>. SUFFICES ASSUME i + 1 <= n PROVE Right(i + 1)
    OBVIOUS
  <2>. DEFINE k == i + 1
              x == h[i]
              b == q[k]
  <2>1. k \in 1..n /\ k - 1 = i /\ i <= n /\ i \in 0..n
    BY <1>1
  <2>2. x \in Seq(Binding) /\ ToSet(x) = From(i) /\ Rises(x)
    BY <1>3, <2>1
  <2>3. h[k] = IF b.kind = kind THEN Append(x, b) ELSE x
    <3>1. \A j \in 1..n : h[j] = IF q[j].kind = kind THEN Append(h[j - 1], q[j]) ELSE h[j - 1]
      BY DEF IsKept
    <3>. HIDE DEF k, n
    <3>. QED
      BY <2>1, <3>1
  <2>4. \A p \in 1..k : p \in 1..i \/ p = k
    BY <2>1
  <2>5. \A p \in 1..i : p \in 1..k /\ p < k /\ p \in 1..n
    BY <2>1
  <2>6. CASE b.kind # kind
    <3>1. From(k) = From(i)
      BY <2>4, <2>5, <2>6
    <3>. HIDE DEF From, x
    <3>2. Right(k)
      <4>. HIDE DEF k
      <4>. QED
        BY <2>2, <2>3, <2>6, <3>1
    <3>. QED
      BY <3>2
  <2>7. CASE b.kind = kind
    <3>1. From(k) = From(i) \cup {b}
      <4>1. k \in 1..k
        BY <2>1
      <4>2. \A c \in From(i) : c \in From(k)
        BY <2>5
      <4>3. b \in From(k)
        BY <4>1, <2>7
      <4>4. \A c \in From(k) : c \in From(i) \/ c = b
        BY <2>4
      <4>. HIDE DEF From
      <4>. QED
        BY <4>2, <4>3, <4>4
    <3>2. b \in Binding /\ b.idx \in Nat
      BY <1>1, <2>1
    <3>3. \A j \in 1..Len(x) : x[j].idx < b.idx /\ x[j].idx \in Nat
      <4>. SUFFICES ASSUME NEW j \in 1..Len(x)
                    PROVE  x[j].idx < b.idx /\ x[j].idx \in Nat
        OBVIOUS
      <4>1. x[j] \in ToSet(x)
        BY <2>2 DEF ToSet
      <4>2. PICK p \in 1..i : x[j] = q[p]
        BY <2>2, <4>1
      <4>3. q[p].idx < q[k].idx
        BY <2>1, <2>5 DEF Rises
      <4>. QED
        BY <1>1, <2>5, <4>2, <4>3
    <3>4. h[k] = Append(x, b)
      BY <2>3, <2>7
    <3>. DEFINE y == h[k]
    <3>. HIDE DEF x, b, From
    <3>5. ToSet(y) = ToSet(x) \cup {b}
      BY <2>2, <3>2, <3>4, ToSetAppend
    <3>6. /\ y \in Seq(Binding) /\ Len(y) = Len(x) + 1 /\ Len(x) \in Nat
          /\ \A j \in 1..Len(x) : y[j] = x[j]
          /\ y[Len(x) + 1] = b
      <4>1. Len(x) \in Nat
        BY <2>2
      <4>. HIDE DEF y
      <4>2. y = Append(x, b)
        BY <3>4 DEF y
      <4>. QED
        BY <2>2, <3>2, <4>1, <4>2, Appended
    <3>. HIDE DEF y
    <3>7. Rises(y)
      <4>. SUFFICES ASSUME NEW p \in 1..Len(y), NEW r \in 1..Len(y), p < r
                    PROVE  y[p].idx < y[r].idx
        BY DEF Rises
      <4>1. p \in 1..Len(x)
        BY <3>6
      <4>2. r \in 1..Len(x) \/ r = Len(x) + 1
        BY <3>6
      <4>. QED
        BY <2>2, <3>3, <3>6, <4>1, <4>2 DEF Rises
    <3>8. Right(k)
      <4>. HIDE DEF k
      <4>. QED
        BY <2>2, <3>1, <3>5, <3>6, <3>7 DEF y
    <3>. QED
      BY <3>8
  <2>. QED
    BY <2>6, <2>7
<1>. HIDE DEF S
<1>4. n \in S
  BY <1>1, <1>2, <1>3, SetInduction
<1>5. Right(n)
  BY <1>1, <1>4 DEF S
<1>6. From(n) = {b \in ToSet(q) : b.kind = kind}
  BY <1>1 DEF ToSet
<1>. HIDE DEF From, n
<1>. QED
  BY <1>5, <1>6 DEF n

\* What a function does at one place of its code, as the bindings it reads.
Part(fs, op) == IF op.op = "access" THEN <<op.binding>> ELSE fs[op.fn].captures

IsJoined(h, fs, code) ==
    /\ h \in [0..Len(code) -> Seq(Binding)]
    /\ h[0] = <<>>
    /\ \A i \in 1..Len(code) : h[i] = h[i - 1] \o Part(fs, code[i])

\* Accesses joins the parts of the code.
LEMMA AccessesIsJoined ==
    ASSUME NEW f, NEW code, code = fns[f].code, Len(code) \in Nat,
           \A i \in 1..Len(code) : Part(fns, code[i]) \in Seq(Binding)
    PROVE  \E h : IsJoined(h, fns, code) /\ Accesses(f) = h[Len(code)]
<1>. DEFINE n == Len(code)
            T == Seq(Binding)
            step == [i \in 1..n |-> [x \in T |-> x \o Part(fns, code[i])]]
            Eq(g) == g = [i \in 0..n |->
                            IF i = 0 THEN <<>>
                            ELSE g[i - 1] \o (IF code[i].op = "access"
                                              THEN <<code[i].binding>>
                                              ELSE fns[code[i].fn].captures)]
            h == CHOOSE g : Eq(g)
<1>1. \A x \in T : \A i \in 1..n : x \o Part(fns, code[i]) \in T
  <2>. SUFFICES ASSUME NEW x \in T, NEW i \in 1..n PROVE x \o Part(fns, code[i]) \in T
    OBVIOUS
  <2>. DEFINE y == Part(fns, code[i])
  <2>1. y \in Seq(Binding)
    OBVIOUS
  <2>. HIDE DEF y
  <2>2. x \o y \in Seq(Binding)
    BY <2>1, ConcatProperties
  <2>. QED
    BY <2>2 DEF y
<1>2. PICK f1 : f1 \in [0..n -> T] /\ f1[0] = <<>> /\ \A i \in 1..n : f1[i] = step[i][f1[i - 1]]
  <2>. DEFINE none == <<>>
  <2>1. none \in T
    OBVIOUS
  <2>2. StepsIn(step, n, T)
    BY <1>1 DEF StepsIn
  <2>3. n \in Nat
    OBVIOUS
  <2>. HIDE DEF step, n, none, T
  <2>4. \E f1 : IsRun(f1, none, step, n, T)
    BY <2>1, <2>2, <2>3, Iterates
  <2>. QED
    BY <2>4 DEF none, IsRun
<1>3. \A i \in 1..n : f1[i] = f1[i - 1] \o Part(fns, code[i])
  <2>1. \A i \in 1..n : i - 1 \in 0..n
    OBVIOUS
  <2>2. \A i \in 1..n : f1[i - 1] \in T
    BY <1>2, <2>1
  <2>3. \A i \in 1..n : \A x \in T : step[i][x] = x \o Part(fns, code[i])
    OBVIOUS
  <2>. HIDE DEF step, T
  <2>. QED
    BY <1>2, <2>2, <2>3
<1>4. Eq(f1)
  <2>1. \A i \in 0..n : i = 0 \/ i \in 1..n
    OBVIOUS
  <2>2. f1 = [i \in 0..n |-> f1[i]]
    BY <1>2
  <2>. HIDE DEF n
  <2>. QED
    BY <1>2, <1>3, <2>1, <2>2 DEF Part
<1>5. Eq(h)
  <2>. HIDE DEF Eq
  <2>. QED
    BY <1>4
<1>6. Accesses(f) = h[n]
  BY DEF Accesses
<1>7. h[0] = <<>> /\ \A i \in 1..n : h[i] = h[i - 1] \o Part(fns, code[i])
  <2>1. 0 \in 0..n /\ \A i \in 1..n : i \in 0..n /\ i # 0
    OBVIOUS
  <2>. HIDE DEF h, n
  <2>. QED
    BY <1>5, <2>1 DEF Part
<1>8. h \in [0..n -> T]
  <2>. DEFINE S == {i \in Nat : i <= n => h[i] \in T}
  <2>1. 0 \in S
    <3>. DEFINE none == <<>>
    <3>1. none \in T
      OBVIOUS
    <3>2. h[0] = none
      <4>. HIDE DEF h
      <4>. QED
        BY <1>7
    <3>. HIDE DEF h, T, none
    <3>. QED
      BY <3>1, <3>2
  <2>2. ASSUME NEW i \in Nat, i \in S PROVE i + 1 \in S
    <3>. SUFFICES ASSUME i + 1 <= n PROVE h[i + 1] \in T
      <4>. HIDE DEF h, T, n
      <4>. QED
        OBVIOUS
    <3>1. i + 1 \in 1..n /\ (i + 1) - 1 = i /\ i <= n
      BY EmptySeq
    <3>2. h[i] \in T
      BY <2>2, <3>1
    <3>3. h[i + 1] = h[i] \o Part(fns, code[i + 1])
      <4>. HIDE DEF h, n
      <4>. QED
        BY <1>7, <3>1
    <3>. HIDE DEF h, n, T
    <3>. QED
      BY <1>1, <3>1, <3>2, <3>3
  <2>. HIDE DEF S
  <2>3. Nat \subseteq S
    BY <2>1, <2>2, SetInduction
  <2>4. \A i \in 0..n : h[i] \in T
    <3>1. \A i \in 0..n : i \in Nat /\ i <= n
      OBVIOUS
    <3>. HIDE DEF h, T, n
    <3>. QED
      BY <2>3, <3>1 DEF S
  <2>5. h = [i \in 0..n |-> h[i]]
    <3>. HIDE DEF h, n
    <3>. QED
      BY <1>5
  <2>. HIDE DEF h, T
  <2>. QED
    BY <2>4, <2>5
<1>9. IsJoined(h, fns, code)
  <2>. HIDE DEF h
  <2>. QED
    BY <1>7, <1>8 DEF IsJoined
<1>. QED
  BY <1>6, <1>9

\* What is joined from the parts of a code is in one of the parts.
LEMMA JoinedFrom ==
    ASSUME NEW fs, NEW code, Len(code) \in Nat, NEW h, IsJoined(h, fs, code),
           \A i \in 1..Len(code) : Part(fs, code[i]) \in Seq(Binding)
    PROVE  /\ h[Len(code)] \in Seq(Binding)
           /\ ToSet(h[Len(code)])
                = UNION {ToSet(Part(fs, code[p])) : p \in 1..Len(code)}
<1>. DEFINE n == Len(code)
            From(i) == UNION {ToSet(Part(fs, code[p])) : p \in 1..i}
            S == {i \in Nat : i <= n => ToSet(h[i]) = From(i)}
<1>1. /\ \A i \in 0..n : h[i] \in Seq(Binding)
      /\ h[0] = <<>>
      /\ \A i \in 1..n : h[i] = h[i - 1] \o Part(fs, code[i])
  BY DEF IsJoined
<1>2. 0 \in S
  <2>1. From(0) = {}
    OBVIOUS
  <2>2. ToSet(h[0]) = {}
    BY <1>1 DEF ToSet
  <2>. QED
    BY <2>1, <2>2
<1>3. ASSUME NEW i \in Nat, i \in S PROVE i + 1 \in S
  <2>. SUFFICES ASSUME i + 1 <= n PROVE ToSet(h[i + 1]) = From(i + 1)
    OBVIOUS
  <2>1. i + 1 \in 1..n /\ (i + 1) - 1 = i /\ i <= n /\ i \in 0..n
    OBVIOUS
  <2>. DEFINE x == h[i]
              y == Part(fs, code[i + 1])
              k == i + 1
  <2>2. x \in Seq(Binding) /\ y \in Seq(Binding) /\ ToSet(x) = From(i)
    BY <1>1, <1>3, <2>1
  <2>3. h[i + 1] = x \o y
    <3>. HIDE DEF n
    <3>. QED
      BY <1>1, <2>1
  <2>4. \A p \in 1..k : p \in 1..i \/ p = k
    BY <2>1
  <2>5. k \in 1..k /\ \A p \in 1..i : p \in 1..k
    BY <2>1
  <2>6. From(k) = From(i) \cup ToSet(Part(fs, code[k]))
    <3>. HIDE DEF k
    <3>. QED
      BY <2>4, <2>5
  <2>. HIDE DEF From, x, y
  <2>7. ToSet(x \o y) = ToSet(x) \cup ToSet(y)
    BY <2>2, ToSetConcat
  <2>. QED
    BY <2>2, <2>3, <2>6, <2>7 DEF y
<1>. HIDE DEF S, From
<1>4. n \in S
  BY <1>2, <1>3, SetInduction
<1>. QED
  BY <1>1, <1>4 DEF S, From

-----------------------------------------------------------------------------
(* The numbering of the slots.                                             *)

\* The bindings of one kind in the scope of a function.
LEMMA KindsOf ==
    ASSUME AnalysisInv, NEW f \in 1..Len(fns), NEW kind
    PROVE  LET s == fns[f].scope
               q == OfKind(f, kind)
           IN  /\ q \in Seq(Binding) /\ Rises(q)
               /\ ToSet(q) = {b \in Bound(scopes, s) : b.kind = kind}
               /\ \A b \in Bound(scopes, s) : b \in Decl(scopes) /\ b.fn = s
<1>. DEFINE s == fns[f].scope
            bs == scopes[s].bindings
            q == OfKind(f, kind)
<1>1. /\ IsTree(scopes) /\ BindInv(scopes) /\ FnInv(scopes, fns)
  BY DEF AnalysisInv
<1>2. s \in 2..Len(scopes) /\ s \in 1..Len(scopes) /\ IsFunction(scopes, s)
  <2>1. s \in 2..Len(scopes) /\ IsFunction(scopes, s)
    BY <1>1 DEF FnInv
  <2>. QED
    BY <2>1
<1>3. bs \in Seq(Binding) /\ Rises(bs)
  <2>1. \A r \in Scope : r.bindings \in Seq(Binding)
    BY DEF Scope
  <2>2. scopes[s] \in Scope
    BY <1>1, <1>2 DEF IsTree
  <2>3. \A i \in 1..Len(scopes) : \A p, r \in 1..Len(scopes[i].bindings) :
            p < r => scopes[i].bindings[p].idx < scopes[i].bindings[r].idx
    BY <1>1 DEF BindInv
  <2>. QED
    BY <1>2, <2>1, <2>2, <2>3 DEF Rises
<1>4. bs = scopes[fns[f].scope].bindings /\ ToSet(bs) = Bound(scopes, s)
  BY DEF Bound
<1>. HIDE DEF bs
<1>5. PICK h : IsKept(h, bs, kind) /\ q = h[Len(bs)]
  BY <1>3, <1>4, OfKindIsKept
<1>6. /\ q \in Seq(Binding) /\ Rises(q)
      /\ ToSet(q) = {b \in ToSet(bs) : b.kind = kind}
  BY <1>3, <1>5, KeptRises
<1>7. \A b \in Bound(scopes, s) : b \in Decl(scopes) /\ b.fn = s
  <2>1. Bound(scopes, s) \subseteq Decl(scopes)
    BY <1>1, <1>2, BoundDeclared
  <2>2. \A b \in Bound(scopes, s) : b.fn = Up(scopes, s)
    BY <1>1, <1>2 DEF BindInv, BoundHere
  <2>3. Up(scopes, s) = s
    BY <1>1, <1>2, UpEquation
  <2>. QED
    BY <2>1, <2>2, <2>3
<1>. QED
  BY <1>4, <1>6, <1>7

\* What a function's code reads and writes.
LEMMA AccessesOf ==
    ASSUME AnalysisInv, NEW f \in 1..Len(fns)
    PROVE  /\ Accesses(f) \in Seq(Binding)
           /\ ToSet(Accesses(f)) \subseteq Decl(scopes)
           /\ \A b \in Decl(scopes) : b.fn = fns[f].scope /\ b.kind # "Argument"
                => b \in ToSet(Accesses(f))
<1>. DEFINE code == fns[f].code
            n == Len(code)
            q == Accesses(f)
<1>1. /\ FnInv(scopes, fns) /\ fns \in Seq(Fn) /\ CodeOK(scopes, fns, f)
      /\ DeclaresOK(scopes, fns, f)
      /\ \A g \in 1..Len(fns) : CapturesOK(scopes, fns, g)
  BY DEF AnalysisInv, FnInv
<1>2. code \in Seq(Instruction) /\ n \in Nat
  <2>1. \A r \in Fn : r.code \in Seq(Instruction)
    BY DEF Fn
  <2>2. fns[f] \in Fn
    BY <1>1
  <2>3. code \in Seq(Instruction)
    BY <2>1, <2>2
  <2>. QED
    BY <2>3
<1>3. ASSUME NEW i \in 1..n
      PROVE  /\ Part(fns, code[i]) \in Seq(Binding)
             /\ ToSet(Part(fns, code[i])) \subseteq Decl(scopes)
  <2>. DEFINE op == code[i]
  <2>1. op \in Instruction
    BY <1>2
  <2>2. /\ op.op = "access" => op.binding \in Decl(scopes)
        /\ op.op = "closure" => op.fn \in 1..Len(fns)
    BY <1>1 DEF CodeOK
  <2>3. op.op = "access" \/ op.op = "closure"
    <3>. HIDE DEF op
    <3>. QED
      BY <2>1 DEF Instruction
  <2>. HIDE DEF op
  <2>4. CASE op.op = "access"
    <3>. DEFINE b == op.binding
    <3>1. b \in Binding /\ b \in Decl(scopes) /\ Part(fns, op) = <<b>>
      BY <2>2, <2>4 DEF Part, Decl
    <3>. HIDE DEF b
    <3>2. <<b>> \in Seq(Binding) /\ ToSet(<<b>>) = {b}
      BY <3>1 DEF ToSet
    <3>. QED
      BY <3>1, <3>2 DEF op
  <2>5. CASE op.op = "closure"
    <3>. DEFINE g == op.fn
                c == fns[g].captures
    <3>1. g \in 1..Len(fns)
      BY <2>2, <2>5
    <3>2. c \in Seq(Binding)
      BY <1>1, <3>1, CapturesOf
    <3>3. \A j \in 1..Len(c) : c[j] \in Decl(scopes)
      BY <1>1, <3>1 DEF CapturesOK
    <3>4. Part(fns, op) = c
      BY <2>5 DEF Part
    <3>. HIDE DEF c
    <3>5. ToSet(c) \subseteq Decl(scopes)
      BY <3>2, <3>3 DEF ToSet
    <3>. QED
      BY <3>2, <3>4, <3>5 DEF op
  <2>. QED
    BY <2>3, <2>4, <2>5
<1>4. code = fns[f].code
  OBVIOUS
<1>. HIDE DEF code, n
<1>5. PICK h : IsJoined(h, fns, code) /\ q = h[n]
  BY <1>2, <1>3, <1>4, AccessesIsJoined DEF n
<1>6. q \in Seq(Binding) /\ ToSet(q) = UNION {ToSet(Part(fns, code[p])) : p \in 1..n}
  BY <1>2, <1>3, <1>5, JoinedFrom DEF n
<1>. HIDE DEF q
<1>7. ToSet(q) \subseteq Decl(scopes)
  BY <1>3, <1>6
<1>8. ASSUME NEW b \in Decl(scopes), b.fn = fns[f].scope, b.kind # "Argument"
      PROVE  b \in ToSet(q)
  <2>1. PICK i \in 1..n : code[i] = Access(b)
    BY <1>1, <1>8 DEF DeclaresOK, code, n
  <2>2. Part(fns, code[i]) = <<b>>
    BY <2>1 DEF Part, Access
  <2>3. b \in ToSet(<<b>>)
    BY DEF ToSet
  <2>. QED
    BY <1>6, <2>2, <2>3
<1>. QED
  BY <1>6, <1>7, <1>8 DEF q

\* What Build comes across: the parameters, then the accesses; together every
\* binding of the function, and in a function that leaves the arguments of
\* others alone no other ones.
LEMMA OrderOf ==
    ASSUME AnalysisInv, NEW f \in 1..Len(fns)
    PROVE  LET caps == OfKind(f, "Capture")
               args == OfKind(f, "Argument")
               reads == Accesses(f)
               own == {b \in Decl(scopes) : b.fn = fns[f].scope}
           IN  /\ Parameters(f) \in Seq(Binding) /\ Order(f) \in Seq(Binding)
               /\ Parameters(f) = caps \o args /\ Order(f) = Parameters(f) \o reads
               /\ own \subseteq ToSet(Order(f))
               /\ ~UsesOuterArgument(f) => ToSet(Order(f)) = own
<1>. DEFINE s == fns[f].scope
            caps == OfKind(f, "Capture")
            args == OfKind(f, "Argument")
            reads == Accesses(f)
            params == Parameters(f)
            order == Order(f)
            own == {b \in Decl(scopes) : b.fn = s}
<1>1. /\ caps \in Seq(Binding) /\ args \in Seq(Binding)
      /\ ToSet(caps) = {b \in Bound(scopes, s) : b.kind = "Capture"}
      /\ ToSet(args) = {b \in Bound(scopes, s) : b.kind = "Argument"}
      /\ \A b \in Bound(scopes, s) : b \in Decl(scopes) /\ b.fn = s
  BY KindsOf
<1>2. /\ reads \in Seq(Binding) /\ ToSet(reads) \subseteq Decl(scopes)
      /\ \A b \in Decl(scopes) : b.fn = s /\ b.kind # "Argument" => b \in ToSet(reads)
  BY AccessesOf
<1>3. params = caps \o args /\ order = params \o reads
  BY DEF Parameters, Order
<1>4. ~UsesOuterArgument(f) => \A b \in ToSet(reads) : b.fn = s
  BY DEF UsesOuterArgument
<1>. HIDE DEF s, caps, args, reads, params, order
<1>5. params \in Seq(Binding) /\ ToSet(params) = ToSet(caps) \cup ToSet(args)
  BY <1>1, <1>3, ToSetConcat
<1>6. order \in Seq(Binding) /\ ToSet(order) = ToSet(params) \cup ToSet(reads)
  <2>1. params \in Seq(Binding) /\ reads \in Seq(Binding)
    BY <1>2, <1>5
  <2>2. /\ params \o reads \in Seq(Binding)
        /\ ToSet(params \o reads) = ToSet(params) \cup ToSet(reads)
    BY <2>1, ToSetConcat
  <2>. QED
    BY <1>3, <2>2
<1>7. own \subseteq ToSet(order)
  <2>. SUFFICES ASSUME NEW b \in Decl(scopes), b.fn = s PROVE b \in ToSet(order)
    OBVIOUS
  <2>1. CASE b.kind = "Argument"
    <3>1. b \in Bound(scopes, s)
      BY <2>1 DEF AnalysisInv, BindInv
    <3>. QED
      BY <1>1, <1>5, <1>6, <2>1, <3>1
  <2>2. CASE b.kind # "Argument"
    BY <1>2, <1>6, <2>2
  <2>. QED
    BY <2>1, <2>2
<1>8. ~UsesOuterArgument(f) => ToSet(order) \subseteq own
  BY <1>1, <1>2, <1>4, <1>5, <1>6
<1>. QED
  BY <1>3, <1>5, <1>6, <1>7, <1>8 DEF s, caps, args, reads, params, order

\* The place an index is numbered at is the first it is met at.
LEMMA NumberedFirst ==
    ASSUME NEW order, Len(order) \in Nat, NEW k \in 1..Len(order), NEW idx,
           idx \in Met(order, k)
    PROVE  \E i \in 1..k : /\ order[i].idx = idx /\ idx \notin Met(order, i - 1)
                           /\ Numbered(order, idx) = Cardinality(Met(order, i - 1))
<1>. DEFINE S == {i \in Nat : i \in 1..k /\ order[i].idx = idx}
<1>1. S \subseteq Nat /\ S # {}
  BY DEF Met
<1>. HIDE DEF S
<1>2. PICK i \in S : \A j \in S : i <= j
  BY <1>1, Least
<1>3. i \in 1..k /\ order[i].idx = idx /\ i \in 1..Len(order)
  BY <1>2 DEF S
<1>4. \A j \in 1..(i - 1) : order[j].idx # idx
  <2>. SUFFICES ASSUME NEW j \in 1..(i - 1), order[j].idx = idx PROVE FALSE
    OBVIOUS
  <2>1. j \in Nat /\ j \in 1..k /\ j < i
    BY <1>3
  <2>2. j \in S
    BY <2>1 DEF S
  <2>. QED
    BY <1>2, <1>3, <2>1, <2>2
<1>5. idx \notin Met(order, i - 1)
  BY <1>4 DEF Met
<1>. DEFINE First(j) == order[j].idx = idx /\ idx \notin Met(order, j - 1)
<1>6. \A j \in 1..Len(order) : First(j) => j = i
  <2>. SUFFICES ASSUME NEW j \in 1..Len(order), First(j), j # i PROVE FALSE
    OBVIOUS
  <2>1. CASE j < i
    <3>1. j \in 1..(i - 1)
      BY <1>3, <2>1
    <3>. QED
      BY <1>4, <3>1
  <2>2. CASE i < j
    <3>1. i \in 1..(j - 1)
      BY <1>3, <2>2
    <3>. QED
      BY <1>3, <3>1 DEF Met
  <2>. QED
    BY <1>3, <2>1, <2>2
<1>7. First(i)
  BY <1>3, <1>5
<1>. DEFINE first == CHOOSE j \in 1..Len(order) : First(j)
<1>8. first = i
  <2>. HIDE DEF First
  <2>. QED
    BY <1>3, <1>6, <1>7
<1>9. Numbered(order, idx) = Cardinality(Met(order, first - 1))
  BY DEF Numbered
<1>. HIDE DEF first
<1>. QED
  BY <1>3, <1>5, <1>8, <1>9

\* There are m numbers below m.
LEMMA Interval ==
    ASSUME NEW m \in Nat
    PROVE  IsFiniteSet(0..(m - 1)) /\ Cardinality(0..(m - 1)) = m
<1>1. m - 1 \in Int /\ 0 \in Int
  OBVIOUS
<1>2. Cardinality(0..(m - 1)) = IF 0 > m - 1 THEN 0 ELSE (m - 1) - 0 + 1
  BY <1>1, FS_Interval
<1>3. IsFiniteSet(0..(m - 1))
  BY <1>1, FS_Interval
<1>. QED
  BY <1>2, <1>3

\* Every slot of a function whose indices are those below m lies below m.
LEMMA SlotsBelow ==
    ASSUME NEW order, Len(order) \in Nat, NEW m \in Nat,
           Met(order, Len(order)) = 0..(m - 1), NEW k \in 1..Len(order)
    PROVE  /\ Cardinality(Met(order, Len(order))) = m
           /\ GetIdFor(order, k) < m
<1>. DEFINE idx == order[k].idx
<1>1. Cardinality(Met(order, Len(order))) = m
  BY Interval
<1>2. \A j \in 1..Len(order) : order[j].idx \in 0..(m - 1)
  BY DEF Met
<1>3. CASE idx \notin Met(order, k - 1)
  <2>1. GetIdFor(order, k) = idx
    BY <1>3 DEF GetIdFor
  <2>. QED
    BY <1>1, <1>2, <2>1
<1>4. CASE idx \in Met(order, k - 1)
  <2>1. k - 1 \in 1..Len(order)
    BY <1>4 DEF Met
  <2>2. PICK i \in 1..(k - 1) :
          /\ order[i].idx = idx /\ idx \notin Met(order, i - 1)
          /\ Numbered(order, idx) = Cardinality(Met(order, i - 1))
    <3>. DEFINE p == k - 1
    <3>1. p \in 1..Len(order) /\ idx \in Met(order, p)
      BY <1>4, <2>1
    <3>. HIDE DEF p, idx
    <3>2. \E i \in 1..p : /\ order[i].idx = idx /\ idx \notin Met(order, i - 1)
                          /\ Numbered(order, idx) = Cardinality(Met(order, i - 1))
      BY <3>1, NumberedFirst
    <3>. QED
      BY <3>2 DEF p
  <2>. DEFINE M == Met(order, i - 1)
  <2>3. M \subseteq 0..(m - 1)
    <3>1. \A j \in 1..(i - 1) : j \in 1..Len(order)
      BY <2>1
    <3>. QED
      BY <1>2, <3>1 DEF Met
  <2>4. idx \in 0..(m - 1) /\ idx \notin M
    BY <1>2, <2>2
  <2>. HIDE DEF M, idx
  <2>5. M # 0..(m - 1)
    BY <2>4
  <2>6. IsFiniteSet(M) /\ Cardinality(M) < m
    <3>. DEFINE I == 0..(m - 1)
    <3>1. IsFiniteSet(I) /\ Cardinality(I) = m
      BY Interval
    <3>2. M \in SUBSET I /\ M # I
      BY <2>3, <2>5
    <3>. HIDE DEF I
    <3>3. /\ IsFiniteSet(M) /\ Cardinality(M) <= Cardinality(I)
          /\ Cardinality(I) = Cardinality(M) => I = M
      BY <3>1, <3>2, FS_Subset
    <3>4. Cardinality(M) \in Nat
      BY <3>3, FS_CardinalityType
    <3>. QED
      BY <3>1, <3>2, <3>3, <3>4
  <2>7. GetIdFor(order, k) = Numbered(order, idx)
    BY <1>4 DEF GetIdFor, idx
  <2>. QED
    BY <1>1, <2>2, <2>6, <2>7 DEF M
<1>. QED
  BY <1>1, <1>3, <1>4

\* Every slot of a function that leaves the arguments of others alone lies
\* inside its frame: the indices of its bindings are those below its counter,
\* every one of them is met, and a slot is an index or a count of some of them.
THEOREM SlotsFitTheFrame == Spec => []OwnInsideFrame
<1>1. AnalysisInv => OwnInsideFrame
  <2>. SUFFICES ASSUME AnalysisInv, NEW f \in 1..Len(fns), ~UsesOuterArgument(f),
                       NEW a \in ToSet(Build(f))
                PROVE  a.slot < LocalCount(f)
    BY DEF OwnInsideFrame
  <2>. DEFINE s == fns[f].scope
              m == scopes[s].next
              order == Order(f)
              params == Parameters(f)
              own == {b \in Decl(scopes) : b.fn = s}
  <2>1. /\ params \in Seq(Binding) /\ order \in Seq(Binding)
        /\ ToSet(order) = own
    BY OrderOf
  <2>2. Len(order) \in Nat /\ Len(params) \in Nat /\ DOMAIN order = 1..Len(order)
    BY <2>1
  <2>3. /\ IsTree(scopes) /\ BindInv(scopes) /\ s \in 1..Len(scopes)
    <3>1. s \in 2..Len(scopes)
      BY DEF AnalysisInv, FnInv
    <3>. QED
      BY <3>1 DEF AnalysisInv
  <2>4. m \in Nat
    <3>1. \A r \in Scope : r.next \in Nat
      BY DEF Scope
    <3>. QED
      BY <2>3, <3>1 DEF IsTree
  <2>5. /\ \A b \in own : b.idx \in Nat /\ b.idx < m
        /\ \A x \in 0..(m - 1) : \E b \in own : b.idx = x
    <3>1. \A b \in Decl(scopes) : b.idx \in Nat
      BY DEF Decl, Binding
    <3>. QED
      BY <2>3, <3>1 DEF BindInv
  <2>6. \E k \in 1..Len(order) : a.slot = GetIdFor(order, k)
    <3>. DEFINE n == Len(order) - Len(params)
                out == [k \in 1..n |-> [binding |-> order[Len(params) + k],
                                        slot |-> GetIdFor(order, Len(params) + k)]]
    <3>1. Build(f) = out
      BY DEF Build
    <3>2. PICK k \in 1..n : a = out[k]
      BY <3>1 DEF ToSet
    <3>3. Len(params) + k \in 1..Len(order)
      BY <2>2
    <3>4. a.slot = GetIdFor(order, Len(params) + k)
      BY <3>2
    <3>. QED
      BY <3>3, <3>4
  <2>7. LocalCount(f) = Cardinality(Met(order, Len(order)))
    BY DEF LocalCount
  <2>. HIDE DEF order, params, m, own
  <2>8. Met(order, Len(order)) = 0..(m - 1)
    <3>1. \A j \in 1..Len(order) : order[j] \in own
      BY <2>1, <2>2 DEF ToSet
    <3>2. \A b \in own : \E j \in 1..Len(order) : order[j] = b
      BY <2>1, <2>2 DEF ToSet
    <3>3. \A x \in Met(order, Len(order)) : x \in 0..(m - 1)
      BY <2>4, <2>5, <3>1 DEF Met
    <3>4. \A x \in 0..(m - 1) : x \in Met(order, Len(order))
      BY <2>5, <3>2 DEF Met
    <3>. QED
      BY <3>3, <3>4
  <2>. QED
    <3>1. PICK k \in 1..Len(order) : a.slot = GetIdFor(order, k)
      BY <2>6
    <3>2. /\ Cardinality(Met(order, Len(order))) = m
          /\ GetIdFor(order, k) < m
      BY <2>2, <2>4, <2>8, SlotsBelow
    <3>. QED
      BY <2>7, <3>1, <3>2
<1>. QED
  BY <1>1, AnalysisIsRight, PTL

-----------------------------------------------------------------------------
(* The slots of a function of a regular shape.                             *)

Image(g, n) == {g[i] : i \in 1..n}

\* As many values as places, when no two are the same.
LEMMA ImageCount ==
    ASSUME NEW n \in Nat, NEW g, \A i, j \in 1..n : g[i] = g[j] => i = j
    PROVE  IsFiniteSet(Image(g, n)) /\ Cardinality(Image(g, n)) = n
<1>. DEFINE S == {g[i] : i \in 1..n}
            h == [i \in 1..n |-> g[i]]
<1>1. h \in [1..n -> S]
  OBVIOUS
<1>2. h \in Bijection(1..n, S)
  <2>1. \A i, j \in 1..n : h[i] = h[j] => i = j
    OBVIOUS
  <2>2. \A x \in S : \E i \in 1..n : h[i] = x
    OBVIOUS
  <2>. HIDE DEF h, S
  <2>. QED
    BY <1>1, <2>1, <2>2 DEF Bijection, Injection, Surjection, IsInjective
<1>3. ExistsBijection(1..n, S)
  <2>. HIDE DEF h, S
  <2>. QED
    BY <1>2 DEF ExistsBijection
<1>4. IsFiniteSet(1..n)
  BY FS_Interval
<1>. HIDE DEF S
<1>5. Cardinality(S) = n
  BY <1>3, FS_CountingElements
<1>6. IsFiniteSet(S)
  BY <1>3, <1>4, FS_Bijection
<1>. QED
  BY <1>5, <1>6 DEF S, Image

\* What Build comes across in a function of a regular shape, n of it parameters.
InOrder(order, n, own) ==
    /\ order \in Seq(Binding) /\ n \in Nat /\ n <= Len(order)
    /\ ToSet(order) = own
    /\ \A b, c \in own : b.idx = c.idx => b = c
    /\ \A b \in own : \A x \in Nat : x <= b.idx => \E c \in own : c.idx = x
    /\ \A i, j \in 1..n : order[i] = order[j] => i = j
    /\ \A j \in 1..n : order[j].kind # "Variable"
    /\ \A b \in own : b.kind # "Variable" => \E j \in 1..n : order[j] = b
    /\ \A b, c \in own : b.kind = "Variable" /\ c.kind # "Variable" => c.idx < b.idx
    /\ \A i, j \in (n + 1)..Len(order) :
         /\ i < j /\ order[i].kind = "Variable" /\ order[j].kind = "Variable"
         /\ order[j].idx < order[i].idx
         => \E k \in (n + 1)..i : order[k] = order[j]

\* The parts of InOrder, with the types they imply.
LEMMA RegularTypes ==
    ASSUME NEW order, NEW n, NEW own, InOrder(order, n, own)
    PROVE  /\ Len(order) \in Nat /\ n \in Nat
           /\ \A i \in 1..Len(order) : order[i] \in own /\ order[i].idx \in Nat
           /\ \A b \in own : b.idx \in Nat /\ \E i \in 1..Len(order) : order[i] = b
           /\ n <= Len(order)
           /\ \A b, c \in own : b.idx = c.idx => b = c
           /\ \A b \in own : \A x \in Nat : x <= b.idx => \E c \in own : c.idx = x
           /\ \A i, j \in 1..n : order[i] = order[j] => i = j
           /\ \A j \in 1..n : order[j].kind # "Variable"
           /\ \A b \in own : b.kind # "Variable" => \E j \in 1..n : order[j] = b
           /\ \A b, c \in own :
                b.kind = "Variable" /\ c.kind # "Variable" => c.idx < b.idx
<1>1. order \in Seq(Binding) /\ n \in Nat /\ ToSet(order) = own
  BY DEF InOrder
<1>2. Len(order) \in Nat /\ DOMAIN order = 1..Len(order)
  BY <1>1
<1>3. \A b \in Binding : b.idx \in Nat
  BY DEF Binding
<1>4. \A i \in 1..Len(order) : order[i] \in own /\ order[i].idx \in Nat
  BY <1>1, <1>2, <1>3 DEF ToSet
<1>5. \A b \in own : \E i \in 1..Len(order) : order[i] = b
  BY <1>1, <1>2 DEF ToSet
<1>6. /\ n <= Len(order)
      /\ \A b, c \in own : b.idx = c.idx => b = c
      /\ \A b \in own : \A x \in Nat : x <= b.idx => \E c \in own : c.idx = x
      /\ \A i, j \in 1..n : order[i] = order[j] => i = j
      /\ \A j \in 1..n : order[j].kind # "Variable"
      /\ \A b \in own : b.kind # "Variable" => \E j \in 1..n : order[j] = b
      /\ \A b, c \in own :
           b.kind = "Variable" /\ c.kind # "Variable" => c.idx < b.idx
  BY DEF InOrder
<1>7. \A b \in own : b.idx \in Nat
  BY <1>4, <1>5
<1>. QED
  BY <1>1, <1>2, <1>4, <1>5, <1>6, <1>7

\* A parameter is addressed by its place.
LEMMA ParameterSlot ==
    ASSUME NEW order, NEW n, NEW own, InOrder(order, n, own), NEW j \in 1..n,
           NEW k \in (n + 1)..Len(order), order[k] = order[j]
    PROVE  GetIdFor(order, k) = j - 1
<1>. DEFINE idx == order[k].idx
            p == k - 1
<1>1. /\ Len(order) \in Nat /\ n \in Nat /\ n <= Len(order)
      /\ \A i \in 1..Len(order) : order[i] \in own /\ order[i].idx \in Nat
      /\ \A b, c \in own : b.idx = c.idx => b = c
      /\ \A i, l \in 1..n : order[i] = order[l] => i = l
  BY RegularTypes
<1>2. p \in 1..Len(order) /\ j \in 1..p
  BY <1>1
<1>3. idx \in Met(order, p)
  BY <1>2 DEF Met
<1>4. GetIdFor(order, k) = Numbered(order, idx)
  BY <1>3 DEF GetIdFor
<1>5. order[j].idx = idx
  OBVIOUS
<1>. HIDE DEF p, idx
<1>6. PICK i \in 1..p :
        /\ order[i].idx = idx /\ idx \notin Met(order, i - 1)
        /\ Numbered(order, idx) = Cardinality(Met(order, i - 1))
  <2>1. Len(order) \in Nat /\ p \in 1..Len(order)
    BY <1>1, <1>2
  <2>. QED
    BY <1>3, <2>1, NumberedFirst
<1>7. i <= j
  <2>. SUFFICES ASSUME j < i PROVE FALSE
    BY <1>1, <1>2
  <2>1. j \in 1..(i - 1)
    BY <1>1, <1>2
  <2>. QED
    BY <1>5, <1>6, <2>1 DEF Met
<1>8. i = j
  <2>1. i \in 1..n /\ j \in 1..n /\ i \in 1..Len(order) /\ j \in 1..Len(order)
    BY <1>1, <1>2, <1>7
  <2>2. order[i] = order[j]
    BY <1>1, <1>5, <1>6, <2>1
  <2>. QED
    BY <1>1, <2>1, <2>2
<1>9. Cardinality(Met(order, j - 1)) = j - 1
  <2>. DEFINE m == j - 1
              g == [i1 \in 1..m |-> order[i1].idx]
  <2>1. m \in Nat /\ \A i1 \in 1..m : i1 \in 1..n /\ i1 \in 1..Len(order)
    BY <1>1
  <2>2. \A i1, i2 \in 1..m : g[i1] = g[i2] => i1 = i2
    BY <1>1, <2>1
  <2>3. Met(order, m) = Image(g, m)
    BY DEF Met, Image
  <2>. HIDE DEF g, m
  <2>4. Cardinality(Image(g, m)) = m
    BY <2>1, <2>2, ImageCount
  <2>. QED
    BY <2>3, <2>4 DEF m
<1>. QED
  BY <1>4, <1>6, <1>8, <1>9

\* The parameters come before the variables.
LEMMA ParametersFirst ==
    ASSUME NEW order, NEW n, NEW own, InOrder(order, n, own), NEW b \in own,
           b.kind = "Variable"
    PROVE  n <= b.idx
<1>. DEFINE m == b.idx
            g == [i \in 1..n |-> order[i].idx]
            S == Image(g, n)
            I == 0..(m - 1)
<1>1. /\ Len(order) \in Nat /\ n \in Nat /\ n <= Len(order) /\ m \in Nat
      /\ \A i \in 1..Len(order) : order[i] \in own /\ order[i].idx \in Nat
      /\ \A c, d \in own : c.idx = d.idx => c = d
      /\ \A i, l \in 1..n : order[i] = order[l] => i = l
      /\ \A j \in 1..n : order[j].kind # "Variable"
      /\ \A c \in own : c.kind # "Variable" => c.idx < m
  BY RegularTypes
<1>2. \A i \in 1..n : i \in 1..Len(order)
  BY <1>1
<1>3. \A i, j \in 1..n : g[i] = g[j] => i = j
  BY <1>1, <1>2
<1>4. \A i \in 1..n : g[i] \in I
  BY <1>1, <1>2
<1>. HIDE DEF g
<1>5. IsFiniteSet(S) /\ Cardinality(S) = n
  BY <1>1, <1>3, ImageCount
<1>6. IsFiniteSet(I) /\ Cardinality(I) = m
  BY <1>1, Interval
<1>7. S \in SUBSET I
  BY <1>4 DEF Image
<1>. HIDE DEF S, I
<1>8. Cardinality(S) <= Cardinality(I)
  BY <1>6, <1>7, FS_Subset
<1>. QED
  BY <1>5, <1>6, <1>8

\* A variable is addressed by its index.
LEMMA VariableSlot ==
    ASSUME NEW order, NEW n, NEW own, InOrder(order, n, own),
           NEW k \in (n + 1)..Len(order), order[k].kind = "Variable"
    PROVE  GetIdFor(order, k) = order[k].idx
<1>. DEFINE v == order[k]
            idx == v.idx
            p == k - 1
<1>1. /\ Len(order) \in Nat /\ n \in Nat /\ n <= Len(order)
      /\ \A i \in 1..Len(order) : order[i] \in own /\ order[i].idx \in Nat
      /\ \A b \in own : b.idx \in Nat /\ \E i \in 1..Len(order) : order[i] = b
      /\ \A b, c \in own : b.idx = c.idx => b = c
      /\ \A b \in own : \A x \in Nat : x <= b.idx => \E c \in own : c.idx = x
      /\ \A j \in 1..n : order[j].kind # "Variable"
      /\ \A b \in own : b.kind # "Variable" => \E j \in 1..n : order[j] = b
      /\ \A b, c \in own : b.kind = "Variable" /\ c.kind # "Variable" => c.idx < b.idx
  BY RegularTypes
<1>2. \A i, j \in (n + 1)..Len(order) :
         /\ i < j /\ order[i].kind = "Variable" /\ order[j].kind = "Variable"
         /\ order[j].idx < order[i].idx
         => \E l \in (n + 1)..i : order[l] = order[j]
  BY DEF InOrder
<1>3. CASE idx \notin Met(order, p)
  BY <1>3 DEF GetIdFor
<1>4. CASE idx \in Met(order, p)
  <2>1. p \in 1..Len(order) /\ k \in 1..Len(order)
    <3>1. p # 0
      BY <1>4 DEF Met
    <3>. QED
      BY <1>1, <3>1
  <2>2. GetIdFor(order, k) = Numbered(order, idx)
    BY <1>4 DEF GetIdFor
  <2>3. v \in own /\ v.kind = "Variable" /\ idx \in Nat
    BY <1>1, <2>1
  <2>. HIDE DEF p, idx, v
  <2>4. PICK i \in 1..p :
          /\ order[i].idx = idx /\ idx \notin Met(order, i - 1)
          /\ Numbered(order, idx) = Cardinality(Met(order, i - 1))
    BY <1>1, <1>4, <2>1, NumberedFirst
  <2>5. i \in 1..Len(order) /\ order[i] = v
    <3>1. i \in 1..Len(order)
      BY <1>1, <2>1
    <3>. QED
      BY <1>1, <2>3, <2>4, <3>1 DEF idx
  <2>6. i \in (n + 1)..Len(order)
    <3>1. i \notin 1..n
      BY <1>1, <2>3, <2>5
    <3>. QED
      BY <1>1, <2>5, <3>1
  <2>7. \A l \in 1..(i - 1) : l \in 1..Len(order) /\ order[l] # v
    <3>1. \A l \in 1..(i - 1) : l \in 1..Len(order)
      BY <1>1, <2>5
    <3>2. \A l \in 1..(i - 1) : order[l].idx # idx
      BY <2>4 DEF Met
    <3>. QED
      BY <3>1, <3>2 DEF idx
  <2>8. \A x \in Met(order, i - 1) : x \in 0..(idx - 1)
    <3>. SUFFICES ASSUME NEW l \in 1..(i - 1) PROVE order[l].idx \in 0..(idx - 1)
      BY DEF Met
    <3>1. l \in 1..Len(order) /\ order[l] \in own /\ order[l].idx \in Nat /\ order[l] # v
      BY <1>1, <2>7
    <3>2. order[l].idx < idx
      <4>1. CASE order[l].kind # "Variable"
        BY <1>1, <2>3, <3>1, <4>1 DEF idx
      <4>2. CASE order[l].kind = "Variable"
        <5>. SUFFICES ASSUME ~(order[l].idx < idx) PROVE FALSE
          OBVIOUS
        <5>1. idx < order[l].idx
          <6>1. order[l].idx # idx
            BY <1>1, <2>3, <3>1 DEF idx
          <6>. QED
            BY <2>3, <3>1, <6>1
        <5>2. l \in (n + 1)..Len(order) /\ l < i
          <6>1. l \notin 1..n
            BY <1>1, <4>2
          <6>. QED
            BY <1>1, <2>5, <3>1, <6>1
        <5>3. PICK j \in (n + 1)..l : order[j] = order[i]
          BY <1>2, <2>3, <2>5, <2>6, <4>2, <5>1, <5>2 DEF idx
        <5>4. j \in 1..(i - 1)
          BY <1>1, <2>5, <5>2
        <5>. QED
          BY <2>5, <2>7, <5>3, <5>4
      <4>. QED
        BY <4>1, <4>2
    <3>. QED
      BY <2>3, <3>1, <3>2
  <2>9. \A x \in 0..(idx - 1) : x \in Met(order, i - 1)
    <3>. SUFFICES ASSUME NEW x \in 0..(idx - 1) PROVE x \in Met(order, i - 1)
      OBVIOUS
    <3>1. x \in Nat /\ x < idx /\ x <= idx
      BY <2>3
    <3>2. PICK c \in own : c.idx = x
      BY <1>1, <2>3, <3>1 DEF idx
    <3>3. \E l \in 1..(i - 1) : order[l] = c
      <4>1. CASE c.kind # "Variable"
        <5>1. PICK j \in 1..n : order[j] = c
          BY <1>1, <4>1
        <5>2. j \in 1..(i - 1)
          BY <1>1, <2>6
        <5>. QED
          BY <5>1, <5>2
      <4>2. CASE c.kind = "Variable"
        <5>1. PICK j \in 1..Len(order) : order[j] = c
          BY <1>1
        <5>2. CASE j < i
          <6>1. j \in 1..(i - 1)
            BY <2>5, <5>2
          <6>. QED
            BY <5>1, <6>1
        <5>3. CASE i < j
          <6>1. j \in (n + 1)..Len(order)
            BY <1>1, <2>6, <5>3
          <6>2. order[j].idx < order[i].idx
            BY <2>4, <3>1, <3>2, <5>1
          <6>3. PICK l \in (n + 1)..i : order[l] = order[j]
            BY <1>2, <2>3, <2>5, <2>6, <4>2, <5>1, <5>3, <6>1, <6>2
          <6>4. l # i
            BY <2>4, <3>1, <3>2, <5>1, <6>3
          <6>5. l \in 1..(i - 1)
            BY <1>1, <2>5, <6>4
          <6>. QED
            BY <5>1, <6>3, <6>5
        <5>4. i # j
          BY <2>4, <3>1, <3>2, <5>1
        <5>. QED
          BY <2>5, <5>2, <5>3, <5>4
      <4>. QED
        BY <4>1, <4>2
    <3>. QED
      BY <3>2, <3>3 DEF Met
  <2>10. Met(order, i - 1) = 0..(idx - 1)
    BY <2>8, <2>9
  <2>11. Cardinality(0..(idx - 1)) = idx
    BY <2>3, Interval
  <2>. QED
    BY <2>2, <2>4, <2>10, <2>11 DEF idx, v
<1>. QED
  BY <1>3, <1>4

\* The order a call puts the parameters in.
Before(c, b) == \/ c.kind = b.kind /\ c.idx < b.idx
                \/ c.kind = "Capture" /\ b.kind = "Argument"

\* A sequence joined from two, place by place.
LEMMA JoinedPlaces ==
    ASSUME NEW q \in Seq(Binding), NEW r \in Seq(Binding), NEW s, s = q \o r
    PROVE  /\ s \in Seq(Binding) /\ Len(s) = Len(q) + Len(r)
           /\ Len(q) \in Nat /\ Len(r) \in Nat
           /\ \A i \in 1..Len(q) : i \in 1..Len(s) /\ s[i] = q[i]
           /\ \A i \in 1..Len(r) : Len(q) + i \in 1..Len(s) /\ s[Len(q) + i] = r[i]
           /\ \A i \in 1..Len(s) :
                \/ i \in 1..Len(q) /\ s[i] = q[i]
                \/ i > Len(q) /\ i - Len(q) \in 1..Len(r) /\ s[i] = r[i - Len(q)]
<1>. DEFINE m == Len(q)
            n == Len(r)
<1>1. /\ s \in Seq(Binding) /\ Len(s) = m + n
      /\ \A i \in 1..(m + n) : s[i] = IF i <= m THEN q[i] ELSE r[i - m]
  BY ConcatProperties
<1>2. m \in Nat /\ n \in Nat
  OBVIOUS
<1>. HIDE DEF m, n
<1>3. \A i \in 1..m : i \in 1..Len(s) /\ s[i] = q[i]
  BY <1>1, <1>2
<1>4. ASSUME NEW i \in 1..n PROVE m + i \in 1..Len(s) /\ s[m + i] = r[i]
  <2>1. m + i \in 1..(m + n) /\ ~(m + i <= m) /\ (m + i) - m = i
    BY <1>2
  <2>. QED
    BY <1>1, <2>1
<1>5. ASSUME NEW i \in 1..(m + n)
      PROVE  \/ i \in 1..m /\ s[i] = q[i]
             \/ i > m /\ i - m \in 1..n /\ s[i] = r[i - m]
  <2>1. CASE i \in 1..m
    <3>1. i <= m
      BY <1>2, <2>1
    <3>2. s[i] = q[i]
      BY <1>1, <3>1
    <3>. QED
      BY <2>1, <3>2
  <2>2. CASE i \notin 1..m
    <3>1. i - m \in 1..n /\ ~(i <= m) /\ i > m
      BY <1>2, <2>2
    <3>2. s[i] = r[i - m]
      BY <1>1, <3>1
    <3>. QED
      BY <3>1, <3>2
  <2>. QED
    BY <2>1, <2>2
<1>. QED
  BY <1>1, <1>2, <1>3, <1>4, <1>5 DEF m, n

\* The parameters come in that order.
LEMMA ParametersBefore ==
    ASSUME NEW caps \in Seq(Binding), NEW args \in Seq(Binding), Rises(caps), Rises(args),
           \A i \in 1..Len(caps) : caps[i].kind = "Capture",
           \A i \in 1..Len(args) : args[i].kind = "Argument"
    PROVE  LET params == caps \o args
           IN  \A i, j \in 1..Len(params) :
                 /\ (i < j) <=> Before(params[i], params[j])
                 /\ params[i] = params[j] => i = j
<1>. DEFINE params == caps \o args
<1>0. params = caps \o args
  OBVIOUS
<1>. HIDE DEF params
<1>1. /\ Len(params) = Len(caps) + Len(args) /\ Len(caps) \in Nat /\ Len(args) \in Nat
      /\ \A i \in 1..Len(params) :
            \/ i \in 1..Len(caps) /\ params[i] = caps[i]
            \/ i > Len(caps) /\ i - Len(caps) \in 1..Len(args)
               /\ params[i] = args[i - Len(caps)]
  BY <1>0, JoinedPlaces
<1>. DEFINE m == Len(caps)
            n == Len(params)
<1>2. \A b \in Binding : b.idx \in Nat
  BY DEF Binding
<1>3. /\ \A i \in 1..Len(caps) : caps[i].idx \in Nat
      /\ \A i \in 1..Len(args) : args[i].idx \in Nat
  BY <1>2
<1>4. ASSUME NEW i \in 1..n, NEW j \in 1..n, i < j
      PROVE  Before(params[i], params[j])
  <2>1. CASE j \in 1..m /\ params[j] = caps[j]
    <3>1. i \in 1..m /\ params[i] = caps[i]
      BY <1>1, <1>4, <2>1
    <3>2. caps[i].idx < caps[j].idx
      BY <1>4, <2>1, <3>1 DEF Rises
    <3>. QED
      BY <2>1, <3>1, <3>2 DEF Before
  <2>2. CASE j > m /\ j - m \in 1..Len(args) /\ params[j] = args[j - m]
    <3>1. CASE i \in 1..m /\ params[i] = caps[i]
      BY <2>2, <3>1 DEF Before
    <3>2. CASE i > m /\ i - m \in 1..Len(args) /\ params[i] = args[i - m]
      <4>1. i - m < j - m
        BY <1>1, <1>4
      <4>2. args[i - m].idx < args[j - m].idx
        BY <2>2, <3>2, <4>1 DEF Rises
      <4>. QED
        BY <2>2, <3>2, <4>2 DEF Before
    <3>. QED
      BY <1>1, <3>1, <3>2
  <2>. QED
    BY <1>1, <2>1, <2>2
<1>5. \A i \in 1..n : params[i].idx \in Nat
  BY <1>1, <1>3
<1>6. ASSUME NEW i \in 1..n, NEW j \in 1..n, Before(params[i], params[j])
      PROVE  i < j
  <2>1. i = j => FALSE
    BY <1>5, <1>6 DEF Before
  <2>2. j < i => FALSE
    <3>. SUFFICES ASSUME j < i PROVE FALSE
      OBVIOUS
    <3>1. Before(params[j], params[i])
      BY <1>4
    <3>2. params[i].idx \in Nat /\ params[j].idx \in Nat
      BY <1>5
    <3>. QED
      BY <1>6, <3>1, <3>2 DEF Before
  <2>. QED
    BY <1>1, <2>1, <2>2
<1>7. ASSUME NEW i \in 1..n, NEW j \in 1..n, params[i] = params[j]
      PROVE  i = j
  <2>. DEFINE b == params[i]
  <2>1. ~Before(b, b)
    BY <1>5 DEF Before
  <2>2. Before(params[i], params[j]) <=> Before(b, b)
    BY <1>7
  <2>3. Before(params[j], params[i]) <=> Before(b, b)
    BY <1>7
  <2>4. ~(i < j) /\ ~(j < i)
    BY <1>4, <2>1, <2>2, <2>3
  <2>. QED
    BY <1>1, <2>4
<1>. QED
  BY <1>4, <1>6, <1>7 DEF params

\* Declared, of the set of all bindings.
LEMMA DeclaredIsOwn ==
    ASSUME AnalysisInv, NEW f \in 1..Len(fns)
    PROVE  Declared(f) = {b \in Decl(scopes) : b.fn = fns[f].scope}
<1>1. IsTree(scopes)
  BY DEF AnalysisInv
<1>2. \A i \in 1..Len(scopes) : /\ Bindings(i) = Bound(scopes, i)
                              /\ Bound(scopes, i) \subseteq Decl(scopes)
  BY <1>1, BoundDeclared DEF Bindings, Bound
<1>. QED
  BY <1>2 DEF Declared, Decl

\* The captures of a regular function are all declared in the scope of its own.
LEMMA AllCaptures ==
    ASSUME AnalysisInv, NEW f \in 1..Len(fns), ~CapturesInInnerBlock(f)
    PROVE  /\ ToSet(OfKind(f, "Capture")) = Captured(scopes, fns[f].scope)
           /\ Len(fns[f].captures) = Len(OfKind(f, "Capture"))
<1>. DEFINE s == fns[f].scope
            q == OfKind(f, "Capture")
            C == Captured(scopes, s)
            n == Len(q)
<1>1. /\ q \in Seq(Binding) /\ Rises(q)
      /\ ToSet(q) = {b \in Bound(scopes, s) : b.kind = "Capture"}
      /\ \A b \in Bound(scopes, s) : b \in Decl(scopes) /\ b.fn = s
  BY KindsOf
<1>2. IsFiniteSet(C) /\ Len(fns[f].captures) = Cardinality(C)
  BY DEF AnalysisInv, FnInv, DeclaresOK
<1>3. n = Len(fns[f].captures)
  BY DEF CapturesInInnerBlock
<1>. HIDE DEF q
<1>4. n \in Nat /\ DOMAIN q = 1..n
  BY <1>1
<1>5. \A i, j \in 1..n : q[i] = q[j] => i = j
  <2>1. \A i \in 1..n : q[i].idx \in Nat
    <3>1. \A b \in Binding : b.idx \in Nat
      BY DEF Binding
    <3>. QED
      BY <1>1, <3>1
  <2>2. \A i, j \in 1..n : i < j \/ j < i \/ i = j
    BY <1>4
  <2>. QED
    BY <1>1, <2>1, <2>2 DEF Rises
<1>6. Cardinality(Image(q, n)) = n
  BY <1>4, <1>5, ImageCount
<1>7. Image(q, n) = ToSet(q)
  BY <1>4 DEF Image, ToSet
<1>8. ToSet(q) \in SUBSET C
  BY <1>1 DEF Captured
<1>. HIDE DEF C, n
<1>9. Cardinality(C) = Cardinality(ToSet(q)) => C = ToSet(q)
  BY <1>2, <1>8, FS_Subset
<1>. QED
  BY <1>2, <1>3, <1>6, <1>7, <1>9 DEF q, C, n

\* A function that is not irregular is of a regular shape.
LEMMA IsRegular ==
    ASSUME AnalysisInv, NEW f \in 1..Len(fns), ~Irregular(f)
    PROVE  InOrder(Order(f), Len(Parameters(f)),
                   {b \in Decl(scopes) : b.fn = fns[f].scope})
<1>. DEFINE s == fns[f].scope
            caps == OfKind(f, "Capture")
            args == OfKind(f, "Argument")
            reads == Accesses(f)
            params == Parameters(f)
            order == Order(f)
            n == Len(params)
            own == {b \in Decl(scopes) : b.fn = s}
<1>1. /\ ~UsesOuterArgument(f) /\ ~CapturesInInnerBlock(f)
      /\ ~CapturesAfterVariable(f) /\ ~CapturedBeforeStored(f)
  BY DEF Irregular
<1>2. /\ caps \in Seq(Binding) /\ args \in Seq(Binding) /\ Rises(caps) /\ Rises(args)
      /\ ToSet(caps) = {b \in Bound(scopes, s) : b.kind = "Capture"}
      /\ ToSet(args) = {b \in Bound(scopes, s) : b.kind = "Argument"}
  BY KindsOf
<1>3. reads \in Seq(Binding)
  BY AccessesOf
<1>4. /\ params = caps \o args /\ order = params \o reads
      /\ ToSet(order) = own
  BY <1>1, OrderOf
<1>5. ToSet(caps) = Captured(scopes, s)
  BY <1>1, AllCaptures
<1>6. Declared(f) = own
  BY DeclaredIsOwn
<1>7. /\ IsTree(scopes) /\ BindInv(scopes) /\ s \in 1..Len(scopes)
  <2>1. s \in 2..Len(scopes)
    BY DEF AnalysisInv, FnInv
  <2>. QED
    BY <2>1 DEF AnalysisInv
<1>8. /\ \A b \in own : b \in Decl(scopes) /\ b.fn = s /\ b \in Binding /\ b.idx \in Nat
      /\ \A b \in own : b.kind \in {"Variable", "Capture", "Argument"}
  BY DEF Decl, Binding
<1>9. \A b, c \in own : b.idx = c.idx => b = c
  BY <1>7, <1>8 DEF BindInv
<1>10. \A b \in own : \A x \in Nat : x <= b.idx => \E c \in own : c.idx = x
  <2>. SUFFICES ASSUME NEW b \in own, NEW x \in Nat, x <= b.idx
                PROVE  \E c \in own : c.idx = x
    OBVIOUS
  <2>1. scopes[s].next \in Nat
    <3>1. \A r \in Scope : r.next \in Nat
      BY DEF Scope
    <3>. QED
      BY <1>7, <3>1 DEF IsTree
  <2>2. b.idx < scopes[s].next
    BY <1>7, <1>8 DEF BindInv
  <2>3. x \in 0..(scopes[s].next - 1)
    BY <1>8, <2>1, <2>2
  <2>4. \E c \in Decl(scopes) : c.fn = s /\ c.idx = x
    BY <1>7, <2>3 DEF BindInv
  <2>. QED
    BY <2>4
<1>11. ToSet(args) = {b \in own : b.kind = "Argument"}
  <2>1. \A b \in own : b.kind = "Argument" => b \in Bound(scopes, s)
    BY <1>7, <1>8 DEF BindInv
  <2>2. \A b \in Bound(scopes, s) : b \in Decl(scopes) /\ b.fn = s
    BY KindsOf
  <2>. QED
    BY <1>2, <2>1, <2>2
<1>12. ToSet(caps) = {b \in own : b.kind = "Capture"}
  BY <1>5 DEF Captured
<1>. HIDE DEF s, caps, args, reads, params, order, own, n
<1>13. /\ \A i \in 1..Len(caps) : caps[i].kind = "Capture"
       /\ \A i \in 1..Len(args) : args[i].kind = "Argument"
       /\ DOMAIN caps = 1..Len(caps) /\ DOMAIN args = 1..Len(args)
  <2>1. DOMAIN caps = 1..Len(caps) /\ DOMAIN args = 1..Len(args)
    BY <1>2
  <2>2. /\ \A i \in 1..Len(caps) : caps[i] \in ToSet(caps)
        /\ \A i \in 1..Len(args) : args[i] \in ToSet(args)
    BY <2>1 DEF ToSet
  <2>. QED
    BY <1>11, <1>12, <2>1, <2>2
<1>14. /\ params \in Seq(Binding) /\ n \in Nat /\ n = Len(params)
       /\ Len(caps) \in Nat /\ Len(args) \in Nat
       /\ \A i \in 1..Len(caps) : i \in 1..n /\ params[i] = caps[i]
       /\ \A i \in 1..Len(args) : Len(caps) + i \in 1..n /\ params[Len(caps) + i] = args[i]
       /\ \A i \in 1..n : \/ i \in 1..Len(caps) /\ params[i] = caps[i]
                          \/ /\ i - Len(caps) \in 1..Len(args)
                             /\ params[i] = args[i - Len(caps)]
  <2>1. /\ params \in Seq(Binding)
        /\ Len(caps) \in Nat /\ Len(args) \in Nat
        /\ \A i \in 1..Len(caps) : i \in 1..Len(params) /\ params[i] = caps[i]
        /\ \A i \in 1..Len(args) :
             Len(caps) + i \in 1..Len(params) /\ params[Len(caps) + i] = args[i]
        /\ \A i \in 1..Len(params) :
             \/ i \in 1..Len(caps) /\ params[i] = caps[i]
             \/ /\ i > Len(caps)
                /\ i - Len(caps) \in 1..Len(args)
                /\ params[i] = args[i - Len(caps)]
    BY <1>2, <1>4, JoinedPlaces
  <2>2. Len(params) \in Nat
    BY <2>1
  <2>. QED
    BY <2>1, <2>2 DEF n
<1>15. /\ order \in Seq(Binding) /\ Len(order) = n + Len(reads) /\ Len(reads) \in Nat
       /\ \A i \in 1..n : i \in 1..Len(order) /\ order[i] = params[i]
       /\ \A i \in 1..Len(reads) : n + i \in 1..Len(order) /\ order[n + i] = reads[i]
  BY <1>3, <1>4, <1>14, JoinedPlaces
<1>16. \A i, j \in 1..n : params[i] = params[j] => i = j
  <2>. DEFINE all == caps \o args
  <2>3. /\ caps \in Seq(Binding) /\ Rises(caps)
        /\ args \in Seq(Binding) /\ Rises(args)
    BY <1>2
  <2>4. /\ \A i \in 1..Len(caps) : caps[i].kind = "Capture"
        /\ \A i \in 1..Len(args) : args[i].kind = "Argument"
    BY <1>13
  <2>1. \A i, j \in 1..Len(all) : all[i] = all[j] => i = j
    BY <2>3, <2>4, ParametersBefore
  <2>2. params = all
    BY <1>4
  <2>. HIDE DEF all
  <2>. QED
    BY <1>14, <2>1, <2>2
<1>17. \A i \in 1..n : params[i].kind # "Variable"
  BY <1>13, <1>14
<1>18. \A b \in own : b.kind # "Variable" => \E j \in 1..n : params[j] = b
  <2>. SUFFICES ASSUME NEW b \in own, b.kind # "Variable" PROVE \E j \in 1..n : params[j] = b
    OBVIOUS
  <2>1. CASE b.kind = "Capture"
    <3>1. b \in ToSet(caps)
      BY <1>12, <2>1
    <3>2. PICK i \in 1..Len(caps) : caps[i] = b
      BY <1>13, <3>1 DEF ToSet
    <3>. QED
      BY <1>14, <3>2
  <2>2. CASE b.kind = "Argument"
    <3>1. b \in ToSet(args)
      BY <1>11, <2>2
    <3>2. PICK i \in 1..Len(args) : args[i] = b
      BY <1>13, <3>1 DEF ToSet
    <3>. QED
      BY <1>14, <3>2
  <2>. QED
    BY <1>8, <2>1, <2>2
<1>19. \A b, c \in own : b.kind = "Variable" /\ c.kind # "Variable" => c.idx < b.idx
  <2>. SUFFICES ASSUME NEW b \in own, NEW c \in own, b.kind = "Variable", c.kind # "Variable"
                PROVE  c.idx < b.idx
    OBVIOUS
  <2>1. CASE c.kind = "Argument"
    BY <1>7, <1>8, <2>1 DEF BindInv
  <2>2. CASE c.kind = "Capture"
    <3>1. ~(b.idx < c.idx)
      BY <1>1, <1>6, <2>2 DEF CapturesAfterVariable
    <3>2. b.idx # c.idx
      BY <1>9
    <3>. QED
      BY <1>8, <3>1, <3>2
  <2>. QED
    BY <1>8, <2>1, <2>2
<1>20. ASSUME NEW i \in (n + 1)..Len(order), NEW j \in (n + 1)..Len(order), i < j,
              order[i].kind = "Variable", order[j].kind = "Variable",
              order[j].idx < order[i].idx
       PROVE  \E k \in (n + 1)..i : order[k] = order[j]
  <2>. DEFINE x == i - n
              y == j - n
  <2>1. x \in 1..Len(reads) /\ y \in 1..Len(reads) /\ x < y /\ n + x = i /\ n + y = j
    BY <1>14, <1>15, <1>20
  <2>. HIDE DEF x, y
  <2>2. order[i] = reads[x] /\ order[j] = reads[y]
    BY <1>15, <2>1
  <2>3. PICK k \in 1..x : reads[k] = reads[y]
    BY <1>1, <1>20, <2>1, <2>2 DEF CapturedBeforeStored, reads
  <2>4. k \in 1..Len(reads) /\ n + k \in (n + 1)..i
    BY <1>14, <1>15, <2>1, SMTT(20)
  <2>. QED
    BY <1>15, <2>2, <2>3, <2>4
<1>21. InOrder(order, n, own)
  <2>1. n <= Len(order)
    BY <1>14, <1>15
  <2>2. /\ \A i, j \in 1..n : order[i] = order[j] => i = j
        /\ \A j \in 1..n : order[j].kind # "Variable"
        /\ \A b \in own : b.kind # "Variable" => \E j \in 1..n : order[j] = b
    BY <1>15, <1>16, <1>17, <1>18
  <2>3. \A i, j \in (n + 1)..Len(order) :
         /\ i < j /\ order[i].kind = "Variable" /\ order[j].kind = "Variable"
         /\ order[j].idx < order[i].idx
         => \E k \in (n + 1)..i : order[k] = order[j]
    BY <1>20
  <2>4. order \in Seq(Binding) /\ n \in Nat /\ ToSet(order) = own
    BY <1>4, <1>14, <1>15
  <2>. QED
    BY <1>9, <1>10, <1>19, <2>1, <2>2, <2>3, <2>4 DEF InOrder
<1>. QED
  BY <1>21 DEF s, params, order, own, n

\* The parameters of a regular function, in the order the call puts them.
LEMMA RegularOrder ==
    ASSUME AnalysisInv, NEW f \in 1..Len(fns)
    PROVE  LET params == Parameters(f)
               order == Order(f)
               n == Len(params)
           IN  /\ \A i \in 1..n : i \in 1..Len(order) /\ order[i] = params[i]
               /\ \A i, j \in 1..n : (i < j) <=> Before(params[i], params[j])
               /\ \A i, j \in 1..n : params[i] = params[j] => i = j
<1>. DEFINE s == fns[f].scope
            caps == OfKind(f, "Capture")
            args == OfKind(f, "Argument")
            params == Parameters(f)
            order == Order(f)
            reads == Accesses(f)
<1>1. /\ caps \in Seq(Binding) /\ args \in Seq(Binding) /\ Rises(caps) /\ Rises(args)
      /\ ToSet(caps) = {b \in Bound(scopes, s) : b.kind = "Capture"}
      /\ ToSet(args) = {b \in Bound(scopes, s) : b.kind = "Argument"}
  BY KindsOf
<1>2. reads \in Seq(Binding)
  BY AccessesOf
<1>3. /\ params = caps \o args /\ order = params \o reads /\ params \in Seq(Binding)
  BY OrderOf
<1>. HIDE DEF s, caps, args, params, order, reads
<1>4. /\ \A i \in 1..Len(caps) : caps[i].kind = "Capture"
      /\ \A i \in 1..Len(args) : args[i].kind = "Argument"
  <2>1. DOMAIN caps = 1..Len(caps) /\ DOMAIN args = 1..Len(args)
    BY <1>1
  <2>2. /\ \A i \in 1..Len(caps) : caps[i] \in ToSet(caps)
        /\ \A i \in 1..Len(args) : args[i] \in ToSet(args)
    BY <2>1 DEF ToSet
  <2>. QED
    BY <1>1, <2>2
<1>5. \A i \in 1..Len(params) : i \in 1..Len(order) /\ order[i] = params[i]
  BY <1>2, <1>3, JoinedPlaces
<1>6. \A i, j \in 1..Len(params) :
        /\ (i < j) <=> Before(params[i], params[j])
        /\ params[i] = params[j] => i = j
  <2>. DEFINE all == caps \o args
  <2>3. /\ caps \in Seq(Binding) /\ Rises(caps)
        /\ args \in Seq(Binding) /\ Rises(args)
    BY <1>1
  <2>4. /\ \A i \in 1..Len(caps) : caps[i].kind = "Capture"
        /\ \A i \in 1..Len(args) : args[i].kind = "Argument"
    BY <1>4
  <2>1. \A i, j \in 1..Len(all) :
          /\ (i < j) <=> Before(all[i], all[j])
          /\ all[i] = all[j] => i = j
    BY <2>3, <2>4, ParametersBefore
  <2>2. params = all
    BY <1>3
  <2>. HIDE DEF all
  <2>. QED
    BY <2>1, <2>2
<1>. QED
  BY <1>5, <1>6 DEF params, order

\* The place of a parameter is the number of those before it.
LEMMA PlaceOf ==
    ASSUME AnalysisInv, NEW f \in 1..Len(fns), ~Irregular(f),
           NEW j \in 1..Len(Parameters(f))
    PROVE  Place(f, Parameters(f)[j]) = j - 1
<1>. DEFINE params == Parameters(f)
            order == Order(f)
            n == Len(params)
            own == {b \in Decl(scopes) : b.fn = fns[f].scope}
            b == params[j]
            P == {c \in own : Before(c, b)}
            m == j - 1
<1>1. InOrder(order, n, own)
  BY IsRegular
<1>2. /\ \A i \in 1..n : i \in 1..Len(order) /\ order[i] = params[i]
      /\ \A i, l \in 1..n : (i < l) <=> Before(params[i], params[l])
      /\ \A i, l \in 1..n : params[i] = params[l] => i = l
  BY RegularOrder
<1>3. Place(f, b) = Cardinality(P)
  <2>1. Declared(f) = own
    BY DeclaredIsOwn
  <2>2. {c \in Declared(f) : \/ c.kind = b.kind /\ c.idx < b.idx
                             \/ c.kind = "Capture" /\ b.kind = "Argument"} = P
    BY <2>1 DEF Before
  <2>. QED
    BY <2>2 DEF Place
<1>4. b \notin {} /\ j \in 1..n
  OBVIOUS
<1>. HIDE DEF params, order, own, n
<1>5. /\ n \in Nat
      /\ \A i \in 1..Len(order) : order[i] \in own
      /\ \A i \in 1..n : order[i].kind # "Variable"
      /\ \A c \in own : c.kind # "Variable" => \E i \in 1..n : order[i] = c
  BY <1>1, RegularTypes
<1>6. m \in Nat /\ \A i \in 1..m : i \in 1..n /\ i < j
  BY <1>4, <1>5
<1>7. P = Image(params, m)
  <2>1. ASSUME NEW c \in P PROVE c \in Image(params, m)
    <3>1. b.kind # "Variable"
      BY <1>2, <1>4, <1>5
    <3>2. c \in own /\ Before(c, b) /\ c.kind # "Variable"
      BY <3>1 DEF Before
    <3>3. PICK i \in 1..n : params[i] = c
      BY <1>2, <1>5, <3>2
    <3>4. i < j
      BY <1>2, <1>4, <3>2, <3>3
    <3>5. i \in 1..m
      BY <1>4, <1>5, <3>4
    <3>. QED
      BY <3>3, <3>5 DEF Image
  <2>2. ASSUME NEW i \in 1..m PROVE params[i] \in P
    <3>1. i \in 1..n /\ i < j
      BY <1>6
    <3>2. params[i] \in own
      BY <1>2, <1>5, <3>1
    <3>3. Before(params[i], b)
      BY <1>2, <1>4, <3>1
    <3>. QED
      BY <3>2, <3>3
  <2>. HIDE DEF P
  <2>. QED
    BY <2>1, <2>2 DEF Image
<1>8. \A i, l \in 1..m : params[i] = params[l] => i = l
  BY <1>2, <1>6
<1>. HIDE DEF P, m
<1>9. Cardinality(Image(params, m)) = m
  BY <1>6, <1>8, ImageCount
<1>. QED
  BY <1>3, <1>7, <1>9 DEF params, m

\* Two uses of a regular function address one slot if they mean one binding, and
\* only then.
LEMMA SameSlot ==
    ASSUME NEW order, NEW n, NEW own, InOrder(order, n, own),
           NEW k \in (n + 1)..Len(order), NEW l \in (n + 1)..Len(order)
    PROVE  (GetIdFor(order, k) = GetIdFor(order, l)) <=> (order[k] = order[l])
<1>1. /\ Len(order) \in Nat /\ n \in Nat
      /\ \A i \in 1..Len(order) : order[i] \in own /\ order[i].idx \in Nat
      /\ \A b, c \in own : b.idx = c.idx => b = c
      /\ \A b \in own : b.kind # "Variable" => \E j \in 1..n : order[j] = b
  BY RegularTypes
<1>2. /\ k \in 1..Len(order) /\ l \in 1..Len(order)
  BY <1>1
<1>3. ASSUME NEW i \in (n + 1)..Len(order), order[i].kind = "Variable"
      PROVE  GetIdFor(order, i) = order[i].idx /\ n <= order[i].idx
  <2>1. GetIdFor(order, i) = order[i].idx
    BY <1>3, VariableSlot
  <2>2. order[i] \in own
    BY <1>1
  <2>3. n <= order[i].idx
    BY <1>3, <2>2, ParametersFirst
  <2>. QED
    BY <2>1, <2>3
<1>4. ASSUME NEW i \in (n + 1)..Len(order), order[i].kind # "Variable"
      PROVE  \E j \in 1..n : order[j] = order[i] /\ GetIdFor(order, i) = j - 1
  <2>1. order[i] \in own
    BY <1>1
  <2>2. PICK j \in 1..n : order[i] = order[j]
    BY <1>1, <1>4, <2>1
  <2>3. GetIdFor(order, i) = j - 1
    BY <2>2, ParameterSlot
  <2>. QED
    BY <2>2, <2>3
<1>5. CASE order[k].kind = "Variable" /\ order[l].kind = "Variable"
  <2>1. GetIdFor(order, k) = order[k].idx /\ GetIdFor(order, l) = order[l].idx
    BY <1>3, <1>5
  <2>. QED
    BY <1>1, <1>2, <2>1
<1>6. CASE order[k].kind # "Variable" /\ order[l].kind # "Variable"
  <2>1. PICK i \in 1..n : order[i] = order[k] /\ GetIdFor(order, k) = i - 1
    BY <1>4, <1>6
  <2>2. PICK j \in 1..n : order[j] = order[l] /\ GetIdFor(order, l) = j - 1
    BY <1>4, <1>6
  <2>3. order[i] = order[j] => i = j
    BY <1>1, RegularTypes
  <2>4. i \in Int /\ j \in Int
    BY <1>1
  <2>5. (i - 1 = j - 1) <=> (i = j)
    BY <2>4
  <2>. QED
    BY <2>1, <2>2, <2>3, <2>5
<1>7. CASE order[k].kind = "Variable" /\ order[l].kind # "Variable"
  <2>1. PICK j \in 1..n : order[j] = order[l] /\ GetIdFor(order, l) = j - 1
    BY <1>4, <1>7
  <2>2. GetIdFor(order, k) = order[k].idx /\ n <= order[k].idx /\ order[k].idx \in Nat
    BY <1>1, <1>2, <1>3, <1>7
  <2>3. GetIdFor(order, k) # GetIdFor(order, l)
    BY <1>1, <2>1, <2>2
  <2>. QED
    BY <1>7, <2>3
<1>8. CASE order[k].kind # "Variable" /\ order[l].kind = "Variable"
  <2>1. PICK j \in 1..n : order[j] = order[k] /\ GetIdFor(order, k) = j - 1
    BY <1>4, <1>8
  <2>2. GetIdFor(order, l) = order[l].idx /\ n <= order[l].idx /\ order[l].idx \in Nat
    BY <1>1, <1>2, <1>3, <1>8
  <2>3. GetIdFor(order, k) # GetIdFor(order, l)
    BY <1>1, <2>1, <2>2
  <2>. QED
    BY <1>8, <2>3
<1>. QED
  BY <1>5, <1>6, <1>7, <1>8

\* An access of the code, at its place in the order.
LEMMA BuiltAt ==
    ASSUME AnalysisInv, NEW f \in 1..Len(fns), NEW a \in ToSet(Build(f))
    PROVE  \E k \in (Len(Parameters(f)) + 1)..Len(Order(f)) :
             a.binding = Order(f)[k] /\ a.slot = GetIdFor(Order(f), k)
<1>. DEFINE order == Order(f)
            params == Parameters(f)
            n == Len(order) - Len(params)
            out == [k \in 1..n |-> [binding |-> order[Len(params) + k],
                                    slot |-> GetIdFor(order, Len(params) + k)]]
<1>1. Len(order) \in Nat /\ Len(params) \in Nat
  <2>1. order \in Seq(Binding) /\ params \in Seq(Binding)
    BY OrderOf
  <2>. HIDE DEF order, params
  <2>. QED
    BY <2>1
<1>2. Build(f) = out
  BY DEF Build
<1>3. PICK k \in 1..n : a = out[k]
  BY <1>2 DEF ToSet
<1>4. a.binding = order[Len(params) + k] /\ a.slot = GetIdFor(order, Len(params) + k)
  BY <1>3
<1>. HIDE DEF order, params
<1>5. Len(params) + k \in (Len(params) + 1)..Len(order)
  BY <1>1
<1>. QED
  BY <1>4, <1>5 DEF order, params

\* In a function of a regular shape captures and arguments are addressed where
\* the call puts them, a variable by its index, and no two bindings share a slot.
THEOREM RegularSlotsAreRight == Spec => []SlotsRight
<1>1. AnalysisInv => SlotsRight
  <2>. SUFFICES ASSUME AnalysisInv, NEW f \in 1..Len(fns), ~Irregular(f)
                PROVE
                  /\ \A a \in ToSet(Build(f)) : a.binding.kind # "Variable" =>
                                    a.slot = Place(f, a.binding)
                  /\ \A a, b \in ToSet(Build(f)) :
                        (a.slot = b.slot) <=> (a.binding = b.binding)
                  /\ Len(fns[f].captures) = Len(OfKind(f, "Capture"))
    BY DEF SlotsRight
  <2>. DEFINE order == Order(f)
              params == Parameters(f)
              n == Len(params)
              own == {b \in Decl(scopes) : b.fn = fns[f].scope}
  <2>1. InOrder(order, n, own)
    BY IsRegular
  <2>2. Len(fns[f].captures) = Len(OfKind(f, "Capture"))
    BY AllCaptures DEF Irregular
  <2>3. \A a \in ToSet(Build(f)) : \E k \in (n + 1)..Len(order) :
             a.binding = order[k] /\ a.slot = GetIdFor(order, k)
    BY BuiltAt
  <2>4. \A j \in 1..n : Place(f, params[j]) = j - 1
    BY PlaceOf
  <2>5. \A i \in 1..n : i \in 1..Len(order) /\ order[i] = params[i]
    BY RegularOrder
  <2>. HIDE DEF order, params, n, own
  <2>6. ASSUME NEW a \in ToSet(Build(f)), a.binding.kind # "Variable"
        PROVE  a.slot = Place(f, a.binding)
    <3>1. PICK k \in (n + 1)..Len(order) :
             a.binding = order[k] /\ a.slot = GetIdFor(order, k)
      BY <2>3
    <3>2. order[k] \in own
      <4>1. Len(order) \in Nat /\ n \in Nat /\ \A i \in 1..Len(order) : order[i] \in own
        BY <2>1, RegularTypes
      <4>. QED
        BY <4>1
    <3>3. PICK j \in 1..n : order[j] = order[k]
      <4>1. \A b \in own : b.kind # "Variable" => \E j \in 1..n : order[j] = b
        BY <2>1, RegularTypes
      <4>. QED
        BY <2>6, <3>1, <3>2, <4>1
    <3>4. GetIdFor(order, k) = j - 1
      BY <2>1, <3>3, ParameterSlot
    <3>. QED
      BY <2>4, <2>5, <3>1, <3>3, <3>4
  <2>7. ASSUME NEW a \in ToSet(Build(f)), NEW b \in ToSet(Build(f))
        PROVE  (a.slot = b.slot) <=> (a.binding = b.binding)
    <3>1. PICK k \in (n + 1)..Len(order) :
             a.binding = order[k] /\ a.slot = GetIdFor(order, k)
      BY <2>3
    <3>2. PICK l \in (n + 1)..Len(order) :
             b.binding = order[l] /\ b.slot = GetIdFor(order, l)
      BY <2>3
    <3>3. (GetIdFor(order, k) = GetIdFor(order, l)) <=> (order[k] = order[l])
      BY <2>1, SameSlot
    <3>. QED
      BY <3>1, <3>2, <3>3
  <2>. QED
    BY <2>2, <2>6, <2>7
<1>. QED
  BY <1>1, AnalysisIsRight, PTL

-----------------------------------------------------------------------------
(* Emission: the labels and the heights of the code of a function body.  In *)
(* order: the invariants; lists of steps; the steps of every form; what     *)
(* choosing a form does to the invariants; what emitting a step does.       *)

Modes == {"LOAD", "STORE", "OBJECT_ONLY"}
Shapes == {"any", "field", "chain", "method"}

\* The mode a shape is emitted in.
ModeOf(shape) ==
    CASE shape = "any" -> {"LOAD"}
      [] shape = "method" -> {"LOAD", "OBJECT_ONLY"}
      [] OTHER -> {"STORE"}

Expressions(n) ==
    {e \in [do : {"expression"}, mode : Modes, context : 0..n,
            chained : BOOLEAN, shape : Shapes] : e.mode \in ModeOf(e.shape)}
Ops == [do : {"op"}, pops : Nat, pushes : Nat]
ToLabels(n) == [do : {"jump", "jump_if", "label"}, label : 1..n]
Stops == [do : {"stop"}]
Blocks(n) == [do : {"block"}, loop : [break : 0..n, continue : 0..n]]
Ghosts == [do : {"leaves"}, from : SUBSET Nat, values : Nat]

\* The steps there are with n labels.
Task(n) == Expressions(n) \cup Ops \cup ToLabels(n) \cup Stops \cup Blocks(n)
             \cup Ghosts

EmissionTypeOK ==
    /\ arrivals \in Seq(SUBSET Nat)
    /\ tasks \in Seq(Task(Len(arrivals)))
    /\ height \in SUBSET Nat
    /\ located \in SUBSET (1..Len(arrivals))

----------------------------------------------------------------------------
(* Labels.                                                                 *)

Places(t, l) == t.do = "label" /\ t.label = l
Never(s, l) == \A i \in 1..Len(s) : ~Places(s[i], l)
Once(s, l) == \E i \in 1..Len(s) :
                /\ Places(s[i], l)
                /\ \A j \in 1..Len(s) : Places(s[j], l) => j = i

\* Steps that use n labels and place more of their own.
Sound(s, n, more) ==
    /\ s \in Seq(Task(n + more))
    /\ \A l \in 1..n : Never(s, l)
    /\ \A l \in (n + 1)..(n + more) : Once(s, l)

LabelsInv ==
    /\ EmissionTypeOK
    /\ \A l \in 1..Len(arrivals) :
            IF l \in located THEN Never(tasks, l) ELSE Once(tasks, l)

----------------------------------------------------------------------------
(* Heights.                                                                *)

\* Step t takes the stack from height h to k; want has the height of each label.
Fits(t, h, k, want) ==
    /\ h \in Nat /\ k \in Nat
    /\ t.do = "expression" =>
        /\ k = h + ValuesOf(t.mode)
        /\ t.context # NoLabel =>
                t.context \in 1..Len(want) /\ want[t.context] = h + 1
    /\ t.do = "op" => h >= t.pops /\ k = (h - t.pops) + t.pushes
    /\ t.do = "jump" => t.label \in 1..Len(want) /\ want[t.label] = h
    /\ t.do = "jump_if" => /\ h = k + 1
                           /\ t.label \in 1..Len(want) /\ want[t.label] = k
    /\ t.do = "label" => /\ h = k
                         /\ t.label \in 1..Len(want) /\ want[t.label] = h
    /\ t.do = "block" =>
        /\ h = 0 /\ k = 0
        /\ \A l \in {t.loop.break, t.loop.continue} \ {NoLabel} :
                l \in 1..Len(want) /\ want[l] = 0
    /\ t.do = "leaves" => h = k /\ \A x \in t.from : h = x + t.values

\* A list of steps takes it from h to k.
Runs(s, h, k, want) ==
    \E at \in Seq(Nat) :
        /\ Len(at) = Len(s) + 1
        /\ at[1] = h /\ at[Len(s) + 1] = k
        /\ \A i \in 1..Len(s) : Fits(s[i], at[i], at[i + 1], want)

Agrees(want, h) ==
    /\ want \in Seq(Nat) /\ Len(want) = Len(arrivals)
    /\ Runs(tasks, h, 0, want)
    /\ height \subseteq {h}
    /\ \A l \in 1..Len(arrivals) : arrivals[l] \subseteq {want[l]}

HeightsInv ==
    unusual = {} => \E want \in Seq(Nat), h \in Nat : Agrees(want, h)

EmissionInv == LabelsInv /\ HeightsInv

----------------------------------------------------------------------------
(* Sequences of steps.                                                     *)

LEMMA HeadAndTail ==
    ASSUME NEW S, NEW s \in Seq(S), s # <<>>
    PROVE  /\ Head(s) \in S /\ Head(s) = s[1] /\ Tail(s) \in Seq(S)
           /\ Len(s) \in Nat \ {0} /\ Len(Tail(s)) = Len(s) - 1
           /\ \A i \in 1..(Len(s) - 1) : Tail(s)[i] = s[i + 1]
<1>1. Len(s) \in Nat \ {0}
  BY EmptySeq
<1>2. Head(s) = s[1]
  OBVIOUS
<1>. QED
  BY <1>1, <1>2, HeadTailProperties

\* More labels do not disturb a step.
LEMMA FitsWithMore ==
    ASSUME NEW t, NEW h, NEW k, NEW want \in Seq(Nat), NEW new \in Seq(Nat),
           Fits(t, h, k, want)
    PROVE  Fits(t, h, k, want \o new)
<1>. DEFINE all == want \o new
            n == Len(want)
            m == Len(all)
<1>1. /\ n \in Nat /\ m \in Nat /\ n <= m /\ all \in Seq(Nat)
      /\ \A l \in 1..n : all[l] = want[l]
  BY ConcatProperties, LenProperties
<1>2. \A l \in 1..n : l \in 1..m
  BY <1>1
<1>. HIDE DEF all, n, m
<1>3. Fits(t, h, k, all)
  BY <1>1, <1>2 DEF Fits, n, m
<1>. QED
  BY <1>3 DEF all

LEMMA RunsWithMore ==
    ASSUME NEW s, NEW h, NEW k, NEW want \in Seq(Nat), NEW new \in Seq(Nat),
           Runs(s, h, k, want)
    PROVE  Runs(s, h, k, want \o new)
  BY FitsWithMore DEF Runs

LEMMA RunsNothing ==
    ASSUME NEW h \in Nat, NEW want
    PROVE  Runs(<<>>, h, h, want)
<1>. DEFINE at == <<h>>
            nothing == <<>>
<1>1. at \in Seq(Nat) /\ Len(at) = 1 /\ at[1] = h /\ Len(nothing) = 0
  OBVIOUS
<1>. HIDE DEF at, nothing
<1>2. Runs(nothing, h, h, want)
  BY <1>1 DEF Runs
<1>. QED
  BY <1>2 DEF nothing

\* Two lists of steps, one after the other.
LEMMA RunsBoth ==
    ASSUME NEW S, NEW s \in Seq(S), NEW t \in Seq(S), NEW want,
           NEW h, NEW k, NEW m, Runs(s, h, k, want), Runs(t, k, m, want)
    PROVE  Runs(s \o t, h, m, want)
<1>1. PICK a \in Seq(Nat) :
        /\ Len(a) = Len(s) + 1 /\ a[1] = h /\ a[Len(s) + 1] = k
        /\ \A i \in 1..Len(s) : Fits(s[i], a[i], a[i + 1], want)
  BY DEF Runs
<1>2. PICK b \in Seq(Nat) :
        /\ Len(b) = Len(t) + 1 /\ b[1] = k /\ b[Len(t) + 1] = m
        /\ \A i \in 1..Len(t) : Fits(t[i], b[i], b[i + 1], want)
  BY DEF Runs
<1>. DEFINE x == Len(s)
            y == Len(t)
            both == s \o t
            at == [i \in 1..(x + y + 1) |-> IF i <= x THEN a[i] ELSE b[i - x]]
<1>3. /\ x \in Nat /\ y \in Nat /\ Len(both) = x + y
      /\ \A i \in 1..(x + y) : both[i] = IF i <= x THEN s[i] ELSE t[i - x]
  BY LenProperties, ConcatProperties
<1>4. /\ \A i \in 1..(x + 1) : a[i] \in Nat
      /\ \A i \in 1..(y + 1) : b[i] \in Nat
  BY <1>1, <1>2, ElementOfSeq
<1>. HIDE DEF x, y, both
<1>5. \A i \in 1..(x + y + 1) :
        i <= x => i \in 1..(x + 1)
  BY <1>3
<1>6. \A i \in 1..(x + y + 1) : ~(i <= x) => i - x \in 1..(y + 1)
  BY <1>3
<1>7. at \in [1..(x + y + 1) -> Nat]
  BY <1>4, <1>5, <1>6
<1>8. at \in Seq(Nat) /\ Len(at) = x + y + 1
  BY <1>3, <1>7
<1>9. /\ \A i \in 1..x : at[i] = a[i]
      /\ \A i \in (x + 1)..(x + y + 1) : at[i] = b[i - x]
  BY <1>3
<1>. HIDE DEF at
<1>10. at[1] = h
  <2>1. CASE x = 0
    BY <1>1, <1>2, <1>3, <1>9, <2>1 DEF x
  <2>2. CASE x # 0
    <3>1. 1 \in 1..x
      BY <1>3, <2>2
    <3>. QED
      BY <1>1, <1>9, <3>1
  <2>. QED
    BY <2>1, <2>2
<1>11. at[x + y + 1] = m
  <2>1. x + y + 1 \in (x + 1)..(x + y + 1) /\ (x + y + 1) - x = y + 1
    BY <1>3
  <2>. QED
    BY <1>2, <1>9, <2>1 DEF y
<1>12. ASSUME NEW i \in 1..(x + y)
       PROVE  Fits(both[i], at[i], at[i + 1], want)
  <2>1. CASE i < x
    <3>1. i \in 1..x /\ i + 1 \in 1..x /\ i <= x
      BY <1>3, <2>1
    <3>. QED
      BY <1>1, <1>3, <1>9, <3>1 DEF x
  <2>2. CASE i = x
    <3>1. i \in 1..x /\ i <= x /\ i + 1 \in (x + 1)..(x + y + 1) /\ (i + 1) - x = 1
      BY <1>3, <2>2
    <3>2. at[i + 1] = a[i + 1]
      BY <1>1, <1>2, <1>9, <2>2, <3>1 DEF x
    <3>. QED
      BY <1>1, <1>3, <1>9, <3>1, <3>2 DEF x
  <2>3. CASE i > x
    <3>1. /\ ~(i <= x) /\ i - x \in 1..y
          /\ i \in (x + 1)..(x + y + 1) /\ i + 1 \in (x + 1)..(x + y + 1)
          /\ (i + 1) - x = (i - x) + 1
      BY <1>3, <2>3
    <3>2. both[i] = t[i - x] /\ at[i] = b[i - x] /\ at[i + 1] = b[(i - x) + 1]
      BY <1>3, <1>9, <3>1
    <3>. QED
      BY <1>2, <3>1, <3>2 DEF y
  <2>. QED
    BY <1>3, <2>1, <2>2, <2>3
<1>13. Runs(both, h, m, want)
  BY <1>3, <1>8, <1>10, <1>11, <1>12 DEF Runs
<1>. QED
  BY <1>13 DEF both

\* One more step in front.
LEMMA RunsFirst ==
    ASSUME NEW S, NEW s \in Seq(S), s # <<>>, NEW want, NEW h, NEW k, NEW m,
           Fits(Head(s), h, k, want), Runs(Tail(s), k, m, want)
    PROVE  Runs(s, h, m, want)
<1>. DEFINE t == Tail(s)
            n == Len(s)
<1>1. /\ Head(s) = s[1] /\ n \in Nat \ {0} /\ Len(t) = n - 1
      /\ \A i \in 1..(n - 1) : t[i] = s[i + 1]
  BY HeadAndTail
<1>. HIDE DEF t, n
<1>2. PICK b \in Seq(Nat) :
        /\ Len(b) = Len(t) + 1 /\ b[1] = k /\ b[Len(t) + 1] = m
        /\ \A i \in 1..Len(t) : Fits(t[i], b[i], b[i + 1], want)
  BY DEF Runs, t
<1>. DEFINE at == [i \in 1..(n + 1) |-> IF i = 1 THEN h ELSE b[i - 1]]
<1>3. h \in Nat /\ \A i \in 1..n : b[i] \in Nat
  BY <1>1, <1>2, ElementOfSeq DEF Fits
<1>4. \A i \in 1..(n + 1) : i # 1 => i - 1 \in 1..n
  BY <1>1
<1>5. at \in [1..(n + 1) -> Nat]
  BY <1>3, <1>4
<1>6. at \in Seq(Nat) /\ Len(at) = n + 1
  BY <1>1, <1>5
<1>7. at[1] = h /\ \A i \in 1..n : at[i + 1] = b[i]
  BY <1>1
<1>. HIDE DEF at
<1>8. at[n + 1] = m
  BY <1>1, <1>2, <1>7
<1>9. ASSUME NEW i \in 1..n
      PROVE  Fits(s[i], at[i], at[i + 1], want)
  <2>1. CASE i = 1
    <3>1. at[i] = h /\ at[i + 1] = k /\ s[i] = Head(s)
      BY <1>1, <1>2, <1>7, <2>1
    <3>. QED
      BY <3>1
  <2>2. CASE i # 1
    <3>1. i - 1 \in 1..(n - 1) /\ i - 1 \in 1..n /\ (i - 1) + 1 = i
      BY <1>1, <2>2
    <3>2. t[i - 1] = s[i] /\ at[i] = b[i - 1] /\ at[i + 1] = b[i]
      BY <1>1, <1>7, <3>1
    <3>. QED
      BY <1>1, <1>2, <3>1, <3>2
  <2>. QED
    BY <2>1, <2>2
<1>. QED
  BY <1>6, <1>7, <1>8, <1>9 DEF Runs, n

\* ... or one less.
LEMMA RunsRest ==
    ASSUME NEW S, NEW s \in Seq(S), s # <<>>, NEW want, NEW h, NEW m,
           Runs(s, h, m, want)
    PROVE  \E k \in Nat : Fits(Head(s), h, k, want) /\ Runs(Tail(s), k, m, want)
<1>. DEFINE t == Tail(s)
            n == Len(s)
<1>1. /\ Head(s) = s[1] /\ n \in Nat \ {0} /\ Len(t) = n - 1
      /\ \A i \in 1..(n - 1) : t[i] = s[i + 1]
  BY HeadAndTail
<1>2. PICK a \in Seq(Nat) :
        /\ Len(a) = n + 1 /\ a[1] = h /\ a[n + 1] = m
        /\ \A i \in 1..n : Fits(s[i], a[i], a[i + 1], want)
  BY DEF Runs
<1>. HIDE DEF t, n
<1>. DEFINE at == Tail(a)
<1>3. a # <<>>
  BY <1>1, <1>2
<1>4. /\ at \in Seq(Nat) /\ Len(at) = n /\ \A i \in 1..n : at[i] = a[i + 1]
  BY <1>1, <1>2, <1>3, HeadAndTail
<1>. HIDE DEF at
<1>5. Fits(Head(s), h, a[2], want) /\ a[2] \in Nat
  <2>1. 1 \in 1..n /\ 1 + 1 = 2
    BY <1>1
  <2>2. Fits(s[1], a[1], a[1 + 1], want)
    BY <1>2, <2>1
  <2>. QED
    BY <1>1, <1>2, <2>1, <2>2 DEF Fits
<1>6. at[1] = a[2] /\ at[n] = m
  BY <1>1, <1>2, <1>4
<1>7. \A i \in 1..(n - 1) : Fits(t[i], at[i], at[i + 1], want)
  <2>. TAKE i \in 1..(n - 1)
  <2>1. i \in 1..n /\ i + 1 \in 1..n
    BY <1>1
  <2>2. Fits(s[i + 1], a[i + 1], a[(i + 1) + 1], want)
    BY <1>2, <2>1
  <2>. QED
    BY <1>1, <1>4, <2>1, <2>2
<1>8. Len(t) + 1 = n
  BY <1>1
<1>9. Runs(t, a[2], m, want)
  BY <1>1, <1>4, <1>6, <1>7, <1>8 DEF Runs
<1>. QED
  BY <1>5, <1>9 DEF t

\* Where a label is placed in two lists ...
LEMMA PlacedInBoth ==
    ASSUME NEW S, NEW s \in Seq(S), NEW t \in Seq(S), NEW l
    PROVE  /\ Never(s, l) /\ Never(t, l) => Never(s \o t, l)
           /\ Once(s, l) /\ Never(t, l) => Once(s \o t, l)
           /\ Never(s, l) /\ Once(t, l) => Once(s \o t, l)
<1>. DEFINE x == Len(s)
            y == Len(t)
            both == s \o t
<1>1. /\ x \in Nat /\ y \in Nat /\ Len(both) = x + y
      /\ \A i \in 1..(x + y) : both[i] = IF i <= x THEN s[i] ELSE t[i - x]
  BY LenProperties, ConcatProperties
<1>. HIDE DEF x, y, both
<1>2. /\ \A i \in 1..x : i \in 1..(x + y) /\ both[i] = s[i]
      /\ \A i \in 1..y : i + x \in 1..(x + y) /\ both[i + x] = t[i]
  <2>1. \A i \in 1..y : i + x \in 1..(x + y) /\ ~(i + x <= x) /\ (i + x) - x = i
    BY <1>1
  <2>. QED
    BY <1>1, <2>1
<1>3. \A i \in 1..(x + y) : i \in 1..x \/ (i - x \in 1..y /\ (i - x) + x = i)
  BY <1>1
<1>4. ASSUME Never(s, l), Never(t, l) PROVE Never(both, l)
  BY <1>1, <1>2, <1>3, <1>4 DEF Never, x, y
<1>5. ASSUME Once(s, l), Never(t, l) PROVE Once(both, l)
  <2>1. PICK i \in 1..x : /\ Places(s[i], l)
                          /\ \A j \in 1..x : Places(s[j], l) => j = i
    BY <1>5 DEF Once, x
  <2>2. \A j \in 1..y : ~Places(t[j], l)
    BY <1>5 DEF Never, y
  <2>3. i \in 1..(x + y) /\ Places(both[i], l)
    BY <1>2, <2>1
  <2>4. \A j \in 1..(x + y) : Places(both[j], l) => j = i
    BY <1>2, <1>3, <2>1, <2>2
  <2>. QED
    BY <1>1, <2>3, <2>4 DEF Once
<1>6. ASSUME Never(s, l), Once(t, l) PROVE Once(both, l)
  <2>1. PICK i \in 1..y : /\ Places(t[i], l)
                          /\ \A j \in 1..y : Places(t[j], l) => j = i
    BY <1>6 DEF Once, y
  <2>2. \A j \in 1..x : ~Places(s[j], l)
    BY <1>6 DEF Never, x
  <2>3. i + x \in 1..(x + y) /\ Places(both[i + x], l)
    BY <1>2, <2>1
  <2>4. \A j \in 1..(x + y) : Places(both[j], l) => j = i + x
    <3>. TAKE j \in 1..(x + y)
    <3>. HAVE Places(both[j], l)
    <3>1. j - x \in 1..y /\ (j - x) + x = j
      BY <1>2, <1>3, <2>2
    <3>2. Places(t[j - x], l)
      BY <1>2, <3>1
    <3>. QED
      BY <2>1, <3>1, <3>2
  <2>. QED
    BY <1>1, <2>3, <2>4 DEF Once
<1>. QED
  BY <1>4, <1>5, <1>6 DEF both

\* ... and in a first step and the rest.
LEMMA PlacedInRest ==
    ASSUME NEW S, NEW s \in Seq(S), s # <<>>, NEW l
    PROVE  /\ Never(s, l) <=> ~Places(Head(s), l) /\ Never(Tail(s), l)
           /\ Once(s, l) <=> \/ Places(Head(s), l) /\ Never(Tail(s), l)
                             \/ ~Places(Head(s), l) /\ Once(Tail(s), l)
<1>. DEFINE t == Tail(s)
            n == Len(s)
<1>1. /\ Head(s) = s[1] /\ n \in Nat \ {0} /\ Len(t) = n - 1
      /\ \A i \in 1..(n - 1) : t[i] = s[i + 1]
  BY HeadAndTail
<1>. HIDE DEF t, n
<1>2. /\ 1 \in 1..n
      /\ \A i \in 1..n : i = 1 \/ (i - 1 \in 1..(n - 1) /\ (i - 1) + 1 = i)
      /\ \A i \in 1..(n - 1) : i + 1 \in 1..n /\ i + 1 # 1
  BY <1>1
<1>3. \A i \in 1..n : i = 1 \/ (i - 1 \in 1..(n - 1) /\ s[i] = t[i - 1])
  BY <1>1, <1>2
<1>4. Never(s, l) <=> ~Places(s[1], l) /\ Never(t, l)
  BY <1>1, <1>2, <1>3 DEF Never, n
<1>5. ASSUME Places(s[1], l)
      PROVE  Once(s, l) <=> Never(t, l)
  <2>1. ASSUME Once(s, l) PROVE Never(t, l)
    <3>1. \A j \in 1..n : Places(s[j], l) => j = 1
      BY <1>2, <1>5, <2>1 DEF Once, n
    <3>. QED
      BY <1>1, <1>2, <3>1 DEF Never
  <2>2. ASSUME Never(t, l) PROVE Once(s, l)
    <3>1. \A j \in 1..n : Places(s[j], l) => j = 1
      BY <1>1, <1>3, <2>2 DEF Never
    <3>. QED
      BY <1>2, <1>5, <3>1 DEF Once, n
  <2>. QED
    BY <2>1, <2>2
<1>6. ASSUME ~Places(s[1], l)
      PROVE  Once(s, l) <=> Once(t, l)
  <2>1. ASSUME Once(s, l) PROVE Once(t, l)
    <3>1. PICK i \in 1..n : /\ Places(s[i], l)
                            /\ \A j \in 1..n : Places(s[j], l) => j = i
      BY <2>1 DEF Once, n
    <3>2. i - 1 \in 1..(n - 1) /\ s[i] = t[i - 1]
      BY <1>3, <1>6, <3>1
    <3>3. \A j \in 1..(n - 1) : Places(t[j], l) => j = i - 1
      <4>. TAKE j \in 1..(n - 1)
      <4>. HAVE Places(t[j], l)
      <4>1. j + 1 = i
        BY <1>1, <1>2, <3>1
      <4>. QED
        BY <4>1
    <3>. QED
      BY <1>1, <3>1, <3>2, <3>3 DEF Once
  <2>2. ASSUME Once(t, l) PROVE Once(s, l)
    <3>1. PICK i \in 1..(n - 1) : /\ Places(t[i], l)
                                  /\ \A j \in 1..(n - 1) : Places(t[j], l) => j = i
      BY <1>1, <2>2 DEF Once
    <3>2. i + 1 \in 1..n /\ Places(s[i + 1], l)
      BY <1>1, <1>2, <3>1
    <3>3. \A j \in 1..n : Places(s[j], l) => j = i + 1
      <4>. TAKE j \in 1..n
      <4>. HAVE Places(s[j], l)
      <4>1. j - 1 \in 1..(n - 1) /\ Places(t[j - 1], l) /\ (j - 1) + 1 = j
        BY <1>2, <1>3, <1>6
      <4>. QED
        BY <3>1, <4>1
    <3>. QED
      BY <3>2, <3>3 DEF Once, n
  <2>. QED
    BY <2>1, <2>2
<1>. QED
  BY <1>1, <1>4, <1>5, <1>6 DEF t

\* Steps stay steps as labels are added.
LEMMA TaskWithMore ==
    ASSUME NEW n \in Nat, NEW more \in Nat
    PROVE  Task(n) \subseteq Task(n + more) /\ Seq(Task(n)) \subseteq Seq(Task(n + more))
<1>1. 0..n \subseteq 0..(n + more) /\ 1..n \subseteq 1..(n + more)
  OBVIOUS
<1>2. /\ Expressions(n) \subseteq Expressions(n + more)
      /\ ToLabels(n) \subseteq ToLabels(n + more)
      /\ Blocks(n) \subseteq Blocks(n + more)
  BY <1>1 DEF Expressions, ToLabels, Blocks
<1>3. Task(n) \subseteq Task(n + more)
  BY <1>2 DEF Task
<1>. QED
  BY <1>3

\* The fields a step has.
LEMMA TaskFields ==
    ASSUME NEW n \in Nat, NEW t \in Task(n)
    PROVE  /\ t.do \in {"expression", "op", "jump", "jump_if", "label", "stop",
                        "block", "leaves"}
           /\ t.do = "expression" => t \in Expressions(n)
           /\ t.do = "op" => t.pops \in Nat /\ t.pushes \in Nat
           /\ t.do \in {"jump", "jump_if", "label"} => t.label \in 1..n
           /\ t.do = "block" => /\ t \in Blocks(n)
                                /\ t.loop.break \in 0..n /\ t.loop.continue \in 0..n
           /\ t.do = "leaves" => t.from \subseteq Nat /\ t.values \in Nat
  BY DEF Task, Expressions, Ops, ToLabels, Stops, Blocks, Ghosts

\* NewLabels counts what the steps place.
LEMMA NewLabelsOf ==
    ASSUME NEW n \in Nat, n = Len(arrivals), NEW more \in Nat,
           NEW s, Sound(s, n, more)
    PROVE  NewLabels(s) = more
<1>. DEFINE jumps == {j \in 1..Len(s) : s[j].do \in {"label", "jump", "jump_if"}}
            used == {s[i].label : i \in jumps}
            own == (n + 1)..(n + more)
<1>1. \A i \in 1..Len(s) : s[i] \in Task(n + more)
  BY ElementOfSeq DEF Sound
<1>2. \A i \in jumps : s[i].label \in 1..(n + more)
  BY <1>1, TaskFields
<1>3. \A l \in own : \E i \in jumps : s[i].label = l
  BY DEF Sound, Once, Places
<1>4. {l \in used : l > Len(arrivals)} = own
  <2>1. \A l \in own : l > n
    OBVIOUS
  <2>2. \A l \in 1..(n + more) : l > n => l \in own
    OBVIOUS
  <2>3. \A l \in own : l \in used
    BY <1>3
  <2>4. \A l \in used : l > n => l \in own
    BY <1>2, <2>2
  <2>. HIDE DEF own, used
  <2>. QED
    BY <2>1, <2>3, <2>4
<1>5. Cardinality(own) = more
  <2>1. Cardinality(own) = IF n + 1 > n + more THEN 0 ELSE (n + more) - (n + 1) + 1
    <3>1. n + 1 \in Int /\ n + more \in Int
      OBVIOUS
    <3>. QED
      BY <3>1, FS_Interval
  <2>. QED
    BY <2>1
<1>. QED
  BY <1>4, <1>5 DEF NewLabels

----------------------------------------------------------------------------
(* The forms.                                                              *)

\* A step that places no label, and a list of them.
Quiet(t, n) == t \in Task(n) /\ t.do # "label"

Moves(s, n, h, k, want) ==
    /\ s \in Seq(Task(n))
    /\ \A l \in 1..n : Never(s, l)
    /\ Runs(s, h, k, want)

LEMMA MovesSound ==
    ASSUME NEW n \in Nat, NEW s, NEW h, NEW k, NEW want, Moves(s, n, h, k, want)
    PROVE  Sound(s, n, 0)
<1>1. n + 0 = n /\ (n + 1)..(n + 0) = {}
  OBVIOUS
<1>. QED
  BY <1>1 DEF Moves, Sound

LEMMA MovesNothing ==
    ASSUME NEW n \in Nat, NEW h \in Nat, NEW want
    PROVE  Moves(<<>>, n, h, h, want)
<1>1. <<>> \in Seq(Task(n)) /\ \A l \in 1..n : Never(<<>>, l)
  BY DEF Never
<1>. QED
  BY <1>1, RunsNothing DEF Moves

LEMMA MovesFirst ==
    ASSUME NEW n \in Nat, NEW s \in Seq(Task(n)), s # <<>>, NEW want,
           NEW h, NEW k, NEW m, Quiet(Head(s), n), Fits(Head(s), h, k, want),
           Moves(Tail(s), n, k, m, want)
    PROVE  Moves(s, n, h, m, want)
<1>1. \A l \in 1..n : ~Places(Head(s), l) /\ Never(Tail(s), l)
  BY DEF Quiet, Places, Moves
<1>2. \A l \in 1..n : Never(s, l)
  BY <1>1, PlacedInRest
<1>3. Runs(s, h, m, want)
  BY RunsFirst DEF Moves
<1>. QED
  BY <1>2, <1>3 DEF Moves

LEMMA MovesBoth ==
    ASSUME NEW n \in Nat, NEW s, NEW t, NEW want, NEW h, NEW k, NEW m,
           Moves(s, n, h, k, want), Moves(t, n, k, m, want)
    PROVE  Moves(s \o t, n, h, m, want)
<1>1. s \in Seq(Task(n)) /\ t \in Seq(Task(n))
  BY DEF Moves
<1>2. s \o t \in Seq(Task(n))
  BY <1>1, ConcatProperties
<1>3. \A l \in 1..n : Never(s \o t, l)
  BY <1>1, PlacedInBoth DEF Moves
<1>4. Runs(s \o t, h, m, want)
  BY <1>1, RunsBoth DEF Moves
<1>. QED
  BY <1>2, <1>3, <1>4 DEF Moves

LEMMA MovesOne ==
    ASSUME NEW n \in Nat, NEW want, NEW a, NEW h, NEW k,
           Quiet(a, n), Fits(a, h, k, want)
    PROVE  Moves(<<a>>, n, h, k, want)
<1>. DEFINE s == <<a>>
            nothing == <<>>
<1>1. s \in Seq(Task(n)) /\ s # nothing /\ Head(s) = a /\ Tail(s) = nothing
  BY DEF Quiet
<1>2. Moves(nothing, n, k, k, want)
  BY MovesNothing DEF Fits
<1>. HIDE DEF s, nothing
<1>3. Moves(s, n, h, k, want)
  BY <1>1, <1>2, MovesFirst DEF nothing
<1>. QED
  BY <1>3 DEF s

LEMMA MovesTwo ==
    ASSUME NEW n \in Nat, NEW want, NEW a, NEW b, NEW h, NEW k, NEW m,
           Quiet(a, n), Fits(a, h, k, want), Quiet(b, n), Fits(b, k, m, want)
    PROVE  Moves(<<a, b>>, n, h, m, want)
<1>. DEFINE s == <<a, b>>
            t == <<b>>
            nothing == <<>>
<1>1. s \in Seq(Task(n)) /\ s # nothing /\ Head(s) = a /\ Tail(s) = t
  BY DEF Quiet
<1>2. Moves(t, n, k, m, want)
  BY MovesOne
<1>. HIDE DEF s, t
<1>3. Moves(s, n, h, m, want)
  BY <1>1, <1>2, MovesFirst
<1>. QED
  BY <1>3 DEF s

LEMMA MovesThree ==
    ASSUME NEW n \in Nat, NEW want, NEW a, NEW b, NEW c,
           NEW h, NEW k, NEW m, NEW o,
           Quiet(a, n), Fits(a, h, k, want), Quiet(b, n), Fits(b, k, m, want),
           Quiet(c, n), Fits(c, m, o, want)
    PROVE  Moves(<<a, b, c>>, n, h, o, want)
<1>. DEFINE s == <<a, b, c>>
            t == <<b, c>>
            nothing == <<>>
<1>1. s \in Seq(Task(n)) /\ s # nothing /\ Head(s) = a /\ Tail(s) = t
  BY DEF Quiet
<1>2. Moves(t, n, k, o, want)
  BY MovesTwo
<1>. HIDE DEF s, t
<1>3. Moves(s, n, h, o, want)
  BY <1>1, <1>2, MovesFirst
<1>. QED
  BY <1>3 DEF s

\* The same step several times.
LEMMA MovesAll ==
    ASSUME NEW n \in Nat, NEW want, NEW h \in Nat, NEW m \in Nat, NEW t,
           Quiet(t, n), \A x \in Nat : Fits(t, x, x + 1, want)
    PROVE  Moves([i \in 1..m |-> t], n, h, h + m, want)
<1>. DEFINE s == [i \in 1..m |-> t]
            at == [i \in 1..(m + 1) |-> (h + i) - 1]
<1>1. /\ s \in Seq(Task(n)) /\ Len(s) = m /\ \A i \in 1..m : s[i] = t
  BY DEF Quiet
<1>2. at \in [1..(m + 1) -> Nat]
  OBVIOUS
<1>3. /\ at \in Seq(Nat) /\ Len(at) = m + 1
      /\ \A i \in 1..(m + 1) : at[i] = (h + i) - 1
  BY <1>2
<1>. HIDE DEF s, at
<1>4. /\ at[1] = h /\ at[m + 1] = h + m
      /\ \A i \in 1..m : at[i] \in Nat /\ at[i + 1] = at[i] + 1
  <2>1. 1 \in 1..(m + 1) /\ m + 1 \in 1..(m + 1)
    OBVIOUS
  <2>2. \A i \in 1..m : i \in 1..(m + 1) /\ i + 1 \in 1..(m + 1)
    OBVIOUS
  <2>3. at[1] = h /\ at[m + 1] = h + m
    BY <1>3, <2>1
  <2>4. \A i \in 1..m : at[i] = (h + i) - 1 /\ at[i + 1] = (h + (i + 1)) - 1
    BY <1>3, <2>2
  <2>5. \A i \in 1..m : (h + i) - 1 \in Nat /\ (h + (i + 1)) - 1 = ((h + i) - 1) + 1
    OBVIOUS
  <2>. QED
    BY <2>3, <2>4, <2>5
<1>5. Runs(s, h, h + m, want)
  BY <1>1, <1>3, <1>4 DEF Runs
<1>6. \A l \in 1..n : Never(s, l)
  BY <1>1 DEF Never, Places, Quiet
<1>7. Moves(s, n, h, h + m, want)
  BY <1>1, <1>5, <1>6 DEF Moves
<1>. QED
  BY <1>7 DEF s

\* What the steps do that the forms are made of.
LEMMA OpMoves ==
    ASSUME NEW n \in Nat, NEW want, NEW h \in Nat, NEW pops \in Nat,
           NEW pushes \in Nat, h >= pops
    PROVE  /\ Quiet(Op(pops, pushes), n)
           /\ Fits(Op(pops, pushes), h, (h - pops) + pushes, want)
<1>1. (h - pops) + pushes \in Nat
  OBVIOUS
<1>. QED
  BY <1>1 DEF Op, Quiet, Fits, Task, Ops

LEMMA SubExpression ==
    ASSUME NEW want \in Seq(Nat), NEW n \in Nat, n = Len(want),
           NEW context \in 0..n, NEW chained \in BOOLEAN, NEW shape \in Shapes,
           NEW mode \in ModeOf(shape)
    PROVE  /\ Quiet(Expr(mode, context, chained, shape), n)
           /\ \A h \in Nat :
                (context # NoLabel => want[context] = h + 1)
                   => Fits(Expr(mode, context, chained, shape),
                           h, h + ValuesOf(mode), want)
<1>1. mode \in Modes /\ ValuesOf(mode) \in Nat
  BY DEF ModeOf, Modes, ValuesOf, Shapes
<1>2. Expr(mode, context, chained, shape) \in Expressions(n)
  BY <1>1 DEF Expr, Expressions
<1>3. context # NoLabel => context \in 1..n
  BY DEF NoLabel
<1>. QED
  BY <1>1, <1>2, <1>3 DEF Expr, Quiet, Fits, Task

LEMMA Basics ==
    ASSUME NEW want \in Seq(Nat), NEW n \in Nat, n = Len(want)
    PROVE  /\ Quiet(E, n) /\ \A h \in Nat : Fits(E, h, h + 1, want)
           /\ Quiet(Push, n) /\ \A h \in Nat : Fits(Push, h, h + 1, want)
<1>1. 0 \in 0..n /\ FALSE \in BOOLEAN /\ "any" \in Shapes /\ "LOAD" \in ModeOf("any")
  BY DEF Shapes, ModeOf
<1>2. Quiet(E, n) /\ \A h \in Nat : Fits(E, h, h + 1, want)
  BY <1>1, SubExpression DEF E, NoLabel, ValuesOf
<1>3. Quiet(Push, n) /\ \A h \in Nat : Fits(Push, h, h + 1, want)
  <2>1. \A h \in Nat : (h - 0) + 1 = h + 1 /\ h >= 0
    OBVIOUS
  <2>2. \A h \in Nat : Quiet(Op(0, 1), n) /\ Fits(Op(0, 1), h, (h - 0) + 1, want)
    BY <2>1, OpMoves
  <2>. QED
    BY <2>1, <2>2 DEF Push
<1>. QED
  BY <1>2, <1>3

LEMMA LabelSteps ==
    ASSUME NEW want \in Seq(Nat), NEW n \in Nat, n = Len(want), NEW l \in 1..n
    PROVE  /\ want[l] \in Nat
           /\ Quiet(JumpIf(l), n) /\ Fits(JumpIf(l), want[l] + 1, want[l], want)
           /\ Quiet(Jump(l), n) /\ \A k \in Nat : Fits(Jump(l), want[l], k, want)
           /\ Label(l) \in Task(n) /\ Fits(Label(l), want[l], want[l], want)
           /\ \A m : Places(Label(l), m) <=> m = l
<1>1. want[l] \in Nat
  BY ElementOfSeq
<1>. DEFINE h == want[l]
<1>2. h \in Nat /\ h + 1 \in Nat /\ h = want[l]
  BY <1>1
<1>. HIDE DEF h
<1>3. /\ Quiet(JumpIf(l), n) /\ Fits(JumpIf(l), h + 1, h, want)
      /\ Quiet(Jump(l), n) /\ \A k \in Nat : Fits(Jump(l), h, k, want)
      /\ Label(l) \in Task(n) /\ Fits(Label(l), h, h, want)
  BY <1>2 DEF Quiet, JumpIf, Jump, Label, Task, ToLabels, Fits
<1>4. \A m : Places(Label(l), m) <=> m = l
  BY DEF Places, Label
<1>. QED
  BY <1>2, <1>3, <1>4

LEMMA StopMoves ==
    ASSUME NEW n \in Nat, NEW want, NEW h \in Nat, NEW k \in Nat
    PROVE  Quiet(Stop, n) /\ Fits(Stop, h, k, want)
  BY DEF Stop, Quiet, Fits, Task, Stops

LEMMA StackDupMoves ==
    ASSUME NEW n \in Nat, NEW want, NEW h \in Nat
    PROVE  Quiet(StackDup, n) /\ Fits(StackDup, h + 1, (h + 1) + 1, want)
<1>1. h + 1 \in Nat /\ h + 1 >= 1 /\ ((h + 1) - 1) + 2 = (h + 1) + 1
  OBVIOUS
<1>2. /\ Quiet(Op(1, 2), n)
      /\ Fits(Op(1, 2), h + 1, ((h + 1) - 1) + 2, want)
  BY <1>1, OpMoves
<1>. QED
  BY <1>1, <1>2 DEF StackDup

\* The forms that are like an operator on values: they leave one.
Values == Primary \cup Binary \cup Prefix \cup Cast \cup ClosureForm
            \cup AssignIdentifier \cup AssignField \cup CallFunction

LEMMA ArgumentsMove ==
    ASSUME NEW want \in Seq(Nat), NEW n \in Nat, n = Len(want), NEW h \in Nat,
           NEW m \in Nat
    PROVE  Moves(Arguments(m), n, h, h + m, want)
<1>1. Quiet(E, n) /\ \A x \in Nat : Fits(E, x, x + 1, want)
  BY Basics
<1>. QED
  BY <1>1, MovesAll DEF Arguments

LEMMA ValuesMove ==
    ASSUME NEW want \in Seq(Nat), NEW n \in Nat, n = Len(want), NEW h \in Nat,
           NEW steps \in Values
    PROVE  Moves(steps, n, h, h + 1, want)
<1>1. /\ Quiet(E, n) /\ \A x \in Nat : Fits(E, x, x + 1, want)
      /\ Quiet(Push, n) /\ \A x \in Nat : Fits(Push, x, x + 1, want)
  BY Basics
<1>2. /\ Fits(E, h, h + 1, want) /\ Fits(E, h + 1, h + 2, want)
      /\ Fits(Push, h, h + 1, want) /\ Fits(Push, h + 1, h + 2, want)
  <2>1. h + 1 \in Nat /\ (h + 1) + 1 = h + 2
    OBVIOUS
  <2>. QED
    BY <1>1, <2>1
<1>3. Quiet(Op(1, 1), n) /\ Fits(Op(1, 1), h + 1, h + 1, want)
  <2>1. h + 1 \in Nat /\ h + 1 >= 1 /\ ((h + 1) - 1) + 1 = h + 1
    OBVIOUS
  <2>2. Quiet(Op(1, 1), n) /\ Fits(Op(1, 1), h + 1, ((h + 1) - 1) + 1, want)
    BY <2>1, OpMoves
  <2>. QED
    BY <2>1, <2>2
<1>4. Quiet(Op(2, 1), n) /\ Fits(Op(2, 1), h + 2, h + 1, want)
  <2>1. h + 2 \in Nat /\ h + 2 >= 2 /\ ((h + 2) - 2) + 1 = h + 1
    OBVIOUS
  <2>2. Quiet(Op(2, 1), n) /\ Fits(Op(2, 1), h + 2, ((h + 2) - 2) + 1, want)
    BY <2>1, OpMoves
  <2>. QED
    BY <2>1, <2>2
<1>5. ASSUME NEW m \in Nat, NEW some, Moves(some, n, h, h + m, want)
      PROVE  Moves(some \o <<Op(m, 1)>>, n, h, h + 1, want)
  <2>1. h + m \in Nat /\ h + m >= m /\ ((h + m) - m) + 1 = h + 1
    OBVIOUS
  <2>2. Quiet(Op(m, 1), n) /\ Fits(Op(m, 1), h + m, ((h + m) - m) + 1, want)
    BY <2>1, OpMoves
  <2>3. Moves(<<Op(m, 1)>>, n, h + m, h + 1, want)
    BY <2>1, <2>2, MovesOne
  <2>. QED
    BY <1>5, <2>3, MovesBoth
<1>6. CASE steps \in Primary \cup Cast
  BY <1>1, <1>2, <1>6, MovesOne DEF Primary, Cast
<1>7. CASE steps \in Binary \cup Prefix
  <2>1. Moves(<<E>>, n, h, h + 1, want)
    BY <1>1, <1>2, MovesOne
  <2>2. Moves(<<E, Op(1, 1)>>, n, h, h + 1, want)
    BY <1>1, <1>2, <1>3, MovesTwo
  <2>3. /\ Moves(<<E, E, Op(2, 1)>>, n, h, h + 1, want)
        /\ Moves(<<E, Push, Op(2, 1)>>, n, h, h + 1, want)
    BY <1>1, <1>2, <1>4, MovesThree
  <2>. QED
    BY <1>7, <2>1, <2>2, <2>3 DEF Binary, Prefix
<1>8. CASE steps \in ClosureForm
  <2>1. PICK m \in 0..1 : steps = [i \in 1..m |-> Push] \o <<Op(m, 1)>>
    BY <1>8 DEF ClosureForm
  <2>2. m \in Nat
    BY <2>1
  <2>3. Moves([i \in 1..m |-> Push], n, h, h + m, want)
    BY <1>1, <2>2, MovesAll
  <2>. QED
    BY <1>5, <2>1, <2>2, <2>3
<1>9. CASE steps \in CallFunction
  <2>1. PICK m \in 0..MaxArguments : steps = Arguments(m) \o <<Op(m, 1)>>
    BY <1>9 DEF CallFunction
  <2>2. m \in Nat
    BY <2>1, BoundsAssumption
  <2>3. Moves(Arguments(m), n, h, h + m, want)
    BY <2>2, ArgumentsMove
  <2>. QED
    BY <1>5, <2>1, <2>2, <2>3
<1>10. CASE steps \in AssignIdentifier
  <2>1. Quiet(StackDup, n) /\ Fits(StackDup, h + 1, (h + 1) + 1, want)
    BY StackDupMoves
  <2>2. Quiet(Op(1, 0), n) /\ Fits(Op(1, 0), (h + 1) + 1, h + 1, want)
    <3>1. /\ (h + 1) + 1 \in Nat /\ (h + 1) + 1 >= 1
          /\ (((h + 1) + 1) - 1) + 0 = h + 1
      OBVIOUS
    <3>2. /\ Quiet(Op(1, 0), n)
          /\ Fits(Op(1, 0), (h + 1) + 1, (((h + 1) + 1) - 1) + 0, want)
      BY <3>1, OpMoves
    <3>. QED
      BY <3>1, <3>2
  <2>3. Moves(<<E, StackDup, Op(1, 0)>>, n, h, h + 1, want)
    BY <1>1, <1>2, <2>1, <2>2, MovesThree
  <2>. QED
    BY <1>10, <2>3 DEF AssignIdentifier
<1>11. CASE steps \in AssignField
  <2>1. PICK shape \in {"field", "chain"} :
            steps = <<Expr("STORE", NoLabel, FALSE, shape), E, Op(3, 1)>>
    BY <1>11 DEF AssignField
  <2>2. /\ 0 \in 0..n /\ FALSE \in BOOLEAN /\ shape \in Shapes
        /\ "STORE" \in ModeOf(shape)
    BY <2>1 DEF Shapes, ModeOf
  <2>3. /\ Quiet(Expr("STORE", NoLabel, FALSE, shape), n)
        /\ Fits(Expr("STORE", NoLabel, FALSE, shape), h, h + 2, want)
    BY <2>2, SubExpression DEF NoLabel, ValuesOf
  <2>4. Fits(E, h + 2, h + 3, want)
    <3>1. h + 2 \in Nat /\ (h + 2) + 1 = h + 3
      OBVIOUS
    <3>. QED
      BY <1>1, <3>1
  <2>5. Quiet(Op(3, 1), n) /\ Fits(Op(3, 1), h + 3, h + 1, want)
    <3>1. h + 3 \in Nat /\ h + 3 >= 3 /\ ((h + 3) - 3) + 1 = h + 1
      OBVIOUS
    <3>2. Quiet(Op(3, 1), n) /\ Fits(Op(3, 1), h + 3, ((h + 3) - 3) + 1, want)
      BY <3>1, OpMoves
    <3>. QED
      BY <3>1, <3>2
  <2>6. Moves(<<Expr("STORE", NoLabel, FALSE, shape), E, Op(3, 1)>>,
              n, h, h + 1, want)
    BY <1>1, <2>3, <2>4, <2>5, MovesThree
  <2>. QED
    BY <2>1, <2>6
<1>. QED
  BY <1>6, <1>7, <1>8, <1>9, <1>10, <1>11 DEF Values

\* The forms of a chain's spine: where they leave one value, it is the one the
\* label of the chain expects.
LEMMA MembersMove ==
    ASSUME NEW want \in Seq(Nat), NEW n \in Nat, n = Len(want), NEW h \in Nat,
           NEW context \in 0..n, NEW chained \in BOOLEAN,
           context # NoLabel => want[context] = h + 1, NEW steps
    PROVE  /\ \A mode \in Modes : steps \in Field(mode, context, chained)
                => Moves(steps, n, h, h + ValuesOf(mode), want)
           /\ \A mode \in {"LOAD", "OBJECT_ONLY"} :
                steps \in Method(mode, context, chained)
                    => Moves(steps, n, h, h + 1, want)
           /\ steps \in ArrayAccess("LOAD", context, chained)
                    => Moves(steps, n, h, h + 1, want)
<1>. DEFINE inner == Expr("LOAD", context, chained, "any")
            nothing == <<>>
<1>1. /\ Quiet(E, n) /\ \A x \in Nat : Fits(E, x, x + 1, want)
      /\ Quiet(Push, n) /\ \A x \in Nat : Fits(Push, x, x + 1, want)
  BY Basics
<1>2. Quiet(inner, n) /\ Fits(inner, h, h + 1, want)
  <2>1. "any" \in Shapes /\ "LOAD" \in ModeOf("any")
    BY DEF Shapes, ModeOf
  <2>. QED
    BY <2>1, SubExpression DEF ValuesOf
<1>3. h + 1 \in Nat /\ h + 2 \in Nat /\ (h + 1) + 1 = h + 2
  OBVIOUS
<1>4. /\ Quiet(Op(1, 1), n) /\ Fits(Op(1, 1), h + 1, h + 1, want)
      /\ Quiet(Op(2, 1), n) /\ Fits(Op(2, 1), h + 2, h + 1, want)
  <2>1. /\ h + 1 >= 1 /\ ((h + 1) - 1) + 1 = h + 1
        /\ h + 2 >= 2 /\ ((h + 2) - 2) + 1 = h + 1
    OBVIOUS
  <2>2. /\ Quiet(Op(1, 1), n) /\ Fits(Op(1, 1), h + 1, ((h + 1) - 1) + 1, want)
        /\ Quiet(Op(2, 1), n) /\ Fits(Op(2, 1), h + 2, ((h + 2) - 2) + 1, want)
    BY <1>3, <2>1, OpMoves
  <2>. QED
    BY <2>1, <2>2
<1>. HIDE DEF inner
<1>5. /\ Moves(<<inner>>, n, h, h + 1, want)
      /\ Moves(<<inner, E>>, n, h, h + 2, want)
      /\ Moves(<<Push>>, n, h + 1, h + 2, want)
      /\ Moves(<<Op(1, 1)>>, n, h + 1, h + 1, want)
      /\ Moves(<<Op(2, 1)>>, n, h + 2, h + 1, want)
      /\ Moves(nothing, n, h + 1, h + 1, want)
      /\ Moves(nothing, n, h + 2, h + 2, want)
  <2>1. Fits(E, h + 1, h + 2, want) /\ Fits(Push, h + 1, h + 2, want)
    BY <1>1, <1>3
  <2>2. /\ Moves(nothing, n, h + 1, h + 1, want)
        /\ Moves(nothing, n, h + 2, h + 2, want)
    BY <1>3, MovesNothing
  <2>3. Moves(<<inner, E>>, n, h, h + 2, want)
    BY <1>1, <1>2, <2>1, MovesTwo
  <2>. QED
    BY <1>1, <1>2, <1>4, <2>1, <2>2, <2>3, MovesOne
<1>. HIDE DEF nothing
<1>6. ASSUME NEW mode \in Modes, steps \in Field(mode, context, chained)
      PROVE  Moves(steps, n, h, h + ValuesOf(mode), want)
  <2>1. steps = (<<inner>> \o (IF mode = "OBJECT_ONLY" THEN nothing ELSE <<Push>>))
                    \o (IF mode = "LOAD" THEN <<Op(2, 1)>> ELSE nothing)
    BY <1>6 DEF Field, inner, nothing
  <2>2. Moves(<<inner>> \o <<Push>>, n, h, h + 2, want)
    BY <1>5, MovesBoth
  <2>3. Moves(<<inner>> \o nothing, n, h, h + 1, want)
    BY <1>5, MovesBoth
  <2>4. CASE mode = "LOAD"
    <3>1. steps = (<<inner>> \o <<Push>>) \o <<Op(2, 1)>> /\ ValuesOf(mode) = 1
      BY <2>1, <2>4 DEF ValuesOf
    <3>. QED
      BY <1>5, <2>2, <3>1, MovesBoth
  <2>5. CASE mode = "STORE"
    <3>1. steps = (<<inner>> \o <<Push>>) \o nothing /\ ValuesOf(mode) = 2
      BY <2>1, <2>5 DEF ValuesOf
    <3>. QED
      BY <1>5, <2>2, <3>1, MovesBoth
  <2>6. CASE mode = "OBJECT_ONLY"
    <3>1. steps = (<<inner>> \o nothing) \o nothing /\ ValuesOf(mode) = 1
      BY <2>1, <2>6 DEF ValuesOf
    <3>. QED
      BY <1>5, <2>3, <3>1, MovesBoth
  <2>. QED
    BY <2>4, <2>5, <2>6 DEF Modes
<1>7. ASSUME NEW mode \in {"LOAD", "OBJECT_ONLY"},
             steps \in Method(mode, context, chained)
      PROVE  Moves(steps, n, h, h + 1, want)
  <2>1. steps = <<inner>> \o nothing \/ steps = <<inner>> \o <<Op(1, 1)>>
    BY <1>7 DEF Method, inner, nothing
  <2>. QED
    BY <1>5, <2>1, MovesBoth
<1>8. ASSUME steps \in ArrayAccess("LOAD", context, chained)
      PROVE  Moves(steps, n, h, h + 1, want)
  <2>1. steps = <<inner, E>> \o <<Op(2, 1)>>
    BY <1>8 DEF ArrayAccess, inner
  <2>. QED
    BY <1>5, <2>1, MovesBoth
<1>. QED
  BY <1>6, <1>7, <1>8

LEMMA CallsMove ==
    ASSUME NEW want \in Seq(Nat), NEW n \in Nat, n = Len(want), NEW h \in Nat,
           NEW context \in 0..n, NEW chained \in BOOLEAN,
           context # NoLabel => want[context] = h + 1,
           NEW steps \in CallMethod(context, chained) \cup CallAnonymous(chained)
                \cup TemplateInstantiation(chained, "any")
                \cup TemplateInstantiation(chained, "method")
    PROVE  Moves(steps, n, h, h + 1, want)
<1>1. /\ {"any", "method"} \subseteq Shapes /\ 0 \in 0..n
      /\ "LOAD" \in ModeOf("any") /\ "LOAD" \in ModeOf("method")
      /\ "OBJECT_ONLY" \in ModeOf("method")
      /\ ValuesOf("LOAD") = 1 /\ ValuesOf("OBJECT_ONLY") = 1
  BY DEF Shapes, ModeOf, ValuesOf
<1>2. CASE steps \in CallMethod(context, chained)
  <2>. DEFINE object == Expr("OBJECT_ONLY", context, chained, "method")
  <2>1. PICK m \in 0..MaxArguments :
            steps = (<<object>> \o Arguments(m)) \o <<Op(m + 1, 1)>>
    BY <1>2 DEF CallMethod
  <2>2. m \in Nat /\ h + 1 \in Nat
    BY BoundsAssumption
  <2>3. Quiet(object, n) /\ Fits(object, h, h + 1, want)
    BY <1>1, SubExpression
  <2>4. Moves(Arguments(m), n, h + 1, (h + 1) + m, want)
    BY <2>2, ArgumentsMove
  <2>5. Moves(<<Op(m + 1, 1)>>, n, (h + 1) + m, h + 1, want)
    <3>1. /\ (h + 1) + m \in Nat /\ m + 1 \in Nat /\ (h + 1) + m >= m + 1
          /\ (((h + 1) + m) - (m + 1)) + 1 = h + 1
      BY <2>2
    <3>2. /\ Quiet(Op(m + 1, 1), n)
          /\ Fits(Op(m + 1, 1), (h + 1) + m, (((h + 1) + m) - (m + 1)) + 1, want)
      BY <3>1, OpMoves
    <3>3. Fits(Op(m + 1, 1), (h + 1) + m, h + 1, want)
      BY <3>1, <3>2
    <3>. QED
      BY <3>2, <3>3, MovesOne
  <2>. HIDE DEF object
  <2>6. Moves(<<object>>, n, h, h + 1, want)
    BY <2>3, MovesOne
  <2>7. Moves(<<object>> \o Arguments(m), n, h, (h + 1) + m, want)
    BY <2>4, <2>6, MovesBoth
  <2>. QED
    BY <2>1, <2>5, <2>7, MovesBoth
<1>3. CASE steps \in CallAnonymous(chained)
  <2>. DEFINE closure == Expr("LOAD", NoLabel, chained, "any")
  <2>1. PICK m \in 0..MaxArguments :
            steps = Arguments(m) \o <<closure, Op(m + 1, 1)>>
    BY <1>3 DEF CallAnonymous
  <2>2. m \in Nat /\ h + m \in Nat
    BY BoundsAssumption
  <2>3. Quiet(closure, n) /\ Fits(closure, h + m, (h + m) + 1, want)
    BY <1>1, <2>2, SubExpression DEF NoLabel
  <2>4. Moves(Arguments(m), n, h, h + m, want)
    BY <2>2, ArgumentsMove
  <2>5. Quiet(Op(m + 1, 1), n) /\ Fits(Op(m + 1, 1), (h + m) + 1, h + 1, want)
    <3>1. /\ (h + m) + 1 \in Nat /\ m + 1 \in Nat /\ (h + m) + 1 >= m + 1
          /\ (((h + m) + 1) - (m + 1)) + 1 = h + 1
      BY <2>2
    <3>2. /\ Quiet(Op(m + 1, 1), n)
          /\ Fits(Op(m + 1, 1), (h + m) + 1, (((h + m) + 1) - (m + 1)) + 1, want)
      BY <3>1, OpMoves
    <3>. QED
      BY <3>1, <3>2
  <2>. HIDE DEF closure
  <2>6. Moves(<<closure, Op(m + 1, 1)>>, n, h + m, h + 1, want)
    BY <2>3, <2>5, MovesTwo
  <2>. QED
    BY <2>1, <2>4, <2>6, MovesBoth
<1>4. ASSUME NEW shape \in {"any", "method"},
             steps \in TemplateInstantiation(chained, shape)
      PROVE  Moves(steps, n, h, h + 1, want)
  <2>. DEFINE inner == Expr("LOAD", NoLabel, chained, shape)
  <2>1. steps = <<inner>>
    BY <1>4 DEF TemplateInstantiation
  <2>2. Quiet(inner, n) /\ Fits(inner, h, h + 1, want)
    BY <1>1, <1>4, SubExpression DEF NoLabel
  <2>. HIDE DEF inner
  <2>. QED
    BY <2>1, <2>2, MovesOne
<1>. QED
  BY <1>2, <1>3, <1>4

\* A tested access of a chain: below the jump lies the value it tests.
LEMMA AccessMoves ==
    ASSUME NEW want \in Seq(Nat), NEW n \in Nat, n = Len(want), NEW h \in Nat,
           NEW context \in 1..n, want[context] = h + 1,
           NEW steps \in OptionalAccess("LOAD", context)
    PROVE  Moves(steps, n, h, h + 1, want)
<1>. DEFINE access == Expr("LOAD", context, TRUE, "any")
            rest == <<StackDup, Op(1, 1), JumpIf(context)>>
            nothing == <<>>
<1>1. /\ Quiet(access, n) /\ Fits(access, h, h + 1, want)
  <2>1. /\ "any" \in Shapes /\ "LOAD" \in ModeOf("any") /\ TRUE \in BOOLEAN
        /\ context \in 0..n /\ ValuesOf("LOAD") = 1
    BY DEF Shapes, ModeOf, ValuesOf
  <2>. QED
    BY <2>1, SubExpression
<1>2. Quiet(StackDup, n) /\ Fits(StackDup, h + 1, (h + 1) + 1, want)
  BY StackDupMoves
<1>3. Quiet(Op(1, 1), n) /\ Fits(Op(1, 1), (h + 1) + 1, (h + 1) + 1, want)
  <2>1. /\ (h + 1) + 1 \in Nat /\ (h + 1) + 1 >= 1
        /\ (((h + 1) + 1) - 1) + 1 = (h + 1) + 1
    OBVIOUS
  <2>2. /\ Quiet(Op(1, 1), n)
        /\ Fits(Op(1, 1), (h + 1) + 1, (((h + 1) + 1) - 1) + 1, want)
    BY <2>1, OpMoves
  <2>. QED
    BY <2>1, <2>2
<1>4. Quiet(JumpIf(context), n) /\ Fits(JumpIf(context), (h + 1) + 1, h + 1, want)
  <2>1. /\ Quiet(JumpIf(context), n)
        /\ Fits(JumpIf(context), want[context] + 1, want[context], want)
    BY LabelSteps
  <2>. QED
    BY <2>1
<1>. HIDE DEF access
<1>5. Moves(rest, n, h + 1, h + 1, want)
  BY <1>2, <1>3, <1>4, MovesThree
<1>6. /\ steps = <<access, StackDup, Op(1, 1), JumpIf(context)>>
      /\ steps \in Seq(Task(n)) /\ Head(steps) = access /\ Tail(steps) = rest
      /\ steps # nothing
  <2>1. steps = <<access, StackDup, Op(1, 1), JumpIf(context)>>
    BY DEF OptionalAccess, access
  <2>2. /\ access \in Task(n) /\ StackDup \in Task(n) /\ Op(1, 1) \in Task(n)
        /\ JumpIf(context) \in Task(n)
    BY <1>1, <1>2, <1>3, <1>4 DEF Quiet
  <2>. QED
    BY <2>1, <2>2
<1>. HIDE DEF rest
<1>. QED
  BY <1>1, <1>5, <1>6, MovesFirst

\* Seven steps in a row, and where two of them are labels.
LEMMA SevenRun ==
    ASSUME NEW want, NEW a, NEW b, NEW c, NEW d, NEW e, NEW f, NEW g,
           NEW h0, NEW h1, NEW h2, NEW h3, NEW h4, NEW h5, NEW h6, NEW h7,
           Fits(a, h0, h1, want), Fits(b, h1, h2, want), Fits(c, h2, h3, want),
           Fits(d, h3, h4, want), Fits(e, h4, h5, want), Fits(f, h5, h6, want),
           Fits(g, h6, h7, want)
    PROVE  Runs(<<a, b, c, d, e, f, g>>, h0, h7, want)
<1>. DEFINE s == <<a, b, c, d, e, f, g>>
            at == <<h0, h1, h2, h3, h4, h5, h6, h7>>
<1>1. /\ Len(s) = 7 /\ s[1] = a /\ s[2] = b /\ s[3] = c /\ s[4] = d /\ s[5] = e
      /\ s[6] = f /\ s[7] = g
  OBVIOUS
<1>2. /\ h0 \in Nat /\ h1 \in Nat /\ h2 \in Nat /\ h3 \in Nat /\ h4 \in Nat
      /\ h5 \in Nat /\ h6 \in Nat /\ h7 \in Nat
  BY DEF Fits
<1>3. /\ at \in Seq(Nat) /\ Len(at) = 8 /\ at[1] = h0 /\ at[2] = h1 /\ at[3] = h2
      /\ at[4] = h3 /\ at[5] = h4 /\ at[6] = h5 /\ at[7] = h6 /\ at[8] = h7
  BY <1>2
<1>. HIDE DEF s, at
<1>4. \A i \in 1..7 : i = 1 \/ i = 2 \/ i = 3 \/ i = 4 \/ i = 5 \/ i = 6 \/ i = 7
  OBVIOUS
<1>5. /\ Fits(s[1], at[1], at[2], want) /\ Fits(s[2], at[2], at[3], want)
      /\ Fits(s[3], at[3], at[4], want) /\ Fits(s[4], at[4], at[5], want)
      /\ Fits(s[5], at[5], at[6], want) /\ Fits(s[6], at[6], at[7], want)
      /\ Fits(s[7], at[7], at[8], want)
  BY <1>1, <1>3
<1>6. \A i \in 1..7 : Fits(s[i], at[i], at[i + 1], want)
  <2>1. 1 + 1 = 2 /\ 2 + 1 = 3 /\ 3 + 1 = 4 /\ 4 + 1 = 5 /\ 5 + 1 = 6 /\ 6 + 1 = 7
        /\ 7 + 1 = 8
    OBVIOUS
  <2>. QED
    BY <1>4, <1>5, <2>1
<1>7. /\ Len(at) = Len(s) + 1 /\ at[Len(s) + 1] = h7
      /\ \A i \in 1..Len(s) : Fits(s[i], at[i], at[i + 1], want)
  BY <1>1, <1>3, <1>6
<1>8. Runs(s, h0, h7, want)
  BY <1>3, <1>7 DEF Runs
<1>. QED
  BY <1>8 DEF s

LEMMA SixRun ==
    ASSUME NEW want, NEW a, NEW b, NEW c, NEW d, NEW e, NEW f,
           NEW h0, NEW h1, NEW h2, NEW h3, NEW h4, NEW h5, NEW h6,
           Fits(a, h0, h1, want), Fits(b, h1, h2, want), Fits(c, h2, h3, want),
           Fits(d, h3, h4, want), Fits(e, h4, h5, want), Fits(f, h5, h6, want)
    PROVE  Runs(<<a, b, c, d, e, f>>, h0, h6, want)
<1>. DEFINE s == <<a, b, c, d, e, f>>
            at == <<h0, h1, h2, h3, h4, h5, h6>>
<1>1. /\ Len(s) = 6 /\ s[1] = a /\ s[2] = b /\ s[3] = c /\ s[4] = d /\ s[5] = e
      /\ s[6] = f
  OBVIOUS
<1>2. /\ h0 \in Nat /\ h1 \in Nat /\ h2 \in Nat /\ h3 \in Nat /\ h4 \in Nat
      /\ h5 \in Nat /\ h6 \in Nat
  BY DEF Fits
<1>3. /\ at \in Seq(Nat) /\ Len(at) = 7 /\ at[1] = h0 /\ at[2] = h1 /\ at[3] = h2
      /\ at[4] = h3 /\ at[5] = h4 /\ at[6] = h5 /\ at[7] = h6
  BY <1>2
<1>. HIDE DEF s, at
<1>4. \A i \in 1..6 : i = 1 \/ i = 2 \/ i = 3 \/ i = 4 \/ i = 5 \/ i = 6
  OBVIOUS
<1>5. /\ Fits(s[1], at[1], at[2], want) /\ Fits(s[2], at[2], at[3], want)
      /\ Fits(s[3], at[3], at[4], want) /\ Fits(s[4], at[4], at[5], want)
      /\ Fits(s[5], at[5], at[6], want) /\ Fits(s[6], at[6], at[7], want)
  BY <1>1, <1>3
<1>6. \A i \in 1..6 : Fits(s[i], at[i], at[i + 1], want)
  <2>1. 1 + 1 = 2 /\ 2 + 1 = 3 /\ 3 + 1 = 4 /\ 4 + 1 = 5 /\ 5 + 1 = 6 /\ 6 + 1 = 7
    OBVIOUS
  <2>. QED
    BY <1>4, <1>5, <2>1
<1>7. /\ Len(at) = Len(s) + 1 /\ at[Len(s) + 1] = h6
      /\ \A i \in 1..Len(s) : Fits(s[i], at[i], at[i + 1], want)
  BY <1>1, <1>3, <1>6
<1>8. Runs(s, h0, h6, want)
  BY <1>3, <1>7 DEF Runs
<1>. QED
  BY <1>8 DEF s

LEMMA TwoLabelsSound ==
    ASSUME NEW n \in Nat, NEW s \in Seq(Task(n + 2)), NEW i \in 1..Len(s),
           NEW j \in 1..Len(s), i # j, s[i] = Label(n + 1), s[j] = Label(n + 2),
           \A k \in 1..Len(s) : k = i \/ k = j \/ s[k].do # "label"
    PROVE  Sound(s, n, 2)
<1>1. \A l : \A k \in 1..Len(s) :
        Places(s[k], l) <=> \/ k = i /\ l = n + 1
                            \/ k = j /\ l = n + 2
  BY DEF Places, Label
<1>2. \A l \in 1..n : l # n + 1 /\ l # n + 2
  OBVIOUS
<1>3. \A l \in (n + 1)..(n + 2) : l = n + 1 \/ l = n + 2
  OBVIOUS
<1>4. n + 1 # n + 2
  OBVIOUS
<1>5. Once(s, n + 1) /\ Once(s, n + 2)
  BY <1>1, <1>4 DEF Once
<1>6. \A l \in 1..n : Never(s, l)
  BY <1>1, <1>2 DEF Never
<1>. QED
  BY <1>3, <1>5, <1>6 DEF Sound

LEMMA OneLabelSound ==
    ASSUME NEW n \in Nat, NEW s \in Seq(Task(n + 1)), NEW i \in 1..Len(s),
           s[i] = Label(n + 1),
           \A k \in 1..Len(s) : k = i \/ s[k].do # "label"
    PROVE  Sound(s, n, 1)
<1>1. \A l : \A k \in 1..Len(s) : Places(s[k], l) <=> k = i /\ l = n + 1
  BY DEF Places, Label
<1>2. \A l \in 1..n : l # n + 1
  OBVIOUS
<1>3. \A l \in (n + 1)..(n + 1) : l = n + 1
  OBVIOUS
<1>4. Once(s, n + 1)
  BY <1>1 DEF Once
<1>5. \A l \in 1..n : Never(s, l)
  BY <1>1, <1>2 DEF Never
<1>. QED
  BY <1>3, <1>4, <1>5 DEF Sound

\* Five steps with two labels among them, as a choice has them.
LEMMA ChoiceSound ==
    ASSUME NEW n \in Nat, NEW a, NEW b, NEW c, NEW d, NEW f,
           Quiet(a, n + 2), Quiet(b, n + 2), Quiet(c, n + 2), Quiet(d, n + 2),
           Quiet(f, n + 2)
    PROVE  Sound(<<a, b, c, d, Label(n + 1), f, Label(n + 2)>>, n, 2)
<1>. DEFINE x == Label(n + 1)
            y == Label(n + 2)
            s == <<a, b, c, d, x, f, y>>
<1>1. x \in Task(n + 2) /\ y \in Task(n + 2)
  <2>1. n + 1 \in 1..(n + 2) /\ n + 2 \in 1..(n + 2)
    OBVIOUS
  <2>. QED
    BY <2>1 DEF Label, Task, ToLabels
<1>. HIDE DEF x, y
<1>2. /\ s \in Seq(Task(n + 2)) /\ Len(s) = 7 /\ s[1] = a /\ s[2] = b /\ s[3] = c
      /\ s[4] = d /\ s[5] = x /\ s[6] = f /\ s[7] = y
  BY <1>1 DEF Quiet
<1>. HIDE DEF s
<1>3. \A k \in 1..7 : k = 1 \/ k = 2 \/ k = 3 \/ k = 4 \/ k = 5 \/ k = 6 \/ k = 7
  OBVIOUS
<1>4. \A k \in 1..Len(s) : k = 5 \/ k = 7 \/ s[k].do # "label"
  BY <1>2, <1>3 DEF Quiet
<1>5. 5 \in 1..Len(s) /\ 7 \in 1..Len(s) /\ s[5] = Label(n + 1) /\ s[7] = Label(n + 2)
  BY <1>2 DEF x, y
<1>6. Sound(s, n, 2)
  <2>1. 5 # 7
    OBVIOUS
  <2>. QED
    BY <1>2, <1>4, <1>5, <2>1, TwoLabelsSound
<1>. QED
  BY <1>6 DEF s, x, y

\* The heights of new labels.
LEMMA MoreHeights ==
    ASSUME NEW want \in Seq(Nat), NEW n \in Nat, n = Len(want),
           NEW x \in Nat, NEW y \in Nat
    PROVE  /\ want \o <<x, y>> \in Seq(Nat) /\ Len(want \o <<x, y>>) = n + 2
           /\ (want \o <<x, y>>)[n + 1] = x /\ (want \o <<x, y>>)[n + 2] = y
           /\ want \o <<x>> \in Seq(Nat) /\ Len(want \o <<x>>) = n + 1
           /\ (want \o <<x>>)[n + 1] = x
           /\ <<x, y>> \in Seq(Nat) /\ <<x>> \in Seq(Nat)
           /\ Len(<<x, y>>) = 2 /\ Len(<<x>>) = 1
<1>. DEFINE two == <<x, y>>
            one == <<x>>
<1>1. /\ two \in Seq(Nat) /\ Len(two) = 2 /\ two[1] = x /\ two[2] = y
      /\ one \in Seq(Nat) /\ Len(one) = 1 /\ one[1] = x
  OBVIOUS
<1>. HIDE DEF two, one
<1>2. /\ n + 1 \in 1..(n + 2) /\ n + 2 \in 1..(n + 2) /\ n + 1 \in 1..(n + 1)
      /\ (n + 1) - n = 1 /\ (n + 2) - n = 2 /\ ~(n + 1 <= n) /\ ~(n + 2 <= n)
  OBVIOUS
<1>3. /\ want \o two \in Seq(Nat) /\ Len(want \o two) = n + 2
      /\ \A i \in 1..(n + 2) : (want \o two)[i] = IF i <= n THEN want[i] ELSE two[i - n]
  <2>1. /\ want \o two \in Seq(Nat) /\ Len(want \o two) = Len(want) + Len(two)
        /\ \A i \in 1..(Len(want) + Len(two)) :
              (want \o two)[i] = IF i <= Len(want) THEN want[i] ELSE two[i - Len(want)]
    BY <1>1, ConcatProperties
  <2>. QED
    BY <1>1, <2>1
<1>4. /\ want \o one \in Seq(Nat) /\ Len(want \o one) = n + 1
      /\ \A i \in 1..(n + 1) : (want \o one)[i] = IF i <= n THEN want[i] ELSE one[i - n]
  <2>1. /\ want \o one \in Seq(Nat) /\ Len(want \o one) = Len(want) + Len(one)
        /\ \A i \in 1..(Len(want) + Len(one)) :
              (want \o one)[i] = IF i <= Len(want) THEN want[i] ELSE one[i - Len(want)]
    BY <1>1, ConcatProperties
  <2>. QED
    BY <1>1, <2>1
<1>5. /\ (want \o two)[n + 1] = x /\ (want \o two)[n + 2] = y
      /\ (want \o one)[n + 1] = x
  BY <1>1, <1>2, <1>3, <1>4
<1>. QED
  BY <1>1, <1>3, <1>4, <1>5 DEF two, one

\* and, or: both paths leave a value.
LEMMA LogicForm ==
    ASSUME NEW n \in Nat, n = Len(arrivals), NEW want \in Seq(Nat), Len(want) = n,
           NEW h \in Nat, NEW steps \in Logic
    PROVE  \E new \in Seq(Nat) : /\ Sound(steps, n, Len(new))
                                 /\ Runs(steps, h, h + 1, want \o new)
<1>. DEFINE new == <<h, h + 1>>
            all == want \o new
            f == n + 1
            o == n + 2
            m == n + 2
<1>1. /\ Fresh = f /\ Other = o
  BY DEF Fresh, Other
<1>2. steps = <<E, JumpIf(f), E, Jump(o), Label(f), Push, Label(o)>>
  BY <1>1 DEF Logic
<1>3. h + 1 \in Nat /\ m \in Nat /\ f \in 1..m /\ o \in 1..m
  OBVIOUS
<1>4. /\ all \in Seq(Nat) /\ Len(all) = m /\ all[f] = h /\ all[o] = h + 1
      /\ new \in Seq(Nat) /\ Len(new) = 2
  BY <1>3, MoreHeights
<1>. HIDE DEF all, new
<1>5. /\ Quiet(E, m) /\ \A x \in Nat : Fits(E, x, x + 1, all)
      /\ Quiet(Push, m) /\ \A x \in Nat : Fits(Push, x, x + 1, all)
  BY <1>3, <1>4, Basics
<1>6. /\ Quiet(JumpIf(f), m) /\ Fits(JumpIf(f), h + 1, h, all)
      /\ Fits(Label(f), h, h, all)
  <2>1. /\ Quiet(JumpIf(f), m) /\ Fits(JumpIf(f), all[f] + 1, all[f], all)
        /\ Fits(Label(f), all[f], all[f], all)
    <3>. HIDE DEF f, o, m
    <3>. QED
      BY <1>3, <1>4, LabelSteps
  <2>. QED
    BY <1>4, <2>1
<1>7. /\ Quiet(Jump(o), m) /\ Fits(Jump(o), h + 1, h, all)
      /\ Fits(Label(o), h + 1, h + 1, all)
  <2>1. /\ Quiet(Jump(o), m) /\ \A k \in Nat : Fits(Jump(o), all[o], k, all)
        /\ Fits(Label(o), all[o], all[o], all)
    <3>. HIDE DEF f, o, m
    <3>. QED
      BY <1>3, <1>4, LabelSteps
  <2>. QED
    BY <1>4, <2>1
<1>8. /\ Fits(E, h, h + 1, all) /\ Fits(Push, h, h + 1, all)
  BY <1>5
<1>9. Runs(steps, h, h + 1, all)
  BY <1>2, <1>6, <1>7, <1>8, SevenRun
<1>10. Sound(steps, n, 2)
  BY <1>2, <1>5, <1>6, <1>7, ChoiceSound
<1>. QED
  BY <1>4, <1>9, <1>10 DEF all

\* An optional chain for its value: a Nil found on the way is that value.
LEMMA ChainForm ==
    ASSUME NEW n \in Nat, n = Len(arrivals), NEW want \in Seq(Nat), Len(want) = n,
           NEW h \in Nat, NEW steps \in OptionalChain("LOAD", "any")
    PROVE  \E new \in Seq(Nat) : /\ Sound(steps, n, Len(new))
                                 /\ Runs(steps, h, h + 1, want \o new)
<1>. DEFINE new == <<h + 1>>
            all == want \o new
            f == n + 1
            inner == Expr("LOAD", f, TRUE, "any")
            nothing == <<>>
<1>1. steps = <<inner, Label(f)>>
  BY DEF OptionalChain, Fresh
<1>2. h + 1 \in Nat /\ f \in Nat /\ f \in 1..f /\ f \in 0..f
  OBVIOUS
<1>3. /\ all \in Seq(Nat) /\ Len(all) = f /\ all[f] = h + 1
      /\ new \in Seq(Nat) /\ Len(new) = 1
  BY <1>2, MoreHeights
<1>. HIDE DEF all, new
<1>4. Quiet(inner, f) /\ Fits(inner, h, h + 1, all)
  <2>1. /\ "any" \in Shapes /\ "LOAD" \in ModeOf("any") /\ TRUE \in BOOLEAN
        /\ ValuesOf("LOAD") = 1
    BY DEF Shapes, ModeOf, ValuesOf
  <2>. QED
    BY <1>2, <1>3, <2>1, SubExpression
<1>5. Label(f) \in Task(f) /\ Fits(Label(f), h + 1, h + 1, all)
  <2>1. Label(f) \in Task(f) /\ Fits(Label(f), all[f], all[f], all)
    BY <1>2, <1>3, LabelSteps
  <2>. QED
    BY <1>3, <2>1
<1>. DEFINE label == Label(f)
            last == <<label>>
<1>6. Fits(label, h + 1, h + 1, all) /\ label \in Task(f) /\ label = Label(n + 1)
  BY <1>5
<1>. HIDE DEF inner, label
<1>7. /\ steps \in Seq(Task(f)) /\ Head(steps) = inner /\ Tail(steps) = last
      /\ steps # nothing /\ Len(steps) = 2 /\ steps[1] = inner /\ steps[2] = label
      /\ last \in Seq(Task(f)) /\ Head(last) = label /\ Tail(last) = nothing
      /\ last # nothing
  BY <1>1, <1>4, <1>6 DEF Quiet, label
<1>8. Runs(steps, h, h + 1, all)
  <2>1. Runs(nothing, h + 1, h + 1, all)
    BY <1>2, RunsNothing
  <2>2. Runs(last, h + 1, h + 1, all)
    <3>. HIDE DEF last, nothing
    <3>. QED
      BY <1>6, <1>7, <2>1, RunsFirst DEF nothing
  <2>. HIDE DEF last
  <2>. QED
    BY <1>4, <1>7, <2>2, RunsFirst
<1>9. Sound(steps, n, 1)
  <2>1. 2 \in 1..Len(steps) /\ \A k \in 1..Len(steps) : k = 1 \/ k = 2
    BY <1>7
  <2>2. \A k \in 1..Len(steps) : k = 2 \/ steps[k].do # "label"
    BY <1>4, <1>7, <2>1 DEF Quiet
  <2>. HIDE DEF last
  <2>. QED
    BY <1>6, <1>7, <2>1, <2>2, OneLabelSound
<1>. QED
  BY <1>3, <1>8, <1>9 DEF all

\* Every regular form leaves what its mode asks for.
LEMMA RegularForms ==
    ASSUME NEW n \in Nat, n = Len(arrivals), NEW want \in Seq(Nat), Len(want) = n,
           NEW e \in Expressions(n), NEW h \in Nat,
           Fits(e, h, h + ValuesOf(e.mode), want), NEW steps \in Regular(e)
    PROVE  \E new \in Seq(Nat) :
                /\ Sound(steps, n, Len(new))
                /\ Runs(steps, h, h + ValuesOf(e.mode), want \o new)
<1>1. /\ e.mode \in Modes /\ e.context \in 0..n /\ e.chained \in BOOLEAN
      /\ e.shape \in Shapes /\ e.mode \in ModeOf(e.shape) /\ e.do = "expression"
  BY DEF Expressions
<1>2. e.context # NoLabel => want[e.context] = h + 1
  BY <1>1 DEF Fits
<1>3. ASSUME Moves(steps, n, h, h + ValuesOf(e.mode), want)
      PROVE  \E new \in Seq(Nat) :
                /\ Sound(steps, n, Len(new))
                /\ Runs(steps, h, h + ValuesOf(e.mode), want \o new)
  <2>. DEFINE nothing == <<>>
  <2>1. nothing \in Seq(Nat) /\ Len(nothing) = 0 /\ want \o nothing = want
    BY ConcatEmptySeq
  <2>2. Sound(steps, n, 0) /\ Runs(steps, h, h + ValuesOf(e.mode), want)
    BY <1>3, MovesSound DEF Moves
  <2>. HIDE DEF nothing
  <2>. QED
    BY <2>1, <2>2
<1>4. CASE e.shape = "any"
  <2>1. e.mode = "LOAD" /\ ValuesOf(e.mode) = 1
    BY <1>1, <1>4 DEF ModeOf, ValuesOf
  <2>2. \/ steps \in Values \/ steps \in Logic \/ steps \in OptionalChain("LOAD", "any")
        \/ steps \in Field("LOAD", e.context, e.chained)
        \/ steps \in Method("LOAD", e.context, e.chained)
        \/ steps \in ArrayAccess("LOAD", e.context, e.chained)
        \/ steps \in CallMethod(e.context, e.chained) \cup CallAnonymous(e.chained)
                \cup TemplateInstantiation(e.chained, "any")
                \cup TemplateInstantiation(e.chained, "method")
    BY <1>4, <2>1 DEF Regular, Postfix, Values
  <2>3. CASE steps \in Values
    BY <1>3, <2>1, <2>3, ValuesMove
  <2>4. CASE steps \in Logic
    BY <2>1, <2>4, LogicForm
  <2>5. CASE steps \in OptionalChain("LOAD", "any")
    BY <2>1, <2>5, ChainForm
  <2>6. CASE \/ steps \in Field("LOAD", e.context, e.chained)
             \/ steps \in Method("LOAD", e.context, e.chained)
             \/ steps \in ArrayAccess("LOAD", e.context, e.chained)
    BY <1>1, <1>2, <1>3, <2>1, <2>6, MembersMove
  <2>7. CASE steps \in CallMethod(e.context, e.chained) \cup CallAnonymous(e.chained)
                \cup TemplateInstantiation(e.chained, "any")
                \cup TemplateInstantiation(e.chained, "method")
    BY <1>1, <1>2, <1>3, <2>1, <2>7, CallsMove
  <2>. QED
    BY <2>2, <2>3, <2>4, <2>5, <2>6, <2>7
<1>5. CASE e.shape = "field"
  <2>1. steps \in Field(e.mode, e.context, e.chained)
    BY <1>5 DEF Regular
  <2>. QED
    BY <1>1, <1>2, <1>3, <2>1, MembersMove
<1>6. CASE e.shape = "chain"
  BY <1>6 DEF Regular
<1>7. CASE e.shape = "method"
  <2>1. /\ e.mode \in {"LOAD", "OBJECT_ONLY"} /\ ValuesOf(e.mode) = 1
        /\ \/ steps \in Method(e.mode, e.context, e.chained)
           \/ steps \in TemplateInstantiation(e.chained, "method")
    BY <1>1, <1>7 DEF ModeOf, ValuesOf, Regular
  <2>2. CASE steps \in Method(e.mode, e.context, e.chained)
    BY <1>1, <1>2, <1>3, <2>1, <2>2, MembersMove
  <2>3. CASE steps \in TemplateInstantiation(e.chained, "method")
    BY <1>1, <1>2, <1>3, <2>1, <2>3, CallsMove
  <2>. QED
    BY <2>1, <2>2, <2>3
<1>. QED
  BY <1>1, <1>4, <1>5, <1>6, <1>7 DEF Shapes

\* The other forms place their labels as well.
LEMMA UnevenForms ==
    ASSUME NEW n \in Nat, n = Len(arrivals), NEW e \in Expressions(n),
           NEW u \in Uneven(e)
    PROVE  \E more \in Nat : Sound(u.steps, n, more)
<1>. DEFINE f == n + 1
            label == Label(f)
<1>1. e.shape \in Shapes
  BY DEF Expressions
<1>2. f \in Nat /\ f \in 1..f /\ f \in 0..f
  OBVIOUS
<1>3. label \in Task(f) /\ JumpIf(f) \in Task(f) /\ JumpIf(f).do # "label"
  BY <1>2 DEF Label, JumpIf, Task, ToLabels
<1>4. /\ E \in Task(f) /\ E.do # "label" /\ StackDup \in Task(f)
      /\ StackDup.do # "label" /\ Op(1, 1) \in Task(f) /\ Op(1, 1).do # "label"
  <2>1. 0 \in 0..f /\ FALSE \in BOOLEAN
    BY <1>2
  <2>2. E \in Expressions(f) /\ E.do # "label"
    BY <2>1 DEF E, Expr, NoLabel, Expressions, Modes, Shapes, ModeOf
  <2>3. Op(1, 2) \in Ops /\ Op(1, 1) \in Ops /\ Op(1, 2).do # "label"
        /\ Op(1, 1).do # "label"
    BY DEF Op, Ops
  <2>. QED
    BY <2>2, <2>3 DEF Task, StackDup
<1>5. CASE e.shape = "any"
  <2>. DEFINE s == <<E, StackDup, Op(1, 1), JumpIf(f), E, label>>
  <2>1. u.steps = s
    BY <1>5 DEF Uneven, NilCoalescing, Fresh
  <2>. HIDE DEF label
  <2>2. /\ s \in Seq(Task(f)) /\ Len(s) = 6 /\ s[1] = E /\ s[2] = StackDup
        /\ s[3] = Op(1, 1) /\ s[4] = JumpIf(f) /\ s[5] = E /\ s[6] = label
    BY <1>3, <1>4
  <2>. HIDE DEF s
  <2>3. \A k \in 1..6 : k = 1 \/ k = 2 \/ k = 3 \/ k = 4 \/ k = 5 \/ k = 6
    OBVIOUS
  <2>4. \A k \in 1..Len(s) : k = 6 \/ s[k].do # "label"
    BY <1>3, <1>4, <2>2, <2>3
  <2>5. 6 \in 1..Len(s) /\ s[6] = Label(n + 1)
    BY <2>2 DEF label
  <2>6. Sound(s, n, 1)
    BY <2>2, <2>4, <2>5, OneLabelSound
  <2>. QED
    BY <2>1, <2>6
<1>6. CASE e.shape = "chain"
  <2>. DEFINE inner == Expr("STORE", f, TRUE, "field")
              s == <<inner, label>>
  <2>1. u.steps = s
    <3>1. OptionalChain("STORE", "field") = {s}
      BY DEF OptionalChain, Fresh
    <3>. HIDE DEF s
    <3>. QED
      BY <1>6, <3>1 DEF Uneven
  <2>2. inner \in Task(f) /\ inner.do # "label"
    <3>1. TRUE \in BOOLEAN
      OBVIOUS
    <3>2. inner \in Expressions(f) /\ inner.do # "label"
      BY <1>2, <3>1 DEF Expr, Expressions, Modes, Shapes, ModeOf
    <3>. QED
      BY <3>2 DEF Task
  <2>. HIDE DEF label, inner
  <2>3. s \in Seq(Task(f)) /\ Len(s) = 2 /\ s[1] = inner /\ s[2] = label
    BY <1>3, <2>2
  <2>. HIDE DEF s
  <2>4. \A k \in 1..2 : k = 1 \/ k = 2
    OBVIOUS
  <2>5. \A k \in 1..Len(s) : k = 2 \/ s[k].do # "label"
    BY <2>2, <2>3, <2>4
  <2>6. 2 \in 1..Len(s) /\ s[2] = Label(n + 1)
    BY <2>3 DEF label
  <2>7. Sound(s, n, 1)
    BY <2>3, <2>5, <2>6, OneLabelSound
  <2>. QED
    BY <2>1, <2>7
<1>7. CASE e.shape \notin {"any", "chain"}
  BY <1>7 DEF Uneven
<1>. QED
  BY <1>5, <1>6, <1>7

\* A statement begins and ends with nothing on the stack.
LEMMA StatementForms ==
    ASSUME NEW n \in Nat, n = Len(arrivals), NEW want \in Seq(Nat), Len(want) = n,
           NEW loop \in [break : 0..n, continue : 0..n],
           \A l \in {loop.break, loop.continue} \ {NoLabel} : want[l] = 0,
           NEW steps \in Statements(loop)
    PROVE  \E new \in Seq(Nat) : /\ Sound(steps, n, Len(new))
                                 /\ Runs(steps, 0, 0, want \o new)
<1>. DEFINE nothing == <<>>
            new == <<0, 0>>
            all == want \o new
            f == n + 1
            o == n + 2
            m == n + 2
<1>1. Fresh = f /\ Other = o
  BY DEF Fresh, Other
<1>2. ASSUME Moves(steps, n, 0, 0, want)
      PROVE  \E some \in Seq(Nat) : /\ Sound(steps, n, Len(some))
                                    /\ Runs(steps, 0, 0, want \o some)
  <2>1. nothing \in Seq(Nat) /\ Len(nothing) = 0 /\ want \o nothing = want
    BY ConcatEmptySeq
  <2>2. Sound(steps, n, 0) /\ Runs(steps, 0, 0, want)
    BY <1>2, MovesSound DEF Moves
  <2>. HIDE DEF nothing
  <2>. QED
    BY <2>1, <2>2
<1>3. CASE steps \in {<<E, Op(1, 0)>>, <<E, Stop>>, <<Push, Stop>>}
  <2>1. /\ Quiet(E, n) /\ Fits(E, 0, 1, want) /\ Quiet(Push, n)
        /\ Fits(Push, 0, 1, want)
    <3>1. 0 \in Nat /\ 0 + 1 = 1
      OBVIOUS
    <3>. QED
      BY <3>1, Basics
  <2>2. Quiet(Op(1, 0), n) /\ Fits(Op(1, 0), 1, 0, want)
    <3>1. 1 \in Nat /\ 1 >= 1 /\ (1 - 1) + 0 = 0 /\ 0 \in Nat
      OBVIOUS
    <3>2. Quiet(Op(1, 0), n) /\ Fits(Op(1, 0), 1, (1 - 1) + 0, want)
      BY <3>1, OpMoves
    <3>. QED
      BY <3>1, <3>2
  <2>3. Quiet(Stop, n) /\ Fits(Stop, 1, 0, want)
    BY StopMoves
  <2>4. Moves(steps, n, 0, 0, want)
    BY <1>3, <2>1, <2>2, <2>3, MovesTwo
  <2>. QED
    BY <1>2, <2>4
<1>4. ASSUME NEW l \in {loop.break, loop.continue} \ {NoLabel}, steps = <<Jump(l)>>
      PROVE  Moves(steps, n, 0, 0, want)
  <2>1. l \in 1..n /\ want[l] = 0
    BY <1>4 DEF NoLabel
  <2>2. Quiet(Jump(l), n) /\ Fits(Jump(l), 0, 0, want)
    BY <2>1, LabelSteps
  <2>. QED
    BY <1>4, <2>2, MovesOne
<1>5. f \in 1..m /\ o \in 1..m /\ m \in Nat
  OBVIOUS
<1>6. /\ all \in Seq(Nat) /\ Len(all) = m /\ all[f] = 0 /\ all[o] = 0
      /\ new \in Seq(Nat) /\ Len(new) = 2
  <2>1. /\ want \o <<0, 0>> \in Seq(Nat) /\ Len(want \o <<0, 0>>) = n + 2
        /\ (want \o <<0, 0>>)[n + 1] = 0 /\ (want \o <<0, 0>>)[n + 2] = 0
        /\ <<0, 0>> \in Seq(Nat) /\ Len(<<0, 0>>) = 2
    <3>. DEFINE z == 0
    <3>1. z \in Nat /\ n = Len(want)
      OBVIOUS
    <3>. HIDE DEF z
    <3>2. /\ want \o <<z, z>> \in Seq(Nat) /\ Len(want \o <<z, z>>) = n + 2
          /\ (want \o <<z, z>>)[n + 1] = z /\ (want \o <<z, z>>)[n + 2] = z
          /\ <<z, z>> \in Seq(Nat) /\ Len(<<z, z>>) = 2
      BY <3>1, MoreHeights
    <3>. QED
      BY <3>2 DEF z
  <2>. QED
    BY <2>1
<1>7. \A l \in 1..n : l \in 1..m /\ all[l] = want[l]
  <2>1. /\ Len(all) = Len(want) + Len(new)
        /\ \A l \in 1..(Len(want) + Len(new)) :
              all[l] = IF l <= Len(want) THEN want[l] ELSE new[l - Len(want)]
    BY <1>6, ConcatProperties
  <2>2. \A l \in 1..n : l \in 1..m /\ l \in 1..(n + 2) /\ l <= n
    OBVIOUS
  <2>3. \A l \in 1..(n + 2) :
            all[l] = IF l <= n THEN want[l] ELSE new[l - n]
    BY <1>6, <2>1
  <2>. HIDE DEF all, new, m
  <2>. QED
    BY <2>2, <2>3
<1>. HIDE DEF all, new
<1>8. /\ Quiet(E, m) /\ Fits(E, 0, 1, all)
  <2>1. 0 \in Nat /\ 0 + 1 = 1
    OBVIOUS
  <2>. QED
    BY <1>5, <1>6, <2>1, Basics
<1>9. ASSUME NEW l \in 1..m, all[l] = 0
      PROVE  /\ Quiet(JumpIf(l), m) /\ Fits(JumpIf(l), 1, 0, all)
             /\ Quiet(Jump(l), m) /\ Fits(Jump(l), 0, 0, all)
             /\ Label(l) \in Task(m) /\ Fits(Label(l), 0, 0, all)
  <2>1. 0 + 1 = 1 /\ 0 \in Nat
    OBVIOUS
  <2>. HIDE DEF m
  <2>2. /\ Quiet(JumpIf(l), m) /\ Fits(JumpIf(l), all[l] + 1, all[l], all)
        /\ Quiet(Jump(l), m) /\ \A k \in Nat : Fits(Jump(l), all[l], k, all)
        /\ Label(l) \in Task(m) /\ Fits(Label(l), all[l], all[l], all)
    BY <1>5, <1>6, <1>9, LabelSteps
  <2>. QED
    BY <1>9, <2>1, <2>2
<1>10. ASSUME NEW inner \in [break : 0..m, continue : 0..m],
              \A l \in {inner.break, inner.continue} \ {NoLabel} : all[l] = 0
       PROVE  Quiet(Block(inner), m) /\ Fits(Block(inner), 0, 0, all)
  <2>1. \A l \in {inner.break, inner.continue} \ {NoLabel} : l \in 1..m
    BY <1>10 DEF NoLabel
  <2>. HIDE DEF m
  <2>. QED
    BY <1>6, <1>10, <2>1 DEF Block, Quiet, Fits, Task, Blocks
<1>11. CASE steps = IfStatement(loop)
  <2>1. steps = <<E, JumpIf(f), Block(loop), Jump(o), Label(f), Block(loop), Label(o)>>
    BY <1>1, <1>11 DEF IfStatement
  <2>2. Quiet(Block(loop), m) /\ Fits(Block(loop), 0, 0, all)
    <3>1. loop \in [break : 0..m, continue : 0..m]
      OBVIOUS
    <3>2. \A l \in {loop.break, loop.continue} \ {NoLabel} : all[l] = 0
      <4>1. \A l \in {loop.break, loop.continue} \ {NoLabel} : l \in 1..n
        BY DEF NoLabel
      <4>. QED
        BY <1>7, <4>1
    <3>. QED
      BY <1>10, <3>1, <3>2
  <2>3. /\ Quiet(JumpIf(f), m) /\ Fits(JumpIf(f), 1, 0, all)
        /\ Quiet(Jump(o), m) /\ Fits(Jump(o), 0, 0, all)
        /\ Fits(Label(f), 0, 0, all) /\ Fits(Label(o), 0, 0, all)
    BY <1>5, <1>6, <1>9
  <2>4. Runs(steps, 0, 0, all)
    BY <1>8, <2>1, <2>2, <2>3, SevenRun
  <2>5. Sound(steps, n, 2)
    BY <1>8, <2>1, <2>2, <2>3, ChoiceSound
  <2>. QED
    BY <1>6, <2>4, <2>5 DEF all
<1>12. CASE steps = WhileStatement
  <2>. DEFINE inner == [break |-> o, continue |-> f]
              x == Label(f)
              y == Label(o)
              b == Block(inner)
  <2>1. steps = <<x, E, JumpIf(o), b, Jump(f), y>>
    BY <1>1, <1>12 DEF WhileStatement
  <2>2. Quiet(b, m) /\ Fits(b, 0, 0, all)
    <3>1. inner \in [break : 0..m, continue : 0..m]
      BY <1>5
    <3>2. \A l \in {inner.break, inner.continue} \ {NoLabel} : all[l] = 0
      BY <1>6
    <3>. HIDE DEF inner
    <3>. QED
      BY <1>10, <3>1, <3>2
  <2>3. /\ Quiet(JumpIf(o), m) /\ Fits(JumpIf(o), 1, 0, all)
        /\ Quiet(Jump(f), m) /\ Fits(Jump(f), 0, 0, all)
        /\ Fits(x, 0, 0, all) /\ Fits(y, 0, 0, all)
        /\ x \in Task(m) /\ y \in Task(m)
    BY <1>5, <1>6, <1>9
  <2>. HIDE DEF x, y, b
  <2>4. Runs(steps, 0, 0, all)
    BY <1>8, <2>1, <2>2, <2>3, SixRun
  <2>5. /\ steps \in Seq(Task(m)) /\ Len(steps) = 6 /\ steps[1] = x /\ steps[2] = E
        /\ steps[3] = JumpIf(o) /\ steps[4] = b /\ steps[5] = Jump(f) /\ steps[6] = y
    BY <1>8, <2>1, <2>2, <2>3 DEF Quiet
  <2>6. \A k \in 1..6 : k = 1 \/ k = 2 \/ k = 3 \/ k = 4 \/ k = 5 \/ k = 6
    OBVIOUS
  <2>7. \A k \in 1..Len(steps) : k = 1 \/ k = 6 \/ steps[k].do # "label"
    BY <1>8, <2>2, <2>3, <2>5, <2>6 DEF Quiet
  <2>8. 1 \in 1..Len(steps) /\ 6 \in 1..Len(steps) /\ 1 # 6
    BY <2>5
  <2>9. Sound(steps, n, 2)
    BY <2>5, <2>7, <2>8, TwoLabelsSound DEF x, y
  <2>. QED
    BY <1>6, <2>4, <2>9 DEF all
<1>. QED
  BY <1>2, <1>3, <1>4, <1>11, <1>12 DEF Statements

----------------------------------------------------------------------------
(* A form is chosen.                                                       *)

\* Its labels are the next ones, and each of them waits to be placed.
LEMMA ExpansionPlaces ==
    ASSUME LabelsInv, tasks # <<>>, Step.do # "label",
           NEW n, n = Len(arrivals), NEW more \in Nat, NEW steps,
           Sound(steps, n, more), NEW ghost \in Seq(Task(n)),
           \A l \in Nat : Never(ghost, l), Choose(steps, ghost)
    PROVE  /\ LabelsInv'
           /\ arrivals' = arrivals \o [i \in 1..more |-> {}]
           /\ tasks' = (steps \o ghost) \o Tail(tasks)
           /\ height' = height
<1>. DEFINE rest == Tail(tasks)
            m == n + more
            front == steps \o ghost
            fresh == [i \in 1..more |-> {}]
<1>1. /\ arrivals \in Seq(SUBSET Nat) /\ n \in Nat /\ m \in Nat
      /\ tasks \in Seq(Task(n)) /\ height \in SUBSET Nat
      /\ located \in SUBSET (1..n)
  BY DEF LabelsInv, EmissionTypeOK
<1>2. /\ rest \in Seq(Task(n)) /\ rest \in Seq(Task(m)) /\ ghost \in Seq(Task(m))
      /\ steps \in Seq(Task(m))
  <2>1. rest \in Seq(Task(n))
    BY <1>1, HeadAndTail
  <2>. QED
    BY <1>1, <2>1, TaskWithMore DEF Sound
<1>3. NewLabels(steps) = more
  BY <1>1, NewLabelsOf
<1>4. /\ arrivals' = arrivals \o fresh /\ tasks' = front \o rest
      /\ height' = height /\ located' = located
  BY <1>3 DEF Choose
<1>5. /\ arrivals' \in Seq(SUBSET Nat) /\ Len(arrivals') = m
  <2>1. fresh \in Seq(SUBSET Nat) /\ Len(fresh) = more
    OBVIOUS
  <2>. HIDE DEF fresh
  <2>. QED
    BY <1>1, <1>4, <2>1, ConcatProperties
<1>6. front \in Seq(Task(m)) /\ tasks' \in Seq(Task(m))
  <2>1. front \in Seq(Task(m))
    BY <1>2, ConcatProperties
  <2>. HIDE DEF front, rest
  <2>. QED
    BY <1>2, <1>4, <2>1, ConcatProperties
<1>7. EmissionTypeOK'
  <2>1. 1..n \subseteq 1..m
    BY <1>1
  <2>. QED
    BY <1>1, <1>4, <1>5, <1>6, <2>1 DEF EmissionTypeOK
<1>. HIDE DEF m, rest
<1>8. \A l \in Nat : /\ Never(steps, l) /\ Never(rest, l) => Never(tasks', l)
                     /\ Never(steps, l) /\ Once(rest, l) => Once(tasks', l)
                     /\ Once(steps, l) /\ Never(rest, l) => Once(tasks', l)
  <2>. TAKE l \in Nat
  <2>1. /\ Never(steps, l) => Never(front, l)
        /\ Once(steps, l) => Once(front, l)
    BY <1>2, PlacedInBoth
  <2>. HIDE DEF front
  <2>2. /\ Never(front, l) /\ Never(rest, l) => Never(front \o rest, l)
        /\ Once(front, l) /\ Never(rest, l) => Once(front \o rest, l)
        /\ Never(front, l) /\ Once(rest, l) => Once(front \o rest, l)
    BY <1>2, <1>6, PlacedInBoth
  <2>. QED
    BY <1>4, <2>1, <2>2
<1>9. ASSUME NEW l \in 1..n
      PROVE  IF l \in located THEN Never(tasks', l) ELSE Once(tasks', l)
  <2>1. l \in Nat /\ Never(steps, l)
    BY <1>1 DEF Sound
  <2>2. IF l \in located THEN Never(tasks, l) ELSE Once(tasks, l)
    BY DEF LabelsInv
  <2>3. ~Places(Head(tasks), l)
    BY DEF Places, Step
  <2>4. IF l \in located THEN Never(rest, l) ELSE Once(rest, l)
    BY <1>1, <2>2, <2>3, PlacedInRest DEF rest
  <2>. QED
    BY <1>8, <2>1, <2>4
<1>10. ASSUME NEW l \in (n + 1)..m
       PROVE  l \notin located /\ Once(tasks', l)
  <2>1. l \in Nat /\ l \notin 1..n /\ Once(steps, l)
    BY <1>1 DEF Sound, m
  <2>2. Never(rest, l)
    <3>1. \A i \in 1..Len(rest) : rest[i] \in Task(n)
      BY <1>2, ElementOfSeq
    <3>. QED
      BY <1>1, <2>1, <3>1, TaskFields DEF Never, Places
  <2>. QED
    BY <1>1, <1>8, <2>1, <2>2
<1>11. \A l \in 1..m : l \in 1..n \/ l \in (n + 1)..m
  BY <1>1
<1>12. LabelsInv'
  BY <1>4, <1>5, <1>7, <1>9, <1>10, <1>11 DEF LabelsInv
<1>. QED
  BY <1>4, <1>12 DEF rest

\* The heights there were, and those of new labels.
LEMMA HeightsWithMore ==
    ASSUME NEW want \in Seq(Nat), NEW new \in Seq(Nat)
    PROVE  /\ want \o new \in Seq(Nat) /\ Len(want \o new) = Len(want) + Len(new)
           /\ \A l \in 1..(Len(want) + Len(new)) :
                (want \o new)[l] = IF l <= Len(want) THEN want[l]
                                  ELSE new[l - Len(want)]
  BY ConcatProperties

\* Its steps fit where the form did, with a height for every new label.
LEMMA ExpansionFits ==
    ASSUME LabelsInv, tasks # <<>>, NEW n, n = Len(arrivals), NEW more \in Nat,
           NEW h \in Nat, NEW k \in Nat, NEW want, Agrees(want, h),
           NEW new \in Seq(Nat), Len(new) = more,
           NEW steps, Sound(steps, n, more), Runs(steps, h, k, want \o new),
           NEW ghost \in Seq(Task(n)), Runs(ghost, k, k, want),
           Runs(Tail(tasks), k, 0, want),
           arrivals' = arrivals \o [i \in 1..more |-> {}],
           tasks' = (steps \o ghost) \o Tail(tasks), height' = height
    PROVE  Agrees(want \o new, h)'
<1>. DEFINE rest == Tail(tasks)
            m == n + more
            front == steps \o ghost
            fresh == [i \in 1..more |-> {}]
            all == want \o new
<1>1. /\ arrivals \in Seq(SUBSET Nat) /\ n \in Nat /\ m \in Nat
      /\ tasks \in Seq(Task(n))
  BY DEF LabelsInv, EmissionTypeOK
<1>2. want \in Seq(Nat) /\ Len(want) = n /\ height \subseteq {h}
      /\ \A l \in 1..n : arrivals[l] \subseteq {want[l]}
  BY DEF Agrees
<1>3. /\ all \in Seq(Nat) /\ Len(all) = m
      /\ \A l \in 1..m : l <= n => all[l] = want[l]
  <2>1. /\ all \in Seq(Nat) /\ Len(all) = Len(want) + Len(new)
        /\ \A l \in 1..(Len(want) + Len(new)) :
              all[l] = IF l <= Len(want) THEN want[l] ELSE new[l - Len(want)]
    BY <1>2, HeightsWithMore
  <2>. HIDE DEF all
  <2>. QED
    BY <1>2, <2>1
<1>4. rest \in Seq(Task(n)) /\ rest \in Seq(Task(m)) /\ ghost \in Seq(Task(m))
      /\ steps \in Seq(Task(m))
  <2>1. rest \in Seq(Task(n))
    BY <1>1, HeadAndTail
  <2>. QED
    BY <1>1, <2>1, TaskWithMore DEF Sound
<1>5. fresh \in Seq(SUBSET Nat) /\ Len(fresh) = more
      /\ \A i \in 1..more : fresh[i] = {}
  OBVIOUS
<1>6. /\ Len(arrivals') = m
      /\ \A l \in 1..m : arrivals'[l] = IF l <= n THEN arrivals[l] ELSE fresh[l - n]
  <2>. HIDE DEF fresh
  <2>. QED
    BY <1>1, <1>5, ConcatProperties DEF fresh
<1>7. \A l \in 1..m : arrivals'[l] \subseteq {all[l]}
  <2>. TAKE l \in 1..m
  <2>1. CASE l <= n
    BY <1>1, <1>2, <1>3, <1>6, <2>1
  <2>2. CASE ~(l <= n)
    <3>1. l - n \in 1..more
      BY <1>1, <2>2
    <3>. HIDE DEF fresh
    <3>. QED
      BY <1>5, <1>6, <2>2, <3>1
  <2>. QED
    BY <2>1, <2>2
<1>8. Runs(ghost, k, k, all) /\ Runs(rest, k, 0, all)
  BY <1>2, RunsWithMore
<1>. HIDE DEF all, rest
<1>9. Runs(front, h, k, all)
  BY <1>4, <1>8, RunsBoth DEF all
<1>10. front \in Seq(Task(m))
  BY <1>4, ConcatProperties
<1>. HIDE DEF front, m
<1>11. Runs(front \o rest, h, 0, all)
  BY <1>4, <1>8, <1>9, <1>10, RunsBoth
<1>12. tasks' = front \o rest
  BY DEF front, rest
<1>13. Agrees(all, h)'
  BY <1>2, <1>3, <1>6, <1>7, <1>11, <1>12 DEF Agrees
<1>. QED
  BY <1>13 DEF all

\* A form whose steps fit where it does keeps both invariants; g is what
\* follows the steps, a ghost or the block a statement belongs to.
LEMMA FormChosen ==
    ASSUME EmissionInv, tasks # <<>>, Step.do # "label", unusual' = unusual,
           NEW n, n = Len(arrivals), NEW steps, NEW more \in Nat,
           Sound(steps, n, more), NEW g, Quiet(g, n), Choose(steps, <<g>>),
           \A want \in Seq(Nat), h \in Nat, k \in Nat :
                Agrees(want, h) /\ Fits(Step, h, k, want) =>
                    /\ Fits(g, k, k, want)
                    /\ \E new \in Seq(Nat) : /\ Sound(steps, n, Len(new))
                                             /\ Runs(steps, h, k, want \o new)
    PROVE  EmissionInv'
<1>. DEFINE ghost == <<g>>
<1>1. LabelsInv /\ n \in Nat /\ tasks \in Seq(Task(n))
  BY DEF EmissionInv, LabelsInv, EmissionTypeOK
<1>2. ghost \in Seq(Task(n)) /\ \A l \in Nat : Never(ghost, l)
  <2>1. ghost \in Seq(Task(n)) /\ Len(ghost) = 1 /\ ghost[1] = g
    BY DEF Quiet
  <2>. HIDE DEF ghost
  <2>2. \A i \in 1..Len(ghost) : i = 1
    BY <2>1
  <2>. QED
    BY <2>1, <2>2 DEF Quiet, Never, Places
<1>3. LabelsInv'
  <2>. HIDE DEF ghost
  <2>1. Choose(steps, ghost)
    BY DEF ghost
  <2>. QED
    BY <1>1, <1>2, <2>1, ExpansionPlaces
<1>4. HeightsInv'
  <2>1. SUFFICES ASSUME unusual' = {}
                 PROVE  \E want \in Seq(Nat), h \in Nat : Agrees(want, h)'
    BY DEF HeightsInv
  <2>2. PICK want \in Seq(Nat), h \in Nat : Agrees(want, h)
    BY <2>1 DEF EmissionInv, HeightsInv
  <2>3. PICK k \in Nat : Fits(Step, h, k, want) /\ Runs(Tail(tasks), k, 0, want)
    <3>1. Runs(tasks, h, 0, want)
      BY <2>2 DEF Agrees
    <3>. QED
      BY <1>1, <3>1, RunsRest DEF Step
  <2>4. PICK new \in Seq(Nat) : /\ Sound(steps, n, Len(new))
                                /\ Runs(steps, h, k, want \o new)
    BY <2>2, <2>3
  <2>5. Fits(g, k, k, want)
    BY <2>2, <2>3
  <2>6. Runs(ghost, k, k, want)
    <3>1. Moves(<<g>>, n, k, k, want)
      BY <1>1, <2>5, MovesOne
    <3>. QED
      BY <3>1 DEF Moves
  <2>. DEFINE count == Len(new)
  <2>7. count \in Nat /\ Sound(steps, n, count)
    BY <2>4, LenProperties
  <2>8. Choose(steps, ghost)
    OBVIOUS
  <2>. HIDE DEF ghost
  <2>9. /\ LabelsInv'
        /\ arrivals' = arrivals \o [i \in 1..count |-> {}]
        /\ tasks' = (steps \o ghost) \o Tail(tasks)
        /\ height' = height
    <3>. HIDE DEF count
    <3>. QED
      BY <1>1, <1>2, <2>7, <2>8, ExpansionPlaces, ZenonT(40)
  <2>10. Len(new) = count
    OBVIOUS
  <2>. HIDE DEF count
  <2>11. Agrees(want \o new, h)'
    BY <1>1, <1>2, <2>2, <2>3, <2>4, <2>6, <2>7, <2>9, <2>10, ExpansionFits
  <2>12. want \o new \in Seq(Nat)
    BY HeightsWithMore
  <2>. QED
    BY <2>11, <2>12
<1>. QED
  BY <1>3, <1>4 DEF EmissionInv

\* Heights under which an expression on a chain, or a statement in a loop, fits:
\* that its form places its labels does not depend on the heights.
LEMMA AllOfHeight ==
    ASSUME NEW n \in Nat, NEW x \in Nat
    PROVE  \E want \in Seq(Nat) : Len(want) = n /\ \A l \in 1..n : want[l] = x
<1>. DEFINE want == [i \in 1..n |-> x]
<1>1. want \in Seq(Nat) /\ Len(want) = n /\ \A l \in 1..n : want[l] = x
  OBVIOUS
<1>. QED
  BY <1>1

\* What an expression is said to leave, its form leaves.
LEMMA GhostFits ==
    ASSUME NEW n \in Nat, height \in SUBSET Nat, NEW e \in Expressions(n),
           NEW h \in Nat, NEW want, height \subseteq {h}, NEW k,
           Fits(e, h, k, want)
    PROVE  Fits(Leaves(height, ValuesOf(e.mode)), k, k, want)
<1>1. e.do = "expression" /\ ValuesOf(e.mode) \in Nat
  BY DEF Expressions, ValuesOf
<1>2. k = h + ValuesOf(e.mode) /\ k \in Nat
  BY <1>1 DEF Fits
<1>. QED
  BY <1>2 DEF Fits, Leaves

LEMMA GhostIsQuiet ==
    ASSUME NEW n \in Nat, height \in SUBSET Nat, NEW e \in Expressions(n)
    PROVE  Quiet(Leaves(height, ValuesOf(e.mode)), n)
<1>1. ValuesOf(e.mode) \in Nat
  BY DEF ValuesOf
<1>2. Leaves(height, ValuesOf(e.mode)) \in Ghosts
  BY <1>1 DEF Leaves, Ghosts
<1>3. Leaves(height, ValuesOf(e.mode)).do # "label"
  BY DEF Leaves
<1>. QED
  BY <1>2, <1>3 DEF Quiet, Task

LEMMA ExpressionHere ==
    ASSUME LabelsInv, At("expression"), NEW n, n = Len(arrivals)
    PROVE  /\ n \in Nat /\ Step \in Expressions(n) /\ tasks # <<>>
           /\ Step.do = "expression" /\ height \in SUBSET Nat
<1>1. n \in Nat /\ tasks \in Seq(Task(n)) /\ height \in SUBSET Nat
  BY DEF LabelsInv, EmissionTypeOK
<1>2. Step \in Task(n) /\ Step.do = "expression" /\ tasks # <<>>
  BY <1>1, HeadAndTail DEF At, Step
<1>. QED
  BY <1>1, <1>2, TaskFields

\* EmitExpression, one of the regular forms.
LEMMA RegularChosen ==
    ASSUME EmissionInv, At("expression"), NEW steps \in Regular(Step),
           Choose(steps, Ghost), unusual' = unusual
    PROVE  EmissionInv'
<1>. DEFINE n == Len(arrivals)
            v == ValuesOf(Step.mode)
            g == Leaves(height, v)
<1>1. LabelsInv
  BY DEF EmissionInv
<1>2. /\ n \in Nat /\ Step \in Expressions(n) /\ tasks # <<>>
      /\ Step.do = "expression" /\ height \in SUBSET Nat /\ Step.do # "label"
  BY <1>1, ExpressionHere
<1>3. v \in Nat
  BY DEF ValuesOf
<1>4. \E more \in Nat : Sound(steps, n, more)
  <2>1. PICK want \in Seq(Nat) : Len(want) = n /\ \A l \in 1..n : want[l] = 1
    <3>1. 1 \in Nat
      OBVIOUS
    <3>. QED
      BY <1>2, <3>1, AllOfHeight
  <2>2. Step.context \in 0..n
    BY <1>2 DEF Expressions
  <2>3. Fits(Step, 0, 0 + v, want)
    <3>1. 0 \in Nat /\ 0 + v \in Nat /\ 0 + 1 = 1
      BY <1>3
    <3>2. Step.context # NoLabel => Step.context \in 1..n
      BY <1>2, <2>2 DEF NoLabel
    <3>. HIDE DEF n, v
    <3>. QED
      BY <1>2, <2>1, <3>1, <3>2 DEF Fits, n, v
  <2>4. PICK new \in Seq(Nat) : Sound(steps, n, Len(new))
    BY <1>2, <2>1, <2>3, RegularForms
  <2>. QED
    BY <2>4, LenProperties
<1>5. PICK more \in Nat : Sound(steps, n, more)
  BY <1>4
<1>6. Quiet(g, n)
  BY <1>2, GhostIsQuiet
<1>7. ASSUME NEW want \in Seq(Nat), NEW h \in Nat, NEW k \in Nat,
             Agrees(want, h), Fits(Step, h, k, want)
      PROVE  /\ Fits(g, k, k, want)
             /\ \E new \in Seq(Nat) : /\ Sound(steps, n, Len(new))
                                      /\ Runs(steps, h, k, want \o new)
  <2>1. height \subseteq {h} /\ Len(want) = n
    BY <1>7 DEF Agrees
  <2>2. k = h + v
    BY <1>2, <1>7 DEF Fits
  <2>3. Fits(g, k, k, want)
    BY <1>2, <1>7, <2>1, GhostFits
  <2>4. Fits(Step, h, h + v, want)
    BY <1>7, <2>2
  <2>5. \E new \in Seq(Nat) : /\ Sound(steps, n, Len(new))
                              /\ Runs(steps, h, h + v, want \o new)
    BY <1>2, <2>1, <2>4, RegularForms
  <2>. QED
    BY <2>2, <2>3, <2>5
<1>8. Choose(steps, <<g>>)
  BY DEF Ghost
<1>. HIDE DEF g
<1>9. n = Len(arrivals)
  OBVIOUS
<1>. HIDE DEF n, v
<1>. QED
  BY <1>2, <1>5, <1>6, <1>7, <1>8, <1>9, FormChosen

\* EmitExpression, one of the forms that leave the stack uneven.
LEMMA UnevenChosen ==
    ASSUME EmissionInv, At("expression"), NEW u \in Uneven(Step),
           Choose(u.steps, Ghost), unusual' = unusual \cup {u.form}
    PROVE  EmissionInv'
<1>. DEFINE n == Len(arrivals)
            v == ValuesOf(Step.mode)
            g == Leaves(height, v)
            ghost == <<g>>
<1>1. LabelsInv
  BY DEF EmissionInv
<1>2. /\ n \in Nat /\ Step \in Expressions(n) /\ tasks # <<>>
      /\ Step.do = "expression" /\ height \in SUBSET Nat /\ Step.do # "label"
  BY <1>1, ExpressionHere
<1>3. PICK more \in Nat : Sound(u.steps, n, more)
  BY <1>2, UnevenForms
<1>4. Quiet(g, n)
  BY <1>2, GhostIsQuiet
<1>5. ghost \in Seq(Task(n)) /\ \A l \in Nat : Never(ghost, l)
  <2>. HIDE DEF g
  <2>1. ghost \in Seq(Task(n)) /\ Len(ghost) = 1 /\ ghost[1] = g
    BY <1>4 DEF Quiet
  <2>. HIDE DEF ghost
  <2>2. \A i \in 1..Len(ghost) : i = 1
    BY <2>1
  <2>. QED
    BY <1>4, <2>1, <2>2 DEF Quiet, Never, Places
<1>6. Choose(u.steps, ghost)
  BY DEF Ghost
<1>7. n = Len(arrivals)
  OBVIOUS
<1>. HIDE DEF n, ghost
<1>8. LabelsInv'
  BY <1>1, <1>2, <1>3, <1>5, <1>6, <1>7, ExpansionPlaces
<1>9. unusual' # {}
  OBVIOUS
<1>. QED
  BY <1>8, <1>9 DEF EmissionInv, HeightsInv

\* EmitOptionalAccess.
LEMMA AccessChosen ==
    ASSUME EmissionInv, At("expression"), Step.shape = "any",
           Step.context # NoLabel,
           NEW steps \in OptionalAccess(Step.mode, Step.context),
           Choose(steps, Ghost), unusual' = unusual
    PROVE  EmissionInv'
<1>. DEFINE n == Len(arrivals)
            v == ValuesOf(Step.mode)
            g == Leaves(height, v)
<1>1. LabelsInv
  BY DEF EmissionInv
<1>2. /\ n \in Nat /\ Step \in Expressions(n) /\ tasks # <<>>
      /\ Step.do = "expression" /\ height \in SUBSET Nat /\ Step.do # "label"
  BY <1>1, ExpressionHere
<1>3. Step.mode = "LOAD" /\ v = 1 /\ Step.context \in 0..n
  BY <1>2 DEF Expressions, ModeOf, ValuesOf
<1>4. Step.context \in 1..n
  BY <1>2, <1>3 DEF NoLabel
<1>5. ASSUME NEW want \in Seq(Nat), Len(want) = n, NEW h \in Nat,
             want[Step.context] = h + 1
      PROVE  Sound(steps, n, 0) /\ Runs(steps, h, h + 1, want)
  <2>1. steps \in OptionalAccess("LOAD", Step.context)
    BY <1>3
  <2>2. Moves(steps, n, h, h + 1, want)
    BY <1>2, <1>4, <1>5, <2>1, AccessMoves
  <2>. QED
    BY <1>2, <2>2, MovesSound DEF Moves
<1>6. Sound(steps, n, 0)
  <2>1. PICK want \in Seq(Nat) : Len(want) = n /\ \A l \in 1..n : want[l] = 1
    <3>1. 1 \in Nat
      OBVIOUS
    <3>. QED
      BY <1>2, <3>1, AllOfHeight
  <2>2. want[Step.context] = 0 + 1 /\ 0 \in Nat
    BY <1>4, <2>1
  <2>. QED
    BY <1>5, <2>1, <2>2
<1>7. Quiet(g, n)
  BY <1>2, GhostIsQuiet
<1>8. ASSUME NEW want \in Seq(Nat), NEW h \in Nat, NEW k \in Nat,
             Agrees(want, h), Fits(Step, h, k, want)
      PROVE  /\ Fits(g, k, k, want)
             /\ \E new \in Seq(Nat) : /\ Sound(steps, n, Len(new))
                                      /\ Runs(steps, h, k, want \o new)
  <2>1. height \subseteq {h} /\ Len(want) = n
    BY <1>8 DEF Agrees
  <2>2. k = h + 1 /\ want[Step.context] = h + 1
    BY <1>2, <1>3, <1>8 DEF Fits
  <2>3. Fits(g, k, k, want)
    BY <1>2, <1>8, <2>1, GhostFits
  <2>4. Sound(steps, n, 0) /\ Runs(steps, h, k, want)
    BY <1>5, <2>1, <2>2
  <2>. DEFINE nothing == <<>>
  <2>5. nothing \in Seq(Nat) /\ Len(nothing) = 0 /\ want \o nothing = want
    BY ConcatEmptySeq
  <2>. HIDE DEF nothing, g, n
  <2>. QED
    BY <2>3, <2>4, <2>5
<1>9. Choose(steps, <<g>>)
  BY DEF Ghost
<1>10. n = Len(arrivals) /\ 0 \in Nat
  OBVIOUS
<1>. HIDE DEF g, n, v
<1>. QED
  BY <1>2, <1>6, <1>7, <1>8, <1>9, <1>10, FormChosen

\* EmitStatement.
LEMMA StatementChosen ==
    ASSUME EmissionInv, At("block"), NEW steps \in Statements(Step.loop),
           Choose(steps, <<Step>>), unusual' = unusual
    PROVE  EmissionInv'
<1>. DEFINE n == Len(arrivals)
            loop == Step.loop
<1>1. /\ n \in Nat /\ tasks \in Seq(Task(n)) /\ tasks # <<>>
      /\ Step.do = "block" /\ Step.do # "label"
  BY DEF EmissionInv, LabelsInv, EmissionTypeOK, At
<1>2. Step \in Task(n)
  BY <1>1, HeadAndTail DEF Step
<1>3. loop \in [break : 0..n, continue : 0..n] /\ Quiet(Step, n)
  BY <1>1, <1>2, TaskFields DEF Blocks, Quiet
<1>4. \A l \in {loop.break, loop.continue} \ {NoLabel} : l \in 1..n
  BY <1>1, <1>3 DEF NoLabel
<1>5. \E more \in Nat : Sound(steps, n, more)
  <2>1. PICK want \in Seq(Nat) : Len(want) = n /\ \A l \in 1..n : want[l] = 0
    <3>1. 0 \in Nat
      OBVIOUS
    <3>. QED
      BY <1>1, <3>1, AllOfHeight
  <2>2. \A l \in {loop.break, loop.continue} \ {NoLabel} : want[l] = 0
    BY <1>4, <2>1
  <2>3. PICK new \in Seq(Nat) : Sound(steps, n, Len(new))
    BY <1>1, <1>3, <2>1, <2>2, StatementForms
  <2>. QED
    BY <2>3, LenProperties
<1>6. PICK more \in Nat : Sound(steps, n, more)
  BY <1>5
<1>7. ASSUME NEW want \in Seq(Nat), NEW h \in Nat, NEW k \in Nat,
             Agrees(want, h), Fits(Step, h, k, want)
      PROVE  /\ Fits(Step, k, k, want)
             /\ \E new \in Seq(Nat) : /\ Sound(steps, n, Len(new))
                                      /\ Runs(steps, h, k, want \o new)
  <2>1. Len(want) = n
    BY <1>7 DEF Agrees
  <2>2. /\ h = 0 /\ k = 0
        /\ \A l \in {loop.break, loop.continue} \ {NoLabel} : want[l] = 0
    BY <1>1, <1>7 DEF Fits
  <2>3. Fits(Step, k, k, want)
    BY <1>7, <2>2
  <2>4. \E new \in Seq(Nat) : Sound(steps, n, Len(new)) /\ Runs(steps, 0, 0, want \o new)
    BY <1>1, <1>3, <2>1, <2>2, StatementForms
  <2>. QED
    BY <2>2, <2>3, <2>4
<1>8. n = Len(arrivals)
  OBVIOUS
<1>. HIDE DEF n, loop
<1>. QED
  BY <1>1, <1>3, <1>6, <1>7, <1>8, FormChosen

----------------------------------------------------------------------------
(* A step is emitted.                                                      *)

\* The label it places, if any, waits nowhere else.
LEMMA EmittedPlaces ==
    ASSUME LabelsInv, tasks # <<>>, tasks' = Tail(tasks),
           arrivals' \in Seq(SUBSET Nat), Len(arrivals') = Len(arrivals),
           height' \in SUBSET Nat,
           \/ Step.do # "label" /\ located' = located
           \/ Step.do = "label" /\ located' = located \cup {Step.label}
    PROVE  LabelsInv'
<1>. DEFINE n == Len(arrivals)
<1>1. /\ n \in Nat /\ tasks \in Seq(Task(n)) /\ located \in SUBSET (1..n)
  BY DEF LabelsInv, EmissionTypeOK
<1>2. Step \in Task(n) /\ Tail(tasks) \in Seq(Task(n))
  BY <1>1, HeadAndTail DEF Step
<1>3. Step.do = "label" => Step.label \in 1..n
  BY <1>1, <1>2, TaskFields
<1>4. n' = n
  OBVIOUS
<1>5. EmissionTypeOK'
  BY <1>1, <1>2, <1>3 DEF EmissionTypeOK
<1>6. ASSUME NEW l \in 1..n
      PROVE  IF l \in located' THEN Never(tasks', l) ELSE Once(tasks', l)
  <2>1. IF l \in located THEN Never(tasks, l) ELSE Once(tasks, l)
    BY DEF LabelsInv
  <2>2. /\ Never(tasks, l) <=> ~Places(Step, l) /\ Never(Tail(tasks), l)
        /\ Once(tasks, l) <=> \/ Places(Step, l) /\ Never(Tail(tasks), l)
                              \/ ~Places(Step, l) /\ Once(Tail(tasks), l)
    BY <1>1, PlacedInRest DEF Step
  <2>3. Places(Step, l) <=> Step.do = "label" /\ Step.label = l
    BY DEF Places
  <2>4. l \in located' <=> l \in located \/ Places(Step, l)
    BY <2>3
  <2>. QED
    BY <2>1, <2>2, <2>4
<1>. QED
  BY <1>4, <1>5, <1>6 DEF LabelsInv

\* The heights of what is left are those it had before.
LEMMA EmittedFits ==
    ASSUME EmissionInv, tasks # <<>>, tasks' = Tail(tasks), unusual' = unusual,
           NEW n, n = Len(arrivals), Len(arrivals') = n,
           \A want \in Seq(Nat), h \in Nat, k \in Nat :
                /\ Fits(Step, h, k, want) /\ Len(want) = n
                /\ height \subseteq {h}
                /\ \A l \in 1..n : arrivals[l] \subseteq {want[l]}
                => /\ height' \subseteq {k}
                   /\ \A l \in 1..n : arrivals'[l] \subseteq {want[l]}
    PROVE  HeightsInv'
<1>1. SUFFICES ASSUME unusual' = {}
               PROVE  \E want \in Seq(Nat), h \in Nat : Agrees(want, h)'
  BY DEF HeightsInv
<1>2. PICK want \in Seq(Nat), h \in Nat : Agrees(want, h)
  BY <1>1 DEF EmissionInv, HeightsInv
<1>3. tasks \in Seq(Task(n))
  BY DEF EmissionInv, LabelsInv, EmissionTypeOK
<1>4. PICK k \in Nat : Fits(Step, h, k, want) /\ Runs(Tail(tasks), k, 0, want)
  <2>1. Runs(tasks, h, 0, want)
    BY <1>2 DEF Agrees
  <2>. QED
    BY <1>3, <2>1, RunsRest DEF Step
<1>5. /\ Len(want) = n /\ height \subseteq {h}
      /\ \A l \in 1..n : arrivals[l] \subseteq {want[l]}
  BY <1>2 DEF Agrees
<1>6. height' \subseteq {k} /\ \A l \in 1..n : arrivals'[l] \subseteq {want[l]}
  BY <1>4, <1>5
<1>7. Agrees(want, k)'
  BY <1>4, <1>5, <1>6 DEF Agrees
<1>. QED
  BY <1>7

\* Heights arrive at the label of the step.
LEMMA ReachesOne ==
    ASSUME arrivals \in Seq(SUBSET Nat), Step.label \in 1..Len(arrivals),
           NEW heights \in SUBSET Nat
    PROVE  /\ Reaches(heights) \in Seq(SUBSET Nat)
           /\ Len(Reaches(heights)) = Len(arrivals)
           /\ \A l \in 1..Len(arrivals) :
                Reaches(heights)[l] = IF l = Step.label
                                      THEN arrivals[l] \cup heights ELSE arrivals[l]
<1>. DEFINE i == Step.label
            all == arrivals[i] \cup heights
<1>1. all \in SUBSET Nat /\ i \in 1..Len(arrivals)
  BY ElementOfSeq
<1>2. Reaches(heights) = [arrivals EXCEPT ![i] = all]
  BY DEF Reaches
<1>3. all = arrivals[i] \cup heights
  OBVIOUS
<1>. HIDE DEF i, all
<1>4. /\ [arrivals EXCEPT ![i] = all] \in Seq(SUBSET Nat)
      /\ Len([arrivals EXCEPT ![i] = all]) = Len(arrivals)
      /\ \A l \in 1..Len(arrivals) :
            [arrivals EXCEPT ![i] = all][l] = IF l = i THEN all ELSE arrivals[l]
  BY <1>1, ExceptSeq
<1>5. \A l \in 1..Len(arrivals) :
        Reaches(heights)[l] = IF l = i THEN arrivals[l] \cup heights ELSE arrivals[l]
  BY <1>2, <1>3, <1>4
<1>. QED
  BY <1>2, <1>4, <1>5 DEF i

LEMMA StepHere ==
    ASSUME EmissionInv, tasks # <<>>, NEW n, n = Len(arrivals)
    PROVE  /\ LabelsInv /\ n \in Nat /\ tasks \in Seq(Task(n)) /\ Step \in Task(n)
           /\ arrivals \in Seq(SUBSET Nat) /\ height \in SUBSET Nat
<1>1. /\ LabelsInv /\ n \in Nat /\ tasks \in Seq(Task(n))
      /\ arrivals \in Seq(SUBSET Nat) /\ height \in SUBSET Nat
  BY DEF EmissionInv, LabelsInv, EmissionTypeOK
<1>. QED
  BY <1>1, HeadAndTail DEF Step

LEMMA EmitOpKeeps ==
    ASSUME EmissionInv, EmitOp PROVE EmissionInv'
<1>. DEFINE n == Len(arrivals)
<1>1. /\ tasks # <<>> /\ Step.do = "op" /\ tasks' = Tail(tasks)
      /\ unusual' = unusual /\ arrivals' = arrivals /\ located' = located
      /\ height' = {(h - Step.pops) + Step.pushes :
                        h \in {x \in height : x >= Step.pops}}
  BY DEF EmitOp, At, Then
<1>2. /\ LabelsInv /\ n \in Nat /\ Step \in Task(n)
      /\ arrivals \in Seq(SUBSET Nat) /\ height \in SUBSET Nat
  BY <1>1, StepHere
<1>3. Step.pops \in Nat /\ Step.pushes \in Nat
  BY <1>1, <1>2, TaskFields
<1>4. height' \in SUBSET Nat
  <2>. DEFINE p == Step.pops
              q == Step.pushes
  <2>1. p \in Nat /\ q \in Nat
    BY <1>3
  <2>2. height' = {(h - p) + q : h \in {x \in height : x >= p}}
    BY <1>1
  <2>. HIDE DEF p, q
  <2>3. \A h \in Nat : h >= p => (h - p) + q \in Nat
    BY <2>1
  <2>. QED
    BY <1>2, <2>2, <2>3
<1>5. LabelsInv'
  BY <1>1, <1>2, <1>4, EmittedPlaces
<1>6. ASSUME NEW want \in Seq(Nat), NEW h \in Nat, NEW k \in Nat,
             Fits(Step, h, k, want), Len(want) = n, height \subseteq {h},
             \A l \in 1..n : arrivals[l] \subseteq {want[l]}
      PROVE  /\ height' \subseteq {k}
             /\ \A l \in 1..n : arrivals'[l] \subseteq {want[l]}
  <2>1. k = (h - Step.pops) + Step.pushes
    BY <1>1, <1>6 DEF Fits
  <2>2. height' \subseteq {k}
    BY <1>1, <1>6, <2>1
  <2>. QED
    BY <1>1, <1>6, <2>2
<1>7. HeightsInv'
  <2>1. n = Len(arrivals) /\ Len(arrivals') = n
    BY <1>1
  <2>. HIDE DEF n
  <2>. QED
    BY <1>1, <1>6, <2>1, EmittedFits
<1>. QED
  BY <1>5, <1>7 DEF EmissionInv

LEMMA EmitJumpKeeps ==
    ASSUME EmissionInv, EmitJump PROVE EmissionInv'
<1>. DEFINE n == Len(arrivals)
<1>1. /\ tasks # <<>> /\ Step.do = "jump" /\ tasks' = Tail(tasks)
      /\ unusual' = unusual /\ located' = located /\ height' = {}
      /\ arrivals' = Reaches(height)
  BY DEF EmitJump, At, Then
<1>2. /\ LabelsInv /\ n \in Nat /\ Step \in Task(n)
      /\ arrivals \in Seq(SUBSET Nat) /\ height \in SUBSET Nat
  BY <1>1, StepHere
<1>3. Step.label \in 1..n
  BY <1>1, <1>2, TaskFields
<1>4. /\ arrivals' \in Seq(SUBSET Nat) /\ Len(arrivals') = n
      /\ \A l \in 1..n : arrivals'[l] = IF l = Step.label THEN arrivals[l] \cup height
                                        ELSE arrivals[l]
  BY <1>1, <1>2, <1>3, ReachesOne
<1>5. LabelsInv'
  BY <1>1, <1>2, <1>4, EmittedPlaces
<1>6. ASSUME NEW want \in Seq(Nat), NEW h \in Nat, NEW k \in Nat,
             Fits(Step, h, k, want), Len(want) = n, height \subseteq {h},
             \A l \in 1..n : arrivals[l] \subseteq {want[l]}
      PROVE  /\ height' \subseteq {k}
             /\ \A l \in 1..n : arrivals'[l] \subseteq {want[l]}
  <2>1. want[Step.label] = h
    BY <1>1, <1>6 DEF Fits
  <2>. QED
    BY <1>1, <1>4, <1>6, <2>1
<1>7. HeightsInv'
  <2>1. n = Len(arrivals)
    OBVIOUS
  <2>. HIDE DEF n
  <2>. QED
    BY <1>1, <1>4, <1>6, <2>1, EmittedFits
<1>. QED
  BY <1>5, <1>7 DEF EmissionInv

LEMMA EmitJumpIfKeeps ==
    ASSUME EmissionInv, EmitJumpIf PROVE EmissionInv'
<1>. DEFINE n == Len(arrivals)
            below == {h - 1 : h \in height \ {0}}
<1>1. /\ tasks # <<>> /\ Step.do = "jump_if" /\ tasks' = Tail(tasks)
      /\ unusual' = unusual /\ located' = located /\ height' = below
      /\ arrivals' = Reaches(below)
  BY DEF EmitJumpIf, At, Then
<1>2. /\ LabelsInv /\ n \in Nat /\ Step \in Task(n)
      /\ arrivals \in Seq(SUBSET Nat) /\ height \in SUBSET Nat
  BY <1>1, StepHere
<1>3. Step.label \in 1..n
  BY <1>1, <1>2, TaskFields
<1>4. below \in SUBSET Nat
  <2>1. \A h \in Nat : h # 0 => h - 1 \in Nat
    OBVIOUS
  <2>. QED
    BY <1>2, <2>1
<1>5. /\ arrivals' \in Seq(SUBSET Nat) /\ Len(arrivals') = n
      /\ \A l \in 1..n : arrivals'[l] = IF l = Step.label THEN arrivals[l] \cup below
                                        ELSE arrivals[l]
  <2>. HIDE DEF below
  <2>. QED
    BY <1>1, <1>2, <1>3, <1>4, ReachesOne
<1>6. LabelsInv'
  <2>. HIDE DEF below
  <2>. QED
    BY <1>1, <1>2, <1>4, <1>5, EmittedPlaces
<1>7. ASSUME NEW want \in Seq(Nat), NEW h \in Nat, NEW k \in Nat,
             Fits(Step, h, k, want), Len(want) = n, height \subseteq {h},
             \A l \in 1..n : arrivals[l] \subseteq {want[l]}
      PROVE  /\ height' \subseteq {k}
             /\ \A l \in 1..n : arrivals'[l] \subseteq {want[l]}
  <2>1. want[Step.label] = k /\ h = k + 1
    BY <1>1, <1>7 DEF Fits
  <2>2. below \subseteq {k}
    BY <1>7, <2>1
  <2>. HIDE DEF below
  <2>. QED
    BY <1>1, <1>5, <1>7, <2>1, <2>2
<1>8. HeightsInv'
  <2>1. n = Len(arrivals)
    OBVIOUS
  <2>. HIDE DEF n, below
  <2>. QED
    BY <1>1, <1>5, <1>7, <2>1, EmittedFits
<1>. QED
  BY <1>6, <1>8 DEF EmissionInv

\* A return or a throw, and what an expression is said to leave: no path, or
\* the same one, goes on.
LEMMA EmitStopKeeps ==
    ASSUME EmissionInv, EmitStop \/ PassGhost PROVE EmissionInv'
<1>. DEFINE n == Len(arrivals)
<1>1. /\ tasks # <<>> /\ Step.do \in {"stop", "leaves"} /\ tasks' = Tail(tasks)
      /\ unusual' = unusual /\ located' = located /\ arrivals' = arrivals
      /\ Step.do # "label"
      /\ height' = {} \/ (Step.do = "leaves" /\ height' = height)
  BY DEF EmitStop, PassGhost, At, Then
<1>2. /\ LabelsInv /\ n \in Nat
      /\ arrivals \in Seq(SUBSET Nat) /\ height \in SUBSET Nat
  BY <1>1, StepHere
<1>3. height' \in SUBSET Nat
  BY <1>1, <1>2
<1>4. LabelsInv'
  BY <1>1, <1>2, <1>3, EmittedPlaces
<1>5. ASSUME NEW want \in Seq(Nat), NEW h \in Nat, NEW k \in Nat,
             Fits(Step, h, k, want), Len(want) = n, height \subseteq {h},
             \A l \in 1..n : arrivals[l] \subseteq {want[l]}
      PROVE  /\ height' \subseteq {k}
             /\ \A l \in 1..n : arrivals'[l] \subseteq {want[l]}
  <2>1. Step.do = "leaves" => h = k
    BY <1>5 DEF Fits
  <2>. QED
    BY <1>1, <1>5, <2>1
<1>6. HeightsInv'
  <2>1. n = Len(arrivals) /\ Len(arrivals') = n
    BY <1>1
  <2>. HIDE DEF n
  <2>. QED
    BY <1>1, <1>5, <2>1, EmittedFits
<1>. QED
  BY <1>4, <1>6 DEF EmissionInv

\* The end of a block: the next statement begins where this one did.
LEMMA EndBlockKeeps ==
    ASSUME EmissionInv, EndBlock PROVE EmissionInv'
<1>. DEFINE n == Len(arrivals)
<1>1. /\ tasks # <<>> /\ Step.do = "block" /\ tasks' = Tail(tasks)
      /\ unusual' = unusual /\ located' = located /\ arrivals' = arrivals
      /\ height' = height /\ Step.do # "label"
  BY DEF EndBlock, At
<1>2. /\ LabelsInv /\ n \in Nat
      /\ arrivals \in Seq(SUBSET Nat) /\ height \in SUBSET Nat
  BY <1>1, StepHere
<1>3. LabelsInv'
  BY <1>1, <1>2, EmittedPlaces
<1>4. ASSUME NEW want \in Seq(Nat), NEW h \in Nat, NEW k \in Nat,
             Fits(Step, h, k, want), Len(want) = n, height \subseteq {h},
             \A l \in 1..n : arrivals[l] \subseteq {want[l]}
      PROVE  /\ height' \subseteq {k}
             /\ \A l \in 1..n : arrivals'[l] \subseteq {want[l]}
  <2>1. h = k
    BY <1>1, <1>4 DEF Fits
  <2>. QED
    BY <1>1, <1>4, <2>1
<1>5. HeightsInv'
  <2>1. n = Len(arrivals) /\ Len(arrivals') = n
    BY <1>1
  <2>2. tasks # <<>> /\ tasks' = Tail(tasks) /\ unusual' = unusual
    BY <1>1
  <2>. HIDE DEF n
  <2>. QED
    BY <1>4, <2>1, <2>2, EmittedFits
<1>. QED
  BY <1>3, <1>5 DEF EmissionInv

\* Of the paths that meet at a label, any is followed.
LEMMA EmitLabelKeeps ==
    ASSUME EmissionInv, EmitLabel PROVE EmissionInv'
<1>. DEFINE n == Len(arrivals)
            l0 == Step.label
<1>1. /\ tasks # <<>> /\ Step.do = "label" /\ tasks' = Tail(tasks)
      /\ unusual' = unusual /\ located' = located \cup {Step.label}
      /\ arrivals' = Reaches(height)
  BY DEF EmitLabel, At, Then
<1>2. /\ LabelsInv /\ n \in Nat /\ Step \in Task(n)
      /\ arrivals \in Seq(SUBSET Nat) /\ height \in SUBSET Nat
  BY <1>1, StepHere
<1>3. l0 \in 1..n
  BY <1>1, <1>2, TaskFields
<1>4. /\ arrivals' \in Seq(SUBSET Nat) /\ Len(arrivals') = n
      /\ \A l \in 1..n : arrivals'[l] = IF l = l0 THEN arrivals[l] \cup height
                                        ELSE arrivals[l]
  BY <1>1, <1>2, <1>3, ReachesOne
<1>5. height' = {} \/ \E x \in arrivals[l0] \cup height : height' = {x}
  <2>1. LET reached == arrivals'[l0]
        IN  IF reached = {} THEN height' = {}
            ELSE \E x \in reached : height' = {x}
    BY DEF EmitLabel
  <2>2. arrivals'[l0] = arrivals[l0] \cup height
    BY <1>3, <1>4
  <2>. QED
    BY <2>1, <2>2
<1>6. height' \in SUBSET Nat
  <2>1. arrivals[l0] \in SUBSET Nat
    BY <1>2, <1>3, ElementOfSeq
  <2>. QED
    BY <1>2, <1>5, <2>1
<1>7. LabelsInv'
  BY <1>1, <1>2, <1>4, <1>6, EmittedPlaces
<1>8. ASSUME NEW want \in Seq(Nat), NEW h \in Nat, NEW k \in Nat,
             Fits(Step, h, k, want), Len(want) = n, height \subseteq {h},
             \A l \in 1..n : arrivals[l] \subseteq {want[l]}
      PROVE  /\ height' \subseteq {k}
             /\ \A l \in 1..n : arrivals'[l] \subseteq {want[l]}
  <2>1. want[l0] = h /\ h = k
    BY <1>1, <1>8 DEF Fits
  <2>2. arrivals[l0] \cup height \subseteq {k}
    BY <1>3, <1>8, <2>1
  <2>3. height' \subseteq {k}
    BY <1>5, <2>2
  <2>4. \A l \in 1..n : arrivals'[l] \subseteq {want[l]}
    BY <1>4, <1>8, <2>1
  <2>. QED
    BY <2>3, <2>4
<1>9. HeightsInv'
  <2>1. n = Len(arrivals)
    OBVIOUS
  <2>. HIDE DEF n
  <2>. QED
    BY <1>1, <1>4, <1>8, <2>1, EmittedFits
<1>. QED
  BY <1>7, <1>9 DEF EmissionInv

----------------------------------------------------------------------------
(* The emission as a whole.                                                *)

LEMMA EmissionStarts == EmissionInit => EmissionInv
<1>. SUFFICES ASSUME EmissionInit PROVE EmissionInv
  OBVIOUS
<1>. DEFINE body == Block(NoLoop)
            list == <<body>>
            nothing == <<>>
<1>1. /\ tasks = list /\ height = {0} /\ arrivals = nothing /\ located = {}
  BY DEF EmissionInit
<1>2. /\ nothing \in Seq(SUBSET Nat) /\ nothing \in Seq(Nat) /\ Len(nothing) = 0
      /\ 1..0 = {} /\ 0 \in Nat
  OBVIOUS
<1>. HIDE DEF nothing
<1>3. Quiet(body, 0) /\ Fits(body, 0, 0, nothing)
  BY <1>2 DEF Block, NoLoop, NoLabel, Quiet, Fits, Task, Blocks
<1>4. Moves(list, 0, 0, 0, nothing)
  <2>. HIDE DEF body
  <2>. QED
    BY <1>2, <1>3, MovesOne
<1>5. list \in Seq(Task(0)) /\ Runs(list, 0, 0, nothing)
  BY <1>4 DEF Moves
<1>. HIDE DEF list
<1>6. LabelsInv
  BY <1>1, <1>2, <1>5 DEF LabelsInv, EmissionTypeOK
<1>7. Agrees(nothing, 0)
  BY <1>1, <1>2, <1>5 DEF Agrees
<1>. QED
  BY <1>2, <1>6, <1>7 DEF EmissionInv, HeightsInv

LEMMA EmissionKeeps == EmissionInv /\ [EmissionNext]_emissionVars => EmissionInv'
<1>. SUFFICES ASSUME EmissionInv, [EmissionNext]_emissionVars PROVE EmissionInv'
  OBVIOUS
<1>1. CASE EmitExpression
  <2>1. At("expression")
    BY <1>1 DEF EmitExpression
  <2>2. CASE /\ \E steps \in Regular(Step) : Choose(steps, Ghost)
             /\ UNCHANGED unusual
    BY <2>1, <2>2, RegularChosen
  <2>3. CASE \E u \in Uneven(Step) :
                /\ Choose(u.steps, Ghost)
                /\ unusual' = unusual \cup {u.form}
    BY <2>1, <2>3, UnevenChosen
  <2>. QED
    BY <1>1, <2>2, <2>3 DEF EmitExpression
<1>2. CASE EmitOptionalAccess
  BY <1>2, AccessChosen DEF EmitOptionalAccess
<1>3. CASE EmitStatement
  BY <1>3, StatementChosen DEF EmitStatement
<1>4. CASE EndBlock
  BY <1>4, EndBlockKeeps
<1>5. CASE EmitOp
  BY <1>5, EmitOpKeeps
<1>6. CASE EmitJump
  BY <1>6, EmitJumpKeeps
<1>7. CASE EmitJumpIf
  BY <1>7, EmitJumpIfKeeps
<1>8. CASE EmitStop \/ PassGhost
  BY <1>8, EmitStopKeeps
<1>9. CASE EmitLabel
  BY <1>9, EmitLabelKeeps
<1>10. CASE MissingContext \/ UNCHANGED emissionVars
  <2>1. UNCHANGED <<tasks, height, arrivals, located, unusual>>
    BY <1>10 DEF MissingContext, emissionVars
  <2>2. LabelsInv'
    BY <2>1 DEF EmissionInv, LabelsInv, EmissionTypeOK
  <2>3. HeightsInv'
    BY <2>1 DEF EmissionInv, HeightsInv, Agrees
  <2>. QED
    BY <2>2, <2>3 DEF EmissionInv
<1>. QED
  BY <1>1, <1>2, <1>3, <1>4, <1>5, <1>6, <1>7, <1>8, <1>9, <1>10 DEF EmissionNext

LEMMA EmissionInvariant == EmissionSpec => []EmissionInv
  BY EmissionStarts, EmissionKeeps, PTL DEF EmissionSpec

\* "Expressions always leave a value on the stack" (bytecode_generator.cc:76),
\* no instruction takes a value that is not there, and every statement begins
\* above an empty frame: in every function without `??` and without an
\* assignment through `?.`, however many forms its body has and however they
\* are nested.
THEOREM CodeIsBalanced == EmissionSpec => []StackBalanced
<1>1. EmissionInv => StackBalanced
  <2>1. SUFFICES ASSUME EmissionInv, unusual = {}
                 PROVE  /\ ExpressionsLeaveAValue
                        /\ At("op") => \A h \in height : h >= Step.pops
                        /\ At("block") => height \subseteq {0}
    BY DEF StackBalanced
  <2>2. PICK want \in Seq(Nat), h \in Nat : Agrees(want, h)
    BY <2>1 DEF EmissionInv, HeightsInv
  <2>3. height \subseteq {h} /\ Runs(tasks, h, 0, want)
    BY <2>2 DEF Agrees
  <2>4. ASSUME tasks # <<>>
        PROVE  \E k \in Nat : Fits(Step, h, k, want)
    <3>1. tasks \in Seq(Task(Len(arrivals)))
      BY <2>1 DEF EmissionInv, LabelsInv, EmissionTypeOK
    <3>. QED
      BY <2>3, <2>4, <3>1, RunsRest DEF Step
  <2>5. ExpressionsLeaveAValue
    <3>1. SUFFICES ASSUME At("leaves")
                   PROVE  \A x \in Step.from : h = x + Step.values
      BY <2>3 DEF ExpressionsLeaveAValue
    <3>. QED
      BY <2>4, <3>1 DEF At, Fits
  <2>6. At("op") => \A x \in height : x >= Step.pops
    BY <2>3, <2>4 DEF At, Fits
  <2>7. At("block") => height \subseteq {0}
    BY <2>3, <2>4 DEF At, Fits
  <2>. QED
    BY <2>5, <2>6, <2>7
<1>. QED
  BY <1>1, EmissionInvariant, PTL

\* Wherever two paths of such a function meet, at a label of a choice, a loop
\* or a chain, the stack is equally high on both.
THEOREM PathsMeetEvenly == EmissionSpec => []PathsAgree
<1>1. EmissionInv => PathsAgree
  <2>1. SUFFICES ASSUME EmissionInv, unusual = {}, NEW l \in 1..Len(arrivals)
                 PROVE  Cardinality(arrivals[l]) <= 1
    BY DEF PathsAgree
  <2>2. PICK want \in Seq(Nat), h \in Nat : Agrees(want, h)
    BY <2>1 DEF EmissionInv, HeightsInv
  <2>3. arrivals[l] \subseteq {want[l]}
    BY <2>2 DEF Agrees
  <2>4. arrivals[l] = {} \/ arrivals[l] = {want[l]}
    BY <2>3
  <2>5. Cardinality(arrivals[l]) = 0 \/ Cardinality(arrivals[l]) = 1
    BY <2>4, FS_EmptySet, FS_Singleton
  <2>. QED
    BY <2>5
<1>. QED
  BY <1>1, EmissionInvariant, PTL

\* A label is never placed twice, and when the body is emitted every label
\* that is jumped to has a place: no jump is left without its address.
THEOREM LabelsArePlaced == EmissionSpec => []LabelsPlaced
<1>1. EmissionInv => LabelsPlaced
  <2>1. SUFFICES ASSUME EmissionInv PROVE LabelsPlaced
    OBVIOUS
  <2>2. /\ tasks \in Seq(Task(Len(arrivals))) /\ Len(arrivals) \in Nat
        /\ \A l \in 1..Len(arrivals) :
                IF l \in located THEN Never(tasks, l) ELSE Once(tasks, l)
    BY <2>1 DEF EmissionInv, LabelsInv, EmissionTypeOK
  <2>3. ASSUME At("label") PROVE Step.label \notin located
    <3>1. tasks # <<>> /\ Step \in Task(Len(arrivals)) /\ Step.do = "label"
      BY <2>2, <2>3, HeadAndTail DEF At, Step
    <3>2. Step.label \in 1..Len(arrivals)
      BY <2>2, <3>1, TaskFields
    <3>3. Places(Head(tasks), Step.label)
      BY <3>1 DEF Places, Step
    <3>4. ~Never(tasks, Step.label)
      BY <2>2, <3>1, <3>3, PlacedInRest
    <3>. QED
      BY <2>2, <3>2, <3>4
  <2>4. ASSUME tasks = <<>>, NEW l \in 1..Len(arrivals) PROVE l \in located
    <3>1. ~Once(tasks, l)
      <4>1. Len(tasks) = 0 /\ 1..0 = {}
        BY <2>4
      <4>. QED
        BY <4>1 DEF Once
    <3>. QED
      BY <2>2, <3>1
  <2>. QED
    BY <2>3, <2>4 DEF LabelsPlaced
<1>. QED
  BY <1>1, EmissionInvariant, PTL

=============================================================================
