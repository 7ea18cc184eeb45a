----------------------------- MODULE TypeProofs ------------------------------
(***************************************************************************)
(* Types of any shape, declared in any order: what GetUnionOf and          *)
(* GetIntersectionOf make of them denotes the values that were meant, a    *)
(* value is only accepted where every value of its type may be stored, and *)
(* branches rejoin to the type they came from.  The first part says what   *)
(* the recursive functions of the model compute.                           *)
(***************************************************************************)
EXTENDS TypeBuilding, WellFoundedInduction, TLAPS

-----------------------------------------------------------------------------
(* Induction and recursive functions.                                      *)

\* Induction over the numbers, of a set instead of a predicate.
LEMMA SetInduction ==
  ASSUME NEW S, 0 \in S, \A n \in Nat : n \in S => n + 1 \in S
  PROVE  Nat \subseteq S
<1>. DEFINE R == OpToRel(<, Nat)
            T == Nat \ S
<1>1. IsWellFoundedOn(R, Nat)
  BY NatLessThanWellFounded
<1>2. SUFFICES ASSUME T # {} PROVE FALSE
  OBVIOUS
<1>3. T \subseteq Nat
  OBVIOUS
<1>4. \A x, y \in Nat : <<y, x>> \in R <=> y < x
  BY DEF OpToRel
<1>. HIDE DEF R
<1>5. PICK x \in T : \A y \in T : ~(<<y, x>> \in R)
  BY <1>1, <1>2, <1>3, WFMin
<1>6. x # 0 /\ x - 1 \in Nat /\ x \in Nat /\ x - 1 < x
  BY <1>5
<1>7. x - 1 \notin T
  BY <1>4, <1>5, <1>6
<1>. QED
  BY <1>5, <1>6, <1>7

\* The same, with all smaller numbers at hand.
LEMMA StrongInduction ==
  ASSUME NEW S, \A n \in Nat : (\A m \in Nat : m < n => m \in S) => n \in S
  PROVE  Nat \subseteq S
<1>. DEFINE T == {n \in Nat : \A m \in Nat : m < n => m \in S}
<1>1. 0 \in T
  OBVIOUS
<1>2. ASSUME NEW n \in Nat, n \in T PROVE n + 1 \in T
  <2>1. n \in S
    BY <1>2
  <2>2. \A m \in Nat : m < n + 1 => m = n \/ m < n
    OBVIOUS
  <2>. QED
    BY <1>2, <2>1, <2>2
<1>3. Nat \subseteq T
  <2>. HIDE DEF T
  <2>. QED
    BY <1>1, <1>2, SetInduction
<1>. QED
  BY <1>3

\* A step H from functions to functions that looks at elements of lower rank only.
LooksDown(H, D, V, r) ==
  \A g, h \in [D -> V], x \in D :
     (\A y \in D : r[y] < r[x] => g[y] = h[y]) => H[g][x] = H[h][x]

HasFixpoint(H, D, V) == \E f \in [D -> V] : H[f] = f

\* Where there is a highest rank, such a step leaves some function as it is.
LEMMA Recursion ==
  ASSUME NEW D, NEW V, V # {}, NEW n \in Nat, NEW r \in [D -> 0..n],
         NEW H \in [[D -> V] -> [D -> V]], LooksDown(H, D, V, r)
  PROVE  HasFixpoint(H, D, V)
<1>. DEFINE Upto(k) == \E f \in [D -> V] : \A x \in D : r[x] < k => H[f][x] = f[x]
            S == {k \in Nat : Upto(k)}
<1>0. \A x \in D : r[x] \in Nat /\ r[x] < n + 1
  OBVIOUS
<1>1. 0 \in S
  <2>1. PICK v \in V : TRUE
    OBVIOUS
  <2>2. [x \in D |-> v] \in [D -> V]
    OBVIOUS
  <2>3. \A x \in D : ~ (r[x] < 0)
    BY <1>0
  <2>. QED
    BY <2>2, <2>3
<1>2. ASSUME NEW k \in Nat, k \in S PROVE k + 1 \in S
  <2>1. PICK f \in [D -> V] : \A x \in D : r[x] < k => H[f][x] = f[x]
    BY <1>2
  <2>. DEFINE g == H[f]
  <2>2. g \in [D -> V]
    OBVIOUS
  <2>. HIDE DEF g
  <2>3. ASSUME NEW x \in D, r[x] < k + 1 PROVE H[g][x] = g[x]
    <3>1. ASSUME NEW y \in D, r[y] < r[x] PROVE g[y] = f[y]
      <4>1. r[y] < k
        BY <1>0, <2>3, <3>1
      <4>. QED
        BY <2>1, <4>1 DEF g
    <3>2. H[g][x] = H[f][x]
      BY <2>2, <3>1 DEF LooksDown
    <3>. QED
      BY <3>2 DEF g
  <2>4. Upto(k + 1)
    BY <2>2, <2>3
  <2>. QED
    BY <2>4
<1>3. Nat \subseteq S
  <2>. HIDE DEF S
  <2>. QED
    BY <1>1, <1>2, SetInduction
<1>4. PICK f \in [D -> V] : \A x \in D : r[x] < n + 1 => H[f][x] = f[x]
  <2>1. n + 1 \in S
    BY <1>3
  <2>. QED
    BY <2>1
<1>5. H[f] \in [D -> V] /\ \A x \in D : H[f][x] = f[x]
  BY <1>0, <1>4
<1>6. H[f] = f
  BY <1>5
<1>. QED
  BY <1>6 DEF HasFixpoint

-----------------------------------------------------------------------------
(* Types by how deep they are nested.                                       *)

\* What can be made of the types in S.
Made(S) ==
  {t \in [kind : Kind, of : SUBSET S] : t.kind \in {"optional", "alias"} => Single(t.of)}

\* The equation the types are defined by.
LEMMA NestedIs ==
  /\ Nested[0] = Made({})
  /\ \A n \in Nat : Nested[n + 1] = Made(Nested[n])
<1>. DEFINE Below(g, m) == IF m = 0 THEN {} ELSE g[m - 1]
            Upto(g, n) == g = [m \in 0..n |-> Made(Below(g, m))]
            Eq(g) == g = [m \in Nat |-> Made(Below(g, m))]
            S == {n \in Nat : \E g : Upto(g, n)}
<1>1. 0 \in S
  <2>. DEFINE g == [m \in 0..0 |-> Made({})]
  <2>1. \A m \in 0..0 : Below(g, m) = {}
    OBVIOUS
  <2>2. g = [m \in 0..0 |-> Made(Below(g, m))]
    BY <2>1
  <2>. HIDE DEF g
  <2>. QED
    BY <2>2
<1>2. ASSUME NEW n \in Nat, n \in S PROVE n + 1 \in S
  <2>1. PICK g : Upto(g, n)
    BY <1>2
  <2>. DEFINE h == [m \in 0..(n + 1) |-> IF m = n + 1 THEN Made(g[n]) ELSE g[m]]
  <2>2. \A m \in 0..n : h[m] = g[m]
    OBVIOUS
  <2>3. ASSUME NEW m \in 0..(n + 1) PROVE h[m] = Made(Below(h, m))
    <3>1. CASE m = n + 1
      <4>1. h[m] = Made(g[n]) /\ m # 0 /\ m - 1 = n /\ h[n] = g[n]
        BY <2>2, <3>1
      <4>. HIDE DEF h
      <4>. QED
        BY <4>1
    <3>2. CASE m # n + 1
      <4>1. m \in 0..n /\ h[m] = g[m]
        BY <2>2, <3>2
      <4>2. m # 0 => m - 1 \in 0..n /\ h[m - 1] = g[m - 1]
        BY <2>2, <4>1
      <4>3. g[m] = Made(Below(g, m))
        BY <2>1, <4>1
      <4>. HIDE DEF h
      <4>4. Below(h, m) = Below(g, m)
        BY <4>2
      <4>. QED
        BY <4>1, <4>3, <4>4
    <3>. QED
      BY <3>1, <3>2
  <2>4. DOMAIN h = 0..(n + 1) /\ h = [m \in 0..(n + 1) |-> h[m]]
    OBVIOUS
  <2>. HIDE DEF h
  <2>5. Upto(h, n + 1)
    BY <2>3, <2>4
  <2>. QED
    BY <2>5
<1>3. Nat \subseteq S
  <2>. HIDE DEF S
  <2>. QED
    BY <1>1, <1>2, SetInduction
<1>4. ASSUME NEW g, NEW h, NEW n \in Nat, NEW k \in Nat, n <= k, Upto(g, n), Upto(h, k)
      PROVE  \A m \in 0..n : g[m] = h[m]
  <2>. DEFINE T == {m \in Nat : m <= n => g[m] = h[m]}
  <2>1. \A m \in 0..n : g[m] = Made(Below(g, m)) /\ h[m] = Made(Below(h, m))
    BY <1>4
  <2>2. 0 \in T
    <3>1. 0 \in 0..n /\ Below(g, 0) = {} /\ Below(h, 0) = {}
      OBVIOUS
    <3>2. g[0] = Made({}) /\ h[0] = Made({})
      BY <2>1, <3>1
    <3>. QED
      BY <3>2
  <2>3. ASSUME NEW m \in Nat, m \in T PROVE m + 1 \in T
    <3>. SUFFICES ASSUME m + 1 <= n PROVE g[m + 1] = h[m + 1]
      OBVIOUS
    <3>1. m + 1 \in 0..n /\ m + 1 # 0 /\ m + 1 - 1 = m /\ m <= n
      OBVIOUS
    <3>2. Below(g, m + 1) = g[m] /\ Below(h, m + 1) = h[m]
      BY <3>1
    <3>. HIDE DEF Below
    <3>. QED
      BY <2>1, <2>3, <3>1, <3>2
  <2>4. Nat \subseteq T
    <3>. HIDE DEF T
    <3>. QED
      BY <2>2, <2>3, SetInduction
  <2>. QED
    BY <2>4
<1>5. \E g : Eq(g)
  <2>. DEFINE a(n) == CHOOSE g : Upto(g, n)
              f == [m \in Nat |-> a(m)[m]]
  <2>1. \A n \in Nat : Upto(a(n), n)
    BY <1>3
  <2>. HIDE DEF a
  <2>2. ASSUME NEW m \in Nat PROVE f[m] = Made(Below(f, m))
    <3>1. f[m] = a(m)[m] /\ m \in 0..m
      OBVIOUS
    <3>2. a(m)[m] = Made(Below(a(m), m))
      <4>1. Upto(a(m), m)
        BY <2>1
      <4>. HIDE DEF Below
      <4>. QED
        BY <4>1, <3>1
    <3>3. CASE m = 0
      BY <3>1, <3>2, <3>3
    <3>4. CASE m # 0
      <4>1. m - 1 \in Nat /\ m - 1 <= m /\ m - 1 \in 0..(m - 1)
        BY <3>4
      <4>2. f[m - 1] = a(m - 1)[m - 1]
        BY <4>1
      <4>3. Upto(a(m), m) /\ Upto(a(m - 1), m - 1)
        BY <2>1, <4>1
      <4>. HIDE DEF f, Upto
      <4>4. a(m - 1)[m - 1] = a(m)[m - 1]
        BY <1>4, <4>1, <4>3
      <4>5. Below(f, m) = Below(a(m), m)
        BY <4>2, <4>4, <3>4
      <4>. QED
        BY <3>1, <3>2, <4>5
    <3>. QED
      BY <3>3, <3>4
  <2>3. f = [m \in Nat |-> f[m]]
    OBVIOUS
  <2>. HIDE DEF f
  <2>4. Eq(f)
    BY <2>2, <2>3
  <2>. QED
    BY <2>4
<1>. DEFINE N == CHOOSE g : Eq(g)
<1>6. Eq(N)
  <2>. HIDE DEF Eq
  <2>. QED
    BY <1>5
<1>7. Nested = N
  BY DEF Nested, Made
<1>8. Eq(Nested)
  <2>. HIDE DEF Eq, N
  <2>. QED
    BY <1>6, <1>7
<1>9. \A m \in Nat : Nested[m] = Made(Below(Nested, m))
  BY <1>8
<1>10. Nested[0] = Made({})
  BY <1>9
<1>11. ASSUME NEW n \in Nat PROVE Nested[n + 1] = Made(Nested[n])
  <2>1. n + 1 \in Nat /\ n + 1 # 0 /\ n + 1 - 1 = n
    OBVIOUS
  <2>2. Below(Nested, n + 1) = Nested[n]
    BY <2>1
  <2>. HIDE DEF Below
  <2>. QED
    BY <1>9, <2>1, <2>2
<1>. QED
  BY <1>10, <1>11

\* Nesting is a matter of at most: what is nested n deep is nested k deep for
\* every larger k, and what a type is made of is nested less deep.
LEMMA Nesting ==
  /\ \A n \in Nat : Nested[n] \subseteq Nested[n + 1]
  /\ \A n, k \in Nat : n <= k => Nested[n] \subseteq Nested[k]
<1>. DEFINE S == {n \in Nat : Nested[n] \subseteq Nested[n + 1]}
<1>0. ASSUME NEW A, NEW B, A \subseteq B PROVE Made(A) \subseteq Made(B)
  BY <1>0 DEF Made
<1>1. 0 \in S
  <2>1. Made({}) \subseteq Made(Nested[0])
    BY <1>0
  <2>2. Nested[0 + 1] = Made(Nested[0])
    BY NestedIs
  <2>. QED
    BY <2>1, <2>2, NestedIs
<1>2. ASSUME NEW n \in Nat, n \in S PROVE n + 1 \in S
  <2>1. Nested[n + 1] = Made(Nested[n]) /\ Nested[n + 1 + 1] = Made(Nested[n + 1])
    BY NestedIs
  <2>2. Nested[n] \subseteq Nested[n + 1]
    BY <1>2
  <2>. QED
    BY <1>0, <2>1, <2>2
<1>3. Nat \subseteq S
  <2>. HIDE DEF S
  <2>. QED
    BY <1>1, <1>2, SetInduction
<1>4. ASSUME NEW n \in Nat PROVE \A k \in Nat : n <= k => Nested[n] \subseteq Nested[k]
  <2>. DEFINE T == {d \in Nat : Nested[n] \subseteq Nested[n + d]}
  <2>1. 0 \in T
    OBVIOUS
  <2>2. ASSUME NEW d \in Nat, d \in T PROVE d + 1 \in T
    <3>1. n + d \in Nat /\ n + (d + 1) = n + d + 1
      OBVIOUS
    <3>2. Nested[n + d] \subseteq Nested[n + d + 1]
      BY <1>3, <3>1
    <3>. QED
      BY <2>2, <3>1, <3>2
  <2>3. Nat \subseteq T
    <3>. HIDE DEF T
    <3>. QED
      BY <2>1, <2>2, SetInduction
  <2>4. ASSUME NEW k \in Nat, n <= k PROVE Nested[n] \subseteq Nested[k]
    <3>1. k - n \in Nat /\ n + (k - n) = k
      BY <2>4
    <3>2. k - n \in T
      BY <2>3, <3>1
    <3>. QED
      BY <3>1, <3>2
  <2>. QED
    BY <2>4
<1>. QED
  BY <1>3, <1>4

\* How deep a type is nested.
MaxRank == 3 * MaxDepth + 1
Rank == [t \in Type |-> CHOOSE n \in 0..MaxRank :
                           /\ t \in Nested[n]
                           /\ \A m \in 0..MaxRank : t \in Nested[m] => n <= m]

\* What there is to know of a type and of the types it is made of.
LEMMA Shape ==
  ASSUME NEW n \in Nat, NEW t \in Nested[n]
  PROVE  /\ t \in [kind : Kind, of : SUBSET Nested[n]]
         /\ \A m \in t.of : n # 0 /\ m \in Nested[n - 1]
         /\ t.kind \in {"optional", "alias"} => t.of = {Member(t)}
<1>0. t.kind \in {"optional", "alias"} => t.of = {Member(t)}
  <2>1. t.kind \in {"optional", "alias"} => Single(t.of)
    <3>1. n = 0 \/ (n - 1 \in Nat /\ n = n - 1 + 1)
      OBVIOUS
    <3>. QED
      BY <3>1, NestedIs DEF Made
  <2>. QED
    BY <2>1 DEF Single, Member
<1>1. CASE n = 0
  BY <1>0, <1>1, NestedIs DEF Made
<1>2. CASE n # 0
  <2>1. n - 1 \in Nat /\ n = n - 1 + 1
    BY <1>2
  <2>2. Nested[n] = Made(Nested[n - 1]) /\ Nested[n - 1] \subseteq Nested[n]
    BY <2>1, NestedIs, Nesting
  <2>. QED
    BY <1>0, <1>2, <2>2 DEF Made
<1>. QED
  BY <1>1, <1>2

\* The bounds are numbers, and every type a program writes is a type.
LEMMA Bounds ==
  /\ MaxDepth \in Nat /\ MaxDepth >= 1 /\ MaxRank \in Nat /\ MaxDepth + 2 <= MaxRank
  /\ Type = Nested[MaxRank]
  /\ Written \subseteq Type
<1>1. MaxDepth \in Nat /\ MaxDepth >= 1
  BY KindAssumption
<1>2. MaxRank \in Nat /\ MaxDepth + 2 <= MaxRank
  BY <1>1 DEF MaxRank
<1>3. Type = Nested[MaxRank]
  BY DEF Type, MaxRank
<1>. QED
  BY <1>1, <1>2, <1>3, Nesting DEF Written

\* Every type has a rank, and what it is made of has a lower one.
LEMMA Ranks ==
  /\ Rank \in [Type -> 0..MaxRank]
  /\ \A t \in Type : /\ t \in Nested[Rank[t]]
                     /\ \A n \in 0..MaxRank : t \in Nested[n] => Rank[t] <= n
                     /\ \A m \in t.of : m \in Type /\ Rank[m] < Rank[t]
<1>. DEFINE Is(t, n) == t \in Nested[n] /\ \A m \in 0..MaxRank : t \in Nested[m] => n <= m
<1>1. ASSUME NEW t \in Type PROVE \E n \in 0..MaxRank : Is(t, n)
  <2>. DEFINE S == {n \in Nat : n \in 0..MaxRank /\ t \in Nested[n]
                                  => \E k \in 0..MaxRank : Is(t, k)}
  <2>1. ASSUME NEW n \in Nat, \A m \in Nat : m < n => m \in S PROVE n \in S
    <3>. SUFFICES ASSUME n \in 0..MaxRank, t \in Nested[n]
                  PROVE  \E k \in 0..MaxRank : Is(t, k)
      OBVIOUS
    <3>1. CASE \E m \in 0..MaxRank : t \in Nested[m] /\ ~ (n <= m)
      <4>1. PICK m \in 0..MaxRank : t \in Nested[m] /\ ~ (n <= m)
        BY <3>1
      <4>2. m \in Nat /\ m < n
        BY <4>1
      <4>3. m \in S
        BY <2>1, <4>2
      <4>. QED
        BY <4>1, <4>3
    <3>2. CASE ~ \E m \in 0..MaxRank : t \in Nested[m] /\ ~ (n <= m)
      <4>1. Is(t, n)
        BY <3>2
      <4>. QED
        BY <4>1
    <3>. QED
      BY <3>1, <3>2
  <2>2. Nat \subseteq S
    <3>. HIDE DEF S
    <3>. QED
      BY <2>1, StrongInduction
  <2>3. MaxRank \in S /\ MaxRank \in 0..MaxRank /\ t \in Nested[MaxRank]
    BY <2>2, Bounds
  <2>. QED
    BY <2>3
<1>2. \A t \in Type : Rank[t] = CHOOSE n \in 0..MaxRank : Is(t, n)
  BY DEF Rank
<1>3. \A t \in Type : Rank[t] \in 0..MaxRank /\ Is(t, Rank[t])
  <2>. HIDE DEF Is
  <2>. QED
    BY <1>1, <1>2
<1>4. Rank = [t \in Type |-> Rank[t]]
  BY DEF Rank
<1>5. Rank \in [Type -> 0..MaxRank]
  <2>. HIDE DEF Is
  <2>. QED
    BY <1>3, <1>4
<1>6. ASSUME NEW t \in Type, NEW m \in t.of PROVE m \in Type /\ Rank[m] < Rank[t]
  <2>. DEFINE n == Rank[t]
  <2>1. n \in 0..MaxRank /\ t \in Nested[n]
    BY <1>3
  <2>. HIDE DEF n
  <2>2. n \in Nat /\ MaxRank \in Nat
    BY <2>1, Bounds
  <2>3. n # 0 /\ m \in Nested[n - 1]
    BY <2>1, <2>2, Shape
  <2>4. n - 1 \in Nat /\ n - 1 \in 0..MaxRank /\ n - 1 <= MaxRank
    BY <2>1, <2>2, <2>3
  <2>5. m \in Type
    BY <2>2, <2>3, <2>4, Bounds, Nesting
  <2>6. Rank[m] <= n - 1 /\ Rank[m] \in 0..MaxRank
    BY <1>3, <2>3, <2>4, <2>5
  <2>. QED
    BY <2>2, <2>5, <2>6 DEF n
<1>. QED
  BY <1>3, <1>5, <1>6

\* The parts of a type are types.
LEMMA TypeShape ==
  ASSUME NEW t \in Type
  PROVE  /\ t.kind \in Kind /\ t.of \in SUBSET Type
         /\ t = [kind |-> t.kind, of |-> t.of]
         /\ t.kind \in {"optional", "alias"} => t.of = {Member(t)} /\ Member(t) \in Type
         /\ IsOptional(t) => t.of = {UnwrapOptional(t)} /\ UnwrapOptional(t) \in Type
<1>1. t \in Nested[MaxRank] /\ MaxRank \in Nat
  BY Bounds
<1>2. t.of \in SUBSET Type
  BY Ranks, <1>1, Shape
<1>3. t \in [kind : Kind, of : SUBSET Nested[MaxRank]]
  BY <1>1, Shape
<1>4. t.kind \in {"optional", "alias"} => t.of = {Member(t)} /\ Member(t) \in Type
  <2>1. t.kind \in {"optional", "alias"} => t.of = {Member(t)}
    BY <1>1, Shape
  <2>. QED
    BY <1>2, <2>1
<1>. QED
  BY <1>2, <1>3, <1>4 DEF IsOptional, UnwrapOptional

\* Names are types.
LEMMA NamesAreTypes ==
  \A n \in Kind : n \notin {"optional", "alias"} => \A d \in Nat : Named(n) \in Nested[d]
<1>1. ASSUME NEW n \in Kind, n \notin {"optional", "alias"} PROVE Named(n) \in Nested[0]
  BY <1>1, NestedIs DEF Named, Made
<1>. QED
  BY <1>1, Nesting

\* Induction over the rank of types.
LEMMA RankInduction ==
  ASSUME NEW S, \A t \in Type : (\A u \in Type : Rank[u] < Rank[t] => u \in S) => t \in S
  PROVE  Type \subseteq S
<1>. DEFINE T == {n \in Nat : \A t \in Type : Rank[t] = n => t \in S}
<1>0. \A t \in Type : Rank[t] \in Nat
  BY Ranks, Bounds
<1>1. ASSUME NEW n \in Nat, \A m \in Nat : m < n => m \in T PROVE n \in T
  <2>1. ASSUME NEW t \in Type, Rank[t] = n PROVE t \in S
    <3>1. ASSUME NEW u \in Type, Rank[u] < Rank[t] PROVE u \in S
      <4>1. Rank[u] \in T
        BY <1>0, <1>1, <2>1, <3>1
      <4>. QED
        BY <4>1
    <3>. QED
      BY <3>1
  <2>. QED
    BY <2>1
<1>2. Nat \subseteq T
  <2>. HIDE DEF T
  <2>. QED
    BY <1>1, StrongInduction
<1>3. ASSUME NEW t \in Type PROVE t \in S
  <2>1. Rank[t] \in T
    BY <1>0, <1>2
  <2>. QED
    BY <2>1
<1>. QED
  BY <1>3

\* Induction over types: from what a type is made of to the type.
LEMMA TypeInduction ==
  ASSUME NEW S, \A t \in Type : (\A m \in t.of : m \in S) => t \in S
  PROVE  Type \subseteq S
<1>1. ASSUME NEW t \in Type, \A u \in Type : Rank[u] < Rank[t] => u \in S PROVE t \in S
  <2>1. \A m \in t.of : m \in S
    BY <1>1, Ranks
  <2>. QED
    BY <2>1
<1>. QED
  BY <1>1, RankInduction

\* A step that looks at what a type is made of leaves some function as it is.
LooksAtParts(H, V) ==
  \A g, h \in [Type -> V] : \A t \in Type :
     (\A m \in t.of : g[m] = h[m]) => H[g][t] = H[h][t]

LEMMA TypeRecursion ==
  ASSUME NEW V, V # {}, NEW H \in [[Type -> V] -> [Type -> V]], LooksAtParts(H, V)
  PROVE  HasFixpoint(H, Type, V)
<1>1. ASSUME NEW g \in [Type -> V], NEW h \in [Type -> V], NEW t \in Type,
             \A y \in Type : Rank[y] < Rank[t] => g[y] = h[y]
      PROVE  H[g][t] = H[h][t]
  <2>1. \A m \in t.of : m \in Type /\ Rank[m] < Rank[t]
    BY Ranks
  <2>2. \A m \in t.of : g[m] = h[m]
    BY <1>1, <2>1
  <2>. QED
    BY <2>2 DEF LooksAtParts
<1>2. LooksDown(H, Type, V, Rank)
  BY <1>1 DEF LooksDown
<1>3. Rank \in [Type -> 0..MaxRank] /\ MaxRank \in Nat
  BY Ranks, Bounds
<1>. QED
  BY <1>2, <1>3, Recursion

-----------------------------------------------------------------------------
(* What the recursive functions compute.                                    *)

\* FollowAlias is the type behind all aliases.
LEMMA FollowIs ==
  \A t \in Type :
    /\ FollowAlias(t) = IF t.kind = "alias" THEN FollowAlias(Member(t)) ELSE t
    /\ FollowAlias(t) \in Type
<1>. DEFINE H == [g \in [Type -> Type] |->
                    [t \in Type |-> IF t.kind = "alias" THEN g[Member(t)] ELSE t]]
            Eq(f) == f = [t \in Type |-> IF t.kind = "alias" THEN f[Member(t)] ELSE t]
            F == CHOOSE f : Eq(f)
<1>1. \A t \in Type : t.kind = "alias" => Member(t) \in Type /\ Rank[Member(t)] < Rank[t]
  BY TypeShape, Ranks
<1>2. H \in [[Type -> Type] -> [Type -> Type]]
  BY <1>1
<1>3. \A g \in [Type -> Type], t \in Type :
        H[g][t] = IF t.kind = "alias" THEN g[Member(t)] ELSE t
  OBVIOUS
<1>4. \A g \in [Type -> Type] : H[g] = [t \in Type |-> IF t.kind = "alias" THEN g[Member(t)]
                                                       ELSE t]
  OBVIOUS
<1>5. \E f : Eq(f)
  <2>1. ASSUME NEW g \in [Type -> Type], NEW h \in [Type -> Type], NEW t \in Type,
               \A m \in t.of : g[m] = h[m]
        PROVE  H[g][t] = H[h][t]
    <3>1. t.kind = "alias" => Member(t) \in t.of
      BY TypeShape
    <3>. HIDE DEF H
    <3>. QED
      BY <1>3, <2>1, <3>1
  <2>2. Type # {}
    BY KindAssumption, NamesAreTypes, Bounds DEF BuiltIn
  <2>. HIDE DEF H
  <2>3. LooksAtParts(H, Type)
    BY <2>1 DEF LooksAtParts
  <2>4. HasFixpoint(H, Type, Type)
    BY <1>2, <2>2, <2>3, TypeRecursion
  <2>5. PICK f \in [Type -> Type] : H[f] = f
    BY <2>4 DEF HasFixpoint
  <2>6. Eq(f)
    BY <1>4, <2>5
  <2>. QED
    BY <2>6
<1>6. Eq(F)
  <2>. HIDE DEF Eq
  <2>. QED
    BY <1>5
<1>7. \A t : FollowAlias(t) = F[t]
  BY DEF FollowAlias
<1>8. \A t \in Type : F[t] = IF t.kind = "alias" THEN F[Member(t)] ELSE t
  <2>. HIDE DEF F
  <2>. QED
    BY <1>6
<1>. HIDE DEF F
<1>9. \A t \in Type : FollowAlias(t) = IF t.kind = "alias" THEN FollowAlias(Member(t)) ELSE t
  BY <1>7, <1>8
<1>10. \A t \in Type : FollowAlias(t) \in Type
  <2>. DEFINE S == {t \in Type : FollowAlias(t) \in Type}
  <2>1. ASSUME NEW t \in Type, \A m \in t.of : m \in S PROVE t \in S
    BY <1>9, <2>1, TypeShape
  <2>2. Type \subseteq S
    <3>. HIDE DEF S
    <3>. QED
      BY <2>1, TypeInduction
  <2>. QED
    BY <2>2
<1>. QED
  BY <1>9, <1>10

\* The type behind all aliases is none, and not deeper than the alias.
LEMMA FollowRank ==
  \A t \in Type : /\ FollowAlias(t).kind # "alias"
                  /\ Rank[FollowAlias(t)] <= Rank[t]
<1>. DEFINE S == {t \in Type : /\ FollowAlias(t).kind # "alias"
                               /\ Rank[FollowAlias(t)] <= Rank[t]}
<1>0. \A t \in Type : Rank[t] \in Nat
  BY Ranks, Bounds
<1>1. ASSUME NEW t \in Type, \A m \in t.of : m \in S PROVE t \in S
  <2>1. CASE t.kind = "alias"
    <3>1. Member(t) \in t.of /\ Member(t) \in S /\ Member(t) \in Type
      BY <1>1, <2>1, TypeShape
    <3>2. FollowAlias(t) = FollowAlias(Member(t)) /\ Rank[Member(t)] < Rank[t]
      BY <2>1, <3>1, FollowIs, Ranks
    <3>3. FollowAlias(Member(t)) \in Type
      BY <3>1, FollowIs
    <3>4. Rank[FollowAlias(Member(t))] <= Rank[Member(t)]
      BY <3>1
    <3>5. Rank[FollowAlias(Member(t))] <= Rank[t]
      BY <1>0, <3>1, <3>2, <3>3, <3>4
    <3>. QED
      BY <3>1, <3>2, <3>5
  <2>2. CASE t.kind # "alias"
    <3>1. FollowAlias(t) = t
      BY <2>2, FollowIs
    <3>. QED
      BY <1>0, <2>2, <3>1
  <2>. QED
    BY <2>1, <2>2
<1>2. Type \subseteq S
  <2>. HIDE DEF S
  <2>. QED
    BY <1>1, TypeInduction
<1>. QED
  BY <1>2

\* What IsTypeSubsetOf says of a subtype s0 and a supertype t0, where B holds the
\* subtypes of the type that t0 wraps.
SubsetOf(imp, s0, t0, B) ==
  LET s == FollowAlias(s0)
      t == FollowAlias(t0)
  IN  \/ s0 = t0
      \/ s = t
      \/ s = Never \/ t = AnyType
      \/ s = Error \/ t = Error
      \/ IsUnion(t) /\ (IF IsUnion(s) THEN s.of \subseteq t.of ELSE s \in t.of)
      \/ ~ IsUnion(s) /\ IsOptional(t) /\
           (\/ s = Nil
            \/ (IF IsOptional(s) THEN UnwrapOptional(s) ELSE s) \in B)
      \/ t \in Interfaces(imp, s)

\* The equation IsTypeSubsetOf is defined by.
LEMMA SubsetIs ==
  ASSUME NEW imp, NEW s0 \in Type, NEW t0 \in Type
  PROVE  IsTypeSubsetOf(imp, s0, t0) <=>
           SubsetOf(imp, s0, t0,
                    {s \in Type : IsTypeSubsetOf(imp, s, UnwrapOptional(FollowAlias(t0)))})
<1>. DEFINE V == SUBSET Type
            Step(g, t) == {s \in Type : SubsetOf(imp, s, t, g[UnwrapOptional(FollowAlias(t))])}
            H == [g \in [Type -> V] |-> [t \in Type |-> Step(g, t)]]
            Eq(f) == f = [t \in Type |-> Step(f, t)]
            F == CHOOSE f : Eq(f)
<1>1. ASSUME NEW t \in Type, IsOptional(FollowAlias(t))
      PROVE  /\ UnwrapOptional(FollowAlias(t)) \in Type
             /\ Rank[UnwrapOptional(FollowAlias(t))] < Rank[t]
  <2>. DEFINE a == FollowAlias(t)
  <2>1. a \in Type /\ Rank[a] <= Rank[t] /\ IsOptional(a)
    BY <1>1, FollowIs, FollowRank
  <2>. HIDE DEF a
  <2>2. UnwrapOptional(a) \in Type /\ UnwrapOptional(a) \in a.of
    BY <2>1, TypeShape
  <2>3. Rank[UnwrapOptional(a)] < Rank[a]
    BY <2>1, <2>2, Ranks
  <2>4. Rank[UnwrapOptional(a)] \in Nat /\ Rank[a] \in Nat /\ Rank[t] \in Nat
    BY <2>1, <2>2, Ranks, Bounds
  <2>5. Rank[UnwrapOptional(a)] < Rank[t]
    BY <2>1, <2>3, <2>4
  <2>. QED
    BY <2>2, <2>5 DEF a
<1>2. H \in [[Type -> V] -> [Type -> V]]
  <2>1. \A g, t : Step(g, t) \in V
    OBVIOUS
  <2>. HIDE DEF V, Step
  <2>. QED
    BY <2>1
<1>3. \A g \in [Type -> V] : H[g] = [t \in Type |-> Step(g, t)]
  <2>. HIDE DEF V, Step
  <2>. QED
    OBVIOUS
<1>4. \A g \in [Type -> V], t \in Type : H[g][t] = Step(g, t)
  <2>. HIDE DEF V, Step, H
  <2>. QED
    BY <1>3
<1>5. LooksDown(H, Type, V, Rank)
  <2>1. ASSUME NEW g \in [Type -> V], NEW h \in [Type -> V], NEW t \in Type,
               \A u \in Type : Rank[u] < Rank[t] => g[u] = h[u]
        PROVE  H[g][t] = H[h][t]
    <3>1. CASE IsOptional(FollowAlias(t))
      <4>1. g[UnwrapOptional(FollowAlias(t))] = h[UnwrapOptional(FollowAlias(t))]
        BY <1>1, <2>1, <3>1
      <4>2. Step(g, t) = Step(h, t)
        BY <4>1
      <4>. HIDE DEF V, H, Step
      <4>. QED
        BY <1>4, <2>1, <4>2
    <3>2. CASE ~ IsOptional(FollowAlias(t))
      <4>1. \A s, A, B : SubsetOf(imp, s, t, A) <=> SubsetOf(imp, s, t, B)
        BY <3>2 DEF SubsetOf
      <4>2. Step(g, t) = Step(h, t)
        BY <4>1
      <4>. HIDE DEF V, H, Step
      <4>. QED
        BY <1>4, <2>1, <4>2
    <3>. QED
      BY <3>1, <3>2
  <2>. HIDE DEF V, H
  <2>. QED
    BY <2>1 DEF LooksDown
<1>6. HasFixpoint(H, Type, V)
  <2>1. V # {} /\ Rank \in [Type -> 0..MaxRank] /\ MaxRank \in Nat
    BY Ranks, Bounds
  <2>. HIDE DEF V, H
  <2>. QED
    BY <1>2, <1>5, <2>1, Recursion
<1>7. \E f : Eq(f)
  <2>. HIDE DEF V, H, Step
  <2>1. PICK f \in [Type -> V] : H[f] = f
    BY <1>6 DEF HasFixpoint
  <2>2. Eq(f)
    BY <1>3, <2>1
  <2>. QED
    BY <2>2
<1>8. Eq(F)
  <2>. HIDE DEF Eq
  <2>. QED
    BY <1>7
<1>9. \A s, t : IsTypeSubsetOf(imp, s, t) <=> s \in F[t]
  BY DEF IsTypeSubsetOf, SubsetOf
<1>10. \A t \in Type : F[t] = Step(F, t)
  <2>. HIDE DEF F, Step
  <2>. QED
    BY <1>8
<1>. HIDE DEF F
<1>11. s0 \in F[t0] <=> SubsetOf(imp, s0, t0, F[UnwrapOptional(FollowAlias(t0))])
  BY <1>10
<1>12. CASE IsOptional(FollowAlias(t0))
  <2>. DEFINE w == UnwrapOptional(FollowAlias(t0))
  <2>1. F[w] \subseteq Type
    BY <1>1, <1>10, <1>12
  <2>2. F[w] = {s \in Type : IsTypeSubsetOf(imp, s, w)}
    BY <1>9, <2>1
  <2>. QED
    BY <1>9, <1>11, <2>2
<1>13. CASE ~ IsOptional(FollowAlias(t0))
  <2>1. \A A, B : SubsetOf(imp, s0, t0, A) <=> SubsetOf(imp, s0, t0, B)
    BY <1>13 DEF SubsetOf
  <2>. QED
    BY <1>9, <1>11, <2>1
<1>. QED
  BY <1>12, <1>13

\* MeaningOf and Denotes, for any implements-relation.
Mean(imp, n) ==
  CASE n.kind = "any"         -> Values
    [] n.kind = "never"       -> {}
    [] n.kind \in Interface   -> {s \in Struct : n.kind \in imp[s]}
    [] OTHER                  -> {n.kind}

\* What a type t denotes, where g says what its parts denote.
Denoted(imp, t, g) ==
  CASE t.kind \in {"alias", "union"} -> UNION {g[m] : m \in t.of}
    [] t.kind = "optional" -> {"Nil"} \cup g[Member(t)]
    [] t.kind = "intersection" -> {v \in Values : \A m \in t.of : v \in g[m]}
    [] OTHER -> Mean(imp, t)

Den(imp, type) ==
  LET values[t \in Type] == Denoted(imp, t, values)
  IN  values[type]

\* Denotes is that of the current relation.
LEMMA DenotesIsDen ==
  /\ \A t : Denotes(t) = Den(implements, t)
  /\ \A t : Denotes(t)' = Den(implements', t)
  /\ \A t : MeaningOf(t) = Mean(implements, t)
  /\ \A t : MeaningOf(t)' = Mean(implements', t)
  BY DEF Denotes, Den, Denoted, MeaningOf, Mean

\* The equation it is defined by.
LEMMA DenIs ==
  ASSUME NEW imp, NEW t \in Type
  PROVE  Den(imp, t) = Denoted(imp, t, [m \in Type |-> Den(imp, m)])
<1>. DEFINE V == SUBSET (Values \cup Kind)
            H == [g \in [Type -> V] |-> [u \in Type |-> Denoted(imp, u, g)]]
            Eq(f) == f = [u \in Type |-> Denoted(imp, u, f)]
            F == CHOOSE f : Eq(f)
<1>1. ASSUME NEW g \in [Type -> V], NEW u \in Type PROVE Denoted(imp, u, g) \in V
  <2>1. Mean(imp, u) \in V
    BY TypeShape, KindAssumption DEF Mean
  <2>2. \A m \in u.of : g[m] \in V
    BY TypeShape
  <2>3. UNION {g[m] : m \in u.of} \in V
    BY <2>2
  <2>4. u.kind = "optional" => {"Nil"} \cup g[Member(u)] \in V
    BY TypeShape DEF Values
  <2>. HIDE DEF V
  <2>5. {v \in Values : \A m \in u.of : v \in g[m]} \in V
    BY DEF V
  <2>. QED
    BY <2>1, <2>3, <2>4, <2>5 DEF Denoted
<1>2. H \in [[Type -> V] -> [Type -> V]]
  <2>. HIDE DEF V
  <2>. QED
    BY <1>1
<1>3. /\ \A g \in [Type -> V] : H[g] = [u \in Type |-> Denoted(imp, u, g)]
      /\ \A g \in [Type -> V], u \in Type : H[g][u] = Denoted(imp, u, g)
  <2>. HIDE DEF V
  <2>. QED
    OBVIOUS
<1>4. ASSUME NEW g, NEW h, NEW u \in Type, \A m \in u.of : g[m] = h[m]
      PROVE  Denoted(imp, u, g) = Denoted(imp, u, h)
  <2>1. u.kind = "optional" => Member(u) \in u.of
    BY TypeShape
  <2>2. {g[m] : m \in u.of} = {h[m] : m \in u.of}
    BY <1>4
  <2>3. \A v : (\A m \in u.of : v \in g[m]) <=> (\A m \in u.of : v \in h[m])
    BY <1>4
  <2>4. {v \in Values : \A m \in u.of : v \in g[m]} = {v \in Values : \A m \in u.of : v \in h[m]}
    BY <2>3
  <2>5. UNION {g[m] : m \in u.of} = UNION {h[m] : m \in u.of}
    BY <2>2
  <2>. QED
    BY <1>4, <2>1, <2>4, <2>5 DEF Denoted
<1>5. LooksAtParts(H, V)
  <2>. HIDE DEF V, H
  <2>. QED
    BY <1>3, <1>4 DEF LooksAtParts
<1>6. \E f : Eq(f)
  <2>1. V # {}
    OBVIOUS
  <2>. HIDE DEF V, H
  <2>2. HasFixpoint(H, Type, V)
    BY <1>2, <1>5, <2>1, TypeRecursion
  <2>3. PICK f \in [Type -> V] : H[f] = f
    BY <2>2 DEF HasFixpoint
  <2>4. Eq(f)
    BY <1>3, <2>3
  <2>. QED
    BY <2>4
<1>7. Eq(F)
  <2>. HIDE DEF Eq
  <2>. QED
    BY <1>6
<1>8. \A u : Den(imp, u) = F[u]
  BY DEF Den
<1>9. \A u \in Type : F[u] = Denoted(imp, u, F)
  <2>. HIDE DEF F
  <2>. QED
    BY <1>7
<1>. HIDE DEF F
<1>. DEFINE G == [m \in Type |-> Den(imp, m)]
<1>10. \A m \in t.of : G[m] = F[m]
  BY <1>8, TypeShape
<1>. HIDE DEF G
<1>11. Denoted(imp, t, G) = Denoted(imp, t, F)
  BY <1>4, <1>10
<1>. QED
  BY <1>8, <1>9, <1>11 DEF G

\* What each kind of type denotes.
LEMMA Meanings ==
  ASSUME NEW imp, NEW t \in Type
  PROVE  /\ t.kind \in {"alias", "union"} => Den(imp, t) = UNION {Den(imp, m) : m \in t.of}
         /\ t.kind = "alias" => Den(imp, t) = Den(imp, Member(t))
         /\ t.kind = "optional" => Den(imp, t) = {"Nil"} \cup Den(imp, Member(t))
         /\ t.kind = "intersection" =>
              Den(imp, t) = {v \in Values : \A m \in t.of : v \in Den(imp, m)}
         /\ t.kind \notin {"alias", "union", "optional", "intersection"} =>
              Den(imp, t) = Mean(imp, t)
<1>. DEFINE G == [m \in Type |-> Den(imp, m)]
<1>1. \A m \in Type : G[m] = Den(imp, m)
  OBVIOUS
<1>2. Den(imp, t) = Denoted(imp, t, G)
  BY DenIs
<1>. HIDE DEF G
<1>3. \A m \in t.of : G[m] = Den(imp, m)
  BY <1>1, TypeShape
<1>4. {G[m] : m \in t.of} = {Den(imp, m) : m \in t.of}
  BY <1>3
<1>5. ASSUME t.kind \in {"alias", "union"}
      PROVE  Den(imp, t) = UNION {Den(imp, m) : m \in t.of}
  BY <1>2, <1>4, <1>5 DEF Denoted
<1>6. ASSUME t.kind = "alias" PROVE Den(imp, t) = Den(imp, Member(t))
  <2>1. t.of = {Member(t)}
    BY <1>6, TypeShape
  <2>2. {Den(imp, m) : m \in t.of} = {Den(imp, Member(t))}
    BY <2>1
  <2>. QED
    BY <1>5, <1>6, <2>2
<1>7. ASSUME t.kind = "optional" PROVE Den(imp, t) = {"Nil"} \cup Den(imp, Member(t))
  <2>1. G[Member(t)] = Den(imp, Member(t))
    BY <1>1, <1>7, TypeShape
  <2>. QED
    BY <1>2, <1>7, <2>1 DEF Denoted
<1>8. ASSUME t.kind = "intersection"
      PROVE  Den(imp, t) = {v \in Values : \A m \in t.of : v \in Den(imp, m)}
  <2>1. Den(imp, t) = {v \in Values : \A m \in t.of : v \in G[m]}
    BY <1>2, <1>8 DEF Denoted
  <2>. QED
    BY <1>3, <2>1
<1>9. t.kind \notin {"alias", "union", "optional", "intersection"} => Den(imp, t) = Mean(imp, t)
  BY <1>2 DEF Denoted
<1>. QED
  BY <1>5, <1>6, <1>7, <1>8, <1>9

\* The types that are mentioned in a type.
LEMMA MentionsIs ==
  ASSUME NEW t \in Type, NEW kinds
  PROVE  Mentions(t, kinds) <=> t.kind \in kinds \/ \E m \in t.of : Mentions(m, kinds)
<1>. DEFINE V == SUBSET Type
            Step(g, u) == {u} \cup UNION {g[m] : m \in u.of}
            H == [g \in [Type -> V] |-> [u \in Type |-> Step(g, u)]]
            Eq(f) == f = [u \in Type |-> Step(f, u)]
            F == CHOOSE f : Eq(f)
<1>1. ASSUME NEW g \in [Type -> V], NEW u \in Type PROVE Step(g, u) \in V
  <2>1. \A m \in u.of : g[m] \in V
    BY TypeShape
  <2>. QED
    BY <2>1
<1>2. H \in [[Type -> V] -> [Type -> V]]
  <2>. HIDE DEF V, Step
  <2>. QED
    BY <1>1
<1>3. /\ \A g \in [Type -> V] : H[g] = [u \in Type |-> Step(g, u)]
      /\ \A g \in [Type -> V], u \in Type : H[g][u] = Step(g, u)
  <2>. HIDE DEF V, Step
  <2>. QED
    OBVIOUS
<1>4. ASSUME NEW g, NEW h, NEW u \in Type, \A m \in u.of : g[m] = h[m]
      PROVE  Step(g, u) = Step(h, u)
  <2>1. {g[m] : m \in u.of} = {h[m] : m \in u.of}
    BY <1>4
  <2>. QED
    BY <2>1
<1>5. LooksAtParts(H, V)
  <2>. HIDE DEF V, H, Step
  <2>. QED
    BY <1>3, <1>4 DEF LooksAtParts
<1>6. \E f : Eq(f)
  <2>1. V # {}
    OBVIOUS
  <2>. HIDE DEF V, H, Step
  <2>2. HasFixpoint(H, Type, V)
    BY <1>2, <1>5, <2>1, TypeRecursion
  <2>3. PICK f \in [Type -> V] : H[f] = f
    BY <2>2 DEF HasFixpoint
  <2>4. Eq(f)
    BY <1>3, <2>3
  <2>. QED
    BY <2>4
<1>7. Eq(F)
  <2>. HIDE DEF Eq
  <2>. QED
    BY <1>6
<1>8. \A u : Mentions(u, kinds) <=> \E p \in F[u] : p.kind \in kinds
  BY DEF Mentions
<1>9. \A u \in Type : F[u] = {u} \cup UNION {F[m] : m \in u.of}
  <2>. HIDE DEF F
  <2>. QED
    BY <1>7
<1>. HIDE DEF F
<1>10. F[t] = {t} \cup UNION {F[m] : m \in t.of}
  BY <1>9
<1>. QED
  BY <1>8, <1>10

-----------------------------------------------------------------------------
(* How types are made.                                                      *)

Relation == [Struct -> SUBSET Interface]

\* A type as the declarations of a program leave it.
Regular(imp, t) ==
  /\ t.kind \in {"i32", "any", "never", "Nil"} \cup Struct \cup Interface
                   \cup {"optional", "alias", "union", "intersection"}
  /\ t.kind \notin {"optional", "alias", "union", "intersection"} => t.of = {}
  /\ t.kind = "optional" => Nil \notin t.of
  /\ t.kind = "union" => /\ Nil \notin t.of /\ Never \notin t.of
                         /\ t.of # {} /\ ~ Single(t.of)
                         /\ FlattenSubtypesUnion(imp, t.of) = t.of
  /\ t.kind = "intersection" =>
       /\ t.of # {}
       /\ \A m \in t.of : m.kind \notin {"never", "union", "optional", "intersection"}

\* Types that are regular through and through.
WellMade(imp) ==
  UNION {S \in SUBSET Type : \A t \in S : Regular(imp, t) /\ t.of \subseteq S}

\* A regular type of well-made types is well-made.
LEMMA WellMadeIs ==
  ASSUME NEW imp
  PROVE  /\ WellMade(imp) \subseteq Type
         /\ \A t \in Type : t \in WellMade(imp) <=>
              Regular(imp, t) /\ t.of \subseteq WellMade(imp)
<1>. DEFINE W == WellMade(imp)
            Closed(S) == \A t \in S : Regular(imp, t) /\ t.of \subseteq S
<1>1. W = UNION {S \in SUBSET Type : Closed(S)}
  BY DEF WellMade
<1>2. W \subseteq Type
  BY <1>1
<1>3. ASSUME NEW t \in W PROVE Regular(imp, t) /\ t.of \subseteq W
  <2>. HIDE DEF W
  <2>1. PICK S \in SUBSET Type : Closed(S) /\ t \in S
    BY <1>1, <1>3
  <2>2. S \subseteq W
    BY <1>1, <2>1
  <2>. QED
    BY <2>1, <2>2
<1>4. ASSUME NEW t \in Type, Regular(imp, t), t.of \subseteq W PROVE t \in W
  <2>. DEFINE S == W \cup {t}
  <2>. HIDE DEF W
  <2>1. S \in SUBSET Type /\ Closed(S)
    BY <1>2, <1>3, <1>4
  <2>. HIDE DEF S, Closed
  <2>2. S \subseteq W
    BY <1>1, <2>1
  <2>. QED
    BY <2>2 DEF S
<1>. QED
  BY <1>2, <1>3, <1>4

\* Kinds are what they are called, and nothing else.
LEMMA KindsDiffer ==
  /\ BuiltIn \subseteq Kind /\ Struct \subseteq Kind /\ Interface \subseteq Kind
  /\ \A k \in Struct \cup Interface :
       k \notin {"i32", "any", "never", "Nil", "error", "optional", "alias", "union",
                "intersection"}
  /\ \A k \in Struct : k \notin Interface
  BY KindAssumption DEF BuiltIn

\* A type without parts is the name of its kind.
LEMMA NamedIs ==
  /\ \A t \in Type : t.of = {} => t = Named(t.kind)
  /\ \A n : Named(n).kind = n /\ Named(n).of = {}
<1>1. ASSUME NEW t \in Type, t.of = {} PROVE t = Named(t.kind)
  BY <1>1, TypeShape DEF Named
<1>. QED
  BY <1>1 DEF Named

\* The names are well-made at every depth.
LEMMA NamesWellMade ==
  ASSUME NEW imp, NEW n \in {"i32", "any", "never", "Nil"} \cup Struct \cup Interface
  PROVE  /\ Named(n) \in WellMade(imp) /\ Named(n) \in Type
         /\ \A d \in Nat : Named(n) \in Nested[d]
<1>1. n \in Kind /\ n \notin {"optional", "alias", "union", "intersection"}
  BY KindsDiffer DEF BuiltIn
<1>2. \A d \in Nat : Named(n) \in Nested[d]
  BY <1>1, NamesAreTypes
<1>3. Named(n) \in Type
  BY <1>2, Bounds
<1>4. Regular(imp, Named(n))
  BY <1>1, NamedIs DEF Regular
<1>. QED
  BY <1>2, <1>3, <1>4, NamedIs, WellMadeIs

\* The interfaces of a well-made type.
LEMMA InterfacesAre ==
  ASSUME NEW imp \in Relation, NEW t, NEW i \in Interfaces(imp, t)
  PROVE  /\ t.kind \in Struct /\ i.kind \in imp[t.kind] /\ i = Named(i.kind)
         /\ i.kind \in Interface /\ Interfaces(imp, i) = {}
<1>1. t.kind \in Struct /\ \E n \in imp[t.kind] : i = Named(n)
  BY DEF Interfaces
<1>2. PICK n \in imp[t.kind] : i = Named(n)
  BY <1>1
<1>3. n \in Interface /\ i.kind = n
  BY <1>1, <1>2, NamedIs DEF Relation
<1>. QED
  BY <1>1, <1>2, <1>3, KindsDiffer DEF Interfaces

\* A struct is a value of each interface it implements.
LEMMA InterfaceHolds ==
  ASSUME NEW imp \in Relation, NEW t \in Type, NEW i \in Interfaces(imp, t), i \in Type
  PROVE  Den(imp, t) \subseteq Den(imp, i)
<1>1. /\ t.kind \in Struct /\ i.kind \in imp[t.kind] /\ i.kind \in Interface
  BY InterfacesAre
<1>2. Den(imp, t) = {t.kind}
  BY <1>1, Meanings, KindsDiffer DEF Mean
<1>3. Den(imp, i) = {s \in Struct : i.kind \in imp[s]}
  BY <1>1, Meanings, KindsDiffer DEF Mean
<1>. QED
  BY <1>1, <1>2, <1>3

\* What is left out of a union is covered by what stays, and nothing more is left
\* out when it is done again.
LEMMA UnionFlattened ==
  ASSUME NEW imp \in Relation, NEW types, types \subseteq Type
  PROVE  LET flat == FlattenSubtypesUnion(imp, types)
         IN  /\ flat \subseteq types
             /\ FlattenSubtypesUnion(imp, flat) = flat
             /\ \A t \in types : \E u \in flat : Den(imp, t) \subseteq Den(imp, u)
<1>. DEFINE flat == FlattenSubtypesUnion(imp, types)
<1>1. flat \subseteq types
  BY DEF FlattenSubtypesUnion
<1>2. FlattenSubtypesUnion(imp, flat) = flat
  BY <1>1 DEF FlattenSubtypesUnion
<1>3. ASSUME NEW t \in types, t.kind # "intersection"
      PROVE  \E u \in flat : Den(imp, t) \subseteq Den(imp, u)
  <2>1. CASE Interfaces(imp, t) \cap types = {}
    BY <1>3, <2>1 DEF FlattenSubtypesUnion
  <2>2. CASE Interfaces(imp, t) \cap types # {}
    <3>1. PICK i \in Interfaces(imp, t) : i \in types
      BY <2>2
    <3>2. Interfaces(imp, i) = {} /\ i.kind # "intersection"
      BY <3>1, InterfacesAre, KindsDiffer
    <3>3. i \in flat
      BY <3>1, <3>2 DEF FlattenSubtypesUnion
    <3>4. Den(imp, t) \subseteq Den(imp, i)
      BY <3>1, InterfaceHolds
    <3>. QED
      BY <3>3, <3>4
  <2>. QED
    BY <2>1, <2>2
<1>4. ASSUME NEW t \in types, t.kind = "intersection"
      PROVE  \E u \in flat : Den(imp, t) \subseteq Den(imp, u)
  <2>1. CASE t.of \cap {u \in types : u.kind # "intersection"} = {}
    BY <1>4, <2>1 DEF FlattenSubtypesUnion
  <2>2. CASE t.of \cap {u \in types : u.kind # "intersection"} # {}
    <3>1. PICK m \in t.of : m \in types /\ m.kind # "intersection"
      BY <2>2
    <3>2. Den(imp, t) \subseteq Den(imp, m)
      <4>1. t \in Type
        OBVIOUS
      <4>2. Den(imp, t) = {v \in Values : \A p \in t.of : v \in Den(imp, p)}
        BY <1>4, <4>1, Meanings
      <4>. QED
        BY <3>1, <4>2
    <3>3. PICK u \in flat : Den(imp, m) \subseteq Den(imp, u)
      BY <1>3, <3>1
    <3>. QED
      BY <3>2, <3>3
  <2>. QED
    BY <2>1, <2>2
<1>. HIDE DEF flat
<1>5. \A t \in types : \E u \in flat : Den(imp, t) \subseteq Den(imp, u)
  BY <1>3, <1>4
<1>. QED
  BY <1>1, <1>2, <1>5 DEF flat

-----------------------------------------------------------------------------
(* Unions.                                                                  *)

\* What GetUnionOf takes a type apart into.
Flat(t) == IF IsUnion(t) THEN t.of
           ELSE IF IsOptional(t) THEN {UnwrapOptional(t), Nil} ELSE {t}

\* It is made of types no deeper, well-made if the type is, and denotes the same.
LEMMA FlatIs ==
  ASSUME NEW imp \in Relation, NEW t \in Type
  PROVE  /\ \A n \in Nat : t \in Nested[n] => Flat(t) \subseteq Nested[n]
         /\ Flat(t) \subseteq Type
         /\ t \in WellMade(imp) => Flat(t) \subseteq WellMade(imp)
         /\ Den(imp, t) = UNION {Den(imp, m) : m \in Flat(t)}
<1>1. /\ Nil \in Type /\ Nil \in WellMade(imp) /\ \A n \in Nat : Nil \in Nested[n]
      /\ Den(imp, Nil) = {"Nil"}
  <2>1. Nil \in Type /\ Nil \in WellMade(imp) /\ \A n \in Nat : Nil \in Nested[n]
    BY NamesWellMade DEF Nil
  <2>2. Nil.kind = "Nil"
    BY NamedIs DEF Nil
  <2>3. Den(imp, Nil) = Mean(imp, Nil)
    BY <2>1, <2>2, Meanings
  <2>4. "Nil" \notin Interface
    BY KindsDiffer
  <2>. QED
    BY <2>1, <2>2, <2>3, <2>4 DEF Mean
<1>2. CASE IsUnion(t)
  <2>1. Flat(t) = t.of /\ t.kind = "union"
    BY <1>2 DEF Flat, IsUnion
  <2>2. \A n \in Nat : t \in Nested[n] => t.of \subseteq Nested[n]
    BY Shape
  <2>3. t.of \subseteq Type /\ (t \in WellMade(imp) => t.of \subseteq WellMade(imp))
    BY TypeShape, WellMadeIs
  <2>4. Den(imp, t) = UNION {Den(imp, m) : m \in t.of}
    BY <2>1, Meanings
  <2>. QED
    BY <2>1, <2>2, <2>3, <2>4
<1>3. CASE IsOptional(t) /\ ~ IsUnion(t)
  <2>. DEFINE w == UnwrapOptional(t)
  <2>1. Flat(t) = {w, Nil} /\ t.kind = "optional" /\ w = Member(t)
    BY <1>3 DEF Flat, IsOptional, UnwrapOptional
  <2>2. w \in Type /\ t.of = {w}
    BY <1>3, TypeShape
  <2>. HIDE DEF w
  <2>3. \A n \in Nat : t \in Nested[n] => w \in Nested[n]
    BY <2>2, Shape
  <2>4. t \in WellMade(imp) => w \in WellMade(imp)
    BY <2>2, WellMadeIs
  <2>5. Den(imp, t) = {"Nil"} \cup Den(imp, w)
    BY <2>1, Meanings
  <2>6. UNION {Den(imp, m) : m \in {w, Nil}} = Den(imp, w) \cup {"Nil"}
    BY <1>1
  <2>. QED
    BY <1>1, <2>1, <2>2, <2>3, <2>4, <2>5, <2>6
<1>4. CASE ~ IsOptional(t) /\ ~ IsUnion(t)
  <2>1. Flat(t) = {t}
    BY <1>4 DEF Flat
  <2>2. UNION {Den(imp, m) : m \in {t}} = Den(imp, t)
    OBVIOUS
  <2>. QED
    BY <2>1, <2>2
<1>. QED
  BY <1>2, <1>3, <1>4

\* A union is one of its members, the record of them, or that wrapped.
Joined(members) == IF Single(members) THEN CHOOSE m \in members : TRUE
                   ELSE [kind |-> "union", of |-> members]

LEMMA JoinedIs ==
  ASSUME NEW n \in Nat, NEW members, members \subseteq Nested[n], n + 1 <= MaxRank,
         NEW imp \in Relation
  PROVE  /\ Joined(members) \in Nested[n + 1] /\ Joined(members) \in Type
         /\ Den(imp, Joined(members)) = UNION {Den(imp, m) : m \in members}
         /\ Nil \notin members => Joined(members) # Nil
         /\ /\ members # {} /\ Nil \notin members /\ Never \notin members
            /\ members \subseteq WellMade(imp)
            /\ FlattenSubtypesUnion(imp, members) = members
            => Joined(members) \in WellMade(imp)
<1>0. Nested[n + 1] \subseteq Type /\ Nested[n] \subseteq Nested[n + 1]
  BY Bounds, Nesting
<1>1. CASE Single(members)
  <2>. DEFINE m == CHOOSE m \in members : TRUE
  <2>1. members = {m} /\ Joined(members) = m
    BY <1>1 DEF Single, Joined
  <2>. HIDE DEF m
  <2>2. UNION {Den(imp, u) : u \in {m}} = Den(imp, m)
    OBVIOUS
  <2>. QED
    BY <1>0, <2>1, <2>2
<1>2. CASE ~ Single(members)
  <2>. DEFINE u == [kind |-> "union", of |-> members]
  <2>1. Joined(members) = u /\ u.kind = "union" /\ u.of = members
    BY <1>2 DEF Joined
  <2>2. u \in Nested[n + 1]
    <3>1. "union" \in Kind
      BY KindsDiffer DEF BuiltIn
    <3>. QED
      BY <3>1, NestedIs DEF Made
  <2>. HIDE DEF u
  <2>3. u \in Type
    BY <1>0, <2>2
  <2>4. Den(imp, u) = UNION {Den(imp, m) : m \in members}
    <3>1. Den(imp, u) = UNION {Den(imp, m) : m \in u.of}
      BY <2>1, <2>3, Meanings
    <3>. QED
      BY <2>1, <3>1
  <2>5. u # Nil
    BY <2>1, NamedIs DEF Nil
  <2>6. ASSUME members # {}, Nil \notin members, Never \notin members,
               members \subseteq WellMade(imp),
               FlattenSubtypesUnion(imp, members) = members
        PROVE  u \in WellMade(imp)
    <3>1. Regular(imp, u)
      BY <1>2, <2>1, <2>6 DEF Regular
    <3>. QED
      BY <2>1, <2>3, <2>6, <3>1, WellMadeIs
  <2>. QED
    BY <2>1, <2>2, <2>3, <2>4, <2>5, <2>6
<1>. QED
  BY <1>1, <1>2

\* An optional of a type.
LEMMA OptionalIs ==
  ASSUME NEW n \in Nat, NEW t \in Nested[n], n + 1 <= MaxRank, NEW imp \in Relation
  PROVE  /\ OptionalOf(t) \in Nested[n + 1] /\ OptionalOf(t) \in Type
         /\ Den(imp, OptionalOf(t)) = {"Nil"} \cup Den(imp, t)
         /\ t \in WellMade(imp) /\ t # Nil => OptionalOf(t) \in WellMade(imp)
         /\ UnwrapOptional(OptionalOf(t)) = t
<1>. DEFINE o == OptionalOf(t)
<1>1. o.kind = "optional" /\ o.of = {t} /\ Member(o) = t
  BY DEF OptionalOf, Member
<1>2. o \in Nested[n + 1]
  <2>1. "optional" \in Kind
    BY KindsDiffer DEF BuiltIn
  <2>2. Single({t})
    BY DEF Single
  <2>. QED
    <3>. HIDE DEF o
    <3>1. o = [kind |-> "optional", of |-> {t}]
      BY DEF o, OptionalOf
    <3>2. o \in [kind : Kind, of : SUBSET Nested[n]]
      BY <2>1, <3>1
    <3>3. o \in Made(Nested[n])
      BY <1>1, <2>2, <3>2 DEF Made
    <3>. QED
      BY <3>3, NestedIs
<1>. HIDE DEF o
<1>3. o \in Type
  BY <1>2, Bounds, Nesting
<1>4. Den(imp, o) = {"Nil"} \cup Den(imp, t)
  BY <1>1, <1>3, Meanings
<1>5. ASSUME t \in WellMade(imp), t # Nil PROVE o \in WellMade(imp)
  <2>1. Regular(imp, o)
    BY <1>1, <1>5 DEF Regular
  <2>. QED
    BY <1>1, <1>3, <1>5, <2>1, WellMadeIs
<1>. QED
  BY <1>1, <1>2, <1>3, <1>4, <1>5 DEF o, UnwrapOptional

\* GetUnionOf denotes the values of all its types, and is nested two deeper at
\* most.
LEMMA UnionIs ==
  ASSUME NEW imp \in Relation, NEW n \in Nat, NEW types, types \subseteq Nested[n],
         n + 2 <= MaxRank
  PROVE  LET union == GetUnionOf(imp, types)
         IN  /\ union \in Nested[n + 2] /\ union \in Type
             /\ types \subseteq WellMade(imp) => union \in WellMade(imp)
             /\ Den(imp, union) = UNION {Den(imp, t) : t \in types}
<1>. DEFINE normalized == (UNION {Flat(t) : t \in types}) \ {Never}
            members == FlattenSubtypesUnion(imp, normalized \ {Nil})
            union == GetUnionOf(imp, types)
<1>0. /\ n + 1 \in Nat /\ n + 1 <= MaxRank /\ n + 1 + 1 = n + 2 /\ n <= MaxRank
      /\ Nested[n] \subseteq Type /\ Nested[n + 1] \subseteq Nested[n + 2]
      /\ Nested[n] \subseteq Nested[n + 2] /\ Nested[n + 2] \subseteq Type
  <2>1. MaxRank \in Nat /\ n + 1 \in Nat /\ n + 2 \in Nat
    BY Bounds
  <2>2. n + 1 <= MaxRank /\ n + 1 + 1 = n + 2 /\ n <= MaxRank /\ n <= n + 2 /\ n + 1 <= n + 2
    BY <2>1
  <2>. QED
    BY <2>1, <2>2, Bounds, Nesting
<1>1. union = IF members = {} THEN (IF Nil \in normalized THEN Nil ELSE Never)
              ELSE IF Nil \in normalized THEN OptionalOf(Joined(members)) ELSE Joined(members)
  BY DEF GetUnionOf, Flat, Joined
<1>2. normalized \subseteq Nested[n] /\ Never \notin normalized
  BY <1>0, FlatIs
<1>3. types \subseteq WellMade(imp) => normalized \subseteq WellMade(imp)
  BY <1>0, FlatIs
<1>4. /\ Den(imp, Nil) = {"Nil"} /\ Den(imp, Never) = {}
      /\ Nil \in Type /\ Nil \in WellMade(imp) /\ Nil \in Nested[n + 2]
      /\ Never \in Type /\ Never \in WellMade(imp) /\ Never \in Nested[n + 2]
  <2>1. /\ Nil \in Type /\ Nil \in WellMade(imp) /\ Nil \in Nested[n + 2]
        /\ Never \in Type /\ Never \in WellMade(imp) /\ Never \in Nested[n + 2]
    BY NamesWellMade DEF Nil, Never
  <2>2. Nil.kind = "Nil" /\ Never.kind = "never"
    BY NamedIs DEF Nil, Never
  <2>3. Den(imp, Nil) = Mean(imp, Nil) /\ Den(imp, Never) = Mean(imp, Never)
    BY <2>1, <2>2, Meanings
  <2>4. "Nil" \notin Interface
    BY KindsDiffer
  <2>5. Mean(imp, Nil) = {"Nil"}
    BY <2>2, <2>4 DEF Mean
  <2>6. Mean(imp, Never) = {}
    BY <2>2, KindsDiffer DEF Mean
  <2>. QED
    BY <2>1, <2>3, <2>5, <2>6
<1>5. UNION {Den(imp, t) : t \in types} = UNION {Den(imp, m) : m \in normalized}
  <2>1. \A t \in types : Den(imp, t) = UNION {Den(imp, m) : m \in Flat(t)}
    BY <1>0, FlatIs
  <2>2. ASSUME NEW v, NEW a \in types, v \in Den(imp, a)
        PROVE  \E m \in normalized : v \in Den(imp, m)
    <3>1. PICK m \in Flat(a) : v \in Den(imp, m)
      BY <2>1, <2>2
    <3>2. m # Never
      BY <1>4, <3>1
    <3>3. m \in UNION {Flat(t) : t \in types}
      BY <2>2, <3>1
    <3>4. m \in normalized
      BY <3>2, <3>3
    <3>. HIDE DEF normalized
    <3>. QED
      BY <3>1, <3>4
  <2>3. ASSUME NEW v, NEW m \in normalized, v \in Den(imp, m)
        PROVE  \E t \in types : v \in Den(imp, t)
    BY <2>1, <2>3
  <2>. HIDE DEF normalized
  <2>. QED
    BY <2>2, <2>3
<1>6. /\ members \subseteq normalized \ {Nil}
      /\ FlattenSubtypesUnion(imp, members) = members
      /\ \A t \in normalized \ {Nil} : \E u \in members : Den(imp, t) \subseteq Den(imp, u)
  <2>1. normalized \ {Nil} \subseteq Type
    BY <1>0, <1>2
  <2>. HIDE DEF normalized
  <2>. QED
    BY <2>1, UnionFlattened
<1>. HIDE DEF normalized, members
<1>7. UNION {Den(imp, m) : m \in normalized \ {Nil}} = UNION {Den(imp, m) : m \in members}
  BY <1>6
<1>8. Nil \in normalized => UNION {Den(imp, m) : m \in normalized}
                              = {"Nil"} \cup UNION {Den(imp, m) : m \in normalized \ {Nil}}
  BY <1>4
<1>9. Nil \notin normalized => normalized \ {Nil} = normalized
  OBVIOUS
<1>10. CASE members = {}
  <2>1. UNION {Den(imp, m) : m \in members} = {}
    BY <1>10
  <2>. QED
    BY <1>1, <1>4, <1>5, <1>7, <1>8, <1>9, <1>10, <2>1
<1>11. CASE members # {}
  <2>. DEFINE j == Joined(members)
  <2>1. members \subseteq Nested[n] /\ Nil \notin members /\ Never \notin members
    BY <1>2, <1>6
  <2>2. /\ j \in Nested[n + 1] /\ j \in Type /\ j # Nil
        /\ Den(imp, j) = UNION {Den(imp, m) : m \in members}
        /\ types \subseteq WellMade(imp) => j \in WellMade(imp)
    BY <1>0, <1>3, <1>6, <1>11, <2>1, JoinedIs
  <2>. HIDE DEF j
  <2>3. /\ OptionalOf(j) \in Nested[n + 2] /\ OptionalOf(j) \in Type
        /\ Den(imp, OptionalOf(j)) = {"Nil"} \cup Den(imp, j)
        /\ types \subseteq WellMade(imp) => OptionalOf(j) \in WellMade(imp)
    BY <1>0, <2>2, OptionalIs
  <2>4. CASE Nil \in normalized
    <3>1. union = OptionalOf(j)
      BY <1>1, <1>11, <2>4 DEF j
    <3>. QED
      BY <1>5, <1>7, <1>8, <2>2, <2>3, <2>4, <3>1
  <2>5. CASE Nil \notin normalized
    <3>1. union = j
      BY <1>1, <1>11, <2>5 DEF j
    <3>. QED
      BY <1>0, <1>5, <1>7, <1>9, <2>2, <2>5, <3>1
  <2>. QED
    BY <2>4, <2>5
<1>. QED
  BY <1>10, <1>11

-----------------------------------------------------------------------------
(* Intersections.                                                           *)

Split(t)    == IsUnion(t) \/ IsOptional(t)
Parts(t)    == IF IsUnion(t) THEN t.of ELSE {UnwrapOptional(t), Nil}
Conjuncts(t) == IF t.kind = "intersection" THEN t.of ELSE {t}

\* What GetIntersectionOf has at hand: the types that are no unions, the positions
\* that are open, and the types at the positions.
Remaining == (SUBSET Written) \X (SUBSET (1..2)) \X [1..2 -> Written]
Unions(r) == {i \in r[2] : Split(r[3][i])}
Plain(imp, r) ==
  FlattenSubtypesIntersection(imp, r[1] \cup UNION {Conjuncts(r[3][i]) : i \in r[2] \ Unions(r)})
Choice(r, i) == IF i \in Unions(r) THEN Parts(r[3][i]) ELSE {r[3][i]}
Picks(r) ==
  {p \in [1..2 -> Choice(r, 1) \cup Choice(r, 2)] : \A i \in 1..2 : p[i] \in Choice(r, i)}
Next3(imp, r, p) == <<Plain(imp, r), Unions(r), p>>

\* What it makes of that, where g does the same for what is simpler.
Combined(imp, r, g) ==
  IF Never \in Plain(imp, r) THEN Never
  ELSE IF Unions(r) # {} THEN GetUnionOf(imp, {g[Next3(imp, r, p)] : p \in Picks(r)})
  ELSE IF Plain(imp, r) = {} THEN Never
  ELSE IF Single(Plain(imp, r)) THEN CHOOSE t \in Plain(imp, r) : TRUE
  ELSE [kind |-> "intersection", of |-> Plain(imp, r)]

Meet(imp, remaining) ==
  LET meet[r \in Remaining] == Combined(imp, r, meet)
  IN  meet[remaining]

\* GetIntersectionOf begins with all positions open.
LEMMA IntersectionIsMeet ==
  \A imp, ts : GetIntersectionOf(imp, ts) = Meet(imp, <<{}, {1, 2}, ts>>)
  BY DEF GetIntersectionOf, Meet, Combined, Plain, Unions, Picks, Choice, Next3, Split, Parts,
         Conjuncts, Remaining

\* The types in question are written types.
LEMMA RemainingIs ==
  ASSUME NEW r \in Remaining
  PROVE  /\ r[1] \subseteq Written /\ r[2] \subseteq 1..2 /\ r[3] \in [1..2 -> Written]
         /\ \A i \in 1..2 : r[3][i] \in Written /\ r[3][i] \in Type
         /\ Unions(r) \subseteq r[2] /\ Unions(r) \subseteq 1..2
  BY Bounds DEF Remaining, Unions

\* What a written type is made of is written.
LEMMA WrittenParts ==
  ASSUME NEW t \in Written
  PROVE  /\ t \in Type /\ t.of \subseteq Written /\ Nil \in Written /\ Never \in Written
         /\ Split(t) => Parts(t) \subseteq Written
         /\ Conjuncts(t) \subseteq Written
<1>1. t \in Type /\ MaxDepth \in Nat /\ t \in Nested[MaxDepth]
  BY Bounds DEF Written
<1>2. t.of \subseteq Written
  BY <1>1, Shape DEF Written
<1>3. Nil \in Written /\ Never \in Written
  BY <1>1, NamesWellMade DEF Nil, Never, Written
<1>4. IsOptional(t) => UnwrapOptional(t) \in t.of
  BY <1>1, TypeShape
<1>. QED
  BY <1>1, <1>2, <1>3, <1>4 DEF Split, Parts, Conjuncts

\* Flattening an intersection adds Never at most.
LEMMA PlainWritten ==
  ASSUME NEW imp, NEW r \in Remaining
  PROVE  Plain(imp, r) \subseteq Written
<1>. DEFINE types == r[1] \cup UNION {Conjuncts(r[3][i]) : i \in r[2] \ Unions(r)}
<1>1. types \subseteq Written
  <2>1. \A i \in r[2] \ Unions(r) : Conjuncts(r[3][i]) \subseteq Written
    BY RemainingIs, WrittenParts
  <2>. QED
    BY <2>1, RemainingIs
<1>2. Plain(imp, r) \subseteq types \cup {Never}
  <2>1. Plain(imp, r) = FlattenSubtypesIntersection(imp, types)
    BY DEF Plain
  <2>. HIDE DEF types
  <2>. QED
    BY <2>1 DEF FlattenSubtypesIntersection
<1>3. Never \in Written
  BY Bounds, NamesWellMade DEF Never, Written
<1>. QED
  BY <1>1, <1>2, <1>3

\* How deep the types at the open positions are that are unions.
MeetRank(r) ==
  LET rank(i) == IF i \in Unions(r) THEN Rank[r[3][i]] ELSE 0
  IN  IF rank(1) >= rank(2) THEN rank(1) ELSE rank(2)

LEMMA MeetRankIs ==
  ASSUME NEW r \in Remaining
  PROVE  /\ MeetRank(r) \in 0..MaxDepth /\ MeetRank(r) \in Nat
         /\ \A i \in Unions(r) : Rank[r[3][i]] <= MeetRank(r)
         /\ Unions(r) # {} => \E i \in Unions(r) : MeetRank(r) = Rank[r[3][i]]
         /\ Unions(r) = {} => MeetRank(r) = 0
<1>1. \A i \in 1..2 : Rank[r[3][i]] \in 0..MaxDepth
  <2>1. ASSUME NEW t \in Written PROVE Rank[t] \in 0..MaxDepth
    <3>1. t \in Type /\ t \in Nested[MaxDepth] /\ MaxDepth \in 0..MaxRank /\ MaxDepth \in Nat
      BY Bounds DEF Written
    <3>2. Rank[t] \in 0..MaxRank /\ Rank[t] <= MaxDepth
      BY <3>1, Ranks
    <3>. QED
      BY <3>1, <3>2, Bounds
  <2>. QED
    BY <2>1, RemainingIs
<1>2. MaxDepth \in Nat
  BY Bounds
<1>3. \A i \in Unions(r) : i = 1 \/ i = 2
  BY RemainingIs
<1>. DEFINE rank(i) == IF i \in Unions(r) THEN Rank[r[3][i]] ELSE 0
<1>4. rank(1) \in 0..MaxDepth /\ rank(2) \in 0..MaxDepth
  BY <1>1, <1>2
<1>5. MeetRank(r) = IF rank(1) >= rank(2) THEN rank(1) ELSE rank(2)
  BY DEF MeetRank
<1>6. \A i \in Unions(r) : Rank[r[3][i]] = rank(i)
  OBVIOUS
<1>7. /\ 1 \notin Unions(r) => rank(1) = 0
      /\ 2 \notin Unions(r) => rank(2) = 0
  OBVIOUS
<1>. HIDE DEF rank
<1>8. MeetRank(r) \in 0..MaxDepth /\ rank(1) <= MeetRank(r) /\ rank(2) <= MeetRank(r)
  BY <1>2, <1>4, <1>5
<1>9. MeetRank(r) = rank(1) \/ MeetRank(r) = rank(2)
  BY <1>5
<1>10. ASSUME Unions(r) # {} PROVE \E i \in Unions(r) : MeetRank(r) = rank(i)
  <2>1. CASE 1 \in Unions(r) /\ 2 \in Unions(r)
    BY <1>9, <2>1
  <2>2. CASE 1 \in Unions(r) /\ 2 \notin Unions(r)
    <3>1. MeetRank(r) = rank(1)
      BY <1>2, <1>4, <1>5, <1>7, <2>2
    <3>. QED
      BY <2>2, <3>1
  <2>3. CASE 1 \notin Unions(r) /\ 2 \in Unions(r)
    <3>1. MeetRank(r) = rank(2)
      BY <1>2, <1>4, <1>5, <1>7, <2>3
    <3>. QED
      BY <2>3, <3>1
  <2>. QED
    BY <1>3, <1>10, <2>1, <2>2, <2>3
<1>11. ASSUME Unions(r) = {} PROVE MeetRank(r) = 0
  BY <1>4, <1>5, <1>7, <1>11
<1>. QED
  BY <1>2, <1>3, <1>6, <1>8, <1>10, <1>11

\* What is picked is simpler.
LEMMA PickLower ==
  ASSUME NEW imp, NEW r \in Remaining, Unions(r) # {}, NEW p \in Picks(r)
  PROVE  /\ p \in [1..2 -> Written] /\ Next3(imp, r, p) \in Remaining
         /\ MeetRank(Next3(imp, r, p)) < MeetRank(r)
<1>. DEFINE q == Next3(imp, r, p)
<1>1. \A i \in 1..2 : p[i] \in Choice(r, i) /\ Choice(r, i) \subseteq Written
  <2>1. \A i \in 1..2 : p[i] \in Choice(r, i)
    BY DEF Picks
  <2>2. ASSUME NEW i \in 1..2 PROVE Choice(r, i) \subseteq Written
    <3>1. r[3][i] \in Written
      BY RemainingIs
    <3>2. i \in Unions(r) => Split(r[3][i])
      BY DEF Unions
    <3>. QED
      BY <3>1, <3>2, WrittenParts DEF Choice
  <2>. QED
    BY <2>1, <2>2
<1>2. p \in [1..2 -> Written]
  <2>1. DOMAIN p = 1..2 /\ p = [i \in 1..2 |-> p[i]]
    BY DEF Picks
  <2>. QED
    BY <1>1, <2>1
<1>3. q \in Remaining /\ q[2] = Unions(r) /\ q[3] = p
  <2>1. Unions(r) \in SUBSET (1..2) /\ Plain(imp, r) \in SUBSET Written
    BY RemainingIs, PlainWritten
  <2>. QED
    BY <1>2, <2>1 DEF Remaining, Next3
<1>. HIDE DEF q
<1>4. ASSUME NEW i \in Unions(r), Split(p[i])
      PROVE  Rank[p[i]] < Rank[r[3][i]]
  <2>. DEFINE t == r[3][i]
  <2>1. i \in 1..2 /\ t \in Type /\ Split(t) /\ p[i] \in Parts(t)
    BY <1>1, RemainingIs DEF Choice, Unions
  <2>. HIDE DEF t
  <2>2. p[i] # Nil
    BY <1>4, NamedIs DEF Split, IsUnion, IsOptional, Nil
  <2>3. p[i] \in t.of
    <3>1. IsOptional(t) => UnwrapOptional(t) \in t.of
      BY <2>1, TypeShape
    <3>. QED
      BY <2>1, <2>2, <3>1 DEF Parts, Split
  <2>. QED
    BY <2>1, <2>3, Ranks DEF t
<1>5. \A i \in Unions(r) : Rank[r[3][i]] \in Nat /\ Rank[r[3][i]] >= 1
  <2>1. ASSUME NEW i \in Unions(r) PROVE Rank[r[3][i]] \in Nat /\ Rank[r[3][i]] >= 1
    <3>. DEFINE t == r[3][i]
    <3>1. i \in 1..2 /\ t \in Type /\ Split(t) /\ p[i] \in Parts(t)
      BY <1>1, RemainingIs DEF Choice, Unions
    <3>. HIDE DEF t
    <3>2. \E m : m \in t.of
      BY <3>1, TypeShape DEF Parts, Split
    <3>3. PICK m : m \in t.of
      BY <3>2
    <3>4. m \in Type /\ Rank[m] < Rank[t]
      BY <3>1, <3>3, Ranks
    <3>5. Rank[m] \in Nat /\ Rank[t] \in Nat
      BY <3>1, <3>4, Ranks, Bounds
    <3>6. Rank[t] >= 1
      BY <3>4, <3>5
    <3>. QED
      BY <3>5, <3>6 DEF t
  <2>. QED
    BY <2>1
<1>6. Unions(q) \subseteq Unions(r) /\ \A i \in Unions(q) : Split(p[i])
  BY <1>3 DEF Unions
<1>7. CASE Unions(q) = {}
  <2>1. MeetRank(q) = 0
    BY <1>3, <1>7, MeetRankIs
  <2>2. PICK i \in Unions(r) : TRUE
    OBVIOUS
  <2>3. Rank[r[3][i]] <= MeetRank(r) /\ MeetRank(r) \in Nat
    BY MeetRankIs
  <2>. QED
    BY <1>2, <1>3, <1>5, <2>1, <2>3 DEF q
<1>8. CASE Unions(q) # {}
  <2>1. PICK i \in Unions(q) : MeetRank(q) = Rank[q[3][i]]
    BY <1>3, <1>8, MeetRankIs
  <2>2. i \in Unions(r) /\ Rank[p[i]] < Rank[r[3][i]]
    BY <1>4, <1>6
  <2>3. Rank[r[3][i]] <= MeetRank(r) /\ MeetRank(r) \in Nat /\ MeetRank(q) \in Nat
    BY <1>3, <2>2, MeetRankIs
  <2>4. MeetRank(q) < MeetRank(r)
    BY <1>3, <1>5, <2>1, <2>2, <2>3
  <2>. QED
    BY <1>2, <1>3, <2>4 DEF q
<1>. QED
  BY <1>7, <1>8

\* How deep what is made of r is nested at most.
Depth(r) == MaxDepth + 1 + 2 * MeetRank(r)

LEMMA DepthIs ==
  /\ \A r \in Remaining : Depth(r) \in Nat /\ MaxDepth + 1 <= Depth(r) /\ Depth(r) <= MaxRank
  /\ \A q, r \in Remaining : MeetRank(q) < MeetRank(r) => Depth(q) + 2 <= Depth(r)
<1>1. MaxDepth \in Nat /\ \A r \in Remaining : MeetRank(r) \in Nat /\ MeetRank(r) <= MaxDepth
  BY Bounds, MeetRankIs
<1>2. \A k \in Nat : k <= MaxDepth => /\ MaxDepth + 1 + 2 * k \in Nat
                                      /\ MaxDepth + 1 <= MaxDepth + 1 + 2 * k
                                      /\ MaxDepth + 1 + 2 * k <= 3 * MaxDepth + 1
  BY <1>1
<1>3. \A j, k \in Nat : j < k => MaxDepth + 1 + 2 * j + 2 <= MaxDepth + 1 + 2 * k
  BY <1>1
<1>. QED
  BY <1>1, <1>2, <1>3 DEF Depth, MaxRank

\* Induction over what remains.
LEMMA RemainingInduction ==
  ASSUME NEW S,
         \A r \in Remaining :
           (\A q \in Remaining : MeetRank(q) < MeetRank(r) => q \in S) => r \in S
  PROVE  Remaining \subseteq S
<1>. DEFINE T == {n \in Nat : \A r \in Remaining : MeetRank(r) = n => r \in S}
<1>0. \A r \in Remaining : MeetRank(r) \in Nat
  BY MeetRankIs
<1>1. ASSUME NEW n \in Nat, \A m \in Nat : m < n => m \in T PROVE n \in T
  <2>1. ASSUME NEW r \in Remaining, MeetRank(r) = n PROVE r \in S
    <3>1. ASSUME NEW q \in Remaining, MeetRank(q) < MeetRank(r) PROVE q \in S
      <4>1. MeetRank(q) \in T
        BY <1>0, <1>1, <2>1, <3>1
      <4>. QED
        BY <4>1
    <3>. QED
      BY <3>1
  <2>. QED
    BY <2>1
<1>2. Nat \subseteq T
  <2>. HIDE DEF T
  <2>. QED
    BY <1>1, StrongInduction
<1>3. ASSUME NEW r \in Remaining PROVE r \in S
  <2>1. MeetRank(r) \in T
    BY <1>0, <1>2
  <2>. QED
    BY <2>1
<1>. QED
  BY <1>3

\* What is made of r depends on what is made of simpler ones only.
LEMMA CombinedLooksDown ==
  ASSUME NEW imp, NEW r \in Remaining, NEW g, NEW h,
         \A q \in Remaining : MeetRank(q) < MeetRank(r) => g[q] = h[q]
  PROVE  Combined(imp, r, g) = Combined(imp, r, h)
<1>1. CASE Unions(r) # {}
  <2>1. \A p \in Picks(r) : g[Next3(imp, r, p)] = h[Next3(imp, r, p)]
    BY <1>1, PickLower
  <2>2. {g[Next3(imp, r, p)] : p \in Picks(r)} = {h[Next3(imp, r, p)] : p \in Picks(r)}
    BY <2>1
  <2>. QED
    BY <2>2 DEF Combined
<1>2. CASE Unions(r) = {}
  BY <1>2 DEF Combined
<1>. QED
  BY <1>1, <1>2

\* It is nested no deeper than expected if those are.
LEMMA CombinedDepth ==
  ASSUME NEW imp \in Relation, NEW r \in Remaining, NEW g,
         \A q \in Remaining : MeetRank(q) < MeetRank(r) => g[q] \in Nested[Depth(q)]
  PROVE  Combined(imp, r, g) \in Nested[Depth(r)] /\ Combined(imp, r, g) \in Type
<1>. DEFINE plain == Plain(imp, r)
            combined == Combined(imp, r, g)
<1>1. /\ Depth(r) \in Nat /\ MaxDepth + 1 <= Depth(r) /\ Depth(r) <= MaxRank
      /\ MaxRank \in Nat /\ MaxDepth \in Nat
  BY DepthIs, Bounds
<1>2. plain \subseteq Written
  BY PlainWritten
<1>. HIDE DEF plain
<1>3. Nested[MaxDepth + 1] \subseteq Nested[Depth(r)] /\ Nested[Depth(r)] \subseteq Type
      /\ Written \subseteq Nested[MaxDepth + 1] /\ Never \in Written
  <2>1. MaxDepth + 1 \in Nat /\ MaxDepth <= MaxDepth + 1
    BY <1>1
  <2>. QED
    BY <1>1, <2>1, Bounds, Nesting, NamesWellMade DEF Written, Never
<1>4. CASE Never \in plain
  BY <1>3, <1>4 DEF Combined, plain
<1>5. CASE Never \notin plain /\ Unions(r) # {}
  <2>. DEFINE below == {g[Next3(imp, r, p)] : p \in Picks(r)}
              n == Depth(r) - 2
  <2>1. combined = GetUnionOf(imp, below)
    BY <1>5 DEF Combined, plain
  <2>2. n \in Nat /\ n + 2 = Depth(r) /\ n + 2 <= MaxRank
    <3>1. MaxDepth >= 1
      BY Bounds
    <3>. QED
      BY <1>1, <3>1
  <2>3. ASSUME NEW p \in Picks(r) PROVE g[Next3(imp, r, p)] \in Nested[n]
    <3>. DEFINE q == Next3(imp, r, p)
    <3>1. q \in Remaining /\ MeetRank(q) < MeetRank(r)
      BY <1>5, PickLower
    <3>. HIDE DEF q
    <3>2. g[q] \in Nested[Depth(q)] /\ Depth(q) \in Nat /\ Depth(q) + 2 <= Depth(r)
      BY <3>1, DepthIs
    <3>3. Depth(q) <= n
      BY <1>1, <2>2, <3>2
    <3>. HIDE DEF n
    <3>4. Nested[Depth(q)] \subseteq Nested[n]
      BY <2>2, <3>2, <3>3, Nesting
    <3>. QED
      BY <3>2, <3>4 DEF q
  <2>4. below \subseteq Nested[n]
    BY <2>3
  <2>. HIDE DEF below, n, combined
  <2>5. GetUnionOf(imp, below) \in Nested[n + 2]
    BY <2>2, <2>4, UnionIs
  <2>. QED
    BY <1>3, <2>1, <2>2, <2>5 DEF combined
<1>6. CASE Never \notin plain /\ Unions(r) = {}
  <2>. DEFINE u == [kind |-> "intersection", of |-> plain]
  <2>1. combined = IF plain = {} THEN Never
                   ELSE IF Single(plain) THEN CHOOSE t \in plain : TRUE ELSE u
    BY <1>6 DEF Combined, plain
  <2>2. u \in Nested[MaxDepth + 1]
    <3>1. "intersection" \in Kind
      BY KindsDiffer DEF BuiltIn
    <3>2. Nested[MaxDepth + 1] = Made(Written)
      BY <1>1, NestedIs DEF Written
    <3>. QED
      BY <1>2, <3>1, <3>2 DEF Made
  <2>. HIDE DEF u
  <2>3. plain # {} => (CHOOSE t \in plain : TRUE) \in plain
    OBVIOUS
  <2>4. combined \in Nested[MaxDepth + 1]
    <3>. HIDE DEF combined
    <3>. QED
      BY <1>2, <1>3, <2>1, <2>2, <2>3
  <2>. QED
    BY <1>3, <2>4
<1>. QED
  BY <1>4, <1>5, <1>6

\* The equation GetIntersectionOf is defined by, and how deep its result is nested.
LEMMA MeetIs ==
  ASSUME NEW imp \in Relation
  PROVE  \A r \in Remaining :
           /\ Meet(imp, r) = Combined(imp, r, [q \in Remaining |-> Meet(imp, q)])
           /\ Meet(imp, r) \in Nested[Depth(r)] /\ Meet(imp, r) \in Type
<1>. DEFINE Step(g, r) == IF Combined(imp, r, g) \in Type THEN Combined(imp, r, g) ELSE Never
            H == [g \in [Remaining -> Type] |-> [r \in Remaining |-> Step(g, r)]]
            Eq(f) == f = [r \in Remaining |-> Combined(imp, r, f)]
            F == CHOOSE f : Eq(f)
            rank == [r \in Remaining |-> MeetRank(r)]
<1>1. Never \in Type
  BY NamesWellMade DEF Never
<1>2. H \in [[Remaining -> Type] -> [Remaining -> Type]]
  <2>1. \A g, r : Step(g, r) \in Type
    BY <1>1
  <2>. HIDE DEF Step
  <2>. QED
    BY <2>1
<1>3. \A g \in [Remaining -> Type], r \in Remaining : H[g][r] = Step(g, r)
  <2>. HIDE DEF Step
  <2>. QED
    OBVIOUS
<1>4. rank \in [Remaining -> 0..MaxDepth] /\ MaxDepth \in Nat
  BY MeetRankIs, Bounds
<1>5. \A r \in Remaining : rank[r] = MeetRank(r)
  OBVIOUS
<1>6. LooksDown(H, Remaining, Type, rank)
  <2>. HIDE DEF H, rank
  <2>1. ASSUME NEW g \in [Remaining -> Type], NEW h \in [Remaining -> Type], NEW r \in Remaining,
               \A q \in Remaining : rank[q] < rank[r] => g[q] = h[q]
        PROVE  H[g][r] = H[h][r]
    <3>1. \A q \in Remaining : MeetRank(q) < MeetRank(r) => g[q] = h[q]
      BY <1>5, <2>1
    <3>2. Combined(imp, r, g) = Combined(imp, r, h)
      BY <3>1, CombinedLooksDown
    <3>. QED
      BY <1>3, <3>2
  <2>. QED
    BY <2>1 DEF LooksDown
<1>7. HasFixpoint(H, Remaining, Type)
  <2>. HIDE DEF H, rank
  <2>. QED
    BY <1>1, <1>2, <1>4, <1>6, Recursion
<1>8. \E f : Eq(f)
  <2>. HIDE DEF H
  <2>1. PICK f \in [Remaining -> Type] : H[f] = f
    BY <1>7 DEF HasFixpoint
  <2>2. \A r \in Remaining : f[r] = Step(f, r)
    BY <1>3, <2>1
  <2>. DEFINE S == {r \in Remaining : f[r] = Combined(imp, r, f) /\ f[r] \in Nested[Depth(r)]}
  <2>3. ASSUME NEW r \in Remaining,
               \A q \in Remaining : MeetRank(q) < MeetRank(r) => q \in S
        PROVE  r \in S
    <3>1. Combined(imp, r, f) \in Nested[Depth(r)] /\ Combined(imp, r, f) \in Type
      <4>1. \A q \in Remaining : MeetRank(q) < MeetRank(r) => f[q] \in Nested[Depth(q)]
        BY <2>3
      <4>. QED
        BY <4>1, CombinedDepth
    <3>. QED
      BY <2>2, <3>1
  <2>4. Remaining \subseteq S
    <3>. HIDE DEF S
    <3>. QED
      BY <2>3, RemainingInduction
  <2>5. \A r \in Remaining : f[r] = Combined(imp, r, f)
    BY <2>4
  <2>6. f = [r \in Remaining |-> f[r]]
    OBVIOUS
  <2>7. Eq(f)
    BY <2>5, <2>6
  <2>. QED
    BY <2>7
<1>9. Eq(F)
  <2>. HIDE DEF Eq
  <2>. QED
    BY <1>8
<1>10. \A r : Meet(imp, r) = F[r]
  BY DEF Meet
<1>11. \A r \in Remaining : F[r] = Combined(imp, r, F)
  <2>. HIDE DEF F
  <2>. QED
    BY <1>9
<1>. HIDE DEF F
<1>12. ASSUME NEW r \in Remaining
       PROVE  Combined(imp, r, F) = Combined(imp, r, [q \in Remaining |-> Meet(imp, q)])
  <2>. DEFINE G == [q \in Remaining |-> Meet(imp, q)]
  <2>1. \A q \in Remaining : MeetRank(q) < MeetRank(r) => F[q] = G[q]
    BY <1>10
  <2>. HIDE DEF G
  <2>2. Combined(imp, r, F) = Combined(imp, r, G)
    BY <2>1, CombinedLooksDown
  <2>. QED
    BY <2>2 DEF G
<1>13. \A r \in Remaining : F[r] \in Nested[Depth(r)]
  <2>. DEFINE S == {r \in Remaining : F[r] \in Nested[Depth(r)]}
  <2>1. ASSUME NEW r \in Remaining,
               \A q \in Remaining : MeetRank(q) < MeetRank(r) => q \in S
        PROVE  r \in S
    <3>1. \A q \in Remaining : MeetRank(q) < MeetRank(r) => F[q] \in Nested[Depth(q)]
      BY <2>1
    <3>2. Combined(imp, r, F) \in Nested[Depth(r)]
      BY <3>1, CombinedDepth
    <3>. QED
      BY <1>11, <3>2
  <2>2. Remaining \subseteq S
    <3>. HIDE DEF S
    <3>. QED
      BY <2>1, RemainingInduction
  <2>. QED
    BY <2>2
<1>14. \A r \in Remaining : Nested[Depth(r)] \subseteq Type
  BY DepthIs, Bounds, Nesting
<1>. QED
  BY <1>10, <1>11, <1>12, <1>13, <1>14

-----------------------------------------------------------------------------
(* Intersections are well-made.                                             *)

\* The types that are no unions.
Closed(r) == r[1] \cup UNION {Conjuncts(r[3][i]) : i \in r[2] \ Unions(r)}

\* What remains is made of well-made types, and the types set aside are no unions.
Fit(imp, r) ==
  /\ r[1] \subseteq WellMade(imp)
  /\ \A t \in r[1] : t.kind \notin {"never", "union", "optional", "intersection"}
  /\ \A i \in 1..2 : r[3][i] \in WellMade(imp)

\* Types without parts that cannot be told apart.
Clear(t)    == ~ Mentions(t, {"alias", "any"})
AllClear(r) == (\A t \in r[1] : Clear(t)) /\ (\A i \in 1..2 : Clear(r[3][i]))

\* What a clear type is made of is clear.
LEMMA ClearParts ==
  ASSUME NEW t \in Type, Clear(t)
  PROVE  /\ \A m \in t.of : Clear(m)
         /\ t.kind \notin {"alias", "any"}
         /\ \A m \in Conjuncts(t) : Clear(m)
         /\ Split(t) => \A m \in Parts(t) : Clear(m)
<1>1. t.kind \notin {"alias", "any"} /\ \A m \in t.of : Clear(m)
  BY MentionsIs DEF Clear
<1>2. Clear(Nil)
  <2>1. Nil \in Type /\ Nil.kind = "Nil" /\ Nil.of = {}
    BY NamesWellMade, NamedIs DEF Nil
  <2>2. Mentions(Nil, {"alias", "any"}) <=> Nil.kind \in {"alias", "any"} \/
                                 \E m \in Nil.of : Mentions(m, {"alias", "any"})
    BY <2>1, MentionsIs
  <2>. QED
    BY <2>1, <2>2 DEF Clear
<1>3. IsOptional(t) => UnwrapOptional(t) \in t.of
  BY TypeShape
<1>. QED
  BY <1>1, <1>2, <1>3 DEF Conjuncts, Split, Parts

\* The parts of a well-made type.
LEMMA WellMadeParts ==
  ASSUME NEW imp, NEW t \in WellMade(imp)
  PROVE  /\ t \in Type /\ Regular(imp, t) /\ t.of \subseteq WellMade(imp)
         /\ Conjuncts(t) \subseteq WellMade(imp)
         /\ ~ Split(t) => \A m \in Conjuncts(t) :
                            m.kind \notin {"union", "optional", "intersection"}
         /\ Split(t) => Parts(t) \subseteq WellMade(imp)
         /\ t.kind = "never" => t = Never
         /\ Conjuncts(t) # {}
<1>1. t \in Type /\ Regular(imp, t) /\ t.of \subseteq WellMade(imp)
  BY WellMadeIs
<1>2. Nil \in WellMade(imp)
  BY NamesWellMade DEF Nil
<1>3. IsOptional(t) => UnwrapOptional(t) \in t.of
  BY <1>1, TypeShape
<1>4. t.kind = "never" => t = Never
  BY <1>1, NamedIs DEF Never, Regular
<1>5. t.kind = "intersection" =>
        t.of # {} /\ \A m \in t.of : m.kind \notin {"union", "optional", "intersection"}
  BY <1>1 DEF Regular
<1>. QED
  BY <1>1, <1>2, <1>3, <1>4, <1>5 DEF Conjuncts, Split, Parts, IsUnion, IsOptional

LEMMA PlainIs ==
  ASSUME NEW imp, NEW r \in Remaining, Fit(imp, r)
  PROVE  /\ Closed(r) \subseteq WellMade(imp)
         /\ \A t \in Closed(r) : t.kind \notin {"union", "optional", "intersection"}
         /\ Plain(imp, r) = FlattenSubtypesIntersection(imp, Closed(r))
         /\ Plain(imp, r) \subseteq Closed(r) \cup {Never}
         /\ Plain(imp, r) \subseteq WellMade(imp)
         /\ Never \notin Plain(imp, r) =>
              \A t \in Plain(imp, r) :
                 t.kind \notin {"never", "union", "optional", "intersection"}
<1>1. ASSUME NEW i \in r[2] \ Unions(r)
      PROVE  /\ Conjuncts(r[3][i]) \subseteq WellMade(imp)
             /\ \A t \in Conjuncts(r[3][i]) : t.kind \notin {"union", "optional", "intersection"}
  <2>1. i \in 1..2 /\ ~ Split(r[3][i]) /\ r[3][i] \in WellMade(imp)
    BY RemainingIs DEF Unions, Fit
  <2>. QED
    BY <2>1, WellMadeParts
<1>2. /\ Closed(r) \subseteq WellMade(imp)
      /\ \A t \in Closed(r) : t.kind \notin {"union", "optional", "intersection"}
  BY <1>1 DEF Closed, Fit
<1>3. Plain(imp, r) = FlattenSubtypesIntersection(imp, Closed(r))
  BY DEF Plain, Closed
<1>4. Plain(imp, r) \subseteq Closed(r) \cup {Never}
  BY <1>3 DEF FlattenSubtypesIntersection
<1>5. Never \in WellMade(imp)
  BY NamesWellMade DEF Never
<1>6. \A t \in Closed(r) : t.kind = "never" => t = Never
  BY <1>2, WellMadeParts
<1>. QED
  BY <1>2, <1>3, <1>4, <1>5, <1>6

\* What is picked is fit if all was.
LEMMA FitNext ==
  ASSUME NEW imp, NEW r \in Remaining, Fit(imp, r), Never \notin Plain(imp, r),
         NEW p \in Picks(r)
  PROVE  Fit(imp, Next3(imp, r, p))
<1>1. ASSUME NEW i \in 1..2 PROVE p[i] \in WellMade(imp)
  <2>1. p[i] \in Choice(r, i) /\ r[3][i] \in WellMade(imp)
    BY DEF Picks, Fit
  <2>2. i \in Unions(r) => Split(r[3][i])
    BY DEF Unions
  <2>. QED
    BY <2>1, <2>2, WellMadeParts DEF Choice
<1>. QED
  BY <1>1, PlainIs DEF Fit, Next3

\* The union of what the picks make is not too deep.
LEMMA PicksShallow ==
  ASSUME NEW imp \in Relation, NEW r \in Remaining, Unions(r) # {}
  PROVE  \E n \in Nat : /\ n + 2 <= MaxRank
                        /\ {Meet(imp, Next3(imp, r, p)) : p \in Picks(r)} \subseteq Nested[n]
<1>. DEFINE n == Depth(r) - 2
<1>1. Depth(r) \in Nat /\ MaxDepth + 1 <= Depth(r) /\ Depth(r) <= MaxRank
  BY DepthIs
<1>2. MaxDepth \in Nat /\ MaxDepth >= 1 /\ MaxRank \in Nat
  BY Bounds
<1>3. n \in Nat /\ n + 2 <= MaxRank /\ n + 2 = Depth(r)
  BY <1>1, <1>2
<1>. HIDE DEF n
<1>4. ASSUME NEW p \in Picks(r) PROVE Meet(imp, Next3(imp, r, p)) \in Nested[n]
  <2>. DEFINE q == Next3(imp, r, p)
  <2>1. q \in Remaining /\ MeetRank(q) < MeetRank(r)
    BY PickLower
  <2>. HIDE DEF q
  <2>2. Meet(imp, q) \in Nested[Depth(q)] /\ Depth(q) \in Nat /\ Depth(q) + 2 <= Depth(r)
    BY <2>1, DepthIs, MeetIs
  <2>3. Depth(q) <= n
    BY <1>1, <1>3, <2>2
  <2>. QED
    BY <1>3, <2>2, <2>3, Nesting DEF q
<1>. QED
  BY <1>3, <1>4

\* What is made where nothing, or something, has to be taken apart.
LEMMA MeetCases ==
  ASSUME NEW imp \in Relation, NEW r \in Remaining
  PROVE  /\ Never \in Plain(imp, r) => Meet(imp, r) = Never
         /\ Never \notin Plain(imp, r) /\ Unions(r) # {} =>
              Meet(imp, r) =
                GetUnionOf(imp, {Meet(imp, Next3(imp, r, p)) : p \in Picks(r)})
         /\ Never \notin Plain(imp, r) /\ Unions(r) = {} =>
              Meet(imp, r) = IF Plain(imp, r) = {} THEN Never
                             ELSE IF Single(Plain(imp, r)) THEN CHOOSE t \in Plain(imp, r) : TRUE
                             ELSE [kind |-> "intersection", of |-> Plain(imp, r)]
<1>. DEFINE G == [q \in Remaining |-> Meet(imp, q)]
<1>1. Meet(imp, r) = Combined(imp, r, G)
  BY MeetIs
<1>2. \A q \in Remaining : G[q] = Meet(imp, q)
  OBVIOUS
<1>. HIDE DEF G
<1>3. ASSUME Unions(r) # {}
      PROVE  {G[Next3(imp, r, p)] : p \in Picks(r)}
               = {Meet(imp, Next3(imp, r, p)) : p \in Picks(r)}
  <2>1. \A p \in Picks(r) : G[Next3(imp, r, p)] = Meet(imp, Next3(imp, r, p))
    BY <1>2, <1>3, PickLower
  <2>. QED
    BY <2>1
<1>. QED
  BY <1>1, <1>3 DEF Combined

\* GetIntersectionOf of well-made types is well-made.
LEMMA MeetWellMade ==
  ASSUME NEW imp \in Relation
  PROVE  \A r \in Remaining : Fit(imp, r) => Meet(imp, r) \in WellMade(imp)
<1>. DEFINE S == {r \in Remaining : Fit(imp, r) => Meet(imp, r) \in WellMade(imp)}
<1>1. ASSUME NEW r \in Remaining, \A q \in Remaining : MeetRank(q) < MeetRank(r) => q \in S
      PROVE  r \in S
  <2>. SUFFICES ASSUME Fit(imp, r) PROVE Meet(imp, r) \in WellMade(imp)
    OBVIOUS
  <2>1. CASE Never \in Plain(imp, r)
    BY <2>1, MeetCases, NamesWellMade DEF Never
  <2>2. CASE Never \notin Plain(imp, r) /\ Unions(r) # {}
    <3>. DEFINE below == {Meet(imp, Next3(imp, r, p)) : p \in Picks(r)}
    <3>1. PICK n \in Nat : n + 2 <= MaxRank /\ below \subseteq Nested[n]
      BY <2>2, PicksShallow
    <3>2. ASSUME NEW p \in Picks(r) PROVE Meet(imp, Next3(imp, r, p)) \in WellMade(imp)
      <4>. DEFINE q == Next3(imp, r, p)
      <4>1. q \in Remaining /\ MeetRank(q) < MeetRank(r) /\ Fit(imp, q)
        BY <2>2, PickLower, FitNext
      <4>. HIDE DEF q
      <4>2. Meet(imp, q) \in WellMade(imp)
        BY <1>1, <4>1
      <4>. QED
        BY <4>2 DEF q
    <3>3. below \subseteq WellMade(imp)
      BY <3>2
    <3>4. Meet(imp, r) = GetUnionOf(imp, below)
      BY <2>2, MeetCases
    <3>. HIDE DEF below
    <3>. QED
      BY <3>1, <3>3, <3>4, UnionIs
  <2>3. CASE Never \notin Plain(imp, r) /\ Unions(r) = {}
    <3>. DEFINE plain == Plain(imp, r)
                u == [kind |-> "intersection", of |-> plain]
    <3>1. /\ plain \subseteq WellMade(imp)
          /\ \A t \in plain : t.kind \notin {"never", "union", "optional", "intersection"}
      BY <2>3, PlainIs
    <3>2. Meet(imp, r) = IF plain = {} THEN Never
                         ELSE IF Single(plain) THEN CHOOSE t \in plain : TRUE ELSE u
      BY <2>3, MeetCases
    <3>3. Meet(imp, r) \in Type
      BY MeetIs
    <3>4. u.kind = "intersection" /\ u.of = plain
      OBVIOUS
    <3>. HIDE DEF plain, u
    <3>5. CASE plain = {}
      BY <3>2, <3>5, NamesWellMade DEF Never
    <3>6. CASE plain # {} /\ Single(plain)
      BY <3>1, <3>2, <3>6
    <3>7. CASE plain # {} /\ ~ Single(plain)
      <4>1. Meet(imp, r) = u
        BY <3>2, <3>7
      <4>2. Regular(imp, u)
        BY <3>1, <3>4, <3>7 DEF Regular
      <4>. QED
        BY <3>1, <3>3, <3>4, <4>1, <4>2, WellMadeIs
    <3>. QED
      BY <3>5, <3>6, <3>7
  <2>. QED
    BY <2>1, <2>2, <2>3
<1>2. Remaining \subseteq S
  <2>. HIDE DEF S
  <2>. QED
    BY <1>1, RemainingInduction
<1>. QED
  BY <1>2

-----------------------------------------------------------------------------
(* What intersections denote.                                               *)

\* A well-made type denotes values.
LEMMA DenInValues ==
  ASSUME NEW imp
  PROVE  \A t \in WellMade(imp) : Den(imp, t) \subseteq Values
<1>. DEFINE S == {t \in Type : t \in WellMade(imp) => Den(imp, t) \subseteq Values}
<1>1. ASSUME NEW t \in Type, \A m \in t.of : m \in S PROVE t \in S
  <2>. SUFFICES ASSUME t \in WellMade(imp) PROVE Den(imp, t) \subseteq Values
    OBVIOUS
  <2>1. Regular(imp, t) /\ \A m \in t.of : Den(imp, m) \subseteq Values
    BY <1>1, WellMadeIs
  <2>2. CASE t.kind \in {"alias", "union"}
    <3>1. Den(imp, t) = UNION {Den(imp, m) : m \in t.of}
      BY <2>2, Meanings
    <3>. QED
      BY <2>1, <3>1
  <2>3. CASE t.kind = "optional"
    <3>1. Den(imp, t) = {"Nil"} \cup Den(imp, Member(t)) /\ Member(t) \in t.of
      BY <2>3, Meanings, TypeShape
    <3>. QED
      BY <2>1, <3>1 DEF Values
  <2>4. CASE t.kind = "intersection"
    <3>1. Den(imp, t) = {v \in Values : \A m \in t.of : v \in Den(imp, m)}
      BY <2>4, Meanings
    <3>. QED
      BY <3>1
  <2>5. CASE t.kind \notin {"alias", "union", "optional", "intersection"}
    <3>1. Den(imp, t) = Mean(imp, t)
      BY <2>5, Meanings
    <3>2. t.kind \in {"i32", "any", "never", "Nil"} \cup Struct \cup Interface
      BY <2>1, <2>5 DEF Regular
    <3>. QED
      BY <3>1, <3>2 DEF Mean, Values
  <2>. QED
    BY <2>2, <2>3, <2>4, <2>5
<1>2. Type \subseteq S
  <2>. HIDE DEF S
  <2>. QED
    BY <1>1, TypeInduction
<1>. QED
  BY <1>2, WellMadeIs

\* Types without parts that can be told apart, and what they denote.
Basic(imp) ==
  {t \in WellMade(imp) : t.kind \in {"i32", "never", "Nil"} \cup Struct \cup Interface}

LEMMA BasicIs ==
  ASSUME NEW imp, NEW t \in Basic(imp)
  PROVE  /\ t \in Type /\ t.of = {} /\ t = Named(t.kind) /\ FollowAlias(t) = t
         /\ t.kind \notin {"optional", "alias", "union", "intersection", "any", "error"}
         /\ t.kind \in {"i32", "Nil"} \cup Struct => Den(imp, t) = {t.kind}
         /\ t.kind = "never" => Den(imp, t) = {} /\ t = Never
         /\ t.kind \in Interface => Den(imp, t) = {s \in Struct : t.kind \in imp[s]}
<1>1. t \in Type /\ Regular(imp, t)
  BY WellMadeIs DEF Basic
<1>2. t.kind \in {"i32", "never", "Nil"} \cup Struct \cup Interface
  BY DEF Basic
<1>3. t.kind \notin {"optional", "alias", "union", "intersection", "any", "error"}
  BY <1>2, KindsDiffer
<1>4. t.of = {}
  BY <1>1, <1>3 DEF Regular
<1>5. t = Named(t.kind) /\ FollowAlias(t) = t
  BY <1>1, <1>3, <1>4, NamedIs, FollowIs
<1>6. Den(imp, t) = Mean(imp, t)
  BY <1>1, <1>3, Meanings
<1>7. t.kind \in {"i32", "Nil"} \cup Struct => Mean(imp, t) = {t.kind}
  BY KindsDiffer DEF Mean
<1>8. t.kind = "never" => Mean(imp, t) = {} /\ t = Never
  BY <1>5, KindsDiffer DEF Mean, Never
<1>9. t.kind \in Interface => Mean(imp, t) = {s \in Struct : t.kind \in imp[s]}
  BY KindsDiffer DEF Mean
<1>. QED
  BY <1>1, <1>3, <1>4, <1>5, <1>6, <1>7, <1>8, <1>9

\* The subset relation between them.
LEMMA BasicSubset ==
  ASSUME NEW imp, NEW s \in Basic(imp), NEW t \in Basic(imp)
  PROVE  IsTypeSubsetOf(imp, s, t) <=> s = t \/ s = Never \/ t \in Interfaces(imp, s)
<1>1. /\ s \in Type /\ t \in Type /\ FollowAlias(s) = s /\ FollowAlias(t) = t
      /\ s # Error /\ t # Error /\ t # AnyType /\ ~ IsUnion(t) /\ ~ IsOptional(t)
  BY BasicIs, NamedIs DEF Error, AnyType, IsUnion, IsOptional
<1>. QED
  BY <1>1, SubsetIs DEF SubsetOf

\* The values all types in a set have in common.
Common(imp, types) == {v \in Values : \A t \in types : v \in Den(imp, t)}

\* Types that are disjoint have none.
LEMMA DisjointMeans ==
  ASSUME NEW imp \in Relation, NEW t \in Basic(imp), NEW u \in Basic(imp),
         ~ IsTypeSubsetOf(imp, t, u), AreDisjointTypes(imp, t, u)
  PROVE  Den(imp, t) \cap Den(imp, u) = {}
<1>1. /\ t # u /\ ~ (t.kind \in Interface /\ u.kind \in Interface)
      /\ t \notin Interfaces(imp, u) /\ u \notin Interfaces(imp, t)
  BY DEF AreDisjointTypes, IsInterface
<1>2. t.kind # u.kind
  BY <1>1, BasicIs
<1>3. /\ t.kind \in {"i32", "never", "Nil"} \cup Struct \cup Interface
      /\ u.kind \in {"i32", "never", "Nil"} \cup Struct \cup Interface
  BY DEF Basic
<1>4. CASE t.kind = "never" \/ u.kind = "never"
  BY <1>4, BasicIs
<1>5. CASE t.kind \in {"i32", "Nil"} \cup Struct /\ u.kind \in {"i32", "Nil"} \cup Struct
  BY <1>2, <1>5, BasicIs
<1>6. CASE t.kind \in {"i32", "Nil"} \cup Struct /\ u.kind \in Interface
  <2>1. Den(imp, t) = {t.kind} /\ Den(imp, u) = {s \in Struct : u.kind \in imp[s]}
    BY <1>6, BasicIs
  <2>2. t.kind \in Struct => u.kind \notin imp[t.kind]
    BY <1>1, BasicIs DEF Interfaces
  <2>. QED
    BY <2>1, <2>2
<1>7. CASE t.kind \in Interface /\ u.kind \in {"i32", "Nil"} \cup Struct
  <2>1. Den(imp, u) = {u.kind} /\ Den(imp, t) = {s \in Struct : t.kind \in imp[s]}
    BY <1>7, BasicIs
  <2>2. u.kind \in Struct => t.kind \notin imp[u.kind]
    BY <1>1, BasicIs DEF Interfaces
  <2>. QED
    BY <2>1, <2>2
<1>. QED
  BY <1>1, <1>3, <1>4, <1>5, <1>6, <1>7

\* Flattening keeps the values in common, and leaves something of something.
LEMMA IntersectionFlattened ==
  ASSUME NEW imp \in Relation, NEW types, types \subseteq Basic(imp)
  PROVE  LET flat == FlattenSubtypesIntersection(imp, types)
         IN  /\ Common(imp, flat) = Common(imp, types)
             /\ types # {} => flat # {}
<1>. DEFINE flat == FlattenSubtypesIntersection(imp, types)
            Disjoint == \E t, u \in types : /\ ~ IsTypeSubsetOf(imp, t, u)
                                            /\ AreDisjointTypes(imp, t, u)
<1>1. CASE Disjoint
  <2>1. flat = {Never}
    BY <1>1 DEF FlattenSubtypesIntersection
  <2>2. Common(imp, {Never}) = {}
    <3>1. Never \in Basic(imp)
      <4>1. Never \in WellMade(imp) /\ Never.kind = "never"
        BY NamesWellMade, NamedIs DEF Never
      <4>. QED
        BY <4>1 DEF Basic
    <3>2. Den(imp, Never) = {}
      <4>1. Never.kind = "never"
        BY NamedIs DEF Never
      <4>. QED
        BY <3>1, <4>1, BasicIs
    <3>. QED
      BY <3>2 DEF Common
  <2>3. PICK t, u \in types : ~ IsTypeSubsetOf(imp, t, u) /\ AreDisjointTypes(imp, t, u)
    BY <1>1
  <2>4. Den(imp, t) \cap Den(imp, u) = {}
    BY <2>3, DisjointMeans
  <2>5. Common(imp, types) = {}
    BY <2>4 DEF Common
  <2>. HIDE DEF flat
  <2>6. {Never} # {}
    OBVIOUS
  <2>. QED
    BY <2>1, <2>2, <2>5, <2>6 DEF flat
<1>2. CASE ~ Disjoint
  <2>1. flat = {u \in types : ~ \E t \in types \ {u} : IsTypeSubsetOf(imp, t, u)}
    BY <1>2 DEF FlattenSubtypesIntersection
  <2>2. flat = {u \in types : \A t \in types :
                   t # u => t # Never /\ u \notin Interfaces(imp, t)}
    <3>1. \A t, u \in types : IsTypeSubsetOf(imp, t, u)
                                <=> t = u \/ t = Never \/ u \in Interfaces(imp, t)
      BY BasicSubset
    <3>. HIDE DEF flat
    <3>. QED
      BY <2>1, <3>1
  <2>. HIDE DEF flat
  <2>3. ASSUME NEW u \in types
        PROVE  \E w \in flat : Den(imp, w) \subseteq Den(imp, u)
    <3>1. CASE Never \in types
      <4>1. \A t \in types : Never \notin Interfaces(imp, t)
        <5>1. Never.kind = "never"
          BY NamedIs DEF Never
        <5>. QED
          BY <5>1, InterfacesAre, KindsDiffer
      <4>2. Never \in flat
        BY <2>2, <3>1, <4>1
      <4>3. Den(imp, Never) = {}
        <5>1. Never.kind = "never" /\ Never \in Basic(imp)
          BY <3>1, NamedIs DEF Never
        <5>. QED
          BY <5>1, BasicIs
      <4>. QED
        BY <4>2, <4>3
    <3>2. CASE Never \notin types /\ u \in flat
      BY <3>2
    <3>3. CASE Never \notin types /\ u \notin flat
      <4>1. PICK t \in types : u \in Interfaces(imp, t)
        BY <2>2, <3>3
      <4>2. Den(imp, t) \subseteq Den(imp, u)
        <5>1. t \in Type /\ u \in Type
          BY BasicIs
        <5>. QED
          BY <4>1, <5>1, InterfaceHolds
      <4>3. t \in flat
        <5>1. t.kind \in Struct
          BY <4>1, InterfacesAre
        <5>2. \A w \in types : t \notin Interfaces(imp, w)
          BY <5>1, InterfacesAre, KindsDiffer
        <5>. QED
          BY <2>2, <3>3, <5>2
      <4>. QED
        BY <4>2, <4>3
    <3>. QED
      BY <3>1, <3>2, <3>3
  <2>4. flat \subseteq types
    BY <2>2
  <2>5. Common(imp, flat) = Common(imp, types)
    BY <2>3, <2>4 DEF Common
  <2>. QED
    BY <2>3, <2>5 DEF flat
<1>. QED
  BY <1>1, <1>2

\* The values everything that remains has in common.
CommonOf(imp, r) ==
  {v \in Values : /\ \A t \in r[1] : v \in Den(imp, t)
                  /\ \A i \in r[2] : v \in Den(imp, r[3][i])}

\* Those of the types that are no unions, and of the unions.
LEMMA CommonOfIs ==
  ASSUME NEW imp \in Relation, NEW r \in Remaining, Fit(imp, r), AllClear(r)
  PROVE  /\ Closed(r) \subseteq Basic(imp)
         /\ CommonOf(imp, r) = {v \in Common(imp, Plain(imp, r)) :
                                  \A i \in Unions(r) : v \in Den(imp, r[3][i])}
         /\ Closed(r) # {} => Plain(imp, r) # {}
<1>1. Closed(r) \subseteq Basic(imp)
  <2>1. ASSUME NEW t \in Closed(r) PROVE t \in Basic(imp)
    <3>1. t \in WellMade(imp) /\ t.kind \notin {"union", "optional", "intersection"}
      BY PlainIs
    <3>2. t.kind \notin {"alias", "any"}
      <4>1. CASE t \in r[1]
        <5>1. Clear(t) /\ t \in Type
          BY <3>1, <4>1, WellMadeIs DEF AllClear
        <5>. QED
          BY <5>1, ClearParts
      <4>2. CASE t \notin r[1]
        <5>1. PICK i \in r[2] \ Unions(r) : t \in Conjuncts(r[3][i])
          BY <4>2 DEF Closed
        <5>2. i \in 1..2 /\ r[3][i] \in Type /\ Clear(r[3][i])
          BY <5>1, RemainingIs DEF AllClear
        <5>3. Clear(t) /\ t \in Type
          BY <3>1, <5>1, <5>2, ClearParts, WellMadeIs
        <5>. QED
          BY <5>3, ClearParts
      <4>. QED
        BY <4>1, <4>2
    <3>3. Regular(imp, t)
      BY <3>1, WellMadeIs
    <3>. QED
      BY <3>1, <3>2, <3>3 DEF Basic, Regular
  <2>. QED
    BY <2>1
<1>2. /\ Common(imp, Plain(imp, r)) = Common(imp, Closed(r))
      /\ Closed(r) # {} => Plain(imp, r) # {}
  BY <1>1, IntersectionFlattened, PlainIs
<1>3. ASSUME NEW i \in r[2] \ Unions(r), NEW v \in Values
      PROVE  v \in Den(imp, r[3][i]) <=> \A m \in Conjuncts(r[3][i]) : v \in Den(imp, m)
  <2>1. r[3][i] \in Type
    BY RemainingIs
  <2>2. CASE r[3][i].kind = "intersection"
    <3>1. Den(imp, r[3][i]) = {w \in Values : \A m \in r[3][i].of : w \in Den(imp, m)}
      BY <2>1, <2>2, Meanings
    <3>. QED
      BY <2>2, <3>1 DEF Conjuncts
  <2>3. CASE r[3][i].kind # "intersection"
    BY <2>3 DEF Conjuncts
  <2>. QED
    BY <2>2, <2>3
<1>4. ASSUME NEW v \in Values
      PROVE  v \in CommonOf(imp, r) <=> /\ v \in Common(imp, Closed(r))
                                        /\ \A i \in Unions(r) : v \in Den(imp, r[3][i])
  <2>1. v \in Common(imp, Closed(r)) <=>
          /\ \A t \in r[1] : v \in Den(imp, t)
          /\ \A i \in r[2] \ Unions(r) : \A m \in Conjuncts(r[3][i]) : v \in Den(imp, m)
    BY DEF Common, Closed
  <2>2. Unions(r) \subseteq r[2]
    BY RemainingIs
  <2>. QED
    BY <1>3, <2>1, <2>2 DEF CommonOf
<1>5. CommonOf(imp, r) \subseteq Values /\ Common(imp, Closed(r)) \subseteq Values
  BY DEF CommonOf, Common
<1>6. CommonOf(imp, r) = {v \in Common(imp, Closed(r)) :
                            \A i \in Unions(r) : v \in Den(imp, r[3][i])}
  BY <1>4, <1>5
<1>. QED
  BY <1>1, <1>2, <1>6

\* The choices for a position cover what the type at it denotes.
LEMMA ChoiceCovers ==
  ASSUME NEW imp \in Relation, NEW r \in Remaining, NEW i \in 1..2
  PROVE  Den(imp, r[3][i]) = UNION {Den(imp, m) : m \in Choice(r, i)}
<1>1. r[3][i] \in Type
  BY RemainingIs
<1>2. CASE i \in Unions(r)
  <2>1. Choice(r, i) = Flat(r[3][i])
    BY <1>2 DEF Choice, Unions, Split, Parts, Flat
  <2>. QED
    BY <1>1, <2>1, FlatIs
<1>3. CASE i \notin Unions(r)
  <2>1. Choice(r, i) = {r[3][i]}
    BY <1>3 DEF Choice
  <2>. QED
    BY <2>1
<1>. QED
  BY <1>2, <1>3

\* What is picked is clear if all was.
LEMMA ClearNext ==
  ASSUME NEW imp \in Relation, NEW r \in Remaining, Fit(imp, r), AllClear(r),
         Never \notin Plain(imp, r), NEW p \in Picks(r)
  PROVE  AllClear(Next3(imp, r, p))
<1>1. ASSUME NEW i \in 1..2 PROVE Clear(p[i])
  <2>1. p[i] \in Choice(r, i) /\ r[3][i] \in Type /\ Clear(r[3][i])
    BY RemainingIs DEF Picks, AllClear
  <2>2. i \in Unions(r) => Split(r[3][i])
    BY DEF Unions
  <2>. QED
    BY <2>1, <2>2, ClearParts DEF Choice
<1>2. ASSUME NEW t \in Plain(imp, r) PROVE Clear(t)
  <2>1. t \in Basic(imp)
    BY PlainIs, CommonOfIs
  <2>2. t \in Type /\ t.of = {} /\ t.kind \notin {"alias", "any"}
    BY <2>1, BasicIs
  <2>. QED
    BY <2>2, MentionsIs DEF Clear
<1>. QED
  BY <1>1, <1>2 DEF AllClear, Next3

\* GetIntersectionOf denotes the values its types have in common.
LEMMA MeetMeans ==
  ASSUME NEW imp \in Relation
  PROVE  \A r \in Remaining :
           Fit(imp, r) /\ AllClear(r) /\ (r[1] # {} \/ r[2] # {})
             => Den(imp, Meet(imp, r)) = CommonOf(imp, r)
<1>. DEFINE Holds(r) == Fit(imp, r) /\ AllClear(r) /\ (r[1] # {} \/ r[2] # {})
                          => Den(imp, Meet(imp, r)) = CommonOf(imp, r)
            S == {r \in Remaining : Holds(r)}
<1>0. Den(imp, Never) = {} /\ Never \in Basic(imp)
  <2>1. Never \in WellMade(imp) /\ Never.kind = "never"
    BY NamesWellMade, NamedIs DEF Never
  <2>2. Never \in Basic(imp)
    BY <2>1 DEF Basic
  <2>. QED
    BY <2>1, <2>2, BasicIs
<1>1. ASSUME NEW r \in Remaining, \A q \in Remaining : MeetRank(q) < MeetRank(r) => q \in S
      PROVE  r \in S
  <2>. SUFFICES ASSUME Fit(imp, r), AllClear(r), r[1] # {} \/ r[2] # {}
                PROVE  Den(imp, Meet(imp, r)) = CommonOf(imp, r)
    OBVIOUS
  <2>. DEFINE plain == Plain(imp, r)
  <2>0. /\ CommonOf(imp, r) = {v \in Common(imp, plain) :
                                 \A i \in Unions(r) : v \in Den(imp, r[3][i])}
        /\ Closed(r) # {} => plain # {}
        /\ plain \subseteq Basic(imp)
    BY <1>0, CommonOfIs, PlainIs
  <2>1. CASE Never \in plain
    <3>1. Common(imp, plain) = {}
      BY <1>0, <2>1 DEF Common
    <3>2. Meet(imp, r) = Never
      BY <2>1, MeetCases
    <3>. HIDE DEF plain
    <3>. QED
      BY <1>0, <2>0, <3>1, <3>2
  <2>2. CASE Never \notin plain /\ Unions(r) # {}
    <3>. DEFINE below == {Meet(imp, Next3(imp, r, p)) : p \in Picks(r)}
    <3>1. PICK n \in Nat : n + 2 <= MaxRank /\ below \subseteq Nested[n]
      BY <2>2, PicksShallow
    <3>2. Meet(imp, r) = GetUnionOf(imp, below)
      BY <2>2, MeetCases
    <3>3. Den(imp, Meet(imp, r)) = UNION {Den(imp, m) : m \in below}
      <4>. HIDE DEF below
      <4>. QED
        BY <3>1, <3>2, UnionIs
    <3>4. ASSUME NEW p \in Picks(r)
          PROVE  Den(imp, Meet(imp, Next3(imp, r, p)))
                   = {v \in Common(imp, plain) : \A i \in Unions(r) : v \in Den(imp, p[i])}
      <4>. DEFINE q == Next3(imp, r, p)
      <4>1. q \in Remaining /\ MeetRank(q) < MeetRank(r) /\ Fit(imp, q) /\ AllClear(q)
        BY <2>2, PickLower, FitNext, ClearNext
      <4>2. q[1] = plain /\ q[2] = Unions(r) /\ q[3] = p
        BY DEF Next3
      <4>. HIDE DEF q, plain
      <4>3. Den(imp, Meet(imp, q)) = CommonOf(imp, q)
        BY <1>1, <2>2, <4>1, <4>2
      <4>4. CommonOf(imp, q) = {v \in Common(imp, plain) :
                                  \A i \in Unions(r) : v \in Den(imp, p[i])}
        BY <4>2 DEF CommonOf, Common
      <4>. QED
        BY <4>3, <4>4 DEF q
    <3>. HIDE DEF plain
    <3>5. ASSUME NEW v, v \in CommonOf(imp, r)
          PROVE  \E p \in Picks(r) : v \in Den(imp, Meet(imp, Next3(imp, r, p)))
      <4>1. v \in Common(imp, plain) /\ \A i \in Unions(r) : v \in Den(imp, r[3][i])
        BY <2>0, <3>5
      <4>2. ASSUME NEW i \in 1..2
            PROVE  \E m \in Choice(r, i) : i \in Unions(r) => v \in Den(imp, m)
        <5>1. CASE i \in Unions(r)
          BY <4>1, <5>1, ChoiceCovers
        <5>2. CASE i \notin Unions(r)
          BY <5>2 DEF Choice
        <5>. QED
          BY <5>1, <5>2
      <4>. DEFINE p == [i \in 1..2 |-> CHOOSE m \in Choice(r, i) :
                                         i \in Unions(r) => v \in Den(imp, m)]
      <4>3. \A i \in 1..2 : /\ p[i] \in Choice(r, i)
                            /\ i \in Unions(r) => v \in Den(imp, p[i])
        BY <4>2
      <4>4. p = [i \in 1..2 |-> p[i]]
        OBVIOUS
      <4>. HIDE DEF p
      <4>5. \A i \in 1..2 : p[i] \in Choice(r, 1) \cup Choice(r, 2)
        <5>1. \A i \in 1..2 : i = 1 \/ i = 2
          OBVIOUS
        <5>. QED
          BY <4>3, <5>1
      <4>6. p \in Picks(r)
        BY <4>3, <4>4, <4>5 DEF Picks
      <4>7. \A i \in Unions(r) : v \in Den(imp, p[i])
        BY <4>3, RemainingIs
      <4>8. v \in Den(imp, Meet(imp, Next3(imp, r, p)))
        BY <3>4, <4>1, <4>6, <4>7
      <4>. QED
        BY <4>6, <4>8
    <3>6. ASSUME NEW v, NEW p \in Picks(r), v \in Den(imp, Meet(imp, Next3(imp, r, p)))
          PROVE  v \in CommonOf(imp, r)
      <4>1. v \in Common(imp, plain) /\ \A i \in Unions(r) : v \in Den(imp, p[i])
        BY <3>4, <3>6
      <4>2. ASSUME NEW i \in Unions(r) PROVE v \in Den(imp, r[3][i])
        <5>1. i \in 1..2 /\ p[i] \in Choice(r, i)
          BY RemainingIs DEF Picks
        <5>. QED
          BY <4>1, <5>1, ChoiceCovers
      <4>. QED
        BY <2>0, <4>1, <4>2
    <3>7. \A v : v \in UNION {Den(imp, m) : m \in below}
                   <=> \E p \in Picks(r) : v \in Den(imp, Meet(imp, Next3(imp, r, p)))
      OBVIOUS
    <3>. QED
      BY <3>3, <3>5, <3>6, <3>7
  <2>3. CASE Never \notin plain /\ Unions(r) = {}
    <3>1. CommonOf(imp, r) = Common(imp, plain)
      <4>. HIDE DEF plain
      <4>. QED
        BY <2>0, <2>3
    <3>2. plain # {}
      <4>1. Closed(r) # {}
        <5>1. CASE r[1] # {}
          BY <5>1 DEF Closed
        <5>2. CASE r[2] # {}
          <6>1. PICK i \in r[2] : TRUE
            BY <5>2
          <6>2. i \in 1..2 /\ i \in r[2] \ Unions(r) /\ r[3][i] \in WellMade(imp)
            BY <2>3, RemainingIs DEF Fit
          <6>3. Conjuncts(r[3][i]) # {}
            BY <6>2, WellMadeParts
          <6>. QED
            BY <6>2, <6>3 DEF Closed
        <5>. QED
          BY <5>1, <5>2
      <4>. QED
        BY <2>0, <4>1
    <3>. DEFINE u == [kind |-> "intersection", of |-> plain]
    <3>3. Meet(imp, r) = IF Single(plain) THEN CHOOSE t \in plain : TRUE ELSE u
      BY <2>3, <3>2, MeetCases
    <3>4. Meet(imp, r) \in Type /\ u.kind = "intersection" /\ u.of = plain
      BY MeetIs
    <3>. HIDE DEF plain, u
    <3>5. CASE Single(plain)
      <4>1. plain = {Meet(imp, r)}
        BY <3>3, <3>5 DEF Single
      <4>2. Meet(imp, r) \in WellMade(imp)
        BY <2>0, <4>1 DEF Basic
      <4>3. Den(imp, Meet(imp, r)) \subseteq Values
        BY <4>2, DenInValues
      <4>. QED
        BY <3>1, <4>1, <4>3 DEF Common
    <3>6. CASE ~ Single(plain)
      <4>1. Meet(imp, r) = u
        BY <3>3, <3>6
      <4>2. Den(imp, u) = {v \in Values : \A m \in u.of : v \in Den(imp, m)}
        <5>1. u \in Type /\ u.kind = "intersection"
          BY <3>4, <4>1
        <5>. QED
          BY <5>1, Meanings
      <4>. QED
        BY <3>1, <3>4, <4>1, <4>2 DEF Common
    <3>. QED
      BY <3>5, <3>6
  <2>. QED
    BY <2>1, <2>2, <2>3
<1>2. Remaining \subseteq S
  <2>. HIDE DEF S
  <2>. QED
    BY <1>1, RemainingInduction
<1>. QED
  BY <1>2

\* What GetIntersectionOf of two written types is.
LEMMA IntersectionIs ==
  ASSUME NEW imp \in Relation, NEW s \in Written \cap WellMade(imp),
         NEW t \in Written \cap WellMade(imp)
  PROVE  /\ GetIntersectionOf(imp, <<s, t>>) \in WellMade(imp)
         /\ Clear(s) /\ Clear(t) =>
              Den(imp, GetIntersectionOf(imp, <<s, t>>)) = Den(imp, s) \cap Den(imp, t)
<1>. DEFINE r == <<{}, {1, 2}, <<s, t>>>>
<1>1. <<s, t>> \in [1..2 -> Written] /\ <<s, t>>[1] = s /\ <<s, t>>[2] = t
  OBVIOUS
<1>2. r[1] = {} /\ r[2] = {1, 2} /\ r[3] = <<s, t>> /\ r[3][1] = s /\ r[3][2] = t
  OBVIOUS
<1>3. r \in Remaining
  <2>1. {} \in SUBSET Written /\ {1, 2} \in SUBSET (1..2)
    OBVIOUS
  <2>. QED
    BY <1>1, <2>1 DEF Remaining
<1>4. GetIntersectionOf(imp, <<s, t>>) = Meet(imp, r)
  BY IntersectionIsMeet
<1>. HIDE DEF r
<1>5. \A i \in 1..2 : r[3][i] = s \/ r[3][i] = t
  <2>1. \A i \in 1..2 : i = 1 \/ i = 2
    OBVIOUS
  <2>. QED
    BY <1>2, <2>1
<1>6. Fit(imp, r)
  BY <1>2, <1>5 DEF Fit
<1>7. Meet(imp, r) \in WellMade(imp)
  BY <1>3, <1>6, MeetWellMade
<1>8. ASSUME Clear(s), Clear(t) PROVE Den(imp, Meet(imp, r)) = Den(imp, s) \cap Den(imp, t)
  <2>1. AllClear(r)
    BY <1>2, <1>5, <1>8 DEF AllClear
  <2>2. Den(imp, Meet(imp, r)) = CommonOf(imp, r)
    BY <1>2, <1>3, <1>6, <2>1, MeetMeans
  <2>3. CommonOf(imp, r) = {v \in Values : v \in Den(imp, s) /\ v \in Den(imp, t)}
    BY <1>2 DEF CommonOf
  <2>4. Den(imp, s) \subseteq Values /\ Den(imp, t) \subseteq Values
    BY DenInValues
  <2>. QED
    BY <2>2, <2>3, <2>4
<1>. QED
  BY <1>4, <1>7, <1>8

-----------------------------------------------------------------------------
(* Subsets, and what branches know.                                         *)

\* What an alias stands for is well-made and denotes the same.
LEMMA FollowMeans ==
  ASSUME NEW imp
  PROVE  \A t \in WellMade(imp) : /\ FollowAlias(t) \in WellMade(imp)
                                  /\ Den(imp, FollowAlias(t)) = Den(imp, t)
<1>. DEFINE Holds(t) == t \in WellMade(imp) => /\ FollowAlias(t) \in WellMade(imp)
                                               /\ Den(imp, FollowAlias(t)) = Den(imp, t)
            S == {t \in Type : Holds(t)}
<1>1. ASSUME NEW t \in Type, \A m \in t.of : m \in S PROVE t \in S
  <2>1. CASE t.kind = "alias"
    <3>1. Member(t) \in t.of /\ Member(t) \in Type
      BY <2>1, TypeShape
    <3>2. FollowAlias(t) = FollowAlias(Member(t)) /\ Den(imp, t) = Den(imp, Member(t))
      BY <2>1, FollowIs, Meanings
    <3>3. t \in WellMade(imp) => Member(t) \in WellMade(imp)
      BY <3>1, WellMadeIs
    <3>4. Holds(Member(t))
      BY <1>1, <3>1
    <3>. QED
      BY <3>2, <3>3, <3>4
  <2>2. CASE t.kind # "alias"
    <3>1. FollowAlias(t) = t
      BY <2>2, FollowIs
    <3>. QED
      BY <3>1
  <2>. QED
    BY <2>1, <2>2
<1>2. Type \subseteq S
  <2>. HIDE DEF S
  <2>. QED
    BY <1>1, TypeInduction
<1>. QED
  BY <1>2, WellMadeIs

\* What is accepted as a subtype denotes values of the supertype only.
LEMMA SubsetMeans ==
  ASSUME NEW imp \in Relation
  PROVE  \A t, s \in WellMade(imp) :
           IsTypeSubsetOf(imp, s, t) => Den(imp, s) \subseteq Den(imp, t)
<1>. DEFINE Holds(t) == \A s \in WellMade(imp) : t \in WellMade(imp) /\ IsTypeSubsetOf(imp, s, t)
                          => Den(imp, s) \subseteq Den(imp, t)
            S == {t \in Type : Holds(t)}
<1>1. ASSUME NEW t0 \in Type, \A u \in Type : Rank[u] < Rank[t0] => u \in S PROVE t0 \in S
  <2>. SUFFICES ASSUME NEW s0 \in WellMade(imp), t0 \in WellMade(imp),
                       IsTypeSubsetOf(imp, s0, t0)
                PROVE  Den(imp, s0) \subseteq Den(imp, t0)
    OBVIOUS
  <2>. DEFINE s == FollowAlias(s0)
              t == FollowAlias(t0)
              w == UnwrapOptional(t)
              B == {x \in Type : IsTypeSubsetOf(imp, x, w)}
  <2>1. /\ s \in WellMade(imp) /\ t \in WellMade(imp) /\ s0 \in Type
        /\ Den(imp, s) = Den(imp, s0) /\ Den(imp, t) = Den(imp, t0)
        /\ s \in Type /\ t \in Type /\ Regular(imp, s) /\ Regular(imp, t)
    BY FollowMeans, WellMadeIs
  <2>2. SubsetOf(imp, s0, t0, B)
    BY <2>1, SubsetIs
  <2>3. \/ s0 = t0
        \/ s = t
        \/ s = Never \/ t = AnyType
        \/ s = Error \/ t = Error
        \/ IsUnion(t) /\ (IF IsUnion(s) THEN s.of \subseteq t.of ELSE s \in t.of)
        \/ ~ IsUnion(s) /\ IsOptional(t) /\
             (\/ s = Nil
              \/ (IF IsOptional(s) THEN UnwrapOptional(s) ELSE s) \in B)
        \/ t \in Interfaces(imp, s)
    BY <2>2 DEF SubsetOf
  <2>4. Rank[t] <= Rank[t0] /\ Rank[t] \in Nat /\ Rank[t0] \in Nat
    BY <2>1, FollowRank, Ranks, Bounds
  <2>. HIDE DEF s, t, B
  <2>5. CASE s0 = t0
    BY <2>5
  <2>6. CASE s = t
    BY <2>1, <2>6
  <2>7. CASE s = Never
    <3>1. s.kind = "never"
      BY <2>7, NamedIs DEF Never
    <3>2. Den(imp, s) = Mean(imp, s)
      BY <2>1, <3>1, Meanings
    <3>3. Mean(imp, s) = {}
      BY <3>1, KindsDiffer DEF Mean
    <3>. QED
      BY <2>1, <3>2, <3>3
  <2>8. CASE t = AnyType
    <3>1. t.kind = "any"
      BY <2>8, NamedIs DEF AnyType
    <3>2. Den(imp, t) = Mean(imp, t)
      BY <2>1, <3>1, Meanings
    <3>3. Mean(imp, t) = Values
      BY <3>1, KindsDiffer DEF Mean
    <3>. QED
      BY <2>1, <3>2, <3>3, DenInValues
  <2>9. s # Error /\ t # Error
    <3>1. s.kind # "error" /\ t.kind # "error"
      BY <2>1, KindsDiffer DEF Regular
    <3>. QED
      BY <3>1, NamedIs DEF Error
  <2>10. CASE IsUnion(t) /\ (IF IsUnion(s) THEN s.of \subseteq t.of ELSE s \in t.of)
    <3>1. Den(imp, t) = UNION {Den(imp, m) : m \in t.of}
      <4>1. t \in Type /\ t.kind \in {"alias", "union"}
        BY <2>1, <2>10 DEF IsUnion
      <4>. QED
        BY <4>1, Meanings
    <3>2. CASE IsUnion(s)
      <4>1. Den(imp, s) = UNION {Den(imp, m) : m \in s.of}
        <5>1. s \in Type /\ s.kind \in {"alias", "union"}
          BY <2>1, <3>2 DEF IsUnion
        <5>. QED
          BY <5>1, Meanings
      <4>. QED
        BY <2>1, <2>10, <3>1, <3>2, <4>1
    <3>3. CASE ~ IsUnion(s)
      BY <2>1, <2>10, <3>1, <3>3
    <3>. QED
      BY <3>2, <3>3
  <2>11. CASE ~ IsUnion(s) /\ IsOptional(t) /\
                (\/ s = Nil
                 \/ (IF IsOptional(s) THEN UnwrapOptional(s) ELSE s) \in B)
    <3>1. /\ Den(imp, t) = {"Nil"} \cup Den(imp, w) /\ w \in t.of
          /\ w \in Type /\ w \in WellMade(imp)
      BY <2>1, <2>11, Meanings, TypeShape, WellMadeIs DEF IsOptional, UnwrapOptional
    <3>2. Rank[w] < Rank[t0]
      <4>1. Rank[w] < Rank[t] /\ Rank[w] \in Nat
        BY <2>1, <3>1, Ranks, Bounds
      <4>. QED
        BY <2>4, <4>1
    <3>. HIDE DEF w
    <3>3. Holds(w)
      BY <1>1, <3>1, <3>2
    <3>4. \A x \in WellMade(imp) : x \in B => Den(imp, x) \subseteq Den(imp, w)
      BY <3>1, <3>3 DEF B
    <3>5. CASE s = Nil
      <4>1. s.kind = "Nil"
        BY <3>5, NamedIs DEF Nil
      <4>2. Den(imp, s) = Mean(imp, s)
        BY <2>1, <4>1, Meanings
      <4>3. Mean(imp, s) = {"Nil"}
        BY <4>1, KindsDiffer DEF Mean
      <4>. QED
        BY <2>1, <3>1, <4>2, <4>3
    <3>6. CASE IsOptional(s) /\ UnwrapOptional(s) \in B
      <4>1. Den(imp, s) = {"Nil"} \cup Den(imp, UnwrapOptional(s))
        BY <2>1, <3>6, Meanings DEF IsOptional, UnwrapOptional
      <4>2. UnwrapOptional(s) \in WellMade(imp)
        BY <2>1, <3>6, TypeShape, WellMadeIs
      <4>. QED
        BY <2>1, <3>1, <3>4, <3>6, <4>1, <4>2
    <3>7. CASE ~ IsOptional(s) /\ s \in B
      BY <2>1, <3>1, <3>4, <3>7
    <3>. QED
      BY <2>11, <3>5, <3>6, <3>7
  <2>12. CASE t \in Interfaces(imp, s)
    BY <2>1, <2>12, InterfaceHolds
  <2>. QED
    BY <2>3, <2>5, <2>6, <2>7, <2>8, <2>9, <2>10, <2>11, <2>12
<1>2. Type \subseteq S
  <2>. HIDE DEF S
  <2>. QED
    BY <1>1, RankInduction
<1>. QED
  BY <1>2, WellMadeIs

\* The union of a wrapped type and Nil has the values of the optional they came
\* from; it is that optional, unless the wrapped type is one itself or `never`.
LEMMA Rejoins ==
  ASSUME NEW imp \in Relation, NEW t \in WellMade(imp), t \in Written, IsOptional(t)
  PROVE  LET w        == UnwrapOptional(t)
             rejoined == GetUnionOf(imp, {w, Nil})
         IN  /\ Den(imp, rejoined) = Den(imp, t)
             /\ rejoined = IF w \in {Never, OptionalOf(Never)} THEN Nil
                           ELSE IF IsOptional(w) THEN w ELSE t
<1>. DEFINE w == UnwrapOptional(t)
            normalized == (UNION {Flat(u) : u \in {w, Nil}}) \ {Never}
            members == FlattenSubtypesUnion(imp, normalized \ {Nil})
            rejoined == GetUnionOf(imp, {w, Nil})
<1>1. /\ t \in Type /\ Regular(imp, t) /\ t.kind = "optional" /\ t.of = {w}
      /\ w \in Type /\ w \in WellMade(imp) /\ Regular(imp, w) /\ w # Nil
  <2>1. t \in Type /\ Regular(imp, t) /\ t.kind = "optional" /\ t.of = {w} /\ w \in Type
    BY TypeShape, WellMadeIs DEF IsOptional
  <2>2. w \in WellMade(imp) /\ w # Nil
    BY <2>1, WellMadeIs DEF Regular
  <2>. QED
    BY <2>1, <2>2, WellMadeIs
<1>2. \A o \in Type : IsOptional(o) => o = OptionalOf(UnwrapOptional(o))
  BY TypeShape DEF IsOptional, UnwrapOptional, OptionalOf
<1>3. /\ Flat(Nil) = {Nil} /\ Flat(Never) = {Never} /\ Nil # Never
      /\ ~ IsOptional(Never) /\ ~ IsUnion(Never)
  BY NamedIs DEF Flat, IsUnion, IsOptional, Nil, Never
<1>4. rejoined = IF members = {} THEN (IF Nil \in normalized THEN Nil ELSE Never)
                 ELSE IF Nil \in normalized THEN OptionalOf(Joined(members))
                 ELSE Joined(members)
  BY DEF GetUnionOf, Flat, Joined
<1>5. Den(imp, rejoined) = Den(imp, t)
  <2>1. MaxDepth \in Nat /\ MaxDepth + 2 <= MaxRank /\ t \in Nested[MaxDepth]
    BY Bounds DEF Written
  <2>2. Flat(t) = {w, Nil}
    BY <1>1 DEF Flat, IsOptional, IsUnion
  <2>. HIDE DEF w
  <2>3. {w, Nil} \subseteq Nested[MaxDepth] /\ Den(imp, t) = UNION {Den(imp, u) : u \in {w, Nil}}
    BY <1>1, <2>1, <2>2, FlatIs
  <2>4. Den(imp, rejoined) = UNION {Den(imp, u) : u \in {w, Nil}}
    BY <2>1, <2>3, UnionIs
  <2>. QED
    BY <2>3, <2>4
<1>. HIDE DEF w, rejoined
<1>6. normalized = (Flat(w) \ {Never}) \cup {Nil}
  BY <1>3
<1>. HIDE DEF normalized
\* A type alone stays, whatever it is.
<1>7. ASSUME NEW u, normalized \ {Nil} = {u}
      PROVE  rejoined = OptionalOf(u)
  <2>1. u \notin Interfaces(imp, u)
    BY InterfacesAre, KindsDiffer
  <2>2. FlattenSubtypesUnion(imp, {u}) = {u}
    BY <2>1 DEF FlattenSubtypesUnion
  <2>3. members = {u}
    BY <1>7, <2>2
  <2>4. Joined({u}) = u
    BY DEF Joined, Single
  <2>. QED
    BY <1>4, <1>6, <2>3, <2>4
<1>8. ASSUME normalized \ {Nil} = {} PROVE rejoined = Nil
  <2>1. members = {}
    BY <1>8 DEF FlattenSubtypesUnion
  <2>. QED
    BY <1>4, <1>6, <2>1
<1>9. CASE w = Never
  <2>1. normalized \ {Nil} = {}
    BY <1>3, <1>6, <1>9
  <2>. QED
    BY <1>5, <1>8, <1>9, <2>1 DEF w, rejoined
<1>10. CASE IsOptional(w)
  <2>. DEFINE u == UnwrapOptional(w)
  <2>1. w = OptionalOf(u) /\ w # Never
    BY <1>1, <1>2, <1>3, <1>10
  <2>2. u \in w.of /\ Nil \notin w.of
    BY <1>1, <1>10, TypeShape DEF IsOptional, UnwrapOptional, Regular
  <2>3. Flat(w) = {u, Nil}
    BY <1>10 DEF Flat, IsOptional, IsUnion
  <2>4. OptionalOf(u) = OptionalOf(Never) => u = Never
    BY DEF OptionalOf
  <2>. HIDE DEF u
  <2>5. CASE u = Never
    <3>1. normalized \ {Nil} = {}
      BY <1>3, <1>6, <2>3, <2>5
    <3>. QED
      BY <1>5, <1>8, <2>1, <2>5, <3>1 DEF w, rejoined
  <2>6. CASE u # Never
    <3>1. normalized \ {Nil} = {u}
      BY <1>6, <2>2, <2>3, <2>6
    <3>2. rejoined = w /\ w \notin {Never, OptionalOf(Never)}
      BY <1>7, <2>1, <2>4, <2>6, <3>1
    <3>. QED
      BY <1>5, <1>10, <3>2 DEF w, rejoined
  <2>. QED
    BY <2>5, <2>6
<1>11. CASE w # Never /\ ~ IsOptional(w)
  <2>1. w \notin {Never, OptionalOf(Never)} /\ t = OptionalOf(w)
    BY <1>1, <1>2, <1>11 DEF w, IsOptional, OptionalOf
  <2>2. CASE IsUnion(w)
    <3>1. w.kind = "union" /\ Flat(w) = w.of
      BY <2>2 DEF Flat, IsUnion
    <3>2. /\ Nil \notin w.of /\ Never \notin w.of /\ w.of # {} /\ ~ Single(w.of)
          /\ FlattenSubtypesUnion(imp, w.of) = w.of
      BY <1>1, <3>1 DEF Regular
    <3>3. normalized \ {Nil} = w.of
      BY <1>6, <3>1, <3>2
    <3>4. members = w.of
      BY <3>2, <3>3
    <3>5. Joined(w.of) = w
      BY <1>1, <3>1, <3>2, TypeShape DEF Joined
    <3>6. rejoined = OptionalOf(w)
      BY <1>4, <1>6, <3>2, <3>4, <3>5
    <3>. QED
      BY <1>5, <1>11, <2>1, <3>6 DEF w, rejoined
  <2>3. CASE ~ IsUnion(w)
    <3>1. Flat(w) = {w}
      BY <1>11, <2>3 DEF Flat
    <3>2. normalized \ {Nil} = {w}
      BY <1>1, <1>6, <1>11, <3>1
    <3>3. rejoined = OptionalOf(w)
      BY <1>7, <3>2
    <3>. QED
      BY <1>5, <1>11, <2>1, <3>3 DEF w, rejoined
  <2>. QED
    BY <2>2, <2>3
<1>. QED
  BY <1>9, <1>10, <1>11

-----------------------------------------------------------------------------
(* Programs that declare types.                                             *)

\* The two types at hand are written and well-made, and as long as no intersection
\* met what it cannot take apart they denote what was meant.
MadeRight ==
  /\ implements \in Relation
  /\ left \in Written \cap WellMade(implements)
  /\ right \in Written \cap WellMade(implements)
  /\ means = <<means[1], means[2]>>
  /\ ~ coarse => Den(implements, left) = means[1] /\ Den(implements, right) = means[2]

\* The names are written and well-made, and denote what they mean.
LEMMA NamesMadeRight ==
  ASSUME NEW imp, NEW n \in Names
  PROVE  n \in Written \cap WellMade(imp) /\ Den(imp, n) = Mean(imp, n)
<1>1. PICK k \in {"i32", "any", "never", "Nil"} \cup Struct \cup Interface : n = Named(k)
  BY DEF Names
<1>2. n \in WellMade(imp) /\ n \in Type /\ n \in Written
  BY <1>1, NamesWellMade, Bounds DEF Written
<1>3. n.kind \notin {"alias", "union", "optional", "intersection"}
  BY <1>1, NamedIs, KindsDiffer
<1>. QED
  BY <1>2, <1>3, Meanings

LEMMA MadeRightInit == Init => MadeRight
<1>. SUFFICES ASSUME Init PROVE MadeRight
  OBVIOUS
<1>1. implements \in Relation
  BY DEF Init, Relation
<1>2. means = <<Mean(implements, left), Mean(implements, right)>>
  BY DenotesIsDen DEF Init
<1>. QED
  BY <1>1, <1>2, NamesMadeRight DEF Init, MadeRight

\* A declaration of a well-made type that denotes what is meant.
LEMMA DeclareKeeps ==
  ASSUME MadeRight, NEW t, NEW meaning, Declare(t, meaning),
         t \in WellMade(implements), coarse => coarse',
         ~ coarse' => Den(implements, t) = meaning
  PROVE  MadeRight'
  BY DEF MadeRight, Declare

LEMMA MadeRightNext == MadeRight /\ [Next]_vars => MadeRight'
<1>. SUFFICES ASSUME MadeRight, [Next]_vars PROVE MadeRight'
  OBVIOUS
<1>0. /\ implements \in Relation /\ left \in Written /\ left \in WellMade(implements)
      /\ right \in Written /\ right \in WellMade(implements)
      /\ left \in Nested[MaxDepth] /\ right \in Nested[MaxDepth]
      /\ MaxDepth \in Nat /\ MaxDepth + 2 <= MaxRank /\ MaxDepth + 1 <= MaxRank
  BY Bounds DEF MadeRight, Written
<1>1. CASE DeclareUnion
  <2>. DEFINE t == GetUnionOf(implements, {left, right})
  <2>1. /\ t \in WellMade(implements)
        /\ Den(implements, t) = UNION {Den(implements, m) : m \in {left, right}}
    <3>1. {left, right} \subseteq Nested[MaxDepth] /\ {left, right} \subseteq WellMade(implements)
      BY <1>0
    <3>. QED
      BY <1>0, <3>1, UnionIs
  <2>2. UNION {Den(implements, m) : m \in {left, right}}
          = Den(implements, left) \cup Den(implements, right)
    OBVIOUS
  <2>3. Declare(t, means[1] \cup means[2]) /\ coarse' = coarse
    BY <1>1 DEF DeclareUnion
  <2>. HIDE DEF t
  <2>4. ~ coarse' => Den(implements, t) = means[1] \cup means[2]
    BY <2>1, <2>2, <2>3 DEF MadeRight
  <2>. QED
    BY <2>1, <2>3, <2>4, DeclareKeeps
<1>2. CASE DeclareIntersection
  <2>. DEFINE t == GetIntersectionOf(implements, <<left, right>>)
  <2>1. /\ t \in WellMade(implements)
        /\ Clear(left) /\ Clear(right) =>
             Den(implements, t) = Den(implements, left) \cap Den(implements, right)
    BY <1>0, IntersectionIs
  <2>2. /\ Declare(t, means[1] \cap means[2])
        /\ coarse' = (coarse \/ ~ Clear(left) \/ ~ Clear(right))
    BY <1>2 DEF DeclareIntersection, Clear
  <2>. HIDE DEF t
  <2>3. ~ coarse' => Den(implements, t) = means[1] \cap means[2]
    BY <2>1, <2>2 DEF MadeRight
  <2>. QED
    BY <2>1, <2>2, <2>3, DeclareKeeps
<1>3. CASE DeclareOptional
  <2>1. /\ OptionalOf(left) \in WellMade(implements)
        /\ Den(implements, OptionalOf(left)) = {"Nil"} \cup Den(implements, left)
    BY <1>0, <1>3, OptionalIs DEF DeclareOptional
  <2>2. Declare(OptionalOf(left), means[1] \cup {"Nil"}) /\ coarse' = coarse
    BY <1>3 DEF DeclareOptional
  <2>3. ~ coarse' => Den(implements, OptionalOf(left)) = means[1] \cup {"Nil"}
    BY <2>1, <2>2 DEF MadeRight
  <2>. QED
    BY <2>1, <2>2, <2>3, DeclareKeeps
<1>4. CASE DeclareAlias
  <2>. DEFINE t == AliasOf(left)
  <2>1. Declare(t, means[1]) /\ coarse' = coarse
    BY <1>4 DEF DeclareAlias
  <2>2. t.kind = "alias" /\ t.of = {left}
    BY DEF AliasOf
  <2>3. t \in Type
    BY <2>1, Bounds DEF Declare
  <2>. HIDE DEF t
  <2>4. Member(t) = left
    BY <2>2 DEF Member
  <2>5. Regular(implements, t)
    BY <2>2 DEF Regular
  <2>6. t \in WellMade(implements)
    BY <1>0, <2>2, <2>3, <2>5, WellMadeIs
  <2>7. Den(implements, t) = Den(implements, left)
    BY <2>2, <2>3, <2>4, Meanings
  <2>8. ~ coarse' => Den(implements, t) = means[1]
    BY <2>1, <2>7 DEF MadeRight
  <2>. QED
    BY <2>1, <2>6, <2>8, DeclareKeeps
<1>5. CASE TakeName
  <2>1. PICK n \in Names : left' = n /\ means' = <<MeaningOf(n), means[1]>>
    BY <1>5 DEF TakeName
  <2>2. right' = left /\ implements' = implements /\ coarse' = coarse
    BY <1>5 DEF TakeName
  <2>3. n \in Written \cap WellMade(implements) /\ Den(implements, n) = MeaningOf(n)
    BY NamesMadeRight, DenotesIsDen
  <2>. QED
    BY <2>1, <2>2, <2>3 DEF MadeRight
<1>6. CASE UNCHANGED vars
  BY <1>6 DEF MadeRight, vars
<1>. QED
  BY <1>1, <1>2, <1>3, <1>4, <1>5, <1>6 DEF Next

LEMMA AlwaysMadeRight == Spec => []MadeRight
  BY MadeRightInit, MadeRightNext, PTL DEF Spec

\* A type denotes the values its declaration says, however it was flattened, absorbed,
\* distributed or collapsed (GetUnionOf and GetIntersectionOf of type_context.cc) -
\* unless an intersection met `any` or an alias.
THEOREM MeaningIsKept == Spec => []MeaningKept
<1>1. MadeRight => MeaningKept
  BY DenotesIsDen DEF MadeRight, MeaningKept
<1>. QED
  BY <1>1, AlwaysMadeRight, PTL

\* Every value of a type IsTypeSubsetOf accepts may be stored where it is accepted,
\* whatever the two types were built from.
THEOREM SubsetIsSound == Spec => []SubsetSound
<1>1. MadeRight => SubsetSound
  BY DenotesIsDen, SubsetMeans DEF MadeRight, SubsetSound
<1>. QED
  BY <1>1, AlwaysMadeRight, PTL

\* For every optional a program can build, what the two branches of a Nil check
\* know rejoins to a type with the values of the declared one, and to that type
\* itself unless it wraps an optional or `never` (GetUnionOf of type_context.cc).
THEOREM BranchesAlwaysRejoin == Spec => []BranchesRejoin
<1>1. ASSUME MadeRight PROVE BranchesRejoin
  <2>1. ASSUME IsOptional(left)
        PROVE  LET w        == UnwrapOptional(left)
                   rejoined == GetUnionOf(implements, {w, Nil})
               IN  /\ Den(implements, rejoined) = Den(implements, left)
                   /\ rejoined = IF w \in {Never, OptionalOf(Never)} THEN Nil
                                 ELSE IF IsOptional(w) THEN w ELSE left
    BY <1>1, <2>1, Rejoins DEF MadeRight
  <2>. QED
    BY <2>1, DenotesIsDen DEF BranchesRejoin
<1>. QED
  BY <1>1, AlwaysMadeRight, PTL
=============================================================================
