----------------------------- MODULE DataProofs ------------------------------
(***************************************************************************)
(* The map holds exactly the references of its nodes and finds the value   *)
(* set last for every key that no other is confused with; a program image  *)
(* is read back as it was written; and for any import graph every file     *)
(* finds its number and is listed behind those it imports.  The first part *)
(* says what the recursive functions of the model compute: induction over  *)
(* their data is done with sets, by the well-foundedness of < on Nat.      *)
(***************************************************************************)
EXTENDS ProgramImage, Map, Imports, WellFoundedInduction, SequenceTheorems,
        FiniteSetTheorems, TLAPS

-----------------------------------------------------------------------------
(* Induction and recursive functions.                                      *)

\* Induction over the numbers, of a set instead of a predicate: the least number
\* outside of it would be the successor of a number inside.
LEMMA SetInduction ==
    ASSUME NEW S, 0 \in S, \A n \in Nat : n \in S => n + 1 \in S
    PROVE  Nat \subseteq S
<1>. DEFINE R == OpToRel(<, Nat)
            T == Nat \ S
<1>1. IsWellFoundedOn(R, Nat)
  BY NatLessThanWellFounded
<1>2. SUFFICES ASSUME T # {} PROVE FALSE
  OBVIOUS
<1>3. T \subseteq Nat
  OBVIOUS
<1>4. \A x, y \in Nat : <<y, x>> \in R <=> y < x
  BY DEF OpToRel
<1>. HIDE DEF R
<1>5. PICK x \in T : \A y \in T : ~(<<y, x>> \in R)
  BY <1>1, <1>2, <1>3, WFMin
<1>6. x # 0 /\ x - 1 \in Nat /\ x \in Nat /\ x - 1 < x
  BY <1>5
<1>7. x - 1 \notin T
  BY <1>4, <1>5, <1>6
<1>. QED
  BY <1>5, <1>6, <1>7

\* Steps that stay in a set, and what going through n of them yields.
StepsIn(step, n, T) == \A i \in 1..n : \A x \in T : step[i][x] \in T

IsRun(f, base, step, n, T) ==
    /\ f \in [0..n -> T]
    /\ f[0] = base
    /\ \A i \in 1..n : f[i] = step[i][f[i - 1]]

\* Going through steps that stay in a set is possible: what the recursive
\* functions of the model rest on.
LEMMA Iterates ==
    ASSUME NEW T, NEW n \in Nat, NEW base \in T, NEW step, StepsIn(step, n, T)
    PROVE  \E f : IsRun(f, base, step, n, T)
<1>. DEFINE Upto(m) == \E f : IsRun(f, base, step, m, T)
            S == {m \in Nat : m <= n => Upto(m)}
<1>1. 0 \in S
  <2>. DEFINE f == [i \in 0..0 |-> base]
  <2>1. f \in [0..0 -> T] /\ f[0] = base /\ 1..0 = {}
    OBVIOUS
  <2>. HIDE DEF f
  <2>2. \A i \in 1..0 : f[i] = step[i][f[i - 1]]
    BY <2>1
  <2>3. Upto(0)
    BY <2>1, <2>2 DEF IsRun
  <2>. QED
    BY <2>3
<1>2. ASSUME NEW m \in Nat, m \in S PROVE m + 1 \in S
  <2>. SUFFICES ASSUME m + 1 <= n PROVE Upto(m + 1)
    OBVIOUS
  <2>1. m <= n /\ m + 1 \in 1..n
    OBVIOUS
  <2>2. PICK f \in [0..m -> T] : /\ f[0] = base
                                 /\ \A i \in 1..m : f[i] = step[i][f[i - 1]]
    BY <1>2, <2>1 DEF IsRun
  <2>. DEFINE g == [i \in 0..(m + 1) |-> IF i = m + 1 THEN step[m + 1][f[m]] ELSE f[i]]
  <2>3. step[m + 1][f[m]] \in T
    <3>1. f[m] \in T
      OBVIOUS
    <3>. QED
      BY <2>1, <3>1 DEF StepsIn
  <2>4. \A i \in 0..(m + 1) : i # m + 1 => i \in 0..m
    OBVIOUS
  <2>5. g \in [0..(m + 1) -> T]
    BY <2>3, <2>4
  <2>6. /\ g[m + 1] = step[m + 1][f[m]] /\ \A i \in 0..m : g[i] = f[i]
    OBVIOUS
  <2>. HIDE DEF g
  <2>7. \A i \in 1..(m + 1) : i = m + 1 \/ (i \in 1..m /\ i \in 0..m)
    OBVIOUS
  <2>8. \A i \in 1..(m + 1) : i - 1 \in 0..m
    OBVIOUS
  <2>9. ASSUME NEW i \in 1..(m + 1) PROVE g[i] = step[i][g[i - 1]]
    <3>1. CASE i = m + 1
      <4>1. i - 1 = m /\ m \in 0..m
        BY <3>1
      <4>. QED
        BY <2>6, <3>1, <4>1
    <3>2. CASE i # m + 1
      BY <2>2, <2>6, <2>7, <2>8, <3>2
    <3>. QED
      BY <3>1, <3>2
  <2>10. g[0] = base
    BY <2>2, <2>6
  <2>. QED
    BY <2>5, <2>9, <2>10 DEF IsRun
<1>3. Nat \subseteq S
  <2>. HIDE DEF S
  <2>. QED
    BY <1>1, <1>2, SetInduction
<1>. QED
  BY <1>3

-----------------------------------------------------------------------------
(* The buckets of the map.                                                 *)

\* A set of numbers has a least one.
LEMMA Least ==
    ASSUME NEW S, S \subseteq Nat, S # {}
    PROVE  \E i \in S : \A j \in S : i <= j
<1>. DEFINE T == {n \in Nat : \A j \in S : n <= j}
<1>1. 0 \in T
  OBVIOUS
<1>2. SUFFICES ASSUME ~\E i \in S : \A j \in S : i <= j PROVE FALSE
  OBVIOUS
<1>3. ASSUME NEW n \in Nat, n \in T PROVE n + 1 \in T
  <2>1. n \notin S
    BY <1>2, <1>3
  <2>2. \A j \in S : n + 1 <= j
    BY <1>3, <2>1
  <2>. QED
    BY <2>2
<1>4. Nat \subseteq T
  <2>. HIDE DEF T
  <2>. QED
    BY <1>1, <1>3, SetInduction
<1>5. PICK i \in S : TRUE
  OBVIOUS
<1>6. i + 1 \in T
  BY <1>4
<1>. QED
  BY <1>5, <1>6

\* The hash of a text is a number, whatever the text.
LEMMA StringHashInt == ASSUME NEW text \in Seq(Int) PROVE StringHash(text) \in Int
<1>. DEFINE n == Len(text)
            step == [i \in 1..n |-> [x \in Int |-> x * 31 + text[i]]]
            Eq(g) == g = [i \in 0..n |->
                            IF i = 0 THEN 7 ELSE g[i - 1] * 31 + text[i]]
            h == CHOOSE g : Eq(g)
<1>1. n \in Nat /\ \A i \in 1..n : text[i] \in Int
  OBVIOUS
<1>2. PICK f : f \in [0..n -> Int] /\ f[0] = 7 /\ \A i \in 1..n : f[i] = step[i][f[i - 1]]
  <2>. DEFINE seven == 7
  <2>1. seven \in Int
    OBVIOUS
  <2>2. StepsIn(step, n, Int)
    BY <1>1 DEF StepsIn
  <2>. HIDE DEF step, n, seven
  <2>3. \E f : IsRun(f, seven, step, n, Int)
    BY <1>1, <2>1, <2>2, Iterates
  <2>. QED
    BY <2>3 DEF seven, IsRun
<1>3. \A i \in 1..n : f[i] = f[i - 1] * 31 + text[i]
  <2>1. \A i \in 1..n : i - 1 \in 0..n
    OBVIOUS
  <2>2. \A i \in 1..n : f[i - 1] \in Int
    BY <1>2, <2>1
  <2>. QED
    BY <1>2, <2>2
<1>4. Eq(f)
  <2>1. \A i \in 0..n : i = 0 \/ i \in 1..n
    OBVIOUS
  <2>2. \A i \in 0..n : f[i] = IF i = 0 THEN 7 ELSE f[i - 1] * 31 + text[i]
    BY <1>2, <1>3, <2>1
  <2>. HIDE DEF n
  <2>. QED
    BY <1>2, <2>2
<1>5. Eq(h)
  <2>. HIDE DEF Eq
  <2>. QED
    BY <1>4
<1>6. StringHash(text) = h[n]
  BY DEF StringHash
<1>7. h[0] = 7 /\ \A i \in 1..n : h[i] = h[i - 1] * 31 + text[i]
  <2>1. 0 \in 0..n /\ \A i \in 1..n : i \in 0..n /\ i # 0
    BY <1>1
  <2>. HIDE DEF h, n
  <2>2. \A i \in 0..n : h[i] = IF i = 0 THEN 7 ELSE h[i - 1] * 31 + text[i]
    BY <1>5
  <2>. QED
    BY <2>1, <2>2
<1>. HIDE DEF h, Eq, step
<1>. DEFINE S == {i \in Nat : i <= n => h[i] \in Int}
<1>8. 0 \in S
  BY <1>7
<1>9. ASSUME NEW i \in Nat, i \in S PROVE i + 1 \in S
  <2>. SUFFICES ASSUME i + 1 <= n PROVE h[i + 1] \in Int
    OBVIOUS
  <2>1. i + 1 \in 1..n /\ (i + 1) - 1 = i /\ i <= n
    BY <1>1
  <2>2. h[i] \in Int /\ text[i + 1] \in Int
    BY <1>1, <1>9, <2>1
  <2>3. h[i + 1] = h[i] * 31 + text[i + 1]
    BY <1>7, <2>1
  <2>. QED
    BY <2>2, <2>3
<1>10. n \in S
  <2>. HIDE DEF S
  <2>. QED
    BY <1>1, <1>8, <1>9, SetInduction
<1>. QED
  BY <1>1, <1>6, <1>10

\* Every key has a bucket.
LEMMA BucketInRange == \A k \in Key : Bucket(k) \in 0..(BucketCount - 1)
<1>. SUFFICES ASSUME NEW k \in Key PROVE Bucket(k) \in 0..(BucketCount - 1)
  OBVIOUS
<1>1. /\ BucketCount \in Nat /\ BucketCount > 0
      /\ k.content \in Seq(Int)
      /\ k.type # "string" => k.content # <<>>
      /\ k.type \in {"int", "float", "string", "map"}
  <2>1. BucketCount \in Nat \ {0}
    BY KeyAssumption
  <2>2. BucketCount \in Nat /\ BucketCount > 0
    BY <2>1
  <2>. QED
    BY <2>2, KeyAssumption
<1>2. Hash(k) \in Int
  <2>1. CASE k.type = "string"
    <3>1. StringHash(k.content) \in Int
      BY <1>1, StringHashInt
    <3>. QED
      BY <2>1, <3>1 DEF Hash
  <2>2. CASE k.type # "string"
    <3>1. Head(k.content) \in Int
      BY <1>1, <2>2
    <3>2. Head(k.content) \div 2 \in Int
      BY <3>1
    <3>. QED
      BY <1>1, <2>2, <3>1, <3>2 DEF Hash
  <2>. QED
    BY <2>1, <2>2
<1>3. Hash(k) % BucketCount \in 0..(BucketCount - 1)
  BY <1>1, <1>2
<1>. QED
  BY <1>3 DEF Bucket

\* Keys of one content are one key to the map.
LEMMA SameContent ==
  ASSUME NEW k, NEW l, Content(k) = Content(l)
  PROVE  Bucket(k) = Bucket(l) /\ Compare(k, l)
<1>1. k.type = l.type /\ k.content = l.content
  BY DEF Content
<1>. QED
  BY <1>1 DEF Bucket, Hash, Compare

-----------------------------------------------------------------------------
(* The nodes of the map and the places of an object in them.               *)

\* The nodes of the map, its buckets, and its chains with at most m nodes each.
Node == [key : Key, value : Value]
Row == 0..(BucketCount - 1)

\* Where the chains bs of at most m nodes hold x in the field f.
Places(bs, m, f, x) ==
    {n \in Row \X (1..m) : n[2] <= Len(bs[n[1]]) /\ bs[n[1]][n[2]][f] = x}

Chains(bs, m) ==
    /\ m \in Nat
    /\ bs \in [Row -> Seq(Node)]
    /\ \A b \in Row : Len(bs[b]) <= m

\* A list with an element in front.
LEMMA Prepended ==
    ASSUME NEW T, NEW q \in Seq(T), NEW x \in T
    PROVE  /\ <<x>> \o q \in Seq(T)
           /\ Len(<<x>> \o q) = Len(q) + 1
           /\ (<<x>> \o q)[1] = x
           /\ \A i \in 1..Len(q) : (<<x>> \o q)[i + 1] = q[i]
<1>. DEFINE p == <<x>>
<1>1. p \in Seq(T) /\ Len(p) = 1 /\ p[1] = x /\ Len(q) \in Nat
  OBVIOUS
<1>. HIDE DEF p
<1>2. /\ p \o q \in Seq(T) /\ Len(p \o q) = Len(p) + Len(q)
      /\ \A i \in 1..(Len(p) + Len(q)) :
            (p \o q)[i] = IF i <= Len(p) THEN p[i] ELSE q[i - Len(p)]
  BY <1>1, ConcatProperties
<1>3. /\ Len(p \o q) = Len(q) + 1
      /\ \A i \in 1..(Len(q) + 1) : (p \o q)[i] = IF i <= 1 THEN p[i] ELSE q[i - 1]
  BY <1>1, <1>2
<1>4. (p \o q)[1] = x
  BY <1>1, <1>3
<1>5. \A i \in 1..Len(q) : (p \o q)[i + 1] = q[i]
  <2>1. \A i \in 1..Len(q) : i + 1 \in 1..(Len(q) + 1) /\ ~(i + 1 <= 1) /\ (i + 1) - 1 = i
    BY <1>1
  <2>. QED
    BY <1>3, <2>1
<1>. QED
  BY <1>2, <1>3, <1>4, <1>5 DEF p

\* A map has finitely many nodes.
LEMMA PlacesFinite ==
    ASSUME NEW bs, NEW m, Chains(bs, m), NEW f, NEW x
    PROVE  /\ IsFiniteSet(Places(bs, m, f, x))
           /\ Cardinality(Places(bs, m, f, x)) \in Nat
<1>. DEFINE R == Row
            C == 1..m
<1>1. IsFiniteSet(R) /\ IsFiniteSet(C)
  <2>1. 0 \in Int /\ 1 \in Int /\ m \in Int /\ BucketCount - 1 \in Int
    BY KeyAssumption DEF Chains
  <2>2. IsFiniteSet(0..(BucketCount - 1))
    BY <2>1, FS_Interval
  <2>3. IsFiniteSet(1..m)
    BY <2>1, FS_Interval
  <2>. QED
    BY <2>2, <2>3 DEF Row
<1>. HIDE DEF R, C
<1>2. IsFiniteSet(R \X C)
  BY <1>1, FS_Product
<1>3. Places(bs, m, f, x) \in SUBSET (R \X C)
  BY DEF Places, R, C
<1>4. IsFiniteSet(Places(bs, m, f, x))
  BY <1>2, <1>3, FS_Subset
<1>. QED
  BY <1>4, FS_CardinalityType

\* The buckets with a node in front of a chain.
Prepend(bs, b, node) == [bs EXCEPT ![b] = <<node>> \o @]

\* A node in front of a chain moves the others on by one place.
LEMMA PrependChain ==
    ASSUME NEW bs, NEW m, Chains(bs, m), NEW b \in Row, NEW node \in Node
    PROVE  LET new == Prepend(bs, b, node)
           IN  /\ Chains(new, m + 1)
               /\ Len(new[b]) = Len(bs[b]) + 1 /\ new[b][1] = node
               /\ \A i \in 1..Len(bs[b]) : new[b][i + 1] = bs[b][i]
               /\ \A d \in Row : d # b => new[d] = bs[d]
<1>. DEFINE chain == <<node>> \o bs[b]
            new == Prepend(bs, b, node)
<1>1. /\ m \in Nat /\ bs \in [Row -> Seq(Node)] /\ bs[b] \in Seq(Node)
      /\ \A d \in Row : Len(bs[d]) <= m /\ Len(bs[d]) \in Nat
  BY DEF Chains
<1>2. /\ chain \in Seq(Node) /\ Len(chain) = Len(bs[b]) + 1 /\ chain[1] = node
      /\ \A i \in 1..Len(bs[b]) : chain[i + 1] = bs[b][i]
  BY <1>1, Prepended
<1>. HIDE DEF chain
<1>3. /\ new \in [Row -> Seq(Node)] /\ new[b] = chain
      /\ \A d \in Row : d # b => new[d] = bs[d]
  <2>1. new = [bs EXCEPT ![b] = chain]
    BY DEF Prepend, chain
  <2>. QED
    BY <1>1, <1>2, <2>1
<1>. HIDE DEF new
<1>4. Chains(new, m + 1)
  <2>1. \A d \in Row : Len(new[d]) <= m + 1
    BY <1>1, <1>2, <1>3, SMTT(20)
  <2>. QED
    BY <1>1, <1>3, <2>1 DEF Chains
<1>. QED
  BY <1>2, <1>3, <1>4 DEF new

\* A node more is a place more for its key and its value.
LEMMA PlacesInsert ==
    ASSUME NEW bs, NEW m, Chains(bs, m), NEW b \in Row, NEW node \in Node,
           NEW f, NEW x
    PROVE  Cardinality(Places(Prepend(bs, b, node), m + 1, f, x))
                = Cardinality(Places(bs, m, f, x)) + One(x, node[f])
<1>. DEFINE new == Prepend(bs, b, node)
            P == Places(bs, m, f, x)
            Q == Places(new, m + 1, f, x) \ {<<b, 1>>}
            move == [n \in P |-> IF n[1] = b THEN <<b, n[2] + 1>> ELSE n]
<1>1. /\ m \in Nat /\ \A d \in Row : Len(bs[d]) <= m /\ Len(bs[d]) \in Nat
  BY DEF Chains
<1>3. /\ Len(new[b]) = Len(bs[b]) + 1 /\ new[b][1] = node
      /\ \A i \in 1..Len(bs[b]) : new[b][i + 1] = bs[b][i]
      /\ \A d \in Row : d # b => new[d] = bs[d]
      /\ Chains(new, m + 1)
  BY PrependChain
<1>4. Chains(new, m + 1)
  BY <1>3
<1>. HIDE DEF new
<1>5. \A d, i : <<d, i>> \in P <=>
            d \in Row /\ i \in 1..m /\ i <= Len(bs[d]) /\ bs[d][i][f] = x
  BY DEF Places
<1>6. \A d, i : <<d, i>> \in Places(new, m + 1, f, x) <=>
            d \in Row /\ i \in 1..(m + 1) /\ i <= Len(new[d]) /\ new[d][i][f] = x
  BY DEF Places
<1>7. \A n \in P : n = <<n[1], n[2]>>
  BY DEF Places
<1>8. \A n \in Places(new, m + 1, f, x) : n = <<n[1], n[2]>>
  BY DEF Places
<1>9. IsFiniteSet(P) /\ IsFiniteSet(Places(new, m + 1, f, x))
  BY <1>4, PlacesFinite
<1>. HIDE DEF P
<1>10. \A d, i : <<d, i>> \in P => <<d, IF d = b THEN i + 1 ELSE i>> \in Q
  <2>. SUFFICES ASSUME NEW d, NEW i, <<d, i>> \in P
                PROVE  <<d, IF d = b THEN i + 1 ELSE i>> \in Q
    OBVIOUS
  <2>1. d \in Row /\ i \in 1..m /\ i <= Len(bs[d]) /\ bs[d][i][f] = x
    BY <1>5
  <2>2. CASE d = b
    <3>1. i + 1 \in 1..(m + 1) /\ i + 1 <= Len(new[b]) /\ i \in 1..Len(bs[b]) /\ i + 1 # 1
      BY <1>1, <1>3, <2>1, <2>2
    <3>2. new[b][i + 1][f] = x
      BY <1>3, <2>1, <2>2, <3>1
    <3>3. <<b, i + 1>> \in Places(new, m + 1, f, x)
      BY <1>6, <3>1, <3>2
    <3>. QED
      BY <2>2, <3>1, <3>3
  <2>3. CASE d # b
    <3>1. i \in 1..(m + 1)
      BY <1>1, <2>1
    <3>2. <<d, i>> \in Places(new, m + 1, f, x)
      BY <1>3, <1>6, <2>1, <2>3, <3>1
    <3>. QED
      BY <2>3, <3>2
  <2>. QED
    BY <2>2, <2>3
<1>11. \A d, j : <<d, j>> \in Q => <<d, IF d = b THEN j - 1 ELSE j>> \in P
  <2>. SUFFICES ASSUME NEW d, NEW j, <<d, j>> \in Q
                PROVE  <<d, IF d = b THEN j - 1 ELSE j>> \in P
    OBVIOUS
  <2>1. /\ d \in Row /\ j \in 1..(m + 1) /\ j <= Len(new[d]) /\ new[d][j][f] = x
        /\ <<d, j>> # <<b, 1>>
    BY <1>6
  <2>2. CASE d = b
    <3>1. /\ j - 1 \in 1..m /\ j - 1 <= Len(bs[b])
          /\ j - 1 \in 1..Len(bs[b]) /\ (j - 1) + 1 = j
      <4>1. j # 1
        BY <2>1, <2>2
      <4>. QED
        BY <1>1, <1>3, <2>1, <2>2, <4>1
    <3>2. bs[b][j - 1][f] = x
      BY <1>3, <2>1, <2>2, <3>1
    <3>. QED
      BY <1>5, <2>2, <3>1, <3>2
  <2>3. CASE d # b
    <3>1. j <= Len(bs[d]) /\ bs[d][j][f] = x
      BY <1>3, <2>1, <2>3
    <3>2. j \in 1..m
      BY <1>1, <2>1, <3>1
    <3>. QED
      BY <1>5, <2>1, <2>3, <3>1, <3>2
  <2>. QED
    BY <2>2, <2>3
<1>12. \A d, i : <<d, i>> \in P => i \in Int
  BY <1>5
<1>13. \A d, i : <<d, i>> \in Q => i \in Int
  BY <1>6
<1>14. Q \subseteq Places(new, m + 1, f, x)
  OBVIOUS
<1>. HIDE DEF Q
<1>15. \A d, i : <<d, i>> \in P => move[<<d, i>>] = <<d, IF d = b THEN i + 1 ELSE i>>
  OBVIOUS
<1>16. move \in [P -> Q]
  <2>1. \A n \in P : (IF n[1] = b THEN <<b, n[2] + 1>> ELSE n) \in Q
    <3>. SUFFICES ASSUME NEW n \in P
                  PROVE  (IF n[1] = b THEN <<b, n[2] + 1>> ELSE n) \in Q
      OBVIOUS
    <3>1. n = <<n[1], n[2]>>
      BY <1>7
    <3>2. <<n[1], IF n[1] = b THEN n[2] + 1 ELSE n[2]>> \in Q
      BY <1>10, <3>1
    <3>. QED
      BY <3>1, <3>2
  <2>. QED
    BY <2>1
<1>. HIDE DEF move
<1>17. ASSUME NEW n \in P, NEW k \in P, move[n] = move[k] PROVE n = k
  <2>1. n = <<n[1], n[2]>> /\ k = <<k[1], k[2]>>
    BY <1>7
  <2>2. n[2] \in Int /\ k[2] \in Int
    BY <1>12, <2>1
  <2>3. /\ move[n] = <<n[1], IF n[1] = b THEN n[2] + 1 ELSE n[2]>>
        /\ move[k] = <<k[1], IF k[1] = b THEN k[2] + 1 ELSE k[2]>>
    BY <1>15, <2>1
  <2>. DEFINE i == IF n[1] = b THEN n[2] + 1 ELSE n[2]
              j == IF k[1] = b THEN k[2] + 1 ELSE k[2]
  <2>4. n[1] = k[1] /\ i = j
    <3>1. <<n[1], i>> = <<k[1], j>>
      BY <1>17, <2>3
    <3>. HIDE DEF i, j
    <3>. QED
      BY <3>1
  <2>5. n[2] = k[2]
    BY <2>2, <2>4
  <2>. QED
    BY <2>1, <2>4, <2>5
<1>18. ASSUME NEW q \in Q PROVE \E n \in P : move[n] = q
  <2>1. q = <<q[1], q[2]>>
    BY <1>8, <1>14
  <2>2. q[2] \in Int
    BY <1>13, <2>1
  <2>. DEFINE n == <<q[1], IF q[1] = b THEN q[2] - 1 ELSE q[2]>>
  <2>3. n \in P
    BY <1>11, <2>1
  <2>4. move[n] = <<q[1], IF q[1] = b THEN (q[2] - 1) + 1 ELSE q[2]>>
    BY <1>15, <2>3
  <2>5. move[n] = q
    BY <2>1, <2>2, <2>4
  <2>. QED
    BY <2>3, <2>5
<1>19. ExistsBijection(P, Q)
  BY <1>16, <1>17, <1>18
     DEF ExistsBijection, Bijection, Injection, IsInjective, Surjection
<1>20. IsFiniteSet(Q) /\ Cardinality(Q) = Cardinality(P)
  BY <1>9, <1>19, FS_Bijection
<1>21. <<b, 1>> \in Places(new, m + 1, f, x) <=> node[f] = x
  <2>1. 1 \in 1..(m + 1) /\ 1 <= Len(new[b])
    BY <1>1, <1>3
  <2>. QED
    BY <1>3, <1>6, <2>1
<1>22. Cardinality(Q) = IF node[f] = x THEN Cardinality(Places(new, m + 1, f, x)) - 1
                        ELSE Cardinality(Places(new, m + 1, f, x))
  <2>1. Cardinality(Q) = IF <<b, 1>> \in Places(new, m + 1, f, x)
                         THEN Cardinality(Places(new, m + 1, f, x)) - 1
                         ELSE Cardinality(Places(new, m + 1, f, x))
    BY <1>9, FS_RemoveElement DEF Q
  <2>. QED
    BY <1>21, <2>1
<1>23. /\ Cardinality(Places(new, m + 1, f, x)) \in Nat /\ Cardinality(P) \in Nat
  BY <1>4, PlacesFinite DEF P
<1>24. Cardinality(Places(new, m + 1, f, x)) = Cardinality(P) + One(x, node[f])
  BY <1>20, <1>22, <1>23 DEF One
<1>. QED
  BY <1>24 DEF new, P

-----------------------------------------------------------------------------
(* Lookup, and the value of a node replaced.                               *)

\* What map_get finds.
LEMMA Finds ==
    ASSUME Chains(buckets, count), NEW key \in Key
    PROVE  LET chain == buckets[Bucket(key)]
           IN  /\ chain \in Seq(Node)
               /\ MapGet(key) = 0 =>
                    \A i \in 1..Len(chain) : ~Compare(key, chain[i].key)
               /\ MapGet(key) # 0 =>
                    MapGet(key) \in 1..Len(chain)
                        /\ Compare(key, chain[MapGet(key)].key)
<1>. DEFINE chain == buckets[Bucket(key)]
            equal == {i \in 1..Len(chain) : Compare(key, chain[i].key)}
            first == CHOOSE i \in equal : \A j \in equal : i <= j
<1>1. chain \in Seq(Node)
  BY BucketInRange DEF Chains, Row
<1>2. MapGet(key) = IF equal = {} THEN 0 ELSE first
  BY DEF MapGet
<1>3. equal # {} => first \in equal
  <2>1. equal \subseteq Nat
    OBVIOUS
  <2>. HIDE DEF equal
  <2>2. equal # {} => \E i \in equal : \A j \in equal : i <= j
    BY <2>1, Least
  <2>. QED
    BY <2>2
<1>4. \A i \in equal : i \in 1..Len(chain) /\ i # 0 /\ Compare(key, chain[i].key)
  OBVIOUS
<1>5. \A i \in 1..Len(chain) : i \notin equal => ~Compare(key, chain[i].key)
  OBVIOUS
<1>. HIDE DEF equal, first, chain
<1>6. MapGet(key) = 0 => \A i \in 1..Len(chain) : ~Compare(key, chain[i].key)
  BY <1>2, <1>3, <1>4, <1>5
<1>7. MapGet(key) # 0 => /\ MapGet(key) \in 1..Len(chain)
                         /\ Compare(key, chain[MapGet(key)].key)
  BY <1>2, <1>3, <1>4
<1>. QED
  BY <1>1, <1>6, <1>7 DEF chain

\* The buckets with a new value in a node.
SetValue(bs, b, i, value) == [bs EXCEPT ![b][i].value = value]

\* A node's new value takes the place of the old one.
LEMMA SetChain ==
    ASSUME NEW bs, NEW m, Chains(bs, m), NEW b \in Row, NEW i \in 1..Len(bs[b]),
           NEW value \in Value
    PROVE  LET new == SetValue(bs, b, i, value)
           IN  /\ Chains(new, m)
               /\ \A d \in Row : Len(new[d]) = Len(bs[d])
               /\ \A d \in Row : \A j \in 1..Len(bs[d]) :
                    /\ new[d][j].key = bs[d][j].key
                    /\ new[d][j].value =
                         IF d = b /\ j = i THEN value ELSE bs[d][j].value
<1>. DEFINE node == [bs[b][i] EXCEPT !.value = value]
            chain == [bs[b] EXCEPT ![i] = node]
            new == SetValue(bs, b, i, value)
<1>1. /\ m \in Nat /\ bs \in [Row -> Seq(Node)] /\ bs[b] \in Seq(Node)
      /\ \A d \in Row : bs[d] \in Seq(Node) /\ Len(bs[d]) <= m /\ Len(bs[d]) \in Nat
  BY DEF Chains
<1>2. bs[b][i] \in Node
  BY <1>1
<1>3. node \in Node /\ node.key = bs[b][i].key /\ node.value = value
  BY <1>2 DEF Node
<1>4. new = [bs EXCEPT ![b] = chain]
  BY DEF SetValue
<1>. HIDE DEF new, node
<1>5. /\ chain \in Seq(Node) /\ Len(chain) = Len(bs[b]) /\ chain[i] = node
      /\ \A j \in 1..Len(bs[b]) : j # i => chain[j] = bs[b][j]
  BY <1>1, <1>3
<1>. HIDE DEF chain
<1>6. /\ new \in [Row -> Seq(Node)] /\ new[b] = chain
      /\ \A d \in Row : d # b => new[d] = bs[d]
  BY <1>1, <1>4, <1>5
<1>7. \A d \in Row : Len(new[d]) = Len(bs[d])
  BY <1>5, <1>6
<1>8. Chains(new, m)
  BY <1>1, <1>6, <1>7 DEF Chains
<1>9. \A d \in Row : \A j \in 1..Len(bs[d]) :
        /\ new[d][j].key = bs[d][j].key
        /\ new[d][j].value = IF d = b /\ j = i THEN value ELSE bs[d][j].value
  <2>. SUFFICES ASSUME NEW d \in Row, NEW j \in 1..Len(bs[d])
                PROVE  /\ new[d][j].key = bs[d][j].key
                       /\ new[d][j].value
                            = IF d = b /\ j = i THEN value ELSE bs[d][j].value
    OBVIOUS
  <2>1. CASE d = b /\ j = i
    BY <1>3, <1>5, <1>6, <2>1
  <2>2. CASE d = b /\ j # i
    BY <1>5, <1>6, <2>2
  <2>3. CASE d # b
    BY <1>6, <2>3
  <2>. QED
    BY <2>1, <2>2, <2>3
<1>. QED
  BY <1>7, <1>8, <1>9 DEF new

\* A new value in a node takes a place from the old one; the keys keep theirs.
LEMMA PlacesReplace ==
    ASSUME NEW bs, NEW m, Chains(bs, m), NEW b \in Row, NEW i \in 1..Len(bs[b]),
           NEW value \in Value, NEW x
    PROVE  LET new == SetValue(bs, b, i, value)
           IN  /\ Places(new, m, "key", x) = Places(bs, m, "key", x)
               /\ Cardinality(Places(new, m, "value", x))
                    = Cardinality(Places(bs, m, "value", x))
                        - One(x, bs[b][i].value) + One(x, value)
<1>. DEFINE new == SetValue(bs, b, i, value)
            P == Places(bs, m, "value", x)
            Q == Places(new, m, "value", x)
<1>1. m \in Nat /\ \A d \in Row : Len(bs[d]) <= m /\ Len(bs[d]) \in Nat
  BY DEF Chains
<1>2. /\ Chains(new, m)
      /\ \A d \in Row : Len(new[d]) = Len(bs[d])
      /\ \A d \in Row : \A j \in 1..Len(bs[d]) :
            /\ new[d][j].key = bs[d][j].key
            /\ new[d][j].value = IF d = b /\ j = i THEN value ELSE bs[d][j].value
  BY SetChain
<1>. HIDE DEF new
<1>10. \A n \in Row \X (1..m) : n[2] <= Len(bs[n[1]]) => n[2] \in 1..Len(bs[n[1]])
  BY <1>1
<1>11. Places(new, m, "key", x) = Places(bs, m, "key", x)
  <2>1. \A n \in Row \X (1..m) :
            n[2] <= Len(bs[n[1]]) => new[n[1]][n[2]].key = bs[n[1]][n[2]].key
    BY <1>2, <1>10
  <2>. QED
    BY <1>2, <2>1 DEF Places
<1>12. IsFiniteSet(P) /\ IsFiniteSet(Q) /\ Cardinality(P) \in Nat /\ Cardinality(Q) \in Nat
  BY <1>2, PlacesFinite
<1>13. <<b, i>> \in P <=> bs[b][i].value = x
  <2>1. i \in 1..m /\ i <= Len(bs[b])
    BY <1>1
  <2>. QED
    BY <2>1 DEF Places
<1>14. <<b, i>> \in Q <=> value = x
  <2>1. i \in 1..m /\ i <= Len(new[b])
    BY <1>1, <1>2
  <2>2. new[b][i].value = value
    BY <1>2
  <2>. QED
    BY <2>1, <2>2 DEF Places
<1>15. \A n : n # <<b, i>> => (n \in P <=> n \in Q)
  <2>. SUFFICES ASSUME NEW n \in Row \X (1..m), n # <<b, i>>, n[2] <= Len(bs[n[1]])
                PROVE  new[n[1]][n[2]].value = bs[n[1]][n[2]].value
    BY <1>2 DEF Places
  <2>1. n = <<n[1], n[2]>> /\ n[1] \in Row /\ n[2] \in 1..Len(bs[n[1]])
    BY <1>10
  <2>2. ~(n[1] = b /\ n[2] = i)
    BY <2>1
  <2>. QED
    BY <1>2, <2>1, <2>2
<1>. HIDE DEF P, Q
<1>16. P \ {<<b, i>>} = Q \ {<<b, i>>}
  BY <1>15
<1>17. /\ Cardinality(P \ {<<b, i>>}) =
            IF <<b, i>> \in P THEN Cardinality(P) - 1 ELSE Cardinality(P)
       /\ Cardinality(Q \ {<<b, i>>}) =
            IF <<b, i>> \in Q THEN Cardinality(Q) - 1 ELSE Cardinality(Q)
  BY <1>12, FS_RemoveElement
<1>18. Cardinality(Q) = Cardinality(P) - One(x, bs[b][i].value) + One(x, value)
  <2>. DEFINE p == Cardinality(P)
              q == Cardinality(Q)
              less == Cardinality(P \ {<<b, i>>})
  <2>1. /\ p \in Nat /\ q \in Nat
        /\ less = IF bs[b][i].value = x THEN p - 1 ELSE p
        /\ less = IF value = x THEN q - 1 ELSE q
    BY <1>12, <1>13, <1>14, <1>16, <1>17
  <2>2. One(x, bs[b][i].value) = IF bs[b][i].value = x THEN 1 ELSE 0
    BY DEF One
  <2>3. One(x, value) = IF value = x THEN 1 ELSE 0
    BY DEF One
  <2>. HIDE DEF p, q, less
  <2>4. q = p - One(x, bs[b][i].value) + One(x, value)
    BY <2>1, <2>2, <2>3
  <2>. QED
    BY <2>4 DEF p, q
<1>. QED
  BY <1>11, <1>18 DEF new, P, Q

-----------------------------------------------------------------------------
(* The references the map holds.                                           *)

\* What a map may own: keys and values.
Owned == Key \cup Value

\* The chains are well-formed and hold what is counted.
OwnsInv ==
    /\ Chains(buckets, count)
    /\ refs \in [Owned -> Int]
    /\ OwnsItsNodes

\* The places of the model, and of its next state.
LEMMA Counted ==
    ASSUME NEW x
    PROVE  /\ KeyPlaces(x) = Places(buckets, count, "key", x)
           /\ ValuePlaces(x) = Places(buckets, count, "value", x)
           /\ KeyPlaces(x)' = Places(buckets', count', "key", x)
           /\ ValuePlaces(x)' = Places(buckets', count', "value", x)
  BY DEF KeyPlaces, ValuePlaces, Places, Row

\* An empty map has no places.
LEMMA EmptyChains ==
    LET none == [b \in Row |-> <<>>]
    IN  Chains(none, 0) /\ \A f, x : Places(none, 0, f, x) = {}
  BY DEF Chains, Places

\* A new map owns nothing.
LEMMA OwnsInit == MapInit => OwnsInv
<1>. SUFFICES ASSUME MapInit PROVE OwnsInv
  OBVIOUS
<1>1. Chains(buckets, count) /\ \A f, x : Places(buckets, count, f, x) = {}
  BY EmptyChains DEF MapInit, Row
<1>2. OwnsItsNodes
  <2>. SUFFICES ASSUME NEW x \in Owned
                PROVE  refs[x] = Cardinality(KeyPlaces(x)) + Cardinality(ValuePlaces(x))
    BY DEF OwnsItsNodes, Owned
  <2>1. KeyPlaces(x) = {} /\ ValuePlaces(x) = {}
    BY <1>1, Counted
  <2>2. refs[x] = 0
    BY DEF MapInit, Owned
  <2>. QED
    BY <2>1, <2>2, FS_EmptySet
<1>3. refs \in [Owned -> Int]
  BY DEF MapInit, Owned
<1>. QED
  BY <1>1, <1>2, <1>3 DEF OwnsInv

\* What a step does to the chains and the counts, one object at a time.
LEMMA OwnsByObject ==
    ASSUME Chains(buckets', count'),
           refs' = [x \in Owned |-> refs'[x]],
           \A x \in Owned :
               refs'[x] = Cardinality(Places(buckets', count', "key", x))
                            + Cardinality(Places(buckets', count', "value", x))
    PROVE  OwnsInv'
<1>1. \A x \in Owned : refs'[x] \in Int
  <2>. SUFFICES ASSUME NEW x \in Owned PROVE refs'[x] \in Int
    OBVIOUS
  <2>. DEFINE k == Cardinality(Places(buckets', count', "key", x))
              v == Cardinality(Places(buckets', count', "value", x))
  <2>1. k \in Nat /\ v \in Nat /\ refs'[x] = k + v
    BY PlacesFinite
  <2>. HIDE DEF k, v
  <2>. QED
    BY <2>1
<1>2. refs' \in [Owned -> Int]
  BY <1>1
<1>3. OwnsItsNodes'
  BY Counted DEF OwnsItsNodes, Owned
<1>. QED
  BY <1>2, <1>3 DEF OwnsInv

\* Setting the value of a key that is there: the old value is handed back, and so
\* is the second key.
LEMMA OwnsReplace ==
    ASSUME OwnsInv, NEW key \in Key, NEW value \in Value, Replace(key, value)
    PROVE  OwnsInv'
<1>. DEFINE b == Bucket(key)
            i == MapGet(key)
            old == buckets[b][i].value
            new == SetValue(buckets, b, i, value)
<1>1. /\ Chains(buckets, count) /\ i # 0
      /\ buckets' = new /\ count' = count
  BY DEF OwnsInv, Replace, SetValue
<1>7. refs' = [x \in Owned |->
                  Handed(x, key, value) - One(x, key) - One(x, old)]
  BY DEF Replace, Owned
<1>2. b \in Row /\ i \in 1..Len(buckets[b])
  BY <1>1, BucketInRange, Finds DEF Row
<1>. HIDE DEF b, i
<1>3. /\ Chains(new, count)
      /\ \A x : Places(new, count, "key", x) = Places(buckets, count, "key", x)
      /\ \A x : Cardinality(Places(new, count, "value", x))
                 = Cardinality(Places(buckets, count, "value", x))
                     - One(x, old) + One(x, value)
  BY <1>1, <1>2, PlacesReplace, SetChain
<1>6. \A x \in Owned :
        refs'[x] = (refs[x] + One(x, key) + One(x, value)) - One(x, key) - One(x, old)
  <2>1. \A x \in Owned : refs'[x] = Handed(x, key, value) - One(x, key) - One(x, old)
    BY <1>7
  <2>. QED
    BY <2>1 DEF Handed
<1>. HIDE DEF new, old
<1>4. ASSUME NEW x \in Owned
      PROVE  refs'[x] = Cardinality(Places(buckets', count', "key", x))
                          + Cardinality(Places(buckets', count', "value", x))
  <2>. DEFINE k == Cardinality(Places(buckets, count, "key", x))
              v == Cardinality(Places(buckets, count, "value", x))
              k2 == Cardinality(Places(buckets', count', "key", x))
              v2 == Cardinality(Places(buckets', count', "value", x))
              r == refs[x]
              r2 == refs'[x]
              o == One(x, old)
              n == One(x, value)
              h == One(x, key)
  <2>1. k \in Nat /\ v \in Nat
    BY <1>1, PlacesFinite
  <2>2. r = k + v
    BY Counted DEF OwnsInv, OwnsItsNodes, Owned
  <2>3. o \in Nat /\ n \in Nat /\ h \in Nat
    BY DEF One
  <2>4. r2 = (r + h + n) - h - o
    BY <1>6
  <2>5. k2 = k /\ v2 = v - o + n
    BY <1>1, <1>3
  <2>. HIDE DEF k, v, k2, v2, r, r2, o, n, h
  <2>6. r2 = k2 + v2
    BY <2>1, <2>2, <2>3, <2>4, <2>5
  <2>. QED
    BY <2>6 DEF k2, v2, r2
<1>5. Chains(buckets', count') /\ refs' = [x \in Owned |-> refs'[x]]
  BY <1>1, <1>3, <1>7
<1>. QED
  BY <1>4, <1>5, OwnsByObject

\* Setting a key that is not there.
LEMMA OwnsInsert ==
    ASSUME OwnsInv, NEW key \in Key, NEW value \in Value, Insert(key, value)
    PROVE  OwnsInv'
<1>. DEFINE b == Bucket(key)
            node == [key |-> key, value |-> value]
            new == Prepend(buckets, b, node)
<1>1. /\ Chains(buckets, count)
      /\ buckets' = new /\ count' = count + 1
      /\ refs' = [x \in Owned |-> Handed(x, key, value)]
  BY DEF OwnsInv, Insert, Owned, Prepend
<1>2. b \in Row /\ node \in Node /\ node["key"] = key /\ node["value"] = value
  BY BucketInRange DEF Row, Node
<1>. HIDE DEF b, node
<1>3. /\ Chains(new, count + 1)
      /\ \A f, x : Cardinality(Places(new, count + 1, f, x))
                      = Cardinality(Places(buckets, count, f, x)) + One(x, node[f])
  BY <1>1, <1>2, PlacesInsert, PrependChain
<1>. HIDE DEF new
<1>4. ASSUME NEW x \in Owned
      PROVE  refs'[x] = Cardinality(Places(buckets', count', "key", x))
                          + Cardinality(Places(buckets', count', "value", x))
  <2>. DEFINE k == Cardinality(Places(buckets, count, "key", x))
              v == Cardinality(Places(buckets, count, "value", x))
              k2 == Cardinality(Places(buckets', count', "key", x))
              v2 == Cardinality(Places(buckets', count', "value", x))
              r == refs[x]
              r2 == refs'[x]
              n == One(x, value)
              h == One(x, key)
  <2>1. k \in Nat /\ v \in Nat
    BY <1>1, PlacesFinite
  <2>2. r = k + v
    BY Counted DEF OwnsInv, OwnsItsNodes, Owned
  <2>3. n \in Nat /\ h \in Nat
    BY DEF One
  <2>4. r2 = r + h + n
    BY <1>1 DEF Handed
  <2>5. k2 = k + h /\ v2 = v + n
    BY <1>1, <1>2, <1>3
  <2>. HIDE DEF k, v, k2, v2, r, r2, n, h
  <2>6. r2 = k2 + v2
    BY <2>1, <2>2, <2>3, <2>4, <2>5
  <2>. QED
    BY <2>6 DEF k2, v2, r2
<1>5. Chains(buckets', count') /\ refs' = [x \in Owned |-> refs'[x]]
  BY <1>1, <1>3
<1>. QED
  BY <1>4, <1>5, OwnsByObject

\* Freeing the map hands everything back.
LEMMA OwnsFree ==
    ASSUME OwnsInv, FreeMap
    PROVE  OwnsInv'
<1>1. /\ buckets' = [b \in Row |-> <<>>] /\ count' = 0
      /\ refs' = [x \in Owned |-> refs[x] - Cardinality(KeyPlaces(x))
                                    - Cardinality(ValuePlaces(x))]
  BY DEF FreeMap, Owned, Row
<1>2. Chains(buckets', count') /\ \A f, x : Places(buckets', count', f, x) = {}
  BY <1>1, EmptyChains
<1>3. ASSUME NEW x \in Owned
      PROVE  refs'[x] = Cardinality(Places(buckets', count', "key", x))
                          + Cardinality(Places(buckets', count', "value", x))
  <2>. DEFINE k == Cardinality(KeyPlaces(x))
              v == Cardinality(ValuePlaces(x))
              r == refs[x]
              r2 == refs'[x]
  <2>1. k \in Nat /\ v \in Nat
    BY PlacesFinite, Counted DEF OwnsInv
  <2>2. r = k + v
    BY DEF OwnsInv, OwnsItsNodes, Owned
  <2>3. r2 = r - k - v
    BY <1>1
  <2>. HIDE DEF k, v, r, r2
  <2>4. r2 = 0
    BY <2>1, <2>2, <2>3
  <2>. QED
    BY <1>2, <2>4, FS_EmptySet DEF r2
<1>4. refs' = [x \in Owned |-> refs'[x]]
  BY <1>1
<1>. QED
  BY <1>2, <1>3, <1>4, OwnsByObject

\* Nothing is owned in between.
LEMMA OwnsStutter == ASSUME OwnsInv, UNCHANGED mapVars PROVE OwnsInv'
<1>1. buckets' = buckets /\ count' = count /\ refs' = refs
  BY DEF mapVars
<1>2. OwnsItsNodes'
  <2>1. \A x \in Owned : refs[x] = Cardinality(KeyPlaces(x)) + Cardinality(ValuePlaces(x))
    BY DEF OwnsInv, OwnsItsNodes, Owned
  <2>2. \A x : KeyPlaces(x)' = KeyPlaces(x) /\ ValuePlaces(x)' = ValuePlaces(x)
    BY <1>1, Counted
  <2>. QED
    BY <1>1, <2>1, <2>2 DEF OwnsItsNodes, Owned
<1>. QED
  BY <1>1, <1>2 DEF OwnsInv

\* Every operation of the map keeps the references right.
LEMMA OwnsStep == OwnsInv /\ [MapNext]_mapVars => OwnsInv'
<1>. SUFFICES ASSUME OwnsInv, [MapNext]_mapVars PROVE OwnsInv'
  OBVIOUS
<1>1. ASSUME NEW key \in Key, NEW value \in Value, MapSet(key, value) PROVE OwnsInv'
  BY <1>1, OwnsReplace, OwnsInsert DEF MapSet
<1>2. CASE FreeMap
  BY <1>2, OwnsFree
<1>3. CASE UNCHANGED mapVars
  BY <1>3, OwnsStutter
<1>. QED
  BY <1>1, <1>2, <1>3 DEF MapNext

\* The references a map holds are those of its nodes, one for each key and each
\* value in it, whatever the keys, the values and the number of buckets: vm_map_set
\* and free_map neither leak nor release too much.
THEOREM OwnsExactly == MapSpec => []OwnsItsNodes
<1>1. OwnsInv => OwnsItsNodes
  BY DEF OwnsInv
<1>. QED
  BY <1>1, OwnsInit, OwnsStep, PTL DEF MapSpec

-----------------------------------------------------------------------------
(* What the map finds.                                                     *)

\* No two keys in use are taken for each other.
Unconfused == \A k, l \in Used : ~Confused(k, l)

\* Every node lies in the bucket of its key and has a content in use.
Filed ==
    \A b \in Row : \A i \in 1..Len(buckets[b]) :
        /\ Bucket(buckets[b][i].key) = b
        /\ Content(buckets[b][i].key) \in UsedContents

\* Each content in use has one node, with the value last set for it.
Indexed ==
    /\ \A b \in Row : \A i \in 1..Len(buckets[b]) :
            buckets[b][i].value = latest[Content(buckets[b][i].key)]
    /\ \A b \in Row : \A i, j \in 1..Len(buckets[b]) :
            Content(buckets[b][i].key) = Content(buckets[b][j].key) => i = j
    /\ \A k \in Used : \E i \in 1..Len(buckets[Bucket(k)]) :
            Content(buckets[Bucket(k)][i].key) = Content(k)
    /\ count = Cardinality(UsedContents)

\* The inductive invariant: the nodes are filed in their buckets, and as long as
\* no two keys were confused, there is one for each content in use.
LatestInv ==
    /\ OwnsInv
    /\ IsFiniteSet(UsedContents)
    /\ Filed
    /\ Unconfused => Indexed

\* Keys that compare as equal are one key unless they are confused.
LEMMA EqualUnlessConfused ==
    ASSUME NEW k \in Key, NEW l \in Key, Bucket(k) = Bucket(l), Compare(k, l),
           ~Confused(k, l)
    PROVE  Content(k) = Content(l)
  BY DEF Confused, Compare, Content

\* What a lookup finds is the node of the content, if no key in use is
\* confused with the one looked for.
LEMMA FindsContent ==
    ASSUME LatestInv, NEW key \in Key, \A l \in Used : ~Confused(key, l),
           MapGet(key) # 0
    PROVE  /\ MapGet(key) \in 1..Len(buckets[Bucket(key)])
           /\ Content(buckets[Bucket(key)][MapGet(key)].key) = Content(key)
           /\ key \in Used
<1>. DEFINE b == Bucket(key)
            i == MapGet(key)
            node == buckets[b][i]
<1>1. /\ i \in 1..Len(buckets[b]) /\ Compare(key, node.key)
      /\ buckets[b] \in Seq(Node) /\ b \in Row
  BY Finds, BucketInRange DEF LatestInv, OwnsInv, Row
<1>2. node.key \in Key
  <2>1. node \in Node
    BY <1>1
  <2>. QED
    BY <2>1 DEF Node
<1>3. Bucket(node.key) = b /\ node.key \in Used
  BY <1>1, <1>2 DEF LatestInv, Filed, Used
<1>4. Content(key) = Content(node.key)
  BY <1>1, <1>2, <1>3, EqualUnlessConfused
<1>. QED
  BY <1>1, <1>3, <1>4 DEF Used

\* A content in use is found.
LEMMA FindsUsed ==
    ASSUME LatestInv, Indexed, NEW key \in Used
    PROVE  MapGet(key) # 0
<1>. DEFINE b == Bucket(key)
<1>0. key \in Key
  BY DEF Used
<1>1. PICK i \in 1..Len(buckets[b]) : Content(buckets[b][i].key) = Content(key)
  BY DEF Indexed
<1>2. Compare(key, buckets[b][i].key)
  BY <1>1, SameContent
<1>. QED
  BY <1>0, <1>1, <1>2, Finds DEF LatestInv, OwnsInv

\* What is filed this way is found.
LEMMA LatestImplies == LatestInv => GetsLatest
<1>. SUFFICES ASSUME LatestInv, Unconfused PROVE
        /\ \A k \in Used : Lookup(k) = latest[Content(k)]
        /\ \A k \in Key \ Used :
                (\A l \in Used : ~Confused(k, l)) => Lookup(k) = Missing
        /\ count = Cardinality(UsedContents)
  BY DEF GetsLatest, Unconfused
<1>1. Indexed
  BY DEF LatestInv
<1>2. ASSUME NEW k \in Used PROVE Lookup(k) = latest[Content(k)]
  <2>1. k \in Key /\ \A l \in Used : ~Confused(k, l)
    BY DEF Used, Unconfused
  <2>2. MapGet(k) # 0
    BY <1>1, FindsUsed
  <2>3. /\ MapGet(k) \in 1..Len(buckets[Bucket(k)]) /\ Bucket(k) \in Row
        /\ Content(buckets[Bucket(k)][MapGet(k)].key) = Content(k)
    BY <2>1, <2>2, FindsContent, BucketInRange DEF Row
  <2>4. buckets[Bucket(k)][MapGet(k)].value = latest[Content(k)]
    BY <1>1, <2>3 DEF Indexed
  <2>. QED
    BY <2>2, <2>4 DEF Lookup
<1>3. ASSUME NEW k \in Key \ Used, \A l \in Used : ~Confused(k, l)
      PROVE  Lookup(k) = Missing
  <2>1. MapGet(k) = 0
    BY <1>3, FindsContent
  <2>. QED
    BY <2>1 DEF Lookup
<1>. QED
  BY <1>1, <1>2, <1>3 DEF Indexed

\* A new map has no keys in use.
LEMMA NothingUsed ==
    ASSUME latest = <<>>
    PROVE  UsedContents = {} /\ Used = {}
  BY DEF UsedContents, Used

\* A new map finds nothing.
LEMMA LatestInit == MapInit => LatestInv
<1>. SUFFICES ASSUME MapInit PROVE LatestInv
  OBVIOUS
<1>1. UsedContents = {} /\ Used = {}
  BY NothingUsed DEF MapInit
<1>2. \A b \in Row : 1..Len(buckets[b]) = {}
  BY DEF MapInit, Row
<1>3. IsFiniteSet(UsedContents) /\ count = Cardinality(UsedContents)
  BY <1>1, FS_EmptySet DEF MapInit
<1>4. Filed /\ Indexed
  BY <1>1, <1>2, <1>3 DEF Filed, Indexed
<1>. QED
  BY <1>3, <1>4, OwnsInit DEF LatestInv

\* A freed map finds nothing.
LEMMA LatestFree == ASSUME LatestInv, FreeMap PROVE LatestInv'
<1>1. UsedContents' = {} /\ Used' = {}
  <2>1. latest' = <<>>
    BY DEF FreeMap
  <2>. QED
    BY <2>1 DEF UsedContents, Used
<1>2. \A b \in Row : 1..Len(buckets'[b]) = {}
  BY DEF FreeMap, Row
<1>3. IsFiniteSet(UsedContents') /\ count' = Cardinality(UsedContents')
  BY <1>1, FS_EmptySet DEF FreeMap
<1>4. Filed' /\ Indexed'
  BY <1>1, <1>2, <1>3 DEF Filed, Indexed
<1>5. OwnsInv'
  BY OwnsFree DEF LatestInv
<1>. QED
  BY <1>3, <1>4, <1>5 DEF LatestInv

\* Nothing is found in between.
LEMMA LatestStutter == ASSUME LatestInv, UNCHANGED mapVars PROVE LatestInv'
<1>1. buckets' = buckets /\ count' = count /\ latest' = latest
  BY DEF mapVars
<1>2. UsedContents' = UsedContents /\ Used' = Used
  BY <1>1 DEF UsedContents, Used
<1>3. Filed' /\ (Unconfused' => Indexed')
  BY <1>1, <1>2 DEF LatestInv, Filed, Indexed, Unconfused
<1>4. OwnsInv'
  BY OwnsStutter DEF LatestInv
<1>. QED
  BY <1>2, <1>3, <1>4 DEF LatestInv

\* What vm_map_set does to the contents in use.
LEMMA UsesMore ==
    ASSUME NEW key \in Key, NEW value \in Value, MapSet(key, value)
    PROVE  /\ UsedContents' = UsedContents \cup {Content(key)}
           /\ Used \subseteq Used' /\ key \in Used'
           /\ Unconfused' => Unconfused
           /\ \A c \in UsedContents' :
                latest'[c] = IF c = Content(key) THEN value ELSE latest[c]
<1>1. latest' = [c \in UsedContents \cup {Content(key)} |->
                    IF c = Content(key) THEN value ELSE latest[c]]
  BY DEF MapSet, UsedContents
<1>2. UsedContents' = UsedContents \cup {Content(key)}
  BY <1>1 DEF UsedContents
<1>3. Used \subseteq Used' /\ key \in Used'
  BY <1>2 DEF Used
<1>4. Unconfused' => Unconfused
  BY <1>3 DEF Unconfused
<1>. QED
  BY <1>1, <1>2, <1>3, <1>4

\* A new value for a content in use.
LEMMA LatestReplace ==
    ASSUME LatestInv, NEW key \in Key, NEW value \in Value,
           MapSet(key, value), Replace(key, value)
    PROVE  LatestInv'
<1>. DEFINE b == Bucket(key)
            i == MapGet(key)
            new == SetValue(buckets, b, i, value)
            c0 == Content(key)
            D == UsedContents
<1>1. /\ Chains(buckets, count) /\ i # 0
      /\ buckets' = new /\ count' = count
  BY DEF LatestInv, OwnsInv, Replace, SetValue
<1>2. b \in Row /\ i \in 1..Len(buckets[b])
  BY <1>1, BucketInRange, Finds DEF Row
<1>3. /\ \A d \in Row : Len(new[d]) = Len(buckets[d])
      /\ \A d \in Row : \A j \in 1..Len(buckets[d]) :
           /\ new[d][j].key = buckets[d][j].key
           /\ new[d][j].value = IF d = b /\ j = i THEN value ELSE buckets[d][j].value
  <2>. HIDE DEF b, i
  <2>. QED
    BY <1>1, <1>2, SetChain
<1>4. OwnsInv'
  BY OwnsReplace DEF LatestInv
<1>5. UsedContents' = UsedContents \cup {c0}
  BY UsesMore
<1>6. IsFiniteSet(UsedContents')
  BY <1>5, FS_AddElement DEF LatestInv
<1>7. Filed'
  <2>. SUFFICES ASSUME NEW d \in Row, NEW j \in 1..Len(new[d])
                PROVE  /\ Bucket(new[d][j].key) = d
                       /\ Content(new[d][j].key) \in UsedContents'
    BY <1>1 DEF Filed
  <2>1. j \in 1..Len(buckets[d]) /\ new[d][j].key = buckets[d][j].key
    BY <1>3
  <2>2. Bucket(buckets[d][j].key) = d /\ Content(buckets[d][j].key) \in UsedContents
    BY <2>1 DEF LatestInv, Filed
  <2>. QED
    BY <1>5, <2>1, <2>2
<1>8. ASSUME Unconfused' PROVE Indexed'
  <2>1. Unconfused /\ Indexed
    BY <1>8, UsesMore DEF LatestInv
  <2>2. \A l \in Used : ~Confused(key, l)
    BY <1>8, UsesMore DEF Unconfused
  <2>3. Content(buckets[b][i].key) = c0 /\ key \in Used /\ c0 \in UsedContents
    BY <1>1, <2>2, FindsContent DEF Used
  <2>4. UsedContents' = UsedContents /\ Used' = Used
    BY <1>5, <2>3 DEF Used
  <2>5. \A c \in UsedContents : latest'[c] = IF c = c0 THEN value ELSE latest[c]
    BY <2>4, UsesMore
  <2>. HIDE DEF new, b, i, c0
  <2>6. ASSUME NEW d \in Row, NEW j \in 1..Len(new[d])
        PROVE  new[d][j].value = latest'[Content(new[d][j].key)]
    <3>. DEFINE c == Content(buckets[d][j].key)
    <3>1. j \in 1..Len(buckets[d]) /\ new[d][j].key = buckets[d][j].key
      BY <1>3
    <3>2. Bucket(buckets[d][j].key) = d /\ c \in UsedContents
      BY <3>1 DEF LatestInv, Filed
    <3>3. buckets[d][j].value = latest[c]
      BY <2>1, <3>1 DEF Indexed
    <3>4. c = c0 <=> d = b /\ j = i
      <4>1. ASSUME c = c0 PROVE d = b /\ j = i
        <5>1. Bucket(buckets[b][i].key) = b
          BY <1>2 DEF LatestInv, Filed
        <5>2. d = b
          BY <2>3, <3>2, <4>1, <5>1, SameContent
        <5>. QED
          BY <1>2, <2>1, <2>3, <3>1, <4>1, <5>2 DEF Indexed
      <4>. QED
        BY <2>3, <4>1
    <3>5. new[d][j].value = IF c = c0 THEN value ELSE buckets[d][j].value
      BY <1>3, <3>1, <3>4
    <3>. HIDE DEF c
    <3>6. latest'[c] = IF c = c0 THEN value ELSE latest[c]
      BY <2>5, <3>2
    <3>. QED
      BY <3>1, <3>3, <3>5, <3>6 DEF c
  <2>7. ASSUME NEW d \in Row, NEW j \in 1..Len(new[d]), NEW k \in 1..Len(new[d]),
               Content(new[d][j].key) = Content(new[d][k].key)
        PROVE  j = k
    <3>1. /\ j \in 1..Len(buckets[d]) /\ new[d][j].key = buckets[d][j].key
          /\ k \in 1..Len(buckets[d]) /\ new[d][k].key = buckets[d][k].key
      BY <1>3
    <3>. QED
      BY <2>1, <2>7, <3>1 DEF Indexed
  <2>8. ASSUME NEW k \in Used
        PROVE  \E j \in 1..Len(new[Bucket(k)]) : Content(new[Bucket(k)][j].key) = Content(k)
    <3>1. Bucket(k) \in Row
      BY BucketInRange DEF Used, Row
    <3>2. PICK j \in 1..Len(buckets[Bucket(k)]) :
                Content(buckets[Bucket(k)][j].key) = Content(k)
      BY <2>1 DEF Indexed
    <3>3. j \in 1..Len(new[Bucket(k)]) /\ new[Bucket(k)][j].key = buckets[Bucket(k)][j].key
      BY <1>3, <3>1
    <3>. QED
      BY <3>2, <3>3
  <2>9. count = Cardinality(UsedContents)
    BY <2>1 DEF Indexed
  <2>. QED
    BY <1>1, <2>4, <2>6, <2>7, <2>8, <2>9 DEF Indexed
<1>. QED
  BY <1>4, <1>6, <1>7, <1>8 DEF LatestInv

\* A content that was not in use.
LEMMA LatestInsert ==
    ASSUME LatestInv, NEW key \in Key, NEW value \in Value,
           MapSet(key, value), Insert(key, value)
    PROVE  LatestInv'
<1>. DEFINE b == Bucket(key)
            node == [key |-> key, value |-> value]
            new == Prepend(buckets, b, node)
            c0 == Content(key)
<1>1. /\ Chains(buckets, count) /\ MapGet(key) = 0
      /\ buckets' = new /\ count' = count + 1
  BY DEF LatestInv, OwnsInv, Insert, Prepend
<1>2. b \in Row /\ node \in Node /\ node.key = key /\ node.value = value
  BY BucketInRange DEF Row, Node
<1>3. /\ Chains(new, count + 1)
      /\ Len(new[b]) = Len(buckets[b]) + 1 /\ new[b][1] = node
      /\ \A i \in 1..Len(buckets[b]) : new[b][i + 1] = buckets[b][i]
      /\ \A d \in Row : d # b => new[d] = buckets[d]
  <2>. HIDE DEF b, node
  <2>. QED
    BY <1>1, <1>2, PrependChain, SMTT(20)
<1>4. OwnsInv'
  BY OwnsInsert DEF LatestInv
<1>5. UsedContents' = UsedContents \cup {c0}
  BY UsesMore
<1>6. IsFiniteSet(UsedContents')
  BY <1>5, FS_AddElement DEF LatestInv
<1>7. \A d \in Row : Len(buckets[d]) \in Nat
  BY <1>1 DEF Chains
<1>8. Bucket(key) = b
  OBVIOUS
<1>. HIDE DEF node, new, b
\* A node of the new chains is the new one or an old one.
<1>9. ASSUME NEW d \in Row, NEW j \in 1..Len(new[d])
      PROVE  \/ d = b /\ j = 1 /\ new[d][j] = node
             \/ \E i \in 1..Len(buckets[d]) :
                    /\ new[d][j] = buckets[d][i]
                    /\ j = IF d = b THEN i + 1 ELSE i
  <2>1. CASE d = b /\ j = 1
    BY <1>3, <2>1
  <2>2. CASE d = b /\ j # 1
    <3>1. j - 1 \in 1..Len(buckets[b]) /\ (j - 1) + 1 = j
      BY <1>3, <1>7, <2>2
    <3>. QED
      BY <1>3, <2>2, <3>1
  <2>3. CASE d # b
    BY <1>3, <2>3
  <2>. QED
    BY <2>1, <2>2, <2>3
<1>10. Filed'
  <2>. SUFFICES ASSUME NEW d \in Row, NEW j \in 1..Len(new[d])
                PROVE  /\ Bucket(new[d][j].key) = d
                       /\ Content(new[d][j].key) \in UsedContents'
    BY <1>1 DEF Filed
  <2>1. CASE d = b /\ new[d][j] = node
    BY <1>2, <1>5, <1>8, <2>1
  <2>2. ASSUME NEW i \in 1..Len(buckets[d]), new[d][j] = buckets[d][i]
        PROVE  /\ Bucket(new[d][j].key) = d
               /\ Content(new[d][j].key) \in UsedContents'
    BY <1>5, <2>2 DEF LatestInv, Filed
  <2>. QED
    BY <1>9, <2>1, <2>2
<1>11. ASSUME Unconfused' PROVE Indexed'
  <2>1. Indexed
    BY <1>11, UsesMore DEF LatestInv
  <2>2. c0 \notin UsedContents
    <3>1. key \notin Used
      BY <1>1, <2>1, FindsUsed
    <3>. QED
      BY <3>1 DEF Used
  <2>3. \A c \in UsedContents' : latest'[c] = IF c = c0 THEN value ELSE latest[c]
    BY UsesMore
  <2>4. \A d \in Row : \A i \in 1..Len(buckets[d]) :
            /\ Content(buckets[d][i].key) \in UsedContents
            /\ buckets[d][i].value = latest[Content(buckets[d][i].key)]
    BY <2>1 DEF LatestInv, Filed, Indexed
  <2>. HIDE DEF c0
  <2>5. Content(node.key) = c0
    BY <1>2 DEF c0
  <2>6. ASSUME NEW d \in Row, NEW j \in 1..Len(new[d])
        PROVE  new[d][j].value = latest'[Content(new[d][j].key)]
    <3>1. CASE new[d][j] = node
      BY <1>2, <1>5, <2>3, <2>5, <3>1
    <3>2. ASSUME NEW i \in 1..Len(buckets[d]), new[d][j] = buckets[d][i]
          PROVE  new[d][j].value = latest'[Content(new[d][j].key)]
      BY <1>5, <2>2, <2>3, <2>4, <3>2
    <3>. QED
      BY <1>9, <3>1, <3>2
  <2>7. ASSUME NEW d \in Row, NEW j \in 1..Len(new[d]), NEW k \in 1..Len(new[d]),
               Content(new[d][j].key) = Content(new[d][k].key)
        PROVE  j = k
    <3>. DEFINE isNew(x) == d = b /\ x = 1 /\ new[d][x] = node
                isOld(x) == \E i \in 1..Len(buckets[d]) :
                                /\ new[d][x] = buckets[d][i]
                                /\ x = IF d = b THEN i + 1 ELSE i
    <3>1. (isNew(j) \/ isOld(j)) /\ (isNew(k) \/ isOld(k))
      BY <1>9
    <3>2. \A x : isNew(x) => Content(new[d][x].key) = c0
      BY <2>5
    <3>3. \A x : isOld(x) => Content(new[d][x].key) \in UsedContents
      BY <2>4
    <3>4. CASE isNew(j) /\ isNew(k)
      BY <3>4
    <3>5. CASE isOld(j) /\ isOld(k)
      <4>1. PICK p \in 1..Len(buckets[d]) : /\ new[d][j] = buckets[d][p]
                                            /\ j = IF d = b THEN p + 1 ELSE p
        BY <3>5
      <4>2. PICK q \in 1..Len(buckets[d]) : /\ new[d][k] = buckets[d][q]
                                            /\ k = IF d = b THEN q + 1 ELSE q
        BY <3>5
      <4>3. p = q
        BY <2>1, <2>7, <4>1, <4>2 DEF Indexed
      <4>. QED
        BY <4>1, <4>2, <4>3
    <3>. HIDE DEF isNew, isOld
    <3>. QED
      BY <2>2, <2>7, <3>1, <3>2, <3>3, <3>4, <3>5
  <2>8. ASSUME NEW k \in Used'
        PROVE  \E j \in 1..Len(new[Bucket(k)]) : Content(new[Bucket(k)][j].key) = Content(k)
    <3>1. Bucket(k) \in Row /\ k \in Key
      BY BucketInRange DEF Used, Row
    <3>2. CASE Content(k) = c0
      <4>1. Bucket(k) = b
        BY <1>8, <3>2, SameContent DEF c0
      <4>2. 1 \in 1..Len(new[b])
        BY <1>2, <1>3, <1>7
      <4>. QED
        BY <1>3, <2>5, <3>2, <4>1, <4>2
    <3>3. CASE Content(k) # c0
      <4>1. k \in Used
        BY <1>5, <3>3 DEF Used
      <4>2. PICK i \in 1..Len(buckets[Bucket(k)]) :
                Content(buckets[Bucket(k)][i].key) = Content(k)
        BY <2>1, <4>1 DEF Indexed
      <4>3. CASE Bucket(k) = b
        <5>1. i + 1 \in 1..Len(new[b]) /\ new[b][i + 1] = buckets[b][i]
          BY <1>2, <1>3, <1>7, <4>3
        <5>. QED
          BY <4>2, <4>3, <5>1
      <4>4. CASE Bucket(k) # b
        BY <1>3, <3>1, <4>2, <4>4
      <4>. QED
        BY <4>3, <4>4
    <3>. QED
      BY <3>2, <3>3
  <2>9. count' = Cardinality(UsedContents')
    <3>1. count = Cardinality(UsedContents)
      BY <2>1 DEF Indexed
    <3>2. Cardinality(UsedContents \cup {c0}) = Cardinality(UsedContents) + 1
      BY <2>2, FS_AddElement DEF LatestInv
    <3>. QED
      BY <1>1, <1>5, <3>1, <3>2
  <2>. QED
    BY <1>1, <2>6, <2>7, <2>8, <2>9 DEF Indexed
<1>. QED
  BY <1>4, <1>6, <1>10, <1>11 DEF LatestInv

\* Every operation of the map keeps it indexed.
LEMMA LatestStep == LatestInv /\ [MapNext]_mapVars => LatestInv'
<1>. SUFFICES ASSUME LatestInv, [MapNext]_mapVars PROVE LatestInv'
  OBVIOUS
<1>1. ASSUME NEW key \in Key, NEW value \in Value, MapSet(key, value) PROVE LatestInv'
  BY <1>1, LatestReplace, LatestInsert DEF MapSet
<1>2. CASE FreeMap
  BY <1>2, LatestFree
<1>3. CASE UNCHANGED mapVars
  BY <1>3, LatestStutter
<1>. QED
  BY <1>1, <1>2, <1>3 DEF MapNext

\* A lookup returns the value set last for the key, or that it is missing, as long
\* as no two keys in use are confused, for every set of keys and any number of
\* buckets: one chain may hold any number of contents (vm_map_get, vm_map_set).
THEOREM LatestIsKept == MapSpec => []GetsLatest
<1>. QED
  BY LatestInit, LatestStep, LatestImplies, PTL DEF MapSpec

-----------------------------------------------------------------------------
(* Sums of lists.                                                          *)

\* A sequence of sums: its last one is the total.
IsSum(h, q) ==
    /\ h \in [0..Len(q) -> Nat]
    /\ h[0] = 0
    /\ \A i \in 1..Len(q) : h[i] = h[i - 1] + q[i]

\* The total of a list of numbers is the last of its sums.
LEMMA TotalIsSum ==
    ASSUME NEW q \in Seq(Nat)
    PROVE  \E h : IsSum(h, q) /\ Total(q) = h[Len(q)]
<1>. DEFINE n == Len(q)
            step == [i \in 1..n |-> [x \in Nat |-> x + q[i]]]
            Eq(g) == g = [i \in 0..n |-> IF i = 0 THEN 0 ELSE g[i - 1] + q[i]]
            h == CHOOSE g : Eq(g)
<1>1. n \in Nat /\ \A i \in 1..n : q[i] \in Nat
  OBVIOUS
<1>2. PICK f : f \in [0..n -> Nat] /\ f[0] = 0 /\ \A i \in 1..n : f[i] = step[i][f[i - 1]]
  <2>. DEFINE zero == 0
  <2>1. zero \in Nat
    OBVIOUS
  <2>2. StepsIn(step, n, Nat)
    BY <1>1 DEF StepsIn
  <2>. HIDE DEF step, n, zero
  <2>3. \E f : IsRun(f, zero, step, n, Nat)
    BY <1>1, <2>1, <2>2, Iterates
  <2>. QED
    BY <2>3 DEF zero, IsRun
<1>3. \A i \in 1..n : f[i] = f[i - 1] + q[i]
  <2>1. \A i \in 1..n : i - 1 \in 0..n
    OBVIOUS
  <2>2. \A i \in 1..n : f[i - 1] \in Nat
    BY <1>2, <2>1
  <2>. QED
    BY <1>2, <2>2
<1>4. Eq(f)
  <2>1. \A i \in 0..n : i = 0 \/ i \in 1..n
    OBVIOUS
  <2>2. \A i \in 0..n : f[i] = IF i = 0 THEN 0 ELSE f[i - 1] + q[i]
    BY <1>2, <1>3, <2>1
  <2>. HIDE DEF n
  <2>. QED
    BY <1>2, <2>2
<1>5. Eq(h)
  <2>. HIDE DEF Eq
  <2>. QED
    BY <1>4
<1>6. Total(q) = h[n]
  BY DEF Total
<1>7. h[0] = 0 /\ \A i \in 1..n : h[i] = h[i - 1] + q[i]
  <2>1. 0 \in 0..n /\ \A i \in 1..n : i \in 0..n /\ i # 0
    BY <1>1
  <2>. HIDE DEF h, n
  <2>2. \A i \in 0..n : h[i] = IF i = 0 THEN 0 ELSE h[i - 1] + q[i]
    BY <1>5
  <2>. QED
    BY <2>1, <2>2
<1>8. DOMAIN h = 0..n /\ h = [i \in 0..n |-> h[i]]
  <2>. HIDE DEF h, n
  <2>1. h = [i \in 0..n |-> IF i = 0 THEN 0 ELSE h[i - 1] + q[i]]
    BY <1>5
  <2>. QED
    BY <2>1
<1>. HIDE DEF h, Eq, step
<1>. DEFINE S == {i \in Nat : i <= n => h[i] \in Nat}
<1>9. 0 \in S
  BY <1>7
<1>10. ASSUME NEW i \in Nat, i \in S PROVE i + 1 \in S
  <2>. SUFFICES ASSUME i + 1 <= n PROVE h[i + 1] \in Nat
    OBVIOUS
  <2>1. i + 1 \in 1..n /\ (i + 1) - 1 = i /\ i <= n
    BY <1>1
  <2>2. h[i] \in Nat /\ q[i + 1] \in Nat
    BY <1>1, <1>10, <2>1
  <2>3. h[i + 1] = h[i] + q[i + 1]
    BY <1>7, <2>1
  <2>. QED
    BY <2>2, <2>3
<1>11. \A i \in 0..n : h[i] \in Nat
  <2>1. Nat \subseteq S
    <3>. HIDE DEF S
    <3>. QED
      BY <1>9, <1>10, SetInduction
  <2>2. \A i \in 0..n : i \in Nat /\ i <= n
    OBVIOUS
  <2>. QED
    BY <2>1, <2>2
<1>12. h \in [0..n -> Nat]
  <2>. HIDE DEF n
  <2>. QED
    BY <1>8, <1>11
<1>. QED
  BY <1>6, <1>7, <1>12 DEF IsSum

\* Sums of the same numbers are the same.
LEMMA SumsAgree ==
    ASSUME NEW q \in Seq(Nat), NEW r \in Seq(Nat), NEW h, NEW k,
           IsSum(h, q), IsSum(k, r),
           NEW n \in Nat, n <= Len(q), n <= Len(r), \A i \in 1..n : q[i] = r[i]
    PROVE  h[n] = k[n]
<1>. DEFINE S == {i \in Nat : i <= n => h[i] = k[i]}
<1>1. 0 \in S
  BY DEF IsSum
<1>2. ASSUME NEW i \in Nat, i \in S PROVE i + 1 \in S
  <2>. SUFFICES ASSUME i + 1 <= n PROVE h[i + 1] = k[i + 1]
    OBVIOUS
  <2>1. /\ i + 1 \in 1..Len(q) /\ i + 1 \in 1..Len(r) /\ i + 1 \in 1..n
        /\ (i + 1) - 1 = i /\ i <= n
    OBVIOUS
  <2>2. h[i + 1] = h[i] + q[i + 1] /\ k[i + 1] = k[i] + r[i + 1]
    BY <2>1 DEF IsSum
  <2>. QED
    BY <1>2, <2>1, <2>2
<1>3. n \in S
  <2>. HIDE DEF S
  <2>. QED
    BY <1>1, <1>2, SetInduction
<1>. QED
  BY <1>3

\* The first n values of g.
Tab(g, n) == [i \in 1..n |-> g[i]]

\* The first n values of a function as a list.
LEMMA TabSeq ==
    ASSUME NEW T, NEW g, NEW n \in Nat, \A i \in 1..n : g[i] \in T
    PROVE  /\ Tab(g, n) \in Seq(T) /\ Len(Tab(g, n)) = n
           /\ \A i \in 1..n : Tab(g, n)[i] = g[i]
  BY DEF Tab

\* A value more makes a sum larger by it.
LEMMA TotalTab ==
    ASSUME NEW g, NEW n \in Nat, \A i \in 1..(n + 1) : g[i] \in Nat
    PROVE  /\ Total(Tab(g, n)) \in Nat
           /\ Total(Tab(g, n + 1)) = Total(Tab(g, n)) + g[n + 1]
<1>. DEFINE q == Tab(g, n)
            r == Tab(g, n + 1)
<1>1. /\ n \in Nat /\ n + 1 \in Nat /\ n + 1 \in 1..(n + 1)
      /\ \A i \in 1..n : i \in 1..(n + 1)
  OBVIOUS
<1>2. q \in Seq(Nat) /\ Len(q) = n /\ \A i \in 1..n : q[i] = g[i]
  BY <1>1 DEF Tab
<1>3. r \in Seq(Nat) /\ Len(r) = n + 1 /\ \A i \in 1..(n + 1) : r[i] = g[i]
  BY <1>1 DEF Tab
<1>. HIDE DEF q, r
<1>4. PICK h : IsSum(h, q) /\ Total(q) = h[Len(q)]
  BY <1>2, TotalIsSum
<1>5. PICK k : IsSum(k, r) /\ Total(r) = k[Len(r)]
  BY <1>3, TotalIsSum
<1>6. h[n] = k[n]
  <2>1. n <= Len(q) /\ n <= Len(r) /\ \A i \in 1..n : q[i] = r[i]
    BY <1>1, <1>2, <1>3
  <2>. QED
    BY <1>1, <1>2, <1>3, <1>4, <1>5, <2>1, SumsAgree
<1>7. k[n + 1] = k[n] + g[n + 1]
  <2>1. (n + 1) - 1 = n
    OBVIOUS
  <2>. QED
    BY <1>1, <1>3, <1>5, <2>1 DEF IsSum
<1>8. h[n] \in Nat
  BY <1>2, <1>4 DEF IsSum
<1>. QED
  BY <1>2, <1>3, <1>4, <1>5, <1>6, <1>7, <1>8 DEF q, r

\* The total of nothing.
LEMMA TotalNone == ASSUME NEW g PROVE Total(Tab(g, 0)) = 0
<1>. DEFINE q == Tab(g, 0)
<1>1. q \in Seq(Nat) /\ Len(q) = 0
  BY DEF Tab
<1>. HIDE DEF q
<1>2. PICK h : IsSum(h, q) /\ Total(q) = h[Len(q)]
  BY <1>1, TotalIsSum
<1>. QED
  BY <1>1, <1>2 DEF IsSum, q

\* Sums grow with the number of values.
LEMMA TotalGrows ==
    ASSUME NEW g, NEW m \in Nat, NEW n \in Nat, n <= m, \A i \in 1..m : g[i] \in Nat
    PROVE  Total(Tab(g, n)) <= Total(Tab(g, m)) /\ Total(Tab(g, n)) \in Nat
<1>. DEFINE S == {i \in Nat : n + i <= m =>
                    /\ Total(Tab(g, n + i)) \in Nat /\ Total(Tab(g, n)) \in Nat
                    /\ Total(Tab(g, n)) <= Total(Tab(g, n + i))}
<1>1. 0 \in S
  <2>. DEFINE t == Total(Tab(g, n))
  <2>1. t \in Nat
    <3>1. CASE n = m
      <4>1. CASE n = 0
        BY <4>1, TotalNone
      <4>2. CASE n # 0
        <5>. DEFINE p == n - 1
        <5>1. p \in Nat /\ p + 1 = n
          BY <4>2
        <5>. HIDE DEF p
        <5>2. Total(Tab(g, p)) \in Nat /\ Total(Tab(g, p + 1)) = Total(Tab(g, p)) + g[p + 1]
          BY <3>1, <5>1, TotalTab
        <5>3. g[p + 1] \in Nat
          BY <3>1, <5>1
        <5>. QED
          BY <5>1, <5>2, <5>3
      <4>. QED
        BY <4>1, <4>2
    <3>2. CASE n # m
      <4>1. \A i \in 1..(n + 1) : g[i] \in Nat
        BY <3>2
      <4>. QED
        BY <4>1, TotalTab
    <3>. QED
      BY <3>1, <3>2
  <2>2. n + 0 = n
    OBVIOUS
  <2>3. Total(Tab(g, n + 0)) = t
    BY <2>2
  <2>. HIDE DEF t
  <2>. QED
    BY <2>1, <2>3 DEF t
<1>2. ASSUME NEW i \in Nat, i \in S PROVE i + 1 \in S
  <2>. SUFFICES ASSUME n + (i + 1) <= m
                PROVE  /\ Total(Tab(g, n + (i + 1))) \in Nat /\ Total(Tab(g, n)) \in Nat
                       /\ Total(Tab(g, n)) <= Total(Tab(g, n + (i + 1)))
    OBVIOUS
  <2>. DEFINE a == n + i
              t == Total(Tab(g, n))
              u == Total(Tab(g, a))
              w == Total(Tab(g, a + 1))
  <2>1. a \in Nat /\ a <= m /\ a + 1 <= m /\ n + (i + 1) = a + 1 /\ a + 1 \in 1..m
    OBVIOUS
  <2>2. t \in Nat /\ u \in Nat /\ t <= u
    BY <1>2, <2>1
  <2>. HIDE DEF a
  <2>3. \A j \in 1..(a + 1) : g[j] \in Nat
    BY <2>1
  <2>4. w = u + g[a + 1]
    BY <2>1, <2>3, TotalTab
  <2>5. g[a + 1] \in Nat
    BY <2>1
  <2>. HIDE DEF t, u, w
  <2>6. w \in Nat /\ t <= w
    BY <2>2, <2>4, <2>5
  <2>. QED
    BY <2>1, <2>2, <2>6 DEF t, w
<1>3. Nat \subseteq S
  <2>. HIDE DEF S
  <2>. QED
    BY <1>1, <1>2, SetInduction
<1>4. m - n \in Nat /\ n + (m - n) = m
  OBVIOUS
<1>. QED
  BY <1>3, <1>4

-----------------------------------------------------------------------------
(* The sections of an image.                                               *)

\* A number that is not too large is written as it is.
LEMMA Fits16 ==
    ASSUME NEW n \in Nat
    PROVE  Uint16(n) \in Nat /\ (~(n >= Width) => Uint16(n) = n)
<1>1. Width \in Nat /\ Width > 0
  <2>1. Width \in Nat \ {0}
    BY SizesAssumption
  <2>. QED
    BY <2>1
<1>2. n % Width \in Nat /\ (~(n >= Width) => n % Width = n)
  BY <1>1
<1>. QED
  BY <1>2 DEF Uint16

\* The list of the first n + 1 values is that of the first n and one more.
LEMMA AppendTab ==
    ASSUME NEW g, NEW n \in Nat
    PROVE  Append(Tab(g, n), g[n + 1]) = Tab(g, n + 1)
<1>. DEFINE T == {g[i] : i \in 1..(n + 1)}
            q == Tab(g, n)
            r == Tab(g, n + 1)
            a == Append(q, g[n + 1])
<1>1. \A i \in 1..n : i \in 1..(n + 1)
  OBVIOUS
<1>2. n + 1 \in 1..(n + 1) /\ n + 1 \in Nat
  OBVIOUS
<1>3. \A i \in 1..(n + 1) : g[i] \in T
  OBVIOUS
<1>. HIDE DEF T
<1>4. q \in Seq(T) /\ Len(q) = n /\ \A i \in 1..n : q[i] = g[i]
  BY <1>1, <1>3 DEF Tab
<1>5. r = [i \in 1..(n + 1) |-> g[i]]
  BY DEF Tab
<1>6. g[n + 1] \in T
  BY <1>2, <1>3
<1>. HIDE DEF q, r
<1>7. a \in Seq(T) /\ Len(a) = n + 1 /\ a[n + 1] = g[n + 1] /\ \A i \in 1..n : a[i] = q[i]
  BY <1>4, <1>6
<1>. HIDE DEF a
<1>8. a = [i \in 1..(n + 1) |-> a[i]]
  BY <1>7
<1>9. \A i \in 1..(n + 1) : a[i] = g[i]
  <2>1. \A i \in 1..(n + 1) : i = n + 1 \/ i \in 1..n
    OBVIOUS
  <2>. QED
    BY <1>4, <1>7, <2>1
<1>. QED
  BY <1>5, <1>8, <1>9 DEF a, q, r

-----------------------------------------------------------------------------
(* The sections as they are written.                                        *)

\* What a section takes in the image, and the lengths that are added up.
Spans == [i \in Nat |-> SectionHeader + sections[i].length]
Codes == [i \in Nat |-> objects[i].code]
Names == [i \in Nat |-> objects[i].name + 1]

\* The sections there are, and the order they are written in.
AnySection ==
    {DebugSection}
        \cup {VirtualSection(rows, slots) : rows \in Nat, slots \in Nat}
        \cup {FunctionSection(i) : i \in 1..Len(objects)}
        \cup {ConstantSection(i, length) : i \in Nat, length \in Constant}

Layout ==
    /\ sections \in Seq(AnySection)
    /\ Len(sections) = 2 + Len(objects) + Len(constants)
    /\ sections[1] = DebugSection
    /\ \E rows, slots \in Nat : sections[2] = VirtualSection(rows, slots)
    /\ \A i \in 1..Len(objects) : sections[i + 2] = FunctionSection(i)
    /\ \A i \in 1..Len(constants) :
            sections[i + 2 + Len(objects)] = ConstantSection(i, constants[i])

\* The objects and the constants.
Lists == objects \in Seq(Object) /\ constants \in Seq(Constant)

\* The numbers of an object.
LEMMA ObjectFields ==
    ASSUME Lists, NEW i \in 1..Len(objects)
    PROVE  /\ objects[i].name \in Nat /\ objects[i].code \in Nat
           /\ objects[i].arguments \in Nat /\ objects[i].locals \in Nat
<1>1. objects[i] \in Object
  BY DEF Lists
<1>2. objects[i] \in [name : Nat, code : Nat \ {0}, arguments : Nat, locals : Nat]
  BY <1>1, SizesAssumption
<1>. QED
  BY <1>2

\* Where the names start.
LEMMA DebugOffsets ==
    ASSUME Lists
    PROVE  /\ \A i \in 1..Len(objects) : DebugOffset(i) \in Nat
           /\ DebugSize \in Nat
<1>. DEFINE n == Len(objects)
<1>1. n \in Nat /\ \A i \in 1..n : Names[i] \in Nat
  BY ObjectFields DEF Lists, Names
<1>2. ASSUME NEW i \in 1..(n + 1) PROVE DebugOffset(i) \in Nat
  <2>. DEFINE m == i - 1
  <2>1. m \in Nat /\ m <= n
    BY <1>1
  <2>2. DebugOffset(i) = Total(Tab(Names, m))
    <3>1. Tab(Names, m) = [j \in 1..(i - 1) |-> objects[j].name + 1]
      BY DEF Tab, Names
    <3>. QED
      BY <3>1 DEF DebugOffset
  <2>. HIDE DEF m, n
  <2>3. Total(Tab(Names, m)) \in Nat
    BY <1>1, <2>1, TotalGrows
  <2>. QED
    BY <2>2, <2>3
<1>3. n + 1 \in 1..(n + 1) /\ \A i \in 1..n : i \in 1..(n + 1)
  BY <1>1
<1>. QED
  BY <1>2, <1>3 DEF DebugSize

\* What every section of an image is like.
LEMMA SectionFacts ==
    ASSUME Lists, Layout, NEW i \in 1..Len(sections)
    PROVE  /\ sections[i].length \in Nat
           /\ sections[i].size \in Nat
           /\ ~TooLarge => sections[i].size = sections[i].length
<1>1. sections[i] \in AnySection
  BY DEF Layout
<1>2. ~TooLarge /\ sections[i].type # "FUNCTION"
        => ~(sections[i].length >= Width)
  <2>1. sections[i] \in ToSet(sections)
    BY DEF ToSet, Layout
  <2>2. CASE ~TooLarge /\ sections[i].type # "FUNCTION"
    BY <2>1, <2>2 DEF TooLarge
  <2>. QED
    BY <2>2
<1>3. CASE sections[i] = DebugSection
  <2>1. /\ sections[i].length = DebugSize /\ sections[i].size = Uint16(DebugSize)
        /\ sections[i].type = "DEBUG"
    BY <1>3 DEF DebugSection
  <2>. QED
    BY <1>2, <2>1, DebugOffsets, Fits16
<1>4. ASSUME NEW rows \in Nat, NEW slots \in Nat, sections[i] = VirtualSection(rows, slots)
      PROVE  /\ sections[i].length \in Nat
             /\ sections[i].size \in Nat
             /\ ~TooLarge => sections[i].size = sections[i].length
  <2>. DEFINE l == VirtualHeader + rows + 2 * slots
  <2>1. l \in Nat
    BY SizesAssumption
  <2>. HIDE DEF l
  <2>2. sections[i].length = l /\ sections[i].size = Uint16(l) /\ sections[i].type = "VIRTUAL"
    BY <1>4 DEF VirtualSection, l
  <2>. QED
    BY <1>2, <2>1, <2>2, Fits16
<1>5. ASSUME NEW j \in 1..Len(objects), sections[i] = FunctionSection(j)
      PROVE  /\ sections[i].length \in Nat
             /\ sections[i].size \in Nat
             /\ ~TooLarge => sections[i].size = sections[i].length
  <2>1. sections[i].length = objects[j].code /\ sections[i].size = objects[j].code
    BY <1>5 DEF FunctionSection
  <2>. QED
    BY <2>1, ObjectFields
<1>6. ASSUME NEW j \in Nat, NEW l \in Constant, sections[i] = ConstantSection(j, l)
      PROVE  /\ sections[i].length \in Nat
             /\ sections[i].size \in Nat
             /\ ~TooLarge => sections[i].size = sections[i].length
  <2>1. l \in Nat
    BY SizesAssumption
  <2>2. sections[i].length = l /\ sections[i].size = Uint16(l) /\ sections[i].type = "CONST_STR"
    BY <1>6 DEF ConstantSection
  <2>. QED
    BY <1>2, <2>1, <2>2, Fits16
<1>. QED
  BY <1>1, <1>3, <1>4, <1>5, <1>6 DEF AnySection

-----------------------------------------------------------------------------
(* Where the sections start.                                               *)

\* Every section takes room.
LEMMA SpansPositive ==
    ASSUME Lists, Layout
    PROVE  \A i \in 1..Len(sections) :
             /\ Spans[i] = SectionHeader + sections[i].length
             /\ Spans[i] \in Nat /\ Spans[i] > sections[i].length
             /\ Spans[i] >= SectionHeader
             /\ Spans[i] = SectionHeader => sections[i].length = 0
<1>1. SectionHeader \in Nat /\ SectionHeader > 0
  <2>1. SectionHeader \in Nat \ {0}
    BY SizesAssumption
  <2>. QED
    BY <2>1
<1>2. \A i \in 1..Len(sections) : sections[i].length \in Nat
  BY SectionFacts
<1>3. \A i \in 1..Len(sections) : Spans[i] = SectionHeader + sections[i].length
  BY DEF Spans
<1>. QED
  BY <1>1, <1>2, <1>3

\* Where the sections start.
LEMMA Starts ==
    ASSUME Lists, Layout
    PROVE  /\ Start(1) = 0
           /\ \A k \in 0..Len(sections) : Start(k + 1) \in Nat
           /\ \A k \in 0..(Len(sections) - 1) :
                Start(k + 2) = Start(k + 1) + Spans[k + 1]
           /\ \A i, j \in 1..(Len(sections) + 1) : i < j => Start(i) < Start(j)
<1>. DEFINE n == Len(sections)
<1>1. n \in Nat
  BY DEF Layout
<1>2. \A k \in 0..n : Start(k + 1) = Total(Tab(Spans, k))
  <2>. SUFFICES ASSUME NEW k \in 0..n PROVE Start(k + 1) = Total(Tab(Spans, k))
    OBVIOUS
  <2>1. (k + 1) - 1 = k
    OBVIOUS
  <2>2. Tab(Spans, k) = [j \in 1..((k + 1) - 1) |-> SectionHeader + sections[j].length]
    BY <2>1 DEF Tab, Spans
  <2>. QED
    BY <2>2 DEF Start
<1>3. \A i \in 1..n : Spans[i] \in Nat /\ Spans[i] > 0
  <2>1. SectionHeader \in Nat \ {0}
    BY SizesAssumption
  <2>. QED
    BY <2>1, SpansPositive
<1>. HIDE DEF n
<1>4. Start(1) = 0
  <2>1. 0 \in 0..n /\ 0 + 1 = 1
    BY <1>1
  <2>. QED
    BY <1>2, <2>1, TotalNone
<1>5. ASSUME NEW k \in 0..n PROVE Start(k + 1) \in Nat
  <2>1. k \in Nat /\ k <= n
    BY <1>1
  <2>2. Total(Tab(Spans, k)) \in Nat
    BY <1>1, <1>3, <2>1, TotalGrows
  <2>. QED
    BY <1>2, <2>2
<1>6. ASSUME NEW k \in 0..(n - 1) PROVE Start(k + 2) = Start(k + 1) + Spans[k + 1]
  <2>1. k \in Nat /\ k \in 0..n /\ k + 1 \in 0..n /\ (k + 1) + 1 = k + 2
    BY <1>1
  <2>2. \A i \in 1..(k + 1) : Spans[i] \in Nat
    BY <1>1, <1>3
  <2>3. Total(Tab(Spans, k + 1)) = Total(Tab(Spans, k)) + Spans[k + 1]
    BY <2>1, <2>2, TotalTab
  <2>4. Start((k + 1) + 1) = Total(Tab(Spans, k + 1)) /\ Start(k + 1) = Total(Tab(Spans, k))
    BY <1>2, <2>1
  <2>. QED
    BY <2>1, <2>3, <2>4
<1>7. ASSUME NEW i \in 1..(n + 1), NEW j \in 1..(n + 1), i < j
      PROVE  Start(i) < Start(j)
  <2>. DEFINE k == i - 1
              m == j - 1
  <2>1. /\ k \in 0..(n - 1) /\ k + 1 = i /\ k + 2 = i + 1 /\ k \in 0..n
        /\ m \in 0..n /\ m + 1 = j /\ m \in Nat /\ i \in Nat /\ i <= m /\ i \in 1..n
        /\ i \in 0..n
    BY <1>1, <1>7
  <2>. HIDE DEF k, m
  <2>2. Total(Tab(Spans, i)) <= Total(Tab(Spans, m))
    <3>1. \A x \in 1..m : Spans[x] \in Nat
      BY <1>1, <1>3, <2>1
    <3>. QED
      BY <2>1, <3>1, TotalGrows
  <2>3. Start(i + 1) = Total(Tab(Spans, i)) /\ Start(j) = Total(Tab(Spans, m))
    BY <1>2, <2>1
  <2>4. Start(i + 1) = Start(i) + Spans[i]
    BY <1>6, <2>1
  <2>5. Start(i) \in Nat /\ Start(j) \in Nat /\ Start(i + 1) \in Nat
    BY <1>5, <2>1
  <2>. QED
    BY <1>3, <2>1, <2>2, <2>3, <2>4, <2>5
<1>. QED
  BY <1>4, <1>5, <1>6, <1>7 DEF n

\* There is a section left to read exactly if the image goes on behind a header.
LEMMA MoreIsLeft ==
    ASSUME Lists, Layout, ~EndsEmpty, NEW k \in 0..Len(sections)
    PROVE  Start(k + 1) + SectionHeader < Size <=> k < Len(sections)
<1>. DEFINE n == Len(sections)
            s == Start(k + 1)
            e == Start(n + 1)
            h == SectionHeader
<1>1. n \in Nat /\ n > 0 /\ k \in Nat /\ k <= n
  BY DEF Layout, Lists
<1>2. h \in Nat /\ h > 0
  <2>1. h \in Nat \ {0}
    BY SizesAssumption
  <2>. QED
    BY <2>1
<1>3. s \in Nat /\ e \in Nat
  BY <1>1, Starts
<1>4. Size = e
  BY DEF Size
<1>5. CASE k = n
  BY <1>1, <1>2, <1>3, <1>4, <1>5
<1>6. ASSUME k < n PROVE s + h < e
  <2>. DEFINE t == Start(k + 2)
              p == Spans[k + 1]
  <2>1. k \in 0..(n - 1) /\ k + 1 \in 1..n /\ k + 1 \in 0..n /\ (k + 1) + 1 = k + 2
    BY <1>1, <1>6
  <2>2. t = s + p
    BY <2>1, Starts
  <2>3. p \in Nat /\ p >= h /\ (p = h => sections[k + 1].length = 0)
    BY <2>1, SpansPositive
  <2>4. t \in Nat
    BY <2>1, Starts
  <2>5. CASE k + 1 = n
    <3>1. sections[n].length # 0
      <4>1. sections # <<>> /\ Last(sections) = sections[n]
        BY <1>1 DEF Last
      <4>. QED
        BY <4>1 DEF EndsEmpty
    <3>2. p > h
      BY <1>2, <2>3, <2>5, <3>1
    <3>3. t = e
      BY <2>1, <2>5
    <3>. HIDE DEF s, e, h, t, p
    <3>. QED
      BY <1>2, <1>3, <2>2, <2>3, <3>2, <3>3
  <2>6. CASE k + 1 < n
    <3>1. t < e
      <4>1. k + 2 \in 1..(n + 1) /\ n + 1 \in 1..(n + 1) /\ k + 2 < n + 1
        BY <1>1, <2>6
      <4>. QED
        BY <4>1, Starts
    <3>. HIDE DEF s, e, h, t, p
    <3>. QED
      BY <1>2, <1>3, <2>2, <2>3, <2>4, <3>1
  <2>. QED
    BY <1>1, <2>1, <2>5, <2>6
<1>. QED
  BY <1>1, <1>4, <1>5, <1>6

-----------------------------------------------------------------------------
(* What a reader has taken over.                                           *)

\* The functions and the constants as they are loaded.
Fns == [i \in Nat |->
          [content |-> i, size |-> objects[i].code,
           fn |-> [arguments |-> objects[i].arguments,
                   locals |-> objects[i].locals,
                   name |-> DebugOffset(i)]]]
Consts == [i \in Nat |-> [content |-> i, size |-> constants[i]]]

\* How many functions and constants are among the first k sections.
FnsIn(k) == IF k <= 2 THEN 0
            ELSE IF k <= Len(objects) + 2 THEN k - 2 ELSE Len(objects)
ConsIn(k) == IF k <= Len(objects) + 2 THEN 0 ELSE k - (Len(objects) + 2)

\* What a reader has after the first k sections.
Loaded(k) ==
    [functions |-> Tab(Fns, FnsIn(k)),
     constants |-> Tab(Consts, ConsIn(k)),
     bytecode |-> Total(Tab(Codes, FnsIn(k))),
     debug |-> IF k < 1 THEN <<>> ELSE [content |-> "names", size |-> DebugSize],
     virtual |-> IF k < 2 THEN <<>>
                 ELSE [content |-> "table", size |-> sections[2].length]]

\* The reader has taken over the first k sections.
Progress(k) == offset = Start(k + 1) /\ loaded = Loaded(k)

\* The list of no values.
LEMMA TabNone == ASSUME NEW g PROVE Tab(g, 0) = <<>>
  BY DEF Tab

\* Before the first section nothing is loaded.
LEMMA LoadedNothing ==
    ASSUME Lists
    PROVE  Loaded(0) = [functions |-> <<>>, constants |-> <<>>, bytecode |-> 0,
                        debug |-> <<>>, virtual |-> <<>>]
<1>1. FnsIn(0) = 0 /\ ConsIn(0) = 0
  BY DEF FnsIn, ConsIn, Lists
<1>. QED
  BY <1>1, TabNone, TotalNone DEF Loaded

\* The length of the list of the first n values.
LEMMA LenTab == ASSUME NEW g, NEW n \in Nat PROVE Len(Tab(g, n)) = n
  BY DEF Tab

\* The numbers of the header, if they fit.
LEMMA HeaderFacts ==
    ASSUME Lists, Layout, ~TooLarge
    PROVE  /\ Header.functions = Len(objects) /\ Header.constants = Len(constants)
           /\ Header.bytecode = Total(Tab(Codes, Len(objects)))
           /\ Header.debug = DebugSize /\ DebugSize \in Nat
           /\ \A i \in 1..Len(objects) :
                /\ Uint16(objects[i].arguments) = objects[i].arguments
                /\ Uint16(objects[i].locals) = objects[i].locals
                /\ Uint16(DebugOffset(i)) = DebugOffset(i)
<1>1. Len(objects) \in Nat /\ Len(constants) \in Nat
  BY DEF Lists
<1>2. ~(Len(objects) >= Width) /\ ~(Len(constants) >= Width)
  BY DEF TooLarge
<1>3. Uint16(Len(objects)) = Len(objects) /\ Uint16(Len(constants)) = Len(constants)
  BY <1>1, <1>2, Fits16
<1>4. ASSUME NEW i \in 1..Len(objects)
      PROVE  /\ Uint16(objects[i].arguments) = objects[i].arguments
             /\ Uint16(objects[i].locals) = objects[i].locals
             /\ Uint16(DebugOffset(i)) = DebugOffset(i)
  <2>1. /\ ~(objects[i].arguments >= Width) /\ ~(objects[i].locals >= Width)
        /\ ~(DebugOffset(i) >= Width)
    BY DEF TooLarge
  <2>2. /\ objects[i].arguments \in Nat /\ objects[i].locals \in Nat
        /\ DebugOffset(i) \in Nat
    BY ObjectFields, DebugOffsets
  <2>. QED
    BY <2>1, <2>2, Fits16
<1>5. Tab(Codes, Len(objects)) = [i \in 1..Len(objects) |-> objects[i].code]
  BY DEF Tab, Codes
<1>. QED
  BY <1>3, <1>4, <1>5, DebugOffsets DEF Header

\* The bytecode of some functions is part of that of all.
LEMMA CodesGrow ==
    ASSUME Lists, NEW i \in 1..Len(objects)
    PROVE  /\ Total(Tab(Codes, i)) = Total(Tab(Codes, i - 1)) + objects[i].code
           /\ Total(Tab(Codes, i)) <= Total(Tab(Codes, Len(objects)))
<1>. DEFINE n == Len(objects)
            m == i - 1
<1>1. n \in Nat /\ m \in Nat /\ m + 1 = i /\ i \in Nat /\ i <= n
  BY DEF Lists
<1>2. \A j \in 1..n : Codes[j] \in Nat /\ Codes[j] = objects[j].code
  BY ObjectFields DEF Codes
<1>. HIDE DEF n, m
<1>3. \A j \in 1..(m + 1) : Codes[j] \in Nat
  BY <1>1, <1>2
<1>4. Total(Tab(Codes, m + 1)) = Total(Tab(Codes, m)) + Codes[m + 1]
  BY <1>1, <1>3, TotalTab
<1>5. Total(Tab(Codes, i)) <= Total(Tab(Codes, n))
  <2>1. \A j \in 1..n : Codes[j] \in Nat
    BY <1>2
  <2>. QED
    BY <1>1, <2>1, TotalGrows
<1>6. Codes[i] = objects[i].code
  BY <1>1, <1>2
<1>. QED
  BY <1>1, <1>4, <1>5, <1>6 DEF n, m

\* The next section is stored as it was written.
LEMMA ReadsNext ==
    ASSUME Lists, Layout, ~TooLarge, Reading, NEW k \in 0..(Len(sections) - 1),
           loaded = Loaded(k)
    PROVE  Fits(sections[k + 1]) /\ Stored(sections[k + 1]) = Loaded(k + 1)
<1>. DEFINE s == sections[k + 1]
            n == Len(objects)
<1>1. /\ n \in Nat /\ Len(constants) \in Nat /\ k \in Nat /\ k + 1 \in 1..Len(sections)
      /\ Len(sections) = 2 + n + Len(constants)
  BY DEF Lists, Layout
<1>2. s.size = s.length /\ s.length \in Nat
  BY <1>1, SectionFacts
<1>3. CASE k + 1 = 1
  <2>1. s = DebugSection
    BY <1>3 DEF Layout
  <2>2. /\ s.type = "DEBUG" /\ s.content = "names" /\ s.length = DebugSize
    BY <2>1 DEF DebugSection
  <2>3. Fits(s)
    BY <1>2, <2>2, HeaderFacts DEF Fits
  <2>4. /\ FnsIn(k + 1) = FnsIn(k) /\ ConsIn(k + 1) = ConsIn(k)
        /\ ~(k + 1 < 1) /\ k + 1 < 2 /\ k < 2
    BY <1>1, <1>3 DEF FnsIn, ConsIn
  <2>5. Taken(s) = [content |-> "names", size |-> DebugSize]
    BY <1>2, <2>2 DEF Taken
  <2>6. Stored(s) = [loaded EXCEPT !.debug = Taken(s)]
    BY <2>2 DEF Stored
  <2>7. Stored(s) = Loaded(k + 1)
    BY <2>4, <2>5, <2>6 DEF Loaded
  <2>. QED
    BY <2>3, <2>7
<1>4. CASE k + 1 = 2
  <2>1. PICK rows \in Nat, slots \in Nat : s = VirtualSection(rows, slots)
    BY <1>4 DEF Layout
  <2>2. /\ s.type = "VIRTUAL" /\ s.content = "table"
    BY <2>1 DEF VirtualSection
  <2>3. Fits(s)
    BY <2>2 DEF Fits
  <2>4. /\ FnsIn(k + 1) = FnsIn(k) /\ ConsIn(k + 1) = ConsIn(k)
        /\ ~(k + 1 < 1) /\ ~(k + 1 < 2) /\ ~(k < 1)
    BY <1>1, <1>4 DEF FnsIn, ConsIn
  <2>5. Taken(s) = [content |-> "table", size |-> sections[2].length]
    BY <1>2, <1>4, <2>2 DEF Taken
  <2>6. Stored(s) = [loaded EXCEPT !.virtual = Taken(s)]
    BY <2>2 DEF Stored
  <2>7. Stored(s) = Loaded(k + 1)
    BY <2>4, <2>5, <2>6 DEF Loaded
  <2>. QED
    BY <2>3, <2>7
<1>5. CASE k + 1 > 2 /\ k + 1 <= n + 2
  <2>. DEFINE i == k - 1
  <2>1. i \in 1..n /\ i + 2 = k + 1 /\ i \in Nat /\ i - 1 \in Nat
    BY <1>1, <1>5
  <2>2. s = FunctionSection(i)
    BY <2>1 DEF Layout
  <2>3. FnsIn(k) = i - 1 /\ FnsIn(k + 1) = i /\ ConsIn(k) = 0 /\ ConsIn(k + 1) = 0
    BY <1>1, <1>5 DEF FnsIn, ConsIn
  <2>4. ~(k + 1 < 1) /\ ~(k + 1 < 2) /\ ~(k < 1) /\ ~(k < 2)
    BY <1>1, <1>5
  <2>. HIDE DEF i
  <2>5. /\ s.type = "FUNCTION" /\ s.content = i /\ s.size = objects[i].code
        /\ s.fn = [arguments |-> objects[i].arguments,
                   locals |-> objects[i].locals, name |-> DebugOffset(i)]
    BY <2>1, <2>2, HeaderFacts DEF FunctionSection
  <2>6. /\ Total(Tab(Codes, i)) = Total(Tab(Codes, i - 1)) + s.size
        /\ Total(Tab(Codes, i)) <= Total(Tab(Codes, n))
    BY <2>1, <2>5, CodesGrow
  <2>7. Fits(s)
    <3>1. /\ loaded.bytecode = Total(Tab(Codes, i - 1))
          /\ Len(loaded.functions) = i - 1
      BY <2>1, <2>3, LenTab DEF Loaded
    <3>2. loaded.bytecode + s.size <= Header.bytecode
      BY <2>6, <3>1, HeaderFacts
    <3>3. Len(loaded.functions) < Header.functions
      BY <2>1, <3>1, HeaderFacts
    <3>. QED
      BY <2>5, <3>2, <3>3 DEF Fits
  <2>8. Append(Tab(Fns, i - 1), [content |-> s.content, size |-> s.size, fn |-> s.fn])
          = Tab(Fns, i)
    <3>1. Fns[i] = [content |-> s.content, size |-> s.size, fn |-> s.fn]
      BY <2>1, <2>5 DEF Fns
    <3>2. (i - 1) + 1 = i
      BY <2>1
    <3>. QED
      BY <2>1, <3>1, <3>2, AppendTab
  <2>9. Stored(s) = [loaded EXCEPT
            !.functions = Append(@, [content |-> s.content, size |-> s.size,
                                     fn |-> s.fn]),
            !.bytecode = @ + s.size]
    BY <2>5 DEF Stored
  <2>10. Stored(s) = Loaded(k + 1)
    <3>. DEFINE F0 == Tab(Fns, i - 1)
                F1 == Tab(Fns, i)
                b0 == Total(Tab(Codes, i - 1))
                b1 == Total(Tab(Codes, i))
                c == Tab(Consts, 0)
                v == [content |-> "table", size |-> sections[2].length]
                d == [content |-> "names", size |-> DebugSize]
                Add(q) == Append(q, [content |-> s.content, size |-> s.size, fn |-> s.fn])
                z == s.size
    <3>1. /\ loaded = [functions |-> F0, constants |-> c, bytecode |-> b0,
                       debug |-> d, virtual |-> v]
          /\ Loaded(k + 1) = [functions |-> F1, constants |-> c, bytecode |-> b1,
                              debug |-> d, virtual |-> v]
      BY <2>3, <2>4 DEF Loaded
    <3>2. Add(F0) = F1 /\ b1 = b0 + z
      BY <2>6, <2>8
    <3>3. loaded.functions = F0 /\ loaded.bytecode = b0
      BY <3>1
    <3>4. Add(loaded.functions) = F1 /\ loaded.bytecode + z = b1
      BY <3>2, <3>3
    <3>5. Stored(s) = [loaded EXCEPT !.functions = Add(loaded.functions),
                                     !.bytecode = loaded.bytecode + z]
      BY <2>9
    <3>6. Stored(s) = [loaded EXCEPT !.functions = F1, !.bytecode = b1]
      BY <3>4, <3>5
    <3>. DEFINE l == [loaded EXCEPT !.functions = F1]
    <3>7. Stored(s) = [l EXCEPT !.bytecode = b1]
      BY <3>6
    <3>. HIDE DEF F0, F1, b0, b1, c, v, d, z, Add
    <3>8. l = [functions |-> F1, constants |-> c, bytecode |-> b0, debug |-> d,
               virtual |-> v]
      BY <3>1
    <3>. HIDE DEF l
    <3>. QED
      BY <3>1, <3>7, <3>8
  <2>. QED
    BY <2>7, <2>10
<1>6. CASE k + 1 > n + 2
  <2>. DEFINE i == k - (n + 1)
  <2>1. i \in 1..Len(constants) /\ i + 2 + n = k + 1 /\ i \in Nat /\ i - 1 \in Nat
    BY <1>1, <1>6
  <2>2. s = ConstantSection(i, constants[i])
    BY <2>1 DEF Layout
  <2>3. FnsIn(k) = n /\ FnsIn(k + 1) = n /\ ConsIn(k) = i - 1 /\ ConsIn(k + 1) = i
    BY <1>1, <1>6 DEF FnsIn, ConsIn
  <2>4. ~(k + 1 < 1) /\ ~(k + 1 < 2) /\ ~(k < 1) /\ ~(k < 2)
    BY <1>1, <1>6
  <2>. HIDE DEF i
  <2>5. s.type = "CONST_STR" /\ s.content = i /\ s.size = constants[i]
    BY <1>2, <2>2 DEF ConstantSection
  <2>6. Fits(s)
    <3>1. Len(loaded.constants) = i - 1
      BY <2>1, <2>3, LenTab DEF Loaded
    <3>2. Len(loaded.constants) < Header.constants
      BY <2>1, <3>1, HeaderFacts
    <3>. QED
      BY <2>5, <3>2 DEF Fits
  <2>7. Taken(s) = [content |-> i, size |-> constants[i]]
    BY <2>5 DEF Taken
  <2>8. Append(Tab(Consts, i - 1), Taken(s)) = Tab(Consts, i)
    <3>1. Consts[i] = Taken(s)
      BY <2>1, <2>7 DEF Consts
    <3>2. (i - 1) + 1 = i
      BY <2>1
    <3>. QED
      BY <2>1, <3>1, <3>2, AppendTab
  <2>9. Stored(s) = [loaded EXCEPT !.constants = Append(@, Taken(s))]
    BY <2>5 DEF Stored
  <2>10. Stored(s) = Loaded(k + 1)
    <3>. DEFINE f == Tab(Fns, n)
                b == Total(Tab(Codes, n))
                C0 == Tab(Consts, i - 1)
                C1 == Tab(Consts, i)
                v == [content |-> "table", size |-> sections[2].length]
                d == [content |-> "names", size |-> DebugSize]
                a == Taken(s)
    <3>1. /\ loaded = [functions |-> f, constants |-> C0, bytecode |-> b,
                       debug |-> d, virtual |-> v]
          /\ Loaded(k + 1) = [functions |-> f, constants |-> C1, bytecode |-> b,
                              debug |-> d, virtual |-> v]
      BY <2>3, <2>4 DEF Loaded
    <3>2. Append(C0, a) = C1
      BY <2>8
    <3>3. Stored(s) = [loaded EXCEPT !.constants = Append(@, a)]
      BY <2>9
    <3>. HIDE DEF f, b, C0, C1, v, d, a
    <3>. QED
      BY <3>1, <3>2, <3>3, SMTT(20)
  <2>. QED
    BY <2>6, <2>10
<1>. QED
  BY <1>1, <1>3, <1>4, <1>5, <1>6

-----------------------------------------------------------------------------
(* The writer.                                                             *)

\* What the reader starts with, and the stages before it does.
Nothing == [functions |-> <<>>, constants |-> <<>>, bytecode |-> 0,
            debug |-> <<>>, virtual |-> <<>>]

Writing == stage \in {"objects", "virtual", "constants"}

\* What is written, at each stage.
Written ==
    /\ Lists
    /\ stage \in {"objects", "virtual", "constants", "init_vm", "DumpImage",
                  "read", "rejected", "undefined"}
    /\ stage = "objects" => sections = <<>> /\ constants = <<>>
    /\ stage = "virtual" => sections = <<DebugSection>> /\ constants = <<>>
    /\ stage \notin {"objects", "virtual"} => Layout

\* Where the reader of an image that is not too large is.
ReadSoFar ==
    /\ Writing => offset = 0 /\ loaded = Nothing
    /\ ~Writing /\ ~TooLarge /\ ~EndsEmpty =>
        /\ stage \notin {"rejected", "undefined"}
        /\ Reading => \E k \in 0..Len(sections) : Progress(k)
        /\ stage = "read" => Progress(Len(sections))

\* The inductive invariant of the program image.
ImageInv == Written /\ ReadSoFar

\* What has been written stays as it is under a reader.
LEMMA SameImage ==
    ASSUME UNCHANGED <<objects, constants, sections>>
    PROVE  /\ Lists' = Lists /\ Layout' = Layout
           /\ TooLarge' = TooLarge /\ EndsEmpty' = EndsEmpty
           /\ \A k : Start(k)' = Start(k)
           /\ \A k : Loaded(k)' = Loaded(k)
<1>1. Lists' = Lists
  BY DEF Lists
<1>2. \A i : DebugOffset(i)' = DebugOffset(i)
  BY DEF DebugOffset
<1>3. DebugSize' = DebugSize
  BY <1>2 DEF DebugSize, DebugOffset
<1>4. DebugSection' = DebugSection
  BY <1>3 DEF DebugSection
<1>5. \A i : FunctionSection(i)' = FunctionSection(i)
  BY <1>2 DEF FunctionSection
<1>6. AnySection' = AnySection
  BY <1>4, <1>5 DEF AnySection
<1>7. Layout' = Layout
  BY <1>4, <1>5, <1>6 DEF Layout
<1>8. TooLarge' = TooLarge
  BY <1>2 DEF TooLarge
<1>9. EndsEmpty' = EndsEmpty
  BY DEF EndsEmpty
<1>10. \A k : Start(k)' = Start(k)
  BY DEF Start
<1>11. Fns' = Fns /\ Consts' = Consts /\ Codes' = Codes
  BY <1>2 DEF Fns, Consts, Codes
<1>12. \A k : FnsIn(k)' = FnsIn(k) /\ ConsIn(k)' = ConsIn(k)
  BY DEF FnsIn, ConsIn
<1>13. \A k : Loaded(k)' = Loaded(k)
  BY <1>3, <1>11, <1>12 DEF Loaded
<1>. QED
  BY <1>1, <1>7, <1>8, <1>9, <1>10, <1>13

\* Nothing is written at the start.
LEMMA WrittenInit == ImageInit => ImageInv
<1>. SUFFICES ASSUME ImageInit PROVE ImageInv
  OBVIOUS
<1>1. Written
  BY DEF ImageInit, Written, Lists
<1>2. ReadSoFar
  BY DEF ImageInit, ReadSoFar, Writing, Nothing
<1>. QED
  BY <1>1, <1>2 DEF ImageInv

\* The steps of GenerateImage.
LEMMA WrittenAddObject ==
    ASSUME ImageInv, NEW object \in Object, AddObject(object) PROVE ImageInv'
<1>1. Lists'
  BY DEF ImageInv, Written, Lists, AddObject
<1>2. Written'
  BY <1>1 DEF ImageInv, Written, AddObject
<1>3. ReadSoFar'
  BY DEF ImageInv, ReadSoFar, AddObject, Writing
<1>. QED
  BY <1>2, <1>3 DEF ImageInv

\* The names come first.
LEMMA WrittenDebug ==
    ASSUME ImageInv, WriteDebug PROVE ImageInv'
<1>1. DebugSection' = DebugSection
  BY DEF WriteDebug, DebugSection, DebugSize, DebugOffset
<1>2. Written'
  BY <1>1 DEF ImageInv, Written, WriteDebug, Lists
<1>3. ReadSoFar'
  BY DEF ImageInv, ReadSoFar, WriteDebug, Writing
<1>. QED
  BY <1>2, <1>3 DEF ImageInv

\* The dispatch table and a section for each object follow.
LEMMA WrittenFunctions ==
    ASSUME ImageInv, NEW rows \in Nat, NEW slots \in Nat,
           WriteVirtualAndFunctions(rows, slots)
    PROVE  ImageInv'
<1>. DEFINE n == Len(objects)
            d == DebugSection
            v == VirtualSection(rows, slots)
            Fn(i) == FunctionSection(i)
            fs == [i \in 1..n |-> Fn(i)]
            A == AnySection
            p == Append(sections, v)
            out == p \o fs
<1>1. /\ sections = <<d>> /\ constants = <<>> /\ objects \in Seq(Object) /\ n \in Nat
      /\ offset = 0 /\ loaded = Nothing
  BY DEF ImageInv, Written, ReadSoFar, Writing, WriteVirtualAndFunctions, Lists
<1>2. /\ d' = d /\ v' = v /\ (\A i : Fn(i)' = Fn(i)) /\ A' = A
      /\ objects' = objects /\ constants' = constants
  <2>1. objects' = objects /\ constants' = constants
    BY DEF WriteVirtualAndFunctions
  <2>2. \A i : DebugOffset(i)' = DebugOffset(i)
    BY <2>1 DEF DebugOffset
  <2>3. DebugSize' = DebugSize
    BY <2>1 DEF DebugSize, DebugOffset
  <2>4. d' = d
    BY <2>3 DEF DebugSection
  <2>5. \A i : Fn(i)' = Fn(i)
    BY <2>1, <2>2 DEF FunctionSection
  <2>6. A' = A
    BY <2>1, <2>4, <2>5 DEF AnySection
  <2>7. v' = v
    BY DEF VirtualSection
  <2>. QED
    BY <2>1, <2>4, <2>5, <2>6, <2>7
<1>3. d \in A /\ v \in A /\ \A i \in 1..n : Fn(i) \in A
  BY DEF AnySection
<1>4. sections' = Append(sections, v) \o fs
  BY DEF WriteVirtualAndFunctions
<1>5. sections \in Seq(A) /\ Len(sections) = 1 /\ sections[1] = d
  BY <1>1, <1>3
<1>6. sections' = out
  BY <1>4
<1>. HIDE DEF n, d, v, A, Fn
<1>7. /\ out \in Seq(A) /\ Len(out) = 2 + n /\ out[1] = d /\ out[2] = v
      /\ \A i \in 1..n : out[i + 2] = Fn(i)
  <2>1. fs \in Seq(A) /\ Len(fs) = n /\ \A i \in 1..n : fs[i] = Fn(i)
    BY <1>1, <1>3
  <2>2. v \in A
    BY <1>3
  <2>. HIDE DEF fs, p, out
  <2>3. /\ p \in Seq(A) /\ Len(p) = Len(sections) + 1
        /\ \A i \in 1..Len(sections) : p[i] = sections[i]
        /\ p[Len(sections) + 1] = v
    BY <1>5, <2>2, AppendProperties, ZenonT(40) DEF p
  <2>4. Len(p) = 2 /\ p[1] = d /\ p[2] = v
    BY <1>5, <2>3
  <2>5. /\ out \in Seq(A) /\ Len(out) = Len(p) + Len(fs)
        /\ \A i \in 1..(Len(p) + Len(fs)) :
             out[i] = IF i <= Len(p) THEN p[i] ELSE fs[i - Len(p)]
    BY <2>1, <2>3, ConcatProperties, ZenonT(40) DEF out
  <2>6. ASSUME NEW i \in 1..n PROVE out[i + 2] = Fn(i)
    <3>1. i + 2 \in 1..(2 + n) /\ ~(i + 2 <= 2) /\ (i + 2) - 2 = i
      BY <1>1
    <3>. QED
      BY <1>1, <2>1, <2>4, <2>5, <3>1
  <2>. QED
    BY <1>1, <2>1, <2>4, <2>5, <2>6
<1>. HIDE DEF out, p, fs
<1>8. Layout'
  <2>1. sections' \in Seq(AnySection')
    BY <1>2, <1>6, <1>7 DEF A
  <2>2. Len(sections') = 2 + Len(objects') + Len(constants')
    BY <1>1, <1>2, <1>6, <1>7 DEF n
  <2>3. sections'[1] = DebugSection' /\ sections'[2] = VirtualSection(rows, slots)
    BY <1>2, <1>6, <1>7 DEF d, v
  <2>4. \A i \in 1..Len(objects') : sections'[i + 2] = FunctionSection(i)'
    BY <1>2, <1>6, <1>7 DEF n, Fn
  <2>5. Len(constants') = 0
    BY <1>1, <1>2
  <2>6. \A i \in 1..Len(constants') :
           sections'[i + 2 + Len(objects')] = ConstantSection(i, constants'[i])
    BY <2>5
  <2>7. \E r, s \in Nat : sections'[2] = VirtualSection(r, s)
    BY <2>3
  <2>. QED
    BY <2>1, <2>2, <2>3, <2>4, <2>6, <2>7 DEF Layout, VirtualSection, ConstantSection, Uint16
<1>9. Lists'
  BY <1>2 DEF ImageInv, Written, Lists
<1>10. stage' = "constants" /\ offset' = offset /\ loaded' = loaded
  BY DEF WriteVirtualAndFunctions
<1>. QED
  BY <1>1, <1>8, <1>9, <1>10 DEF ImageInv, Written, ReadSoFar, Writing

\* What only depends on the objects.
LEMMA SameObjects ==
    ASSUME UNCHANGED objects
    PROVE  /\ DebugSection' = DebugSection
           /\ \A i : FunctionSection(i)' = FunctionSection(i)
           /\ AnySection' = AnySection
<1>1. \A i : DebugOffset(i)' = DebugOffset(i)
  BY DEF DebugOffset
<1>2. DebugSize' = DebugSize
  BY <1>1 DEF DebugSize, DebugOffset
<1>3. DebugSection' = DebugSection
  BY <1>2 DEF DebugSection
<1>4. \A i : FunctionSection(i)' = FunctionSection(i)
  BY <1>1 DEF FunctionSection
<1>. QED
  BY <1>3, <1>4 DEF AnySection

\* A constant is written behind the others.
LEMMA WrittenConstant ==
    ASSUME ImageInv, NEW length \in Constant, WriteConstant(length)
    PROVE  ImageInv'
<1>. DEFINE n == Len(objects)
            m == Len(constants)
            c == ConstantSection(m + 1, length)
            A == AnySection
            cs == Append(constants, length)
            out == Append(sections, c)
            At(i) == ConstantSection(i, constants[i])
<1>1. /\ stage = "constants" /\ stage' = stage /\ offset' = offset /\ loaded' = loaded
      /\ objects' = objects /\ constants' = cs /\ sections' = out
  BY DEF WriteConstant
<1>2. Lists /\ Layout /\ offset = 0 /\ loaded = Nothing
  BY <1>1 DEF ImageInv, Written, ReadSoFar, Writing
<1>3. n \in Nat /\ m \in Nat /\ constants \in Seq(Constant) /\ objects \in Seq(Object)
  BY <1>2 DEF Lists
<1>4. /\ DebugSection' = DebugSection /\ A' = A
      /\ \A i : FunctionSection(i)' = FunctionSection(i)
  BY <1>1, SameObjects
<1>5. c \in A
  <2>1. m + 1 \in Nat
    BY <1>3
  <2>. QED
    BY <2>1 DEF AnySection
<1>6. /\ sections \in Seq(A) /\ Len(sections) = 2 + n + m
      /\ sections[1] = DebugSection
      /\ \E rows, slots \in Nat : sections[2] = VirtualSection(rows, slots)
      /\ \A i \in 1..n : sections[i + 2] = FunctionSection(i)
      /\ \A i \in 1..m : sections[i + 2 + n] = At(i)
  BY <1>2 DEF Layout
<1>7. /\ cs \in Seq(Constant) /\ Len(cs) = m + 1 /\ cs[m + 1] = length
      /\ \A i \in 1..m : cs[i] = constants[i]
  BY <1>3, AppendProperties
<1>. HIDE DEF n, m, A, c, cs
<1>8. /\ out \in Seq(A) /\ Len(out) = Len(sections) + 1
      /\ \A i \in 1..Len(sections) : out[i] = sections[i]
      /\ out[Len(sections) + 1] = c
  <2>1. sections \in Seq(A)
    BY <1>6
  <2>. QED
    BY <1>5, <2>1, AppendProperties DEF out
<1>. HIDE DEF out
<1>9. /\ Len(out) = 2 + n + (m + 1)
      /\ \A i \in 1..(2 + n + m) : out[i] = sections[i]
      /\ out[(m + 1) + 2 + n] = c
  <2>1. Len(sections) + 1 = 2 + n + (m + 1) /\ Len(sections) + 1 = (m + 1) + 2 + n
    BY <1>3, <1>6
  <2>. QED
    BY <1>6, <1>8, <2>1
<1>10. Lists'
  BY <1>1, <1>3, <1>7 DEF Lists
<1>11. Layout'
  <2>1. sections' \in Seq(AnySection')
    BY <1>1, <1>4, <1>8 DEF A
  <2>2. Len(sections') = 2 + Len(objects') + Len(constants')
    BY <1>1, <1>7, <1>9 DEF n
  <2>3. 1 \in 1..(2 + n + m) /\ 2 \in 1..(2 + n + m)
    BY <1>3
  <2>4. sections'[1] = DebugSection'
    BY <1>1, <1>4, <1>6, <1>9, <2>3
  <2>5. \E rows, slots \in Nat : sections'[2] = VirtualSection(rows, slots)
    BY <1>1, <1>6, <1>9, <2>3
  <2>6. ASSUME NEW i \in 1..n PROVE out[i + 2] = FunctionSection(i)'
    <3>1. i + 2 \in 1..(2 + n + m)
      BY <1>3
    <3>. QED
      BY <1>4, <1>6, <1>9, <3>1
  <2>7. ASSUME NEW i \in 1..(m + 1) PROVE out[i + 2 + n] = ConstantSection(i, cs[i])
    <3>1. CASE i = m + 1
      BY <1>7, <1>9, <3>1 DEF c
    <3>2. CASE i # m + 1
      <4>1. i \in 1..m
        BY <1>3, <3>2
      <4>2. i + 2 + n \in 1..(2 + n + m)
        BY <1>3, <4>1
      <4>3. out[i + 2 + n] = At(i) /\ cs[i] = constants[i]
        BY <1>6, <1>7, <1>9, <4>1, <4>2
      <4>. QED
        BY <4>3
    <3>. QED
      BY <3>1, <3>2
  <2>8. \A i \in 1..Len(objects') : sections'[i + 2] = FunctionSection(i)'
    BY <1>1, <2>6 DEF n
  <2>9. \A i \in 1..Len(constants') :
           sections'[i + 2 + Len(objects')] = ConstantSection(i, constants'[i])
    BY <1>1, <1>7, <2>7 DEF n
  <2>. QED
    BY <2>1, <2>2, <2>4, <2>5, <2>8, <2>9
       DEF Layout, VirtualSection, ConstantSection, Uint16
<1>. QED
  BY <1>1, <1>2, <1>10, <1>11 DEF ImageInv, Written, ReadSoFar, Writing

\* A reader starts in front of the first section.
LEMMA WrittenHeader ==
    ASSUME ImageInv, NEW reader \in {"init_vm", "DumpImage"}, WriteHeader(reader)
    PROVE  ImageInv'
<1>1. /\ stage = "constants" /\ stage' = reader
      /\ UNCHANGED <<objects, constants, sections, offset, loaded>>
  BY DEF WriteHeader
<1>2. Lists /\ Layout /\ offset = 0 /\ loaded = Nothing
  BY <1>1 DEF ImageInv, Written, ReadSoFar, Writing
<1>3. Lists' /\ Layout'
  BY <1>1, <1>2, SameImage
<1>4. Written'
  BY <1>1, <1>3 DEF Written
<1>5. Progress(0)'
  <2>1. Start(1) = 0 /\ 0 + 1 = 1
    BY <1>2, Starts
  <2>2. Loaded(0) = Nothing
    BY <1>2, LoadedNothing DEF Nothing
  <2>3. Start(0 + 1)' = Start(0 + 1) /\ Loaded(0)' = Loaded(0)
    BY <1>1, SameImage
  <2>. QED
    BY <1>1, <1>2, <2>1, <2>2, <2>3 DEF Progress
<1>6. 0 \in 0..Len(sections')
  BY <1>1, <1>2 DEF Layout
<1>7. \E k \in 0..Len(sections') : Progress(k)'
  BY <1>5, <1>6
<1>8. ReadSoFar'
  BY <1>1, <1>7 DEF ReadSoFar, Writing
<1>. QED
  BY <1>4, <1>8 DEF ImageInv

-----------------------------------------------------------------------------
(* The reader.                                                             *)

\* A reader of an image that is not too large is at the start of a section, or
\* at the end.
LEMMA AdvancedReading ==
    ASSUME ImageInv, Reading
    PROVE  /\ Lists /\ Layout /\ ~Writing /\ stage # "read"
           /\ ~TooLarge /\ ~EndsEmpty => \E k \in 0..Len(sections) : Progress(k)
  BY DEF ImageInv, Written, ReadSoFar, Writing, Reading

\* A step of a reader keeps the invariant if it advances, as long as the image
\* is not too large.
LEMMA AdvancedStep ==
    ASSUME ImageInv, Reading, UNCHANGED <<objects, constants, sections>>,
           stage' \in {"init_vm", "DumpImage", "read", "rejected", "undefined"},
           ~TooLarge /\ ~EndsEmpty =>
               /\ stage' \notin {"rejected", "undefined"}
               /\ Reading' => \E k \in 0..Len(sections) : Progress(k)'
               /\ stage' = "read" => Progress(Len(sections))'
    PROVE  ImageInv'
<1>1. Lists' /\ Layout' /\ TooLarge' = TooLarge /\ EndsEmpty' = EndsEmpty
  BY AdvancedReading, SameImage
<1>2. Written'
  BY <1>1 DEF Written
<1>3. ReadSoFar'
  BY <1>1 DEF ReadSoFar, Writing, Reading
<1>. QED
  BY <1>2, <1>3 DEF ImageInv

\* Reading a section leads to the start of the next: the lengths that are not
\* equal to the sizes are those that are too large.
LEMMA AdvancedSection ==
    ASSUME ImageInv, ReadSection PROVE ImageInv'
<1>1. /\ Reading /\ MoreToRead /\ UNCHANGED <<objects, constants, sections>>
      /\ stage' = stage \/ stage' = "undefined"
  BY DEF ReadSection, Outcome
<1>2. Lists /\ Layout
  BY <1>1, AdvancedReading
<1>3. ASSUME ~TooLarge, ~EndsEmpty
      PROVE  stage' = stage /\ \E k \in 0..Len(sections) : Progress(k)'
  <2>1. PICK k \in 0..Len(sections) : Progress(k)
    BY <1>1, <1>3, AdvancedReading
  <2>2. offset = Start(k + 1) /\ loaded = Loaded(k)
    BY <2>1 DEF Progress
  <2>3. Len(sections) \in Nat
    BY <1>2 DEF Layout
  <2>4. k \in 0..(Len(sections) - 1)
    <3>1. Start(k + 1) + SectionHeader < Size
      BY <1>1, <2>2 DEF MoreToRead
    <3>2. k < Len(sections)
      BY <1>2, <1>3, <3>1, MoreIsLeft
    <3>. QED
      BY <2>3, <3>2
  <2>5. PICK i \in 1..Len(sections) :
          /\ Start(i) = offset
          /\ IF Fits(sections[i])
             THEN /\ loaded' = Stored(sections[i])
                  /\ offset' = offset + SectionHeader + sections[i].size
                  /\ UNCHANGED <<objects, constants, sections, stage>>
             ELSE Outcome("undefined")
    BY DEF ReadSection
  <2>6. i = k + 1
    <3>1. k + 1 \in 1..Len(sections) /\ i \in 1..(Len(sections) + 1)
          /\ k + 1 \in 1..(Len(sections) + 1)
      BY <2>3, <2>4
    <3>2. Start(i) = Start(k + 1) /\ Start(k + 1) \in Nat
      BY <1>2, <2>2, <2>5, Starts
    <3>3. ~(Start(i) < Start(k + 1)) /\ ~(Start(k + 1) < Start(i))
      BY <3>2
    <3>4. ~(i < k + 1) /\ ~(k + 1 < i)
      BY <1>2, <3>1, <3>3, Starts
    <3>. QED
      BY <2>3, <2>4, <3>4
  <2>7. Fits(sections[k + 1]) /\ Stored(sections[k + 1]) = Loaded(k + 1)
    BY <1>1, <1>2, <1>3, <2>2, <2>4, ReadsNext
  <2>8. /\ loaded' = Loaded(k + 1) /\ stage' = stage
        /\ offset' = offset + SectionHeader + sections[k + 1].size
    BY <2>5, <2>6, <2>7
  <2>9. offset' = Start(k + 2)
    <3>1. Start(k + 2) = Start(k + 1) + Spans[k + 1]
      BY <1>2, <2>4, Starts
    <3>2. k + 1 \in 1..Len(sections)
      BY <2>3, <2>4
    <3>3. sections[k + 1].size = sections[k + 1].length /\ sections[k + 1].length \in Nat
      BY <1>2, <1>3, <3>2, SectionFacts
    <3>4. Spans[k + 1] = SectionHeader + sections[k + 1].length
      BY <1>2, <3>2, SpansPositive
    <3>5. Start(k + 1) \in Nat /\ SectionHeader \in Nat
      <4>1. SectionHeader \in Nat \ {0}
        BY SizesAssumption
      <4>. QED
        BY <1>2, <2>1, <4>1, Starts
    <3>. DEFINE a == Start(k + 1)
                b == SectionHeader
                c == sections[k + 1].length
    <3>6. offset' = (a + b) + c /\ Start(k + 2) = a + (b + c)
      BY <2>2, <2>8, <3>1, <3>3, <3>4
    <3>7. a \in Nat /\ b \in Nat /\ c \in Nat
      BY <3>3, <3>5
    <3>. HIDE DEF a, b, c
    <3>. QED
      BY <3>6, <3>7
  <2>10. k + 1 \in 0..Len(sections) /\ (k + 1) + 1 = k + 2
    BY <2>3, <2>4
  <2>11. Start(k + 2)' = Start(k + 2) /\ Loaded(k + 1)' = Loaded(k + 1)
    BY <1>1, SameImage
  <2>12. Progress(k + 1)'
    BY <2>8, <2>9, <2>10, <2>11 DEF Progress
  <2>. QED
    BY <2>8, <2>10, <2>12
<1>4. stage \in {"init_vm", "DumpImage"}
  BY <1>1 DEF Reading
<1>. QED
  BY <1>1, <1>3, <1>4, AdvancedStep

\* A reader that is at the start of every section it reads never is between
\* two of them.
LEMMA AdvancedGarbage ==
    ASSUME ImageInv, ReadGarbage PROVE ImageInv'
<1>1. /\ Reading /\ MoreToRead /\ UNCHANGED <<objects, constants, sections>>
      /\ stage' = "undefined" /\ \A i \in 1..Len(sections) : Start(i) # offset
  BY DEF ReadGarbage, Outcome
<1>2. Lists /\ Layout
  BY <1>1, AdvancedReading
<1>3. ASSUME ~TooLarge, ~EndsEmpty PROVE FALSE
  <2>1. PICK k \in 0..Len(sections) : Progress(k)
    BY <1>1, <1>3, AdvancedReading
  <2>2. offset = Start(k + 1)
    BY <2>1 DEF Progress
  <2>3. Start(k + 1) + SectionHeader < Size
    BY <1>1, <2>2 DEF MoreToRead
  <2>4. k < Len(sections)
    BY <1>2, <1>3, <2>3, MoreIsLeft
  <2>5. k + 1 \in 1..Len(sections)
    BY <1>2, <2>4 DEF Layout
  <2>. QED
    BY <1>1, <2>2, <2>5
<1>. QED
  BY <1>1, <1>3, AdvancedStep

\* Behind the last section, everything the header counts has been read.
LEMMA AllIsLoaded ==
    ASSUME Lists, Layout
    PROVE  /\ FnsIn(Len(sections)) = Len(objects)
           /\ ConsIn(Len(sections)) = Len(constants)
           /\ ~(Len(sections) < 1) /\ ~(Len(sections) < 2)
<1>1. /\ Len(objects) \in Nat /\ Len(constants) \in Nat
      /\ Len(sections) = 2 + Len(objects) + Len(constants)
  BY DEF Lists, Layout
<1>. QED
  BY <1>1 DEF FnsIn, ConsIn

\* At the end nothing is missing.
LEMMA AdvancedEnd ==
    ASSUME ImageInv, EndOfImage PROVE ImageInv'
<1>1. /\ Reading /\ ~MoreToRead
      /\ UNCHANGED <<objects, constants, sections, offset, loaded>>
      /\ stage' \in {"read", "rejected"}
      /\ stage' = "rejected" => ~(/\ Len(loaded.constants) = Header.constants
                                  /\ Len(loaded.functions) = Header.functions)
  BY DEF EndOfImage, Outcome
<1>2. Lists /\ Layout
  BY <1>1, AdvancedReading
<1>3. ASSUME ~TooLarge, ~EndsEmpty
      PROVE  stage' # "rejected" /\ Progress(Len(sections))'
  <2>1. PICK k \in 0..Len(sections) : Progress(k)
    BY <1>1, <1>3, AdvancedReading
  <2>2. offset = Start(k + 1) /\ loaded = Loaded(k)
    BY <2>1 DEF Progress
  <2>3. ~(Start(k + 1) + SectionHeader < Size)
    BY <1>1, <2>2 DEF MoreToRead
  <2>4. ~(k < Len(sections))
    BY <1>2, <1>3, <2>3, MoreIsLeft
  <2>5. k = Len(sections)
    <3>1. Len(sections) \in Nat
      BY <1>2 DEF Layout
    <3>. QED
      BY <2>1, <2>4, <3>1
  <2>6. /\ Len(loaded.functions) = Len(objects)
        /\ Len(loaded.constants) = Len(constants)
    <3>1. /\ loaded.functions = Tab(Fns, Len(objects))
          /\ loaded.constants = Tab(Consts, Len(constants))
      BY <1>2, <2>2, <2>5, AllIsLoaded DEF Loaded
    <3>2. Len(objects) \in Nat /\ Len(constants) \in Nat
      BY <1>2 DEF Lists
    <3>. QED
      BY <3>1, <3>2, LenTab
  <2>7. stage' # "rejected"
    BY <1>1, <1>2, <1>3, <2>6, HeaderFacts
  <2>8. /\ Start(Len(sections) + 1)' = Start(Len(sections) + 1)
        /\ Loaded(Len(sections))' = Loaded(Len(sections))
    <3>1. /\ \A j : Start(j)' = Start(j)
          /\ \A j : Loaded(j)' = Loaded(j)
      BY <1>1, SameImage
    <3>. QED
      BY <1>1, <3>1 DEF Start, Loaded, Fns, Consts, Codes, FnsIn, ConsIn, DebugSize,
                       DebugOffset
  <2>9. Progress(Len(sections))'
    BY <1>1, <2>2, <2>5, <2>8 DEF Progress
  <2>. QED
    BY <2>7, <2>9
<1>4. ~Reading' /\ (stage' = "read" \/ stage' = "rejected")
  BY <1>1 DEF Reading
<1>. QED
  BY <1>1, <1>3, <1>4, AdvancedStep

\* The image stays as it is in between.
LEMMA ImageStutter ==
    ASSUME ImageInv, UNCHANGED imageVars PROVE ImageInv'
<1>1. /\ UNCHANGED <<objects, constants, sections>>
      /\ UNCHANGED <<stage, offset, loaded>>
  BY DEF imageVars
<1>2. Lists' = Lists /\ Layout' = Layout /\ TooLarge' = TooLarge /\ EndsEmpty' = EndsEmpty
  BY <1>1, SameImage
<1>3. DebugSection' = DebugSection
  BY <1>1, SameObjects
<1>4. Written'
  BY <1>1, <1>2, <1>3 DEF ImageInv, Written
<1>5. \A k : Progress(k) => Progress(k)'
  <2>1. \A k : Start(k)' = Start(k)
    BY <1>1, SameImage
  <2>2. \A k : Loaded(k)' = Loaded(k)
    BY <1>1, SameImage
  <2>. QED
    BY <1>1, <2>1, <2>2 DEF Progress
<1>6. Progress(Len(sections))' <=> Progress(Len(sections))
  BY <1>1 DEF Progress, Start, Loaded, Fns, Consts, Codes, FnsIn, ConsIn, DebugSize,
              DebugOffset
<1>7. ReadSoFar'
  BY <1>1, <1>2, <1>5, <1>6 DEF ImageInv, ReadSoFar, Writing, Reading
<1>. QED
  BY <1>4, <1>7 DEF ImageInv

\* Every step of the writer and of the reader keeps the invariant.
LEMMA ImageStep == ImageInv /\ [ImageNext]_imageVars => ImageInv'
<1>. SUFFICES ASSUME ImageInv, [ImageNext]_imageVars PROVE ImageInv'
  OBVIOUS
<1>1. ASSUME NEW object \in Object, AddObject(object) PROVE ImageInv'
  BY <1>1, WrittenAddObject
<1>2. CASE WriteDebug
  BY <1>2, WrittenDebug
<1>3. ASSUME NEW rows \in 0..MaxRows, NEW slots \in 0..MaxSlots,
             WriteVirtualAndFunctions(rows, slots)
      PROVE  ImageInv'
  <2>1. rows \in Nat /\ slots \in Nat
    BY SizesAssumption
  <2>. QED
    BY <1>3, <2>1, WrittenFunctions
<1>4. ASSUME NEW length \in Constant, WriteConstant(length) PROVE ImageInv'
  BY <1>4, WrittenConstant
<1>5. ASSUME NEW reader \in {"init_vm", "DumpImage"}, WriteHeader(reader)
      PROVE  ImageInv'
  BY <1>5, WrittenHeader
<1>6. CASE ReadSection
  BY <1>6, AdvancedSection
<1>7. CASE ReadGarbage
  BY <1>7, AdvancedGarbage
<1>8. CASE EndOfImage
  BY <1>8, AdvancedEnd
<1>9. CASE UNCHANGED imageVars
  BY <1>9, ImageStutter
<1>. QED
  BY <1>1, <1>2, <1>3, <1>4, <1>5, <1>6, <1>7, <1>8, <1>9 DEF ImageNext

\* A reader that has taken over every section has read back what was written.
LEMMA ImageImplies == ImageInv => ReadsBack
<1>. SUFFICES ASSUME ImageInv, ~TooLarge, ~EndsEmpty
              PROVE  /\ stage \notin {"rejected", "undefined"}
                     /\ stage = "read" =>
                        /\ loaded.functions = [i \in 1..Len(objects) |->
                                [content |-> i, size |-> objects[i].code,
                                 fn |-> [arguments |-> objects[i].arguments,
                                         locals |-> objects[i].locals,
                                         name |-> DebugOffset(i)]]]
                        /\ loaded.constants = [i \in 1..Len(constants) |->
                                [content |-> i, size |-> constants[i]]]
                        /\ loaded.debug = [content |-> "names", size |-> DebugSize]
                        /\ loaded.virtual.size = sections[2].length
  BY DEF ReadsBack
<1>1. stage \notin {"rejected", "undefined"}
  BY DEF ImageInv, ReadSoFar, Writing
<1>2. ASSUME stage = "read"
      PROVE  /\ loaded.functions = [i \in 1..Len(objects) |->
                                [content |-> i, size |-> objects[i].code,
                                 fn |-> [arguments |-> objects[i].arguments,
                                         locals |-> objects[i].locals,
                                         name |-> DebugOffset(i)]]]
             /\ loaded.constants = [i \in 1..Len(constants) |->
                                [content |-> i, size |-> constants[i]]]
             /\ loaded.debug = [content |-> "names", size |-> DebugSize]
             /\ loaded.virtual.size = sections[2].length
  <2>1. Lists /\ Layout /\ loaded = Loaded(Len(sections))
    BY <1>2 DEF ImageInv, Written, ReadSoFar, Writing, Progress
  <2>2. /\ loaded.functions = Tab(Fns, Len(objects))
        /\ loaded.constants = Tab(Consts, Len(constants))
        /\ loaded.debug = [content |-> "names", size |-> DebugSize]
        /\ loaded.virtual.size = sections[2].length
    BY <2>1, AllIsLoaded DEF Loaded
  <2>. QED
    BY <2>2 DEF Tab, Fns, Consts
<1>. QED
  BY <1>1, <1>2

\* What GenerateImage writes is read back by init_vm and by DumpImage, for any
\* number of functions and constants of any sizes, as long as the values written
\* into 16 bits fit and the last section is not empty.
THEOREM ImageReadsBack == ImageSpec => []ReadsBack
<1>1. ImageInit => ImageInv
  BY WrittenInit
<1>2. ImageInv /\ [ImageNext]_imageVars => ImageInv'
  BY ImageStep
<1>3. ImageInv => ReadsBack
  BY ImageImplies
<1>. QED
  BY <1>1, <1>2, <1>3, PTL DEF ImageSpec

-----------------------------------------------------------------------------
(* The import graph.  Every file has a number and every number below the   *)
(* count of files has its file, so that the table PrintAllErrors indexes by *)
(* file_id has no hole; and a file is listed behind those it imports,      *)
(* except the ones that lead back to it, the list holding just what the    *)
(* program leads to.                                                       *)

Call == [path : Path, id : Nat, rest : Seq(Path)]
Entry == [path : Path, id : Nat]

ImportsTypeOK ==
    /\ imports \in [File -> Seq(Path)]
    /\ visited \in SUBSET Path
    /\ calls \in Seq(Call)
    /\ nextId \in Nat
    /\ result \in Seq(Entry)
    /\ analysed \in Nat

\* A file is either being visited or listed, and the two share the numbers given
\* out so far.
Numbered ==
    /\ nextId = Len(calls) + Len(result)
    /\ \A k \in 0..(nextId - 1) :
        \/ \E i \in 1..Len(calls) : calls[i].id = k
        \/ \E i \in 1..Len(result) : result[i].id = k
    /\ \A i \in 1..Len(calls) : calls[i].id < nextId
    /\ \A i \in 1..Len(result) : result[i].id < nextId

ImportsInv == ImportsTypeOK /\ Numbered

\* The last element of a sequence that is not empty, and what is in front of it.
LEMMA LastElement ==
    ASSUME NEW S, NEW s \in Seq(S), s # <<>>
    PROVE  /\ Len(s) \in Nat \ {0} /\ s[Len(s)] \in S /\ Last(s) = s[Len(s)]
           /\ Front(s) \in Seq(S) /\ Len(Front(s)) = Len(s) - 1
           /\ \A i \in 1..(Len(s) - 1) : Front(s)[i] = s[i]
<1>1. Len(s) \in Nat \ {0}
  BY EmptySeq, LenProperties
<1>2. \A i \in 1..Len(s) : s[i] \in S
  BY ElementOfSeq
<1>. DEFINE n == Len(s) - 1
<1>3. n \in Int /\ 1 \in Int /\ n - 1 + 1 = n /\ n >= 0
  BY <1>1
<1>4. \A i \in 1..n : s[i] \in S
  BY <1>1, <1>2
<1>. HIDE DEF n
<1>5. /\ SubSeq(s, 1, n) \in Seq(S)
      /\ Len(SubSeq(s, 1, n)) = IF 1 <= n THEN n - 1 + 1 ELSE 0
      /\ \A i \in 1..(n - 1 + 1) : SubSeq(s, 1, n)[i] = s[1 + i - 1]
  BY <1>3, <1>4, SubSeqProperties
<1>6. \A i \in 1..n : SubSeq(s, 1, n)[i] = s[i]
  <2>. TAKE i \in 1..n
  <2>1. 1 + i - 1 = i
    BY <1>3
  <2>. QED
    BY <1>3, <1>5, <2>1
<1>7. Len(SubSeq(s, 1, n)) = n
  BY <1>3, <1>5
<1>. QED
  BY <1>1, <1>2, <1>5, <1>6, <1>7 DEF Last, Front, n

\* Going on behind an import statement keeps the calls and their numbers.
LEMMA AdvancedKeeps ==
    ASSUME calls \in Seq(Call), calls # <<>>, Top.rest # <<>>
    PROVE  /\ Advanced \in Seq(Call) /\ Len(Advanced) = Len(calls)
           /\ \A i \in 1..Len(calls) :
                 Advanced[i].id = calls[i].id /\ Advanced[i].path = calls[i].path
           /\ \A i \in 1..(Len(calls) - 1) : Advanced[i].rest = calls[i].rest
           /\ Advanced[Len(calls)].rest = Tail(Top.rest)
           /\ Head(Top.rest) \in Path
<1>. DEFINE front == Front(calls)
            new == [Top EXCEPT !.rest = Tail(@)]
<1>1. Top \in Call /\ Top = calls[Len(calls)] /\ Len(calls) \in Nat \ {0}
  BY LastElement DEF Top
<1>2. Top.rest \in Seq(Path)
  BY <1>1 DEF Call
<1>3. Tail(Top.rest) \in Seq(Path) /\ Head(Top.rest) \in Path
  BY <1>2
<1>4. /\ new \in Call /\ new.id = Top.id /\ new.path = Top.path
      /\ new.rest = Tail(Top.rest)
  BY <1>1, <1>3 DEF Call
<1>5. /\ front \in Seq(Call) /\ Len(front) = Len(calls) - 1
      /\ \A i \in 1..(Len(calls) - 1) : front[i] = calls[i]
  BY LastElement
<1>6. Advanced = Append(front, new)
  BY DEF Advanced
<1>. HIDE DEF front, new
<1>7. /\ Advanced \in Seq(Call) /\ Len(Advanced) = Len(front) + 1
      /\ \A i \in 1..Len(front) : Advanced[i] = front[i]
      /\ Advanced[Len(front) + 1] = new
  BY <1>4, <1>5, <1>6, AppendProperties
<1>8. Len(front) + 1 = Len(calls)
  BY <1>1, <1>5
<1>9. \A i \in 1..Len(calls) :
        Advanced[i].id = calls[i].id /\ Advanced[i].path = calls[i].path
  <2>. TAKE i \in 1..Len(calls)
  <2>1. CASE i = Len(calls)
    BY <1>1, <1>4, <1>7, <1>8, <2>1
  <2>2. CASE i \in 1..Len(front)
    BY <1>5, <1>7, <2>2
  <2>. QED
    BY <1>1, <1>8, <2>1, <2>2
<1>10. \A i \in 1..(Len(calls) - 1) : Advanced[i].rest = calls[i].rest
  BY <1>5, <1>7
<1>11. Advanced[Len(calls)].rest = Tail(Top.rest)
  BY <1>4, <1>7, <1>8
<1>. QED
  BY <1>3, <1>7, <1>8, <1>9, <1>10, <1>11

\* What is read of a path is a list of paths.
LEMMA ImportsOfType ==
    ASSUME imports \in [File -> Seq(Path)], NEW path \in Path
    PROVE  ImportsOf(path) \in Seq(Path)
<1>1. Resolve[path] \in File \cup {NoFile}
  BY PathAssumption
<1>2. <<>> \in Seq(Path)
  OBVIOUS
<1>. QED
  BY <1>1, <1>2 DEF ImportsOf

\* The stack, the list and the numbers are there from the first state on.
LEMMA ImportsInitInv == ImportsInit => ImportsInv
<1>. SUFFICES ASSUME ImportsInit PROVE ImportsInv
  OBVIOUS
<1>1. imports \in [File -> Seq(Path)]
  BY DEF ImportsInit
<1>2. Root \in Path
  BY PathAssumption
<1>3. ImportsOf(Root) \in Seq(Path)
  BY <1>1, <1>2, ImportsOfType
<1>4. ImportsTypeOK
  BY <1>1, <1>2, <1>3 DEF ImportsInit, ImportsTypeOK, Call
<1>5. Numbered
  BY DEF ImportsInit, Numbered
<1>. QED
  BY <1>4, <1>5 DEF ImportsInv

\* Every step of the search keeps them.
LEMMA ImportsNextInv == ImportsInv /\ [ImportsNext]_importVars => ImportsInv'
<1>. SUFFICES ASSUME ImportsInv, [ImportsNext]_importVars PROVE ImportsInv'
  OBVIOUS
<1>. DEFINE last == calls[Len(calls)]
<1>types.
      /\ imports \in [File -> Seq(Path)]
      /\ visited \in SUBSET Path
      /\ calls \in Seq(Call)
      /\ nextId \in Nat
      /\ result \in Seq(Entry)
      /\ analysed \in Nat
  BY DEF ImportsInv, ImportsTypeOK
<1>top.
      ASSUME calls # <<>>
      PROVE  /\ Len(calls) \in Nat \ {0}
             /\ last \in Call /\ Top = last
             /\ last.path \in Path /\ last.id \in Nat /\ last.rest \in Seq(Path)
  <2>1. Len(calls) \in Nat \ {0} /\ last \in Call /\ Last(calls) = last
    BY <1>types, <1>top, LastElement
  <2>. HIDE DEF last
  <2>. QED
    BY <2>1 DEF Call, Top
<1>lengths.
      /\ Len(calls) \in Nat /\ Len(result) \in Nat
      /\ calls # <<>> => Len(calls) \in 1..Len(calls)
      /\ \A i \in 1..Len(calls) : calls[i].id \in Nat
      /\ \A i \in 1..Len(result) : result[i].id \in Nat
  <2>1. Len(calls) \in Nat /\ Len(result) \in Nat
    BY <1>types, LenProperties
  <2>2. calls # <<>> => Len(calls) \in 1..Len(calls)
    BY <1>top, <2>1
  <2>3. /\ \A i \in 1..Len(calls) : calls[i] \in Call
        /\ \A i \in 1..Len(result) : result[i] \in Entry
    BY <1>types, ElementOfSeq
  <2>. QED
    BY <2>1, <2>2, <2>3 DEF Call, Entry
<1>numbers.
      /\ nextId = Len(calls) + Len(result)
      /\ \A k \in 0..(nextId - 1) :
           \/ \E i \in 1..Len(calls) : calls[i].id = k
           \/ \E i \in 1..Len(result) : result[i].id = k
      /\ \A i \in 1..Len(calls) : calls[i].id < nextId
      /\ \A i \in 1..Len(result) : result[i].id < nextId
  BY DEF ImportsInv, Numbered
<1>. HIDE DEF last
<1>1. CASE Skip
  <2>1. calls # <<>> /\ Top.rest # <<>> /\ calls' = Advanced
    BY <1>1 DEF Skip
  <2>2. UNCHANGED <<imports, visited, nextId, result, analysed>>
    BY <1>1 DEF Skip
  <2>3. /\ Len(calls') = Len(calls)
        /\ calls' \in Seq(Call)
        /\ \A i \in 1..Len(calls) : calls'[i].id = calls[i].id
    BY <1>types, <2>1, AdvancedKeeps
  <2>4. ImportsTypeOK'
    BY <1>types, <2>2, <2>3 DEF ImportsTypeOK
  <2>5. Numbered'
    <3>1. /\ nextId' = nextId /\ result' = result /\ Len(calls') = Len(calls)
      BY <2>2, <2>3
    <3>2. \A k \in 0..(nextId - 1) :
            \/ \E i \in 1..Len(calls) : calls'[i].id = k
            \/ \E i \in 1..Len(result) : result[i].id = k
      BY <1>numbers, <2>3
    <3>3. \A i \in 1..Len(calls) : calls'[i].id < nextId
      BY <1>numbers, <2>3
    <3>. QED
      BY <1>numbers, <3>1, <3>2, <3>3 DEF Numbered
  <2>. QED
    BY <2>4, <2>5 DEF ImportsInv
<1>2. CASE Visit
  <2>. DEFINE path == Head(Top.rest)
  <2>1. calls # <<>> /\ Top.rest # <<>>
    BY <1>2 DEF Visit
  <2>2. /\ path \in Path
        /\ Advanced \in Seq(Call) /\ Len(Advanced) = Len(calls)
        /\ \A i \in 1..Len(calls) : Advanced[i].id = calls[i].id
    BY <1>types, <2>1, AdvancedKeeps
  <2>. HIDE DEF path
  <2>3. Opened(path) \in Call /\ Opened(path).id = nextId
    BY <1>types, <2>2, ImportsOfType DEF Opened, Call
  <2>4. /\ calls' = Append(Advanced, Opened(path))
        /\ visited' = visited \cup {path}
        /\ nextId' = nextId + 1
        /\ UNCHANGED <<imports, result, analysed>>
    BY <1>2 DEF Visit, path
  <2>5. /\ calls' \in Seq(Call)
        /\ Len(calls') = Len(calls) + 1
        /\ \A i \in 1..Len(calls) : calls'[i].id = calls[i].id
        /\ calls'[Len(calls) + 1].id = nextId
    BY <1>lengths, <2>2, <2>3, <2>4, AppendProperties
  <2>6. ImportsTypeOK'
    BY <1>types, <2>2, <2>4, <2>5 DEF ImportsTypeOK
  <2>7. Numbered'
    <3>1. nextId = Len(calls) + Len(result)
      BY <1>numbers
    <3>2. nextId' = Len(calls') + Len(result')
      BY <1>lengths, <1>numbers, <2>4, <2>5, <3>1
    <3>3. \A k \in 0..(nextId' - 1) :
            \/ \E i \in 1..Len(calls') : calls'[i].id = k
            \/ \E i \in 1..Len(result') : result'[i].id = k
      <4>. TAKE k \in 0..(nextId' - 1)
      <4>1. CASE k = nextId
        BY <1>lengths, <1>numbers, <2>5, <4>1
      <4>2. CASE \E i \in 1..Len(calls) : calls[i].id = k
        <5>1. PICK i \in 1..Len(calls) : calls[i].id = k
          BY <4>2
        <5>2. i \in 1..Len(calls') /\ calls'[i].id = k
          BY <1>lengths, <2>5, <5>1
        <5>. QED
          BY <5>2
      <4>3. CASE \E i \in 1..Len(result) : result[i].id = k
        BY <2>4, <4>3
      <4>. QED
        <5>1. k = nextId \/ k \in 0..(nextId - 1)
          BY <1>types, <2>4
        <5>2. CASE k \in 0..(nextId - 1)
          BY <1>numbers, <4>2, <4>3, <5>2
        <5>. QED
          BY <4>1, <5>1, <5>2
    <3>4. \A i \in 1..Len(calls') : calls'[i].id < nextId'
      BY <1>lengths, <1>numbers, <2>4, <2>5
    <3>5. \A i \in 1..Len(result') : result'[i].id < nextId'
      BY <1>lengths, <1>numbers, <2>4
    <3>. QED
      BY <3>2, <3>3, <3>4, <3>5 DEF Numbered
  <2>. QED
    BY <2>6, <2>7 DEF ImportsInv
<1>3. CASE Leave
  <2>. DEFINE entry == [path |-> last.path, id |-> last.id]
  <2>1. calls # <<>> /\ entry \in Entry
    BY <1>3, <1>top DEF Leave, Entry
  <2>2. /\ calls' = Front(calls)
        /\ result' = Append(result, entry)
        /\ UNCHANGED <<imports, visited, nextId, analysed>>
    BY <1>3, <1>top DEF Leave
  <2>3. /\ calls' \in Seq(Call)
        /\ Len(calls') = Len(calls) - 1
        /\ \A i \in 1..Len(calls') : calls'[i] = calls[i]
    BY <1>types, <2>1, <2>2, LastElement
  <2>4. /\ result' \in Seq(Entry)
        /\ Len(result') = Len(result) + 1
        /\ \A i \in 1..Len(result) : result'[i] = result[i]
        /\ result'[Len(result) + 1].id = last.id
    BY <1>types, <2>1, <2>2
  <2>5. ImportsTypeOK'
    BY <1>types, <2>2, <2>3, <2>4 DEF ImportsTypeOK
  <2>6. Numbered'
    <3>1. nextId' = Len(calls') + Len(result')
      BY <1>lengths, <1>numbers, <1>top, <2>1, <2>2, <2>3, <2>4
    <3>2. \A k \in 0..(nextId' - 1) :
            \/ \E i \in 1..Len(calls') : calls'[i].id = k
            \/ \E i \in 1..Len(result') : result'[i].id = k
      <4>. TAKE k \in 0..(nextId' - 1)
      <4>1. CASE \E i \in 1..Len(calls) : calls[i].id = k
        <5>1. PICK i \in 1..Len(calls) : calls[i].id = k
          BY <4>1
        <5>2. CASE i = Len(calls)
          BY <1>lengths, <1>numbers, <2>4, <5>1, <5>2 DEF last
        <5>3. CASE i # Len(calls)
          BY <1>lengths, <1>numbers, <2>3, <5>1, <5>3
        <5>. QED
          BY <5>2, <5>3
      <4>2. CASE \E i \in 1..Len(result) : result[i].id = k
        BY <1>lengths, <1>numbers, <2>4, <4>2
      <4>. QED
        BY <1>lengths, <1>numbers, <2>2, <4>1, <4>2
    <3>3. \A i \in 1..Len(calls') : calls'[i].id < nextId'
      <4>. TAKE i \in 1..Len(calls')
      <4>1. i \in 1..Len(calls) /\ calls'[i] = calls[i]
        BY <1>lengths, <2>3
      <4>. QED
        BY <1>numbers, <2>2, <4>1
    <3>4. \A i \in 1..Len(result') : result'[i].id < nextId'
      <4>1. last.id < nextId
        BY <1>lengths, <1>numbers, <1>top, <2>1 DEF last
      <4>. QED
        BY <1>lengths, <1>numbers, <2>2, <2>4, <4>1
    <3>. QED
      BY <3>1, <3>2, <3>3, <3>4 DEF Numbered
  <2>. QED
    BY <2>5, <2>6 DEF ImportsInv
<1>4. CASE Analyse
  <2>1. ImportsTypeOK'
    BY <1>types, <1>4 DEF Analyse, ImportsTypeOK
  <2>2. calls' = calls /\ result' = result /\ nextId' = nextId
    BY <1>4 DEF Analyse
  <2>3. Numbered'
    BY <1>numbers, <2>2 DEF Numbered
  <2>. QED
    BY <2>1, <2>3 DEF ImportsInv
<1>5. CASE UNCHANGED importVars
  <2>1. ImportsTypeOK'
    BY <1>types, <1>5 DEF importVars, ImportsTypeOK
  <2>2. calls' = calls /\ result' = result /\ nextId' = nextId
    BY <1>5 DEF importVars
  <2>3. Numbered'
    BY <1>numbers, <2>2 DEF Numbered
  <2>. QED
    BY <2>1, <2>3 DEF ImportsInv
<1>. QED
  BY <1>1, <1>2, <1>3, <1>4, <1>5 DEF ImportsNext

\* When the search is over nothing is being visited: the list has all numbers.
LEMMA ImportsInvFindsFiles == ImportsInv => ErrorsFindTheirFile
<1>. SUFFICES ASSUME ImportsInv, calls = <<>>
              PROVE  {entry.id : entry \in ToSet(result)}
                        = 0..(Len(result) - 1)
  BY DEF ErrorsFindTheirFile
<1>1. nextId = Len(result) /\ result \in Seq(Entry)
  BY DEF ImportsInv, ImportsTypeOK, Numbered
<1>2. ToSet(result) = {result[i] : i \in 1..Len(result)}
  BY <1>1 DEF ToSet
<1>3. \A i \in 1..Len(result) : result[i].id \in 0..(Len(result) - 1)
  <2>. TAKE i \in 1..Len(result)
  <2>1. result[i] \in Entry /\ Len(result) \in Nat
    BY <1>1, ElementOfSeq
  <2>2. result[i].id \in Nat
    BY <2>1 DEF Entry
  <2>3. result[i].id < nextId
    BY DEF ImportsInv, Numbered
  <2>. QED
    BY <1>1, <2>1, <2>2, <2>3
<1>4. \A k \in 0..(Len(result) - 1) : \E i \in 1..Len(result) : result[i].id = k
  <2>. TAKE k \in 0..(Len(result) - 1)
  <2>1. k \in 0..(nextId - 1) /\ ~\E i \in 1..Len(calls) : calls[i].id = k
    BY <1>1
  <2>. QED
    BY <2>1 DEF ImportsInv, Numbered
<1>. QED
  BY <1>2, <1>3, <1>4

\* PrintAllErrors (error_collector.cc) finds the file of every error: whatever
\* the files import, the numbers of the files listed are 0 up to their count.
THEOREM EveryErrorFindsItsFile == ImportsSpec => []ErrorsFindTheirFile
<1>1. ImportsInit => ImportsInv
  BY ImportsInitInv
<1>2. ImportsInv /\ [ImportsNext]_importVars => ImportsInv'
  BY ImportsNextInv
<1>3. ImportsInv => ErrorsFindTheirFile
  BY ImportsInvFindsFiles
<1>. QED
  BY <1>1, <1>2, <1>3, PTL DEF ImportsSpec

----------------------------------------------------------------------------
(* The order.                                                              *)

Graph == [path \in Path |-> ToSet(ImportsOf(path))]

Graphs == [Path -> SUBSET Path]

ClosedIn(g, paths) == \A p \in paths : g[p] \subseteq paths

\* Reach as an operator on the graph.
Leads(g, path) ==
    {p \in Path : \A paths \in SUBSET Path :
                    path \in paths /\ ClosedIn(g, paths) => p \in paths}

Paths(s) == {s[i].path : i \in 1..Len(s)}

Distinct(s) == \A i, j \in 1..Len(s) : s[i].path = s[j].path => i = j

\* A call was made for an import of the call below it, and goes through the
\* imports it has not visited.
UnderWay(g, seen, cs) ==
    \A i \in 1..Len(cs) :
        /\ \A j \in i..Len(cs) : cs[j].path \in Leads(g, cs[i].path)
        /\ \A k \in 1..Len(cs[i].rest) : cs[i].rest[k] \in g[cs[i].path]
        /\ \A p \in g[cs[i].path] :
                p \in seen \/ \E k \in 1..Len(cs[i].rest) : cs[i].rest[k] = p

\* What a listed file imports is visited: it is listed earlier, or its call was
\* under way and led to the file.
ListedLater(g, seen, rs) ==
    \A i \in 1..Len(rs) : \A p \in g[rs[i].path] :
        /\ p \in seen
        /\ \/ \E j \in 1..(i - 1) : rs[j].path = p
           \/ rs[i].path \in Leads(g, p)

\* A path is visited once: it is under way or listed.
VisitedOnce(g, seen, cs, rs) ==
    /\ seen = Paths(cs) \cup Paths(rs)
    /\ Paths(cs) \cap Paths(rs) = {}
    /\ Distinct(cs) /\ Distinct(rs)
    /\ Root \in seen /\ seen \subseteq Leads(g, Root)

Searched(g, seen, cs, rs) ==
    /\ VisitedOnce(g, seen, cs, rs)
    /\ UnderWay(g, seen, cs)
    /\ ListedLater(g, seen, rs)

OrderInv ==
    /\ ImportsInv
    /\ Searched(Graph, visited, calls, result)
    /\ analysed <= Len(result)

LEMMA LeadsOn ==
    ASSUME NEW g \in Graphs, NEW path \in Path
    PROVE  /\ Leads(g, path) \subseteq Path /\ path \in Leads(g, path)
           /\ \A p \in Leads(g, path) : g[p] \subseteq Leads(g, path)
           /\ \A S \in SUBSET Path :
                path \in S /\ ClosedIn(g, S) => Leads(g, path) \subseteq S
<1>1. Leads(g, path) \subseteq Path /\ path \in Leads(g, path)
  BY DEF Leads
<1>2. ASSUME NEW p \in Leads(g, path), NEW q \in g[p]
      PROVE  q \in Leads(g, path)
  <2>1. p \in Path /\ q \in Path
    BY <1>1, <1>2 DEF Graphs
  <2>2. ASSUME NEW S \in SUBSET Path, path \in S, ClosedIn(g, S)
        PROVE  q \in S
    <3>1. p \in S
      BY <1>2, <2>2 DEF Leads
    <3>. QED
      BY <1>2, <2>2, <3>1 DEF ClosedIn
  <2>. QED
    BY <2>1, <2>2 DEF Leads
<1>3. \A S \in SUBSET Path :
        path \in S /\ ClosedIn(g, S) => Leads(g, path) \subseteq S
  BY DEF Leads
<1>. QED
  BY <1>1, <1>2, <1>3

LEMMA GraphIs ==
    ASSUME imports \in [File -> Seq(Path)]
    PROVE  /\ Graph \in Graphs
           /\ \A p \in Path : /\ Graph[p] = ToSet(ImportsOf(p))
                              /\ ImportsOf(p) \in Seq(Path)
                              /\ Graph[p] = {ImportsOf(p)[k] : k \in 1..Len(ImportsOf(p))}
                              /\ Reach(p) = Leads(Graph, p)
<1>1. ASSUME NEW p \in Path
      PROVE  /\ ImportsOf(p) \in Seq(Path)
             /\ ToSet(ImportsOf(p)) = {ImportsOf(p)[k] : k \in 1..Len(ImportsOf(p))}
             /\ ToSet(ImportsOf(p)) \subseteq Path
  <2>1. ImportsOf(p) \in Seq(Path)
    BY ImportsOfType
  <2>2. /\ DOMAIN ImportsOf(p) = 1..Len(ImportsOf(p))
        /\ \A k \in 1..Len(ImportsOf(p)) : ImportsOf(p)[k] \in Path
    BY <2>1, LenProperties, ElementOfSeq
  <2>. QED
    BY <2>1, <2>2 DEF ToSet
<1>2. Graph \in Graphs
  BY <1>1 DEF Graph, Graphs
<1>3. \A p \in Path : Graph[p] = ToSet(ImportsOf(p))
  BY DEF Graph
<1>4. \A S \in SUBSET Path : Closed(S) <=> ClosedIn(Graph, S)
  BY <1>3 DEF Closed, ClosedIn
<1>5. \A p \in Path : Reach(p) = Leads(Graph, p)
  BY <1>4 DEF Reach, Leads
<1>. QED
  BY <1>1, <1>2, <1>3, <1>5

\* Going on behind an import that is visited leaves every call under way.
LEMMA AdvanceUnderWay ==
    ASSUME NEW g \in Graphs, NEW seen, NEW later, seen \subseteq later,
           NEW cs \in Seq(Call), NEW on \in Seq(Call), cs # <<>>,
           Len(on) = Len(cs),
           \A i \in 1..Len(cs) : on[i].path = cs[i].path,
           \A i \in 1..(Len(cs) - 1) : on[i].rest = cs[i].rest,
           cs[Len(cs)].rest # <<>>,
           on[Len(cs)].rest = Tail(cs[Len(cs)].rest),
           Head(cs[Len(cs)].rest) \in later,
           UnderWay(g, seen, cs)
    PROVE  UnderWay(g, later, on)
<1>. DEFINE n == Len(cs)
<1>1. n \in Nat /\ n >= 1 /\ cs[n] \in Call
  BY LastElement
<1>. HIDE DEF n
<1>2. cs[n].rest \in Seq(Path)
  BY <1>1 DEF Call
<1>3. /\ Len(Tail(cs[n].rest)) = Len(cs[n].rest) - 1 /\ Len(cs[n].rest) \in Nat
      /\ \A k \in 1..(Len(cs[n].rest) - 1) :
            Tail(cs[n].rest)[k] = cs[n].rest[k + 1]
      /\ Head(cs[n].rest) = cs[n].rest[1]
  BY <1>2 DEF n
<1>4. SUFFICES ASSUME NEW i \in 1..n
      PROVE /\ \A j \in i..n : on[j].path \in Leads(g, on[i].path)
            /\ \A k \in 1..Len(on[i].rest) : on[i].rest[k] \in g[on[i].path]
            /\ \A p \in g[on[i].path] :
                 p \in later \/ \E k \in 1..Len(on[i].rest) : on[i].rest[k] = p
  BY DEF UnderWay, n
<1>5. /\ \A j \in i..n : cs[j].path \in Leads(g, cs[i].path)
      /\ \A k \in 1..Len(cs[i].rest) : cs[i].rest[k] \in g[cs[i].path]
      /\ \A p \in g[cs[i].path] :
                p \in seen \/ \E k \in 1..Len(cs[i].rest) : cs[i].rest[k] = p
  BY DEF UnderWay, n
<1>6. on[i].path = cs[i].path /\ \A j \in i..n : on[j].path = cs[j].path
  BY <1>1 DEF n
<1>7. CASE i # n
  <2>1. i \in 1..(n - 1)
    BY <1>1, <1>7
  <2>2. on[i].rest = cs[i].rest
    BY <2>1 DEF n
  <2>. QED
    BY <1>5, <1>6, <2>2
<1>8. CASE i = n
  <2>1. on[i].rest = Tail(cs[n].rest)
    BY <1>8 DEF n
  <2>2. \A k \in 1..Len(on[i].rest) : on[i].rest[k] \in g[on[i].path]
    BY <1>3, <1>5, <1>6, <1>8, <2>1
  <2>3. ASSUME NEW p \in g[on[i].path]
        PROVE  p \in later \/ \E k \in 1..Len(on[i].rest) : on[i].rest[k] = p
    <3>1. CASE p \in seen
      BY <3>1
    <3>2. CASE \E k \in 1..Len(cs[i].rest) : cs[i].rest[k] = p
      <4>1. PICK k \in 1..Len(cs[n].rest) : cs[n].rest[k] = p
        BY <1>8, <3>2
      <4>2. CASE k = 1
        BY <1>3, <4>1, <4>2 DEF n
      <4>3. CASE k # 1
        <5>1. k - 1 \in 1..(Len(cs[n].rest) - 1) /\ k - 1 + 1 = k
          BY <1>3, <4>3
        <5>2. Tail(cs[n].rest)[k - 1] = cs[n].rest[k - 1 + 1]
          BY <1>3, <5>1
        <5>3. on[i].rest[k - 1] = p /\ k - 1 \in 1..Len(on[i].rest)
          BY <1>3, <2>1, <4>1, <5>1, <5>2
        <5>. QED
          BY <5>3
      <4>. QED
        BY <4>2, <4>3
    <3>. QED
      BY <1>5, <1>6, <3>1, <3>2
  <2>. QED
    BY <1>5, <1>6, <2>2, <2>3
<1>. QED
  BY <1>7, <1>8

\* So does a new call, made for an import of the call on top.
LEMMA CallUnderWay ==
    ASSUME NEW g \in Graphs, NEW seen, NEW cs \in Seq(Call), cs # <<>>,
           UnderWay(g, seen, cs), NEW call \in Call,
           call.path \in g[cs[Len(cs)].path],
           g[call.path] = {call.rest[k] : k \in 1..Len(call.rest)}
    PROVE  UnderWay(g, seen, Append(cs, call))
<1>. DEFINE n == Len(cs)
            on == Append(cs, call)
<1>1. /\ n \in Nat /\ n >= 1 /\ \A i \in 1..n : cs[i] \in Call
  BY LastElement, ElementOfSeq
<1>2. Len(on) = n + 1 /\ on[n + 1] = call /\ \A i \in 1..n : on[i] = cs[i]
  BY AppendProperties
<1>3. SUFFICES UnderWay(g, seen, on)
  OBVIOUS
<1>4. \A i \in 1..n :
        /\ \A j \in i..n : cs[j].path \in Leads(g, cs[i].path)
        /\ \A k \in 1..Len(cs[i].rest) : cs[i].rest[k] \in g[cs[i].path]
        /\ \A p \in g[cs[i].path] :
                p \in seen \/ \E k \in 1..Len(cs[i].rest) : cs[i].rest[k] = p
  BY DEF UnderWay
<1>5. \A i \in 1..n : cs[i].path \in Path
  BY <1>1 DEF Call
<1>6. call.path \in g[cs[n].path] /\ call.path \in Path
  BY DEF Call
<1>. HIDE DEF n, on
<1>7. SUFFICES ASSUME NEW i \in 1..(n + 1)
      PROVE /\ \A j \in i..(n + 1) : on[j].path \in Leads(g, on[i].path)
            /\ \A k \in 1..Len(on[i].rest) : on[i].rest[k] \in g[on[i].path]
            /\ \A p \in g[on[i].path] :
                 p \in seen \/ \E k \in 1..Len(on[i].rest) : on[i].rest[k] = p
  BY <1>2 DEF UnderWay
<1>8. CASE i = n + 1
  <2>1. \A j \in i..(n + 1) : j = n + 1
    BY <1>1, <1>8
  <2>2. call.path \in Leads(g, call.path)
    BY <1>6, LeadsOn
  <2>. QED
    BY <1>2, <1>8, <2>1, <2>2
<1>9. CASE i # n + 1
  <2>1. i \in 1..n /\ n \in i..n
    BY <1>1, <1>9
  <2>2. call.path \in Leads(g, cs[i].path)
    BY <1>4, <1>5, <1>6, <2>1, LeadsOn
  <2>3. \A j \in i..(n + 1) : on[j].path \in Leads(g, on[i].path)
    <3>. TAKE j \in i..(n + 1)
    <3>1. j = n + 1 \/ (j \in i..n /\ j \in 1..n)
      BY <1>1, <2>1
    <3>. QED
      BY <1>2, <1>4, <2>1, <2>2, <3>1
  <2>4. on[i] = cs[i]
    BY <1>2, <2>1
  <2>5. /\ \A k \in 1..Len(cs[i].rest) : cs[i].rest[k] \in g[cs[i].path]
        /\ \A p \in g[cs[i].path] :
             p \in seen \/ \E k \in 1..Len(cs[i].rest) : cs[i].rest[k] = p
    BY <1>4, <2>1
  <2>. QED
    BY <2>3, <2>4, <2>5
<1>. QED
  BY <1>8, <1>9

\* A call that returns leaves those below it under way.
LEMMA ReturnUnderWay ==
    ASSUME NEW g \in Graphs, NEW seen, NEW cs \in Seq(Call), cs # <<>>,
           UnderWay(g, seen, cs)
    PROVE  UnderWay(g, seen, Front(cs))
<1>. DEFINE n == Len(cs)
            on == Front(cs)
<1>1. n \in Nat /\ Len(on) = n - 1 /\ \A i \in 1..(n - 1) : on[i] = cs[i]
  BY LastElement
<1>. HIDE DEF on
<1>2. UnderWay(g, seen, on)
  <2>. SUFFICES ASSUME NEW i \in 1..(n - 1)
      PROVE /\ \A j \in i..(n - 1) : on[j].path \in Leads(g, on[i].path)
            /\ \A k \in 1..Len(on[i].rest) : on[i].rest[k] \in g[on[i].path]
            /\ \A p \in g[on[i].path] :
                 p \in seen \/ \E k \in 1..Len(on[i].rest) : on[i].rest[k] = p
    BY <1>1 DEF UnderWay
  <2>1. i \in 1..n /\ on[i] = cs[i]
    BY <1>1
  <2>2. /\ \A j \in i..n : cs[j].path \in Leads(g, cs[i].path)
        /\ \A k \in 1..Len(cs[i].rest) : cs[i].rest[k] \in g[cs[i].path]
        /\ \A p \in g[cs[i].path] :
                p \in seen \/ \E k \in 1..Len(cs[i].rest) : cs[i].rest[k] = p
    BY <2>1 DEF UnderWay
  <2>3. \A j \in i..(n - 1) : j \in i..n /\ on[j] = cs[j]
    BY <1>1
  <2>4. \A j \in i..(n - 1) : on[j].path \in Leads(g, on[i].path)
    BY <2>1, <2>2, <2>3
  <2>. QED
    BY <2>1, <2>2, <2>4
<1>. QED
  BY <1>2 DEF on

\* A list of paths and the paths of one more.
LEMMA PathsOfAppend ==
    ASSUME NEW S, NEW s \in Seq(S), NEW e \in S,
           \A i \in 1..Len(s) : s[i].path # e.path
    PROVE  /\ Paths(Append(s, e)) = Paths(s) \cup {e.path}
           /\ Distinct(s) => Distinct(Append(s, e))
<1>. DEFINE n == Len(s)
            on == Append(s, e)
<1>1. /\ n \in Nat /\ Len(on) = n + 1 /\ on[n + 1] = e
      /\ \A i \in 1..n : on[i] = s[i]
  BY LenProperties, AppendProperties
<1>2. \A i \in 1..n : s[i].path # e.path
  OBVIOUS
<1>. HIDE DEF n, on
<1>3. \A i \in 1..(n + 1) : i = n + 1 \/ i \in 1..n
  BY <1>1
<1>4. n + 1 \in 1..(n + 1) /\ \A i \in 1..n : i \in 1..(n + 1)
  BY <1>1
<1>5. Paths(on) = Paths(s) \cup {e.path}
  <2>1. Paths(on) = {on[i].path : i \in 1..(n + 1)}
    BY <1>1 DEF Paths
  <2>2. Paths(s) = {s[i].path : i \in 1..n}
    BY DEF Paths, n
  <2>. QED
    BY <1>1, <1>3, <1>4, <2>1, <2>2
<1>6. ASSUME Distinct(s) PROVE Distinct(on)
  <2>1. \A i, j \in 1..n : s[i].path = s[j].path => i = j
    BY <1>6 DEF Distinct, n
  <2>2. \A i, j \in 1..(n + 1) : on[i].path = on[j].path => i = j
    BY <1>1, <1>2, <1>3, <2>1
  <2>. QED
    BY <1>1, <2>2 DEF Distinct
<1>. QED
  BY <1>5, <1>6 DEF on

\* ... and of one less.
LEMMA PathsOfFront ==
    ASSUME NEW S, NEW s \in Seq(S), s # <<>>, Distinct(s)
    PROVE  /\ Paths(s) = Paths(Front(s)) \cup {s[Len(s)].path}
           /\ s[Len(s)].path \notin Paths(Front(s))
           /\ Distinct(Front(s))
<1>. DEFINE n == Len(s)
            on == Front(s)
<1>1. n \in Nat \ {0} /\ Len(on) = n - 1 /\ \A i \in 1..(n - 1) : on[i] = s[i]
  BY LastElement
<1>2. \A i, j \in 1..n : s[i].path = s[j].path => i = j
  BY DEF Distinct
<1>3. Paths(s) = {s[i].path : i \in 1..n}
  BY DEF Paths
<1>. HIDE DEF n, on
<1>4. Paths(on) = {s[i].path : i \in 1..(n - 1)}
  BY <1>1 DEF Paths
<1>5. \A i \in 1..n : i = n \/ i \in 1..(n - 1)
  BY <1>1
<1>6. n \in 1..n /\ \A i \in 1..(n - 1) : i \in 1..n /\ i # n
  BY <1>1
<1>7. Paths(s) = Paths(on) \cup {s[n].path}
  BY <1>3, <1>4, <1>5, <1>6
<1>8. s[n].path \notin Paths(on)
  BY <1>2, <1>4, <1>6
<1>9. Distinct(on)
  BY <1>1, <1>2, <1>6 DEF Distinct
<1>. QED
  BY <1>7, <1>8, <1>9 DEF on, n

\* What is listed stays listed as more paths are visited.
LEMMA ListedStays ==
    ASSUME NEW g, NEW seen, NEW later, seen \subseteq later, NEW rs,
           ListedLater(g, seen, rs)
    PROVE  ListedLater(g, later, rs)
  BY DEF ListedLater

\* A call that returns has its imports listed, or under way below it.
LEMMA ReturnListed ==
    ASSUME NEW g \in Graphs, NEW seen, NEW cs \in Seq(Call), cs # <<>>,
           NEW rs \in Seq(Entry), NEW entry \in Entry,
           entry.path = cs[Len(cs)].path, cs[Len(cs)].rest = <<>>,
           Searched(g, seen, cs, rs)
    PROVE  ListedLater(g, seen, Append(rs, entry))
<1>. DEFINE n == Len(cs)
            m == Len(rs)
            on == Append(rs, entry)
            nothing == <<>>
<1>1. /\ n \in Nat /\ n >= 1 /\ \A i \in 1..n : cs[i] \in Call
  BY LastElement, ElementOfSeq
<1>2. /\ m \in Nat /\ Len(on) = m + 1 /\ on[m + 1] = entry
      /\ \A i \in 1..m : on[i] = rs[i]
  BY LenProperties, AppendProperties
<1>3. \A i \in 1..n :
        /\ \A j \in i..n : cs[j].path \in Leads(g, cs[i].path)
        /\ \A p \in g[cs[i].path] :
                p \in seen \/ \E k \in 1..Len(cs[i].rest) : cs[i].rest[k] = p
  BY DEF Searched, UnderWay
<1>4. \A i \in 1..m : \A p \in g[rs[i].path] :
        /\ p \in seen
        /\ \/ \E j \in 1..(i - 1) : rs[j].path = p
           \/ rs[i].path \in Leads(g, p)
  BY DEF Searched, ListedLater
<1>5. seen = {cs[i].path : i \in 1..n} \cup {rs[i].path : i \in 1..m}
  BY DEF Searched, VisitedOnce, Paths
<1>6. entry.path = cs[n].path /\ cs[n].rest = nothing /\ Len(nothing) = 0
  OBVIOUS
<1>. HIDE DEF n, m, on, nothing
<1>7. SUFFICES ASSUME NEW i \in 1..(m + 1), NEW p \in g[on[i].path]
      PROVE  /\ p \in seen
             /\ \/ \E j \in 1..(i - 1) : on[j].path = p
                \/ on[i].path \in Leads(g, p)
  <2>1. ListedLater(g, seen, on)
    BY <1>2, <1>7 DEF ListedLater
  <2>. QED
    BY <2>1 DEF on
<1>8. CASE i = m + 1
  <2>1. p \in g[cs[n].path] /\ n \in 1..n
    BY <1>1, <1>2, <1>6, <1>8
  <2>2. p \in seen
    BY <1>3, <1>6, <2>1
  <2>3. CASE \E k \in 1..n : cs[k].path = p
    <3>1. PICK k \in 1..n : cs[k].path = p
      BY <2>3
    <3>2. n \in k..n
      BY <1>1
    <3>. QED
      BY <1>2, <1>3, <1>6, <1>8, <2>2, <3>1, <3>2
  <2>4. CASE \E j \in 1..m : rs[j].path = p
    BY <1>2, <1>8, <2>2, <2>4
  <2>. QED
    BY <1>5, <2>2, <2>3, <2>4
<1>9. CASE i # m + 1
  <2>1. i \in 1..m /\ \A j \in 1..(i - 1) : j \in 1..m
    BY <1>2, <1>9
  <2>. QED
    BY <1>2, <1>4, <2>1
<1>. QED
  BY <1>8, <1>9


\* A call under way or a listed file has a path.
LEMMA OrderTypes ==
    ASSUME ImportsTypeOK
    PROVE  /\ imports \in [File -> Seq(Path)] /\ visited \in SUBSET Path
           /\ calls \in Seq(Call) /\ result \in Seq(Entry)
           /\ analysed \in Nat /\ Len(result) \in Nat
           /\ calls # <<>> => /\ Len(calls) \in Nat \ {0}
                              /\ Top = calls[Len(calls)] /\ Top \in Call
  <1>1. calls \in Seq(Call) /\ result \in Seq(Entry)
    BY DEF ImportsTypeOK
  <1>2. calls # <<>> => /\ Len(calls) \in Nat \ {0}
                        /\ Top = calls[Len(calls)] /\ Top \in Call
    BY <1>1, LastElement DEF Top
  <1>. QED
    BY <1>1, <1>2, LenProperties DEF ImportsTypeOK

\* The order is there from the first state on.
LEMMA OrderInit == ImportsInit => OrderInv
<1>. SUFFICES ASSUME ImportsInit PROVE OrderInv
  OBVIOUS
<1>1. ImportsInv /\ ImportsTypeOK
  BY ImportsInitInv DEF ImportsInv
<1>2. imports \in [File -> Seq(Path)] /\ Root \in Path
  BY <1>1, PathAssumption DEF ImportsTypeOK
<1>. DEFINE first == [path |-> Root, id |-> 0, rest |-> ImportsOf(Root)]
            nothing == <<>>
<1>3. /\ visited = {Root} /\ calls = <<first>> /\ result = nothing /\ analysed = 0
  BY DEF ImportsInit
<1>4. /\ first.path = Root /\ Len(calls) = 1 /\ calls[1] = first /\ Len(result) = 0
      /\ first.rest = ImportsOf(Root)
  BY <1>3
<1>5. /\ Graph \in Graphs
      /\ Graph[Root] = {ImportsOf(Root)[k] : k \in 1..Len(ImportsOf(Root))}
  BY <1>2, GraphIs
<1>6. Root \in Leads(Graph, Root)
  BY <1>2, <1>5, LeadsOn
<1>. HIDE DEF first, nothing
<1>7. \A i \in 1..Len(calls) : i = 1
  BY <1>4
<1>8. Paths(calls) = {Root} /\ Paths(result) = {} /\ Distinct(calls) /\ Distinct(result)
  BY <1>4, <1>7 DEF Paths, Distinct
<1>9. VisitedOnce(Graph, visited, calls, result)
  BY <1>3, <1>6, <1>8 DEF VisitedOnce
<1>10. UnderWay(Graph, visited, calls)
  <2>1. \A j \in 1..1 : j = 1
    OBVIOUS
  <2>2. \A p \in Graph[Root] : \E k \in 1..Len(first.rest) : first.rest[k] = p
    BY <1>4, <1>5
  <2>3. \A k \in 1..Len(first.rest) : first.rest[k] \in Graph[Root]
    BY <1>4, <1>5
  <2>. QED
    BY SMTT(30), <1>4, <1>6, <1>7, <2>1, <2>2, <2>3 DEF UnderWay
<1>11. ListedLater(Graph, visited, result)
  BY <1>4 DEF ListedLater
<1>. QED
  BY <1>1, <1>3, <1>4, <1>9, <1>10, <1>11 DEF OrderInv, Searched

\* Every step of the search keeps it.
LEMMA OrderNext == OrderInv /\ [ImportsNext]_importVars => OrderInv'
<1>. SUFFICES ASSUME OrderInv, [ImportsNext]_importVars PROVE OrderInv'
  OBVIOUS
<1>. DEFINE n == Len(calls)
<1>1. ImportsInv /\ ImportsTypeOK /\ ImportsInv'
  BY ImportsNextInv DEF OrderInv, ImportsInv
<1>2. /\ imports \in [File -> Seq(Path)] /\ visited \in SUBSET Path
      /\ calls \in Seq(Call) /\ result \in Seq(Entry)
      /\ analysed \in Nat /\ Len(result) \in Nat
      /\ calls # <<>> => n \in Nat \ {0} /\ Top = calls[n] /\ Top \in Call
  BY <1>1, OrderTypes
<1>3. Graph \in Graphs
  BY <1>2, GraphIs
<1>4. /\ Searched(Graph, visited, calls, result) /\ analysed <= Len(result)
      /\ VisitedOnce(Graph, visited, calls, result)
      /\ UnderWay(Graph, visited, calls) /\ ListedLater(Graph, visited, result)
  BY DEF OrderInv, Searched
<1>5. /\ visited = Paths(calls) \cup Paths(result)
      /\ Paths(calls) \cap Paths(result) = {}
      /\ Distinct(calls) /\ Distinct(result)
      /\ Root \in visited /\ visited \subseteq Leads(Graph, Root)
  BY <1>4 DEF VisitedOnce
<1>6. imports' = imports
  BY DEF ImportsNext, Skip, Visit, Leave, Analyse, importVars
<1>7. Graph' = Graph
  BY <1>6 DEF Graph, ImportsOf
<1>8. ASSUME calls # <<>>, Top.rest # <<>>
      PROVE  /\ Advanced \in Seq(Call) /\ Len(Advanced) = n
             /\ \A i \in 1..n : Advanced[i].path = calls[i].path
             /\ \A i \in 1..(n - 1) : Advanced[i].rest = calls[i].rest
             /\ Advanced[n].rest = Tail(calls[n].rest)
             /\ Head(Top.rest) \in Path
             /\ Paths(Advanced) = Paths(calls) /\ Distinct(Advanced)
             /\ \A later : visited \subseteq later /\ Head(Top.rest) \in later
                    => UnderWay(Graph, later, Advanced)
  <2>1. /\ Advanced \in Seq(Call) /\ Len(Advanced) = n
        /\ \A i \in 1..n : Advanced[i].path = calls[i].path
        /\ \A i \in 1..(n - 1) : Advanced[i].rest = calls[i].rest
        /\ Advanced[n].rest = Tail(calls[n].rest)
        /\ Head(Top.rest) \in Path
    BY <1>2, <1>8, AdvancedKeeps
  <2>. HIDE DEF n
  <2>2. Paths(Advanced) = Paths(calls)
    BY <2>1 DEF Paths, n
  <2>3. Distinct(Advanced)
    <3>1. \A i, j \in 1..n : calls[i].path = calls[j].path => i = j
      BY <1>5 DEF Distinct, n
    <3>. QED
      BY <2>1, <3>1 DEF Distinct
  <2>4. ASSUME NEW later, visited \subseteq later, Head(Top.rest) \in later
        PROVE  UnderWay(Graph, later, Advanced)
    <3>1. calls[n].rest # <<>> /\ Head(calls[n].rest) \in later
      BY <1>2, <1>8, <2>4
    <3>. QED
      BY <1>2, <1>3, <1>4, <1>8, <2>1, <2>4, <3>1, AdvanceUnderWay DEF n
  <2>. QED
    BY <2>1, <2>2, <2>3, <2>4
<1>9. CASE Skip
  <2>1. /\ calls # <<>> /\ Top.rest # <<>> /\ Head(Top.rest) \in visited
        /\ calls' = Advanced /\ visited' = visited /\ result' = result
        /\ analysed' = analysed
    BY <1>9 DEF Skip
  <2>2. VisitedOnce(Graph, visited, Advanced, result)
    BY <1>5, <1>8, <2>1 DEF VisitedOnce
  <2>3. UnderWay(Graph, visited, Advanced)
    BY <1>8, <2>1
  <2>4. Searched(Graph, visited, Advanced, result)
    BY <1>4, <2>2, <2>3 DEF Searched
  <2>. QED
    BY <1>1, <1>4, <1>7, <2>1, <2>4 DEF OrderInv
<1>10. CASE Visit
  <2>. DEFINE path == Head(Top.rest)
              call == Opened(path)
              later == visited \cup {path}
              on == Append(Advanced, call)
  <2>1. /\ calls # <<>> /\ Top.rest # <<>> /\ path \notin visited
        /\ visited' = later /\ calls' = on /\ result' = result
        /\ analysed' = analysed
    BY <1>10 DEF Visit
  <2>2. /\ Advanced \in Seq(Call) /\ Len(Advanced) = n
        /\ \A i \in 1..n : Advanced[i].path = calls[i].path
        /\ path \in Path
        /\ Paths(Advanced) = Paths(calls) /\ Distinct(Advanced)
        /\ UnderWay(Graph, later, Advanced)
    BY <1>8, <2>1
  <2>3. path \in Graph[calls[n].path]
    <3>1. \A k \in 1..Len(calls[n].rest) :
            calls[n].rest[k] \in Graph[calls[n].path]
      BY SMTT(30), <1>2, <1>4, <2>1 DEF UnderWay
    <3>2. Top.rest \in Seq(Path) /\ Top = calls[n]
      BY <1>2, <2>1 DEF Call
    <3>3. Len(Top.rest) \in Nat /\ Len(Top.rest) >= 1 /\ path = Top.rest[1]
      BY <2>1, <3>2
    <3>. QED
      BY <3>1, <3>2, <3>3
  <2>4. calls[n].path \in Path /\ calls[n].path \in visited
    <3>1. n \in 1..n /\ calls[n] \in Call
      BY <1>2, <2>1
    <3>2. calls[n].path \in Paths(calls)
      BY <3>1 DEF Paths
    <3>. QED
      BY <1>5, <3>1, <3>2 DEF Call
  <2>5. /\ Graph[path] = {ImportsOf(path)[k] : k \in 1..Len(ImportsOf(path))}
        /\ ImportsOf(path) \in Seq(Path)
    BY <1>2, <2>2, GraphIs
  <2>. HIDE DEF path
  <2>6. /\ call \in Call /\ call.path = path /\ call.rest = ImportsOf(path)
    BY <1>1, <2>2, <2>5 DEF Opened, Call, ImportsTypeOK
  <2>. HIDE DEF call, n
  <2>7. Advanced # <<>> /\ Advanced[n].path = calls[n].path
    BY <1>2, <2>1, <2>2 DEF n
  <2>8. UnderWay(Graph, later, on)
    BY <1>3, <2>2, <2>3, <2>5, <2>6, <2>7, CallUnderWay
  <2>9. Paths(on) = Paths(calls) \cup {path} /\ Distinct(on)
    <3>1. \A i \in 1..Len(Advanced) : Advanced[i].path # call.path
      BY <1>5, <2>1, <2>2, <2>6 DEF Paths
    <3>. QED
      BY <2>2, <2>6, <3>1, PathsOfAppend
  <2>10. path \in Leads(Graph, Root)
    BY <1>3, <1>5, <2>3, <2>4, LeadsOn, PathAssumption
  <2>11. VisitedOnce(Graph, later, on, result)
    BY <1>5, <2>1, <2>9, <2>10 DEF VisitedOnce
  <2>12. ListedLater(Graph, later, result)
    BY <1>4, ListedStays
  <2>13. Searched(Graph, later, on, result)
    BY <2>8, <2>11, <2>12 DEF Searched
  <2>. HIDE DEF later, on
  <2>. QED
    BY <1>1, <1>4, <1>7, <2>1, <2>13 DEF OrderInv
<1>11. CASE Leave
  <2>. DEFINE entry == [path |-> Top.path, id |-> Top.id]
              below == Front(calls)
              listed == Append(result, entry)
  <2>1. /\ calls # <<>> /\ Top.rest = <<>>
        /\ result' = listed /\ calls' = below
        /\ visited' = visited /\ analysed' = analysed
    BY <1>11 DEF Leave
  <2>2. entry \in Entry /\ entry.path = calls[n].path
    BY <1>2, <2>1 DEF Call, Entry
  <2>3. calls[n].rest = <<>>
    BY <1>2, <2>1
  <2>. HIDE DEF entry
  <2>4. ListedLater(Graph, visited, listed)
    BY <1>2, <1>3, <1>4, <2>1, <2>2, <2>3, ReturnListed
  <2>5. UnderWay(Graph, visited, below)
    BY <1>2, <1>3, <1>4, <2>1, ReturnUnderWay
  <2>6. /\ Paths(calls) = Paths(below) \cup {entry.path}
        /\ entry.path \notin Paths(below) /\ Distinct(below)
    BY <1>2, <1>5, <2>1, <2>2, PathsOfFront
  <2>7. Paths(listed) = Paths(result) \cup {entry.path} /\ Distinct(listed)
    <3>1. \A i \in 1..Len(result) : result[i].path # entry.path
      BY <1>5, <2>6 DEF Paths
    <3>. QED
      BY <1>2, <1>5, <2>2, <3>1, PathsOfAppend
  <2>8. VisitedOnce(Graph, visited, below, listed)
    BY <1>5, <2>6, <2>7 DEF VisitedOnce
  <2>9. Searched(Graph, visited, below, listed)
    BY <2>4, <2>5, <2>8 DEF Searched
  <2>10. Len(listed) = Len(result) + 1
    BY <1>2, <2>2, AppendProperties
  <2>. HIDE DEF below, listed
  <2>11. analysed <= Len(listed)
    BY <1>2, <1>4, <2>10
  <2>. QED
    BY <1>1, <1>7, <2>1, <2>9, <2>11 DEF OrderInv
<1>12. CASE Analyse
  <2>1. /\ calls' = calls /\ visited' = visited /\ result' = result
        /\ analysed' = analysed + 1 /\ analysed < Len(result)
    BY <1>12 DEF Analyse
  <2>2. analysed' <= Len(result')
    BY <1>2, <2>1
  <2>. QED
    BY <1>1, <1>4, <1>7, <2>1, <2>2 DEF OrderInv
<1>13. CASE UNCHANGED importVars
  <2>1. /\ calls' = calls /\ visited' = visited /\ result' = result
        /\ analysed' = analysed
    BY <1>13 DEF importVars
  <2>. QED
    BY <1>1, <1>4, <1>7, <2>1 DEF OrderInv
<1>. QED
  BY <1>9, <1>10, <1>11, <1>12, <1>13 DEF ImportsNext

\* Once the search is over the list holds what the program leads to, each once.
LEMMA AllListed ==
    ASSUME OrderInv, calls = <<>>
    PROVE  /\ {entry.path : entry \in ToSet(result)} = Reach(Root)
           /\ Cardinality(Reach(Root)) = Len(result)
<1>. DEFINE m == Len(result)
            paths == Paths(result)
            leads == Leads(Graph, Root)
<1>1. /\ ImportsTypeOK /\ VisitedOnce(Graph, visited, calls, result)
      /\ ListedLater(Graph, visited, result)
  BY DEF OrderInv, ImportsInv, Searched
<1>2. /\ imports \in [File -> Seq(Path)] /\ result \in Seq(Entry) /\ m \in Nat
      /\ visited \in SUBSET Path
  BY <1>1, OrderTypes
<1>3. /\ Graph \in Graphs /\ Root \in Path /\ Reach(Root) = leads
  BY <1>2, GraphIs, PathAssumption
<1>4. Paths(calls) = {}
  BY DEF Paths
<1>5. visited = paths /\ Root \in paths /\ paths \subseteq leads /\ Distinct(result)
  BY <1>1, <1>4 DEF VisitedOnce
<1>6. ClosedIn(Graph, paths)
  BY <1>1, <1>5 DEF ClosedIn, ListedLater, Paths
<1>7. leads \subseteq paths
  BY <1>2, <1>3, <1>5, <1>6, LeadsOn
<1>8. paths = leads
  BY <1>5, <1>7
<1>9. ToSet(result) = {result[i] : i \in 1..m}
  BY <1>2 DEF ToSet
<1>10. {entry.path : entry \in ToSet(result)} = paths
  BY <1>9 DEF Paths
<1>11. Cardinality(paths) = m
  <2>. DEFINE f == [i \in 1..m |-> result[i].path]
  <2>1. f \in Bijection(1..m, paths)
    <3>1. f \in [1..m -> paths] /\ \A p \in paths : \E i \in 1..m : f[i] = p
      BY DEF Paths
    <3>2. \A i, j \in 1..m : f[i] = f[j] => i = j
      BY <1>5 DEF Distinct
    <3>. QED
      BY <3>1, <3>2 DEF Bijection, Injection, Surjection, IsInjective
  <2>2. IsFiniteSet(1..m) /\ Cardinality(1..m) = m
    <3>1. /\ IsFiniteSet(1..m)
          /\ Cardinality(1..m) = IF 1 > m THEN 0 ELSE m - 1 + 1
      BY SMTT(30), <1>2, FS_Interval
    <3>. QED
      BY <1>2, <3>1
  <2>3. ExistsBijection(1..m, paths)
    BY <2>1 DEF ExistsBijection
  <2>. QED
    BY <2>2, <2>3, FS_Bijection
<1>. QED
  BY <1>3, <1>8, <1>10, <1>11

LEMMA OrderImplies == OrderInv => ImportedFirst
<1>. SUFFICES ASSUME OrderInv PROVE ImportedFirst
  OBVIOUS
<1>1. ImportsTypeOK /\ ListedLater(Graph, visited, result) /\ analysed <= Len(result)
  BY DEF OrderInv, ImportsInv, Searched
<1>2. /\ imports \in [File -> Seq(Path)] /\ visited \in SUBSET Path
      /\ result \in Seq(Entry) /\ analysed \in Nat /\ Len(result) \in Nat
  BY <1>1, OrderTypes
<1>3. \A p \in Path : /\ Graph[p] = ToSet(ImportsOf(p))
                      /\ Reach(p) = Leads(Graph, p)
  BY <1>2, GraphIs
<1>4. ASSUME NEW i \in 1..analysed, NEW path \in ToSet(ImportsOf(result[i].path))
      PROVE  \/ \E j \in 1..(i - 1) : result[j].path = path
             \/ result[i].path \in Reach(path)
  <2>1. i \in 1..Len(result)
    BY <1>1, <1>2
  <2>2. result[i] \in Entry
    BY <1>2, <2>1, ElementOfSeq
  <2>3. result[i].path \in Path
    BY <2>2 DEF Entry
  <2>4. path \in Graph[result[i].path]
    BY <1>3, <1>4, <2>3
  <2>5. /\ path \in visited
        /\ \/ \E j \in 1..(i - 1) : result[j].path = path
           \/ result[i].path \in Leads(Graph, path)
    BY <1>1, <2>1, <2>4 DEF ListedLater
  <2>. QED
    BY <1>2, <1>3, <2>5
<1>. QED
  BY <1>4, AllListed DEF ImportedFirst

\* CalculateImportsFor (main.cc) lists a file behind those it imports, whatever
\* the files import: only imports that lead back to the file come later.  What
\* it lists is what the program leads to, each path once.
THEOREM ImportsComeFirst == ImportsSpec => []ImportedFirst
<1>1. ImportsInit => OrderInv
  BY OrderInit
<1>2. OrderInv /\ [ImportsNext]_importVars => OrderInv'
  BY OrderNext
<1>3. OrderInv => ImportedFirst
  BY OrderImplies
<1>. QED
  BY <1>1, <1>2, <1>3, PTL DEF ImportsSpec

==============================================================================
