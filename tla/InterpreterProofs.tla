------------------------- MODULE InterpreterProofs --------------------------
(***************************************************************************)
(* No program that keeps the discipline of the compiler makes the VM free   *)
(* an object that something still refers to, and references are lost at the *)
(* places named by LosesOnlyThere only.  The first part is about the        *)
(* operators of RefCounts: how often a value occurs in a sequence and in a  *)
(* family of sequences, and how many of the references counted are left for *)
(* holders outside of the heap after each operation.                        *)
(***************************************************************************)
EXTENDS Interpreter, SequenceTheorems, FiniteSetTheorems, TLAPS

-----------------------------------------------------------------------------
(* Occurrences in one sequence.                                             *)

One(v, w) == IF v = w THEN 1 ELSE 0

Spots(v, s) == {i \in DOMAIN s : s[i] = v}

\* Occurrences counts a finite set of indices of s.
LEMMA OccType ==
  ASSUME NEW V, NEW s \in Seq(V), NEW v
  PROVE  /\ IsFiniteSet(Spots(v, s))
         /\ Occurrences(v, s) = Cardinality(Spots(v, s))
         /\ Occurrences(v, s) \in Nat
         /\ Occurrences(v, s) > 0 <=> \E i \in 1..Len(s) : s[i] = v
<1>1. IsFiniteSet(1..Len(s))  BY LenProperties, FS_Interval
<1>2. Spots(v, s) \in SUBSET (1..Len(s))  BY LenProperties DEF Spots
<1>3. IsFiniteSet(Spots(v, s))  BY <1>1, <1>2, FS_Subset
<1>4. Occurrences(v, s) = Cardinality(Spots(v, s))  BY DEF Occurrences, Spots
<1>5. Cardinality(Spots(v, s)) \in Nat  BY <1>3, FS_CardinalityType
<1>6. Cardinality(Spots(v, s)) = 0 <=> Spots(v, s) = {}  BY <1>3, FS_EmptySet
<1>7. Spots(v, s) # {} <=> \E i \in 1..Len(s) : s[i] = v
  BY LenProperties DEF Spots
<1>8. QED  BY <1>3, <1>4, <1>5, <1>6, <1>7

LEMMA OccEmpty == \A v : Occurrences(v, <<>>) = 0
<1>1. <<>> \in Seq({}) /\ Len(<<>>) = 0  BY EmptySeq
<1>2. ASSUME NEW v  PROVE Occurrences(v, <<>>) = 0
  <2>1. /\ Occurrences(v, <<>>) \in Nat
        /\ Occurrences(v, <<>>) > 0 <=> \E i \in 1..Len(<<>>) : <<>>[i] = v
    BY <1>1, OccType
  <2>2. 1..Len(<<>>) = {}  BY <1>1
  <2>3. QED  BY <2>1, <2>2
<1>3. QED  BY <1>2

\* A value appended is one more occurrence of itself.
LEMMA OccAppend ==
  ASSUME NEW V, NEW s \in Seq(V), NEW e \in V, NEW v
  PROVE  Occurrences(v, Append(s, e)) = Occurrences(v, s) + One(v, e)
<1>1. /\ Append(s, e) \in Seq(V)
      /\ Len(Append(s, e)) = Len(s) + 1
      /\ \A i \in 1..Len(s) : Append(s, e)[i] = s[i]
      /\ Append(s, e)[Len(s) + 1] = e
  BY AppendProperties
<1>2. Len(s) \in Nat /\ DOMAIN s = 1..Len(s)  BY LenProperties
<1>3. DOMAIN Append(s, e) = 1..(Len(s) + 1)  BY <1>1, LenProperties
<1>4. CASE v = e
  <2>1. Spots(v, Append(s, e)) = Spots(v, s) \cup {Len(s) + 1}
    BY <1>1, <1>2, <1>3, <1>4 DEF Spots
  <2>2. Len(s) + 1 \notin Spots(v, s)  BY <1>2 DEF Spots
  <2>3. IsFiniteSet(Spots(v, s)) /\ Occurrences(v, s) = Cardinality(Spots(v, s))
    BY OccType
  <2>4. Cardinality(Spots(v, Append(s, e))) = Cardinality(Spots(v, s)) + 1
    BY <2>1, <2>2, <2>3, FS_AddElement
  <2>5. Occurrences(v, Append(s, e)) = Cardinality(Spots(v, Append(s, e)))
    BY <1>1, OccType
  <2>6. QED  BY <1>4, <2>3, <2>4, <2>5 DEF One
<1>5. CASE v # e
  <2>1. Spots(v, Append(s, e)) = Spots(v, s)
    BY <1>1, <1>2, <1>3, <1>5 DEF Spots
  <2>2. Occurrences(v, Append(s, e)) = Cardinality(Spots(v, Append(s, e)))
    BY <1>1, OccType
  <2>3. Occurrences(v, s) = Cardinality(Spots(v, s)) /\ Occurrences(v, s) \in Nat
    BY OccType
  <2>4. QED  BY <1>5, <2>1, <2>2, <2>3 DEF One
<1>6. QED  BY <1>4, <1>5

LEMMA OccSingle ==
  ASSUME NEW w, NEW v
  PROVE  Occurrences(v, <<w>>) = One(v, w)
<1>1. <<>> \in Seq({w})  BY EmptySeq
<1>2. <<w>> = Append(<<>>, w)  OBVIOUS
<1>3. Occurrences(v, Append(<<>>, w)) = Occurrences(v, <<>>) + One(v, w)
  BY <1>1, OccAppend
<1>4. QED  BY <1>2, <1>3, OccEmpty DEF One

LEMMA OccPair ==
  ASSUME NEW w, NEW x, NEW v
  PROVE  Occurrences(v, <<w, x>>) = One(v, w) + One(v, x)
<1>1. <<w>> \in Seq({w, x})  OBVIOUS
<1>2. <<w, x>> = Append(<<w>>, x)  OBVIOUS
<1>3. Occurrences(v, Append(<<w>>, x)) = Occurrences(v, <<w>>) + One(v, x)
  BY <1>1, OccAppend
<1>4. QED  BY <1>2, <1>3, OccSingle

LEMMA OccTriple ==
  ASSUME NEW w, NEW x, NEW y, NEW v
  PROVE  Occurrences(v, <<w, x, y>>) = One(v, w) + One(v, x) + One(v, y)
<1>1. <<w, x>> \in Seq({w, x, y})  OBVIOUS
<1>2. <<w, x, y>> = Append(<<w, x>>, y)  OBVIOUS
<1>3. Occurrences(v, Append(<<w, x>>, y)) = Occurrences(v, <<w, x>>) + One(v, y)
  BY <1>1, OccAppend
<1>4. QED  BY <1>2, <1>3, OccPair

\* An element replaced is one occurrence less, its replacement one more.
LEMMA OccExcept ==
  ASSUME NEW V, NEW s \in Seq(V), NEW i \in 1..Len(s), NEW e \in V, NEW v
  PROVE  Occurrences(v, [s EXCEPT ![i] = e])
           = Occurrences(v, s) - One(v, s[i]) + One(v, e)
<1> DEFINE t == [s EXCEPT ![i] = e]
<1>1. t \in Seq(V) /\ Len(t) = Len(s) /\ DOMAIN t = DOMAIN s  BY ExceptSeq
<1>2. \A j \in DOMAIN s : t[j] = IF j = i THEN e ELSE s[j]  OBVIOUS
<1>3. DOMAIN s = 1..Len(s)  BY LenProperties
<1> HIDE DEF t
<1>4. Spots(v, t) \ {i} = Spots(v, s) \ {i}  BY <1>1, <1>2 DEF Spots
<1>5. i \in Spots(v, t) <=> v = e  BY <1>1, <1>2, <1>3 DEF Spots
<1>6. i \in Spots(v, s) <=> v = s[i]  BY <1>3 DEF Spots
<1>7. /\ IsFiniteSet(Spots(v, t)) /\ Occurrences(v, t) = Cardinality(Spots(v, t))
      /\ Cardinality(Spots(v, t)) \in Nat
  BY <1>1, OccType
<1>8. /\ IsFiniteSet(Spots(v, s)) /\ Occurrences(v, s) = Cardinality(Spots(v, s))
      /\ Cardinality(Spots(v, s)) \in Nat
  BY OccType
<1>9. Cardinality(Spots(v, t) \ {i}) = Occurrences(v, t) - One(v, e)
  <2>1. Cardinality(Spots(v, t) \ {i})
          = IF i \in Spots(v, t) THEN Cardinality(Spots(v, t)) - 1
                                 ELSE Cardinality(Spots(v, t))
    BY <1>7, FS_RemoveElement
  <2>2. QED  BY <1>5, <1>7, <2>1 DEF One
<1>10. Cardinality(Spots(v, s) \ {i}) = Occurrences(v, s) - One(v, s[i])
  <2>1. Cardinality(Spots(v, s) \ {i})
          = IF i \in Spots(v, s) THEN Cardinality(Spots(v, s)) - 1
                                 ELSE Cardinality(Spots(v, s))
    BY <1>8, FS_RemoveElement
  <2>2. QED  BY <1>6, <1>8, <2>1 DEF One
<1>11. One(v, e) \in Nat /\ One(v, s[i]) \in Nat  BY DEF One
<1>12. Occurrences(v, t) = Occurrences(v, s) - One(v, s[i]) + One(v, e)
  <2>1. Occurrences(v, t) - One(v, e) = Occurrences(v, s) - One(v, s[i])
    BY <1>4, <1>9, <1>10
  <2>2. Occurrences(v, t) \in Nat /\ Occurrences(v, s) \in Nat  BY <1>7, <1>8
  <2>3. QED  BY <1>11, <2>1, <2>2
<1>13. QED  BY <1>12 DEF t

\* A set of numbers moved along by n, or paired with d, keeps its size.
LEMMA MovedSet ==
  ASSUME NEW S, IsFiniteSet(S), S \subseteq Nat, NEW n \in Nat
  PROVE  /\ IsFiniteSet({n + k : k \in S})
         /\ Cardinality({n + k : k \in S}) = Cardinality(S)
<1> DEFINE f == [k \in S |-> n + k]
<1>1. f \in [S -> {n + k : k \in S}]  OBVIOUS
<1>2. ASSUME NEW a \in S, NEW b \in S, f[a] = f[b]  PROVE a = b
  <2>1. n + a = n + b /\ a \in Nat /\ b \in Nat  BY <1>2
  <2>2. QED  BY <2>1
<1>3. \A t \in {n + k : k \in S} : \E s \in S : f[s] = t  OBVIOUS
<1>4. f \in Bijection(S, {n + k : k \in S})
  BY <1>1, <1>2, <1>3 DEF Bijection, Injection, IsInjective, Surjection
<1>5. QED  BY <1>4, FS_Bijection DEF ExistsBijection

LEMMA PairedSet ==
  ASSUME NEW S, IsFiniteSet(S), NEW d
  PROVE  /\ IsFiniteSet({<<d, k>> : k \in S})
         /\ Cardinality({<<d, k>> : k \in S}) = Cardinality(S)
<1> DEFINE f == [k \in S |-> <<d, k>>]
<1>1. f \in [S -> {<<d, k>> : k \in S}]  OBVIOUS
<1>2. \A a, b \in S : f[a] = f[b] => a = b  OBVIOUS
<1>3. \A t \in {<<d, k>> : k \in S} : \E s \in S : f[s] = t  OBVIOUS
<1>4. f \in Bijection(S, {<<d, k>> : k \in S})
  BY <1>1, <1>2, <1>3 DEF Bijection, Injection, IsInjective, Surjection
<1>5. QED  BY <1>4, FS_Bijection DEF ExistsBijection

LEMMA DisjointUnion ==
  ASSUME NEW S, IsFiniteSet(S), NEW T, IsFiniteSet(T), S \cap T = {}
  PROVE  /\ IsFiniteSet(S \cup T)
         /\ Cardinality(S \cup T) = Cardinality(S) + Cardinality(T)
<1>1. Cardinality({}) = 0  BY FS_EmptySet
<1>2. /\ IsFiniteSet(S \cup T)
      /\ Cardinality(S \cup T) = Cardinality(S) + Cardinality(T) - Cardinality({})
  BY FS_Union
<1>3. Cardinality(S) \in Nat /\ Cardinality(T) \in Nat  BY FS_CardinalityType
<1>4. QED  BY <1>1, <1>2, <1>3

\* Occurrences add up over a concatenation.
LEMMA OccConcat ==
  ASSUME NEW V, NEW s \in Seq(V), NEW t \in Seq(V), NEW v
  PROVE  Occurrences(v, s \o t) = Occurrences(v, s) + Occurrences(v, t)
<1> DEFINE M == {Len(s) + k : k \in Spots(v, t)}
<1>1. /\ s \o t \in Seq(V) /\ Len(s \o t) = Len(s) + Len(t)
      /\ \A i \in 1..Len(s) + Len(t) :
           (s \o t)[i] = IF i <= Len(s) THEN s[i] ELSE t[i - Len(s)]
  BY ConcatProperties
<1>2. /\ Len(s) \in Nat /\ DOMAIN s = 1..Len(s)
      /\ Len(t) \in Nat /\ DOMAIN t = 1..Len(t)
  BY LenProperties
<1>3. DOMAIN (s \o t) = 1..(Len(s) + Len(t))  BY <1>1, LenProperties
<1>4. \A k \in 1..Len(t) : (s \o t)[Len(s) + k] = t[k]
  <2>1. ASSUME NEW k \in 1..Len(t)  PROVE (s \o t)[Len(s) + k] = t[k]
    <3>1. /\ Len(s) + k \in 1..Len(s) + Len(t)
          /\ ~ (Len(s) + k <= Len(s)) /\ (Len(s) + k) - Len(s) = k
      BY <1>2
    <3>2. QED  BY <1>1, <3>1
  <2>2. QED  BY <2>1
<1>5. \A i \in 1..Len(s) : (s \o t)[i] = s[i]  BY <1>1, <1>2
<1>6. Spots(v, s) \cup M \subseteq Spots(v, s \o t)
  BY <1>2, <1>3, <1>4, <1>5 DEF Spots
<1>7. ASSUME NEW i \in Spots(v, s \o t)  PROVE i \in Spots(v, s) \cup M
  <2>1. i \in 1..(Len(s) + Len(t)) /\ (s \o t)[i] = v  BY <1>3 DEF Spots
  <2>2. CASE i <= Len(s)  BY <1>2, <1>5, <2>1, <2>2 DEF Spots
  <2>3. CASE i > Len(s)
    <3>1. PICK k \in 1..Len(t) : i = Len(s) + k
      <4>1. i - Len(s) \in 1..Len(t) /\ i = Len(s) + (i - Len(s))
        BY <1>2, <2>1, <2>3
      <4>2. QED  BY <4>1
    <3>2. k \in Spots(v, t)  BY <1>2, <1>4, <2>1, <3>1 DEF Spots
    <3>3. QED  BY <3>1, <3>2
  <2>4. QED  BY <1>2, <2>1, <2>2, <2>3
<1>8. Spots(v, s \o t) = Spots(v, s) \cup M  BY <1>6, <1>7
<1>9. Spots(v, s) \cap M = {}  BY <1>2 DEF Spots
<1>10. Spots(v, t) \subseteq Nat  BY <1>2 DEF Spots
<1>11. IsFiniteSet(Spots(v, t)) /\ IsFiniteSet(Spots(v, s))  BY OccType
<1>12. IsFiniteSet(M) /\ Cardinality(M) = Cardinality(Spots(v, t))
  BY <1>2, <1>10, <1>11, MovedSet
<1>13. Cardinality(Spots(v, s) \cup M)
         = Cardinality(Spots(v, s)) + Cardinality(Spots(v, t))
  BY <1>9, <1>11, <1>12, DisjointUnion
<1>14. QED  BY <1>1, <1>8, <1>13, OccType

\* Taking the last n elements off a sequence splits its occurrences.
LEMMA OccSplit ==
  ASSUME NEW V, NEW s \in Seq(V), NEW n \in 0..Len(s)
  PROVE  /\ SubSeq(s, 1, Len(s) - n) \in Seq(V)
         /\ Len(SubSeq(s, 1, Len(s) - n)) = Len(s) - n
         /\ SubSeq(s, Len(s) - n + 1, Len(s)) \in Seq(V)
         /\ Len(SubSeq(s, Len(s) - n + 1, Len(s))) = n
         /\ \A i \in 1..n :
              SubSeq(s, Len(s) - n + 1, Len(s))[i] = s[Len(s) - n + i]
         /\ \A v : Occurrences(v, s)
                     = Occurrences(v, SubSeq(s, 1, Len(s) - n))
                       + Occurrences(v, SubSeq(s, Len(s) - n + 1, Len(s)))
<1> DEFINE k == Len(s) - n
<1>1. /\ Len(s) \in Nat /\ k \in 0..Len(s) /\ n = Len(s) - k
      /\ \A i \in 1..Len(s) : s[i] \in V
  BY LenProperties, ElementOfSeq
<1> HIDE DEF k
<1>2. SubSeq(s, 1, k) \in Seq(V) /\ Len(SubSeq(s, 1, k)) = k
  BY <1>1, SubSeqProperties
<1>3. /\ SubSeq(s, k + 1, Len(s)) \in Seq(V)
      /\ Len(SubSeq(s, k + 1, Len(s))) = n
      /\ \A i \in 1..n : SubSeq(s, k + 1, Len(s))[i] = s[k + i]
  <2>1. \A i \in (k + 1)..Len(s) : s[i] \in V  BY <1>1
  <2>2. /\ SubSeq(s, k + 1, Len(s)) \in Seq(V)
        /\ Len(SubSeq(s, k + 1, Len(s)))
             = IF k + 1 <= Len(s) THEN Len(s) - (k + 1) + 1 ELSE 0
        /\ \A i \in 1..(Len(s) - (k + 1) + 1) :
             SubSeq(s, k + 1, Len(s))[i] = s[(k + 1) + i - 1]
    BY <1>1, <2>1, SubSeqProperties
  <2>3. \A i \in 1..n : (k + 1) + i - 1 = k + i  BY <1>1
  <2>4. Len(s) - (k + 1) + 1 = n  BY <1>1
  <2>5. QED  BY <1>1, <2>2, <2>3, <2>4
<1>4. SubSeq(s, 1, k) \o SubSeq(s, k + 1, Len(s)) = s
  <2>1. /\ 1 \in 1..Len(s) + 1 /\ k \in 1 - 1..Len(s)
        /\ Len(s) \in k..Len(s)
    BY <1>1
  <2>2. SubSeq(s, 1, k) \o SubSeq(s, k + 1, Len(s)) = SubSeq(s, 1, Len(s))
    BY <2>1, ConcatAdjacentSubSeq
  <2>3. QED  BY <2>2, SubSeqFull
<1>5. \A v : Occurrences(v, s) = Occurrences(v, SubSeq(s, 1, k))
                                 + Occurrences(v, SubSeq(s, k + 1, Len(s)))
  BY <1>2, <1>3, <1>4, OccConcat
<1>6. QED  BY <1>2, <1>3, <1>5 DEF k

-----------------------------------------------------------------------------
(* Occurrences in a family of sequences.                                    *)

Family(V, D) == [D -> Seq(V)]

Slots(F, o) ==
  UNION {{<<d, i>> : i \in Spots(o, F[d])} : d \in DOMAIN F}

Spread(F, o) == Cardinality(Slots(F, o))

\* In a finite family an object occurs finitely often.
LEMMA SpreadType ==
  ASSUME NEW V, NEW D, IsFiniteSet(D), NEW F \in Family(V, D), NEW o
  PROVE  IsFiniteSet(Slots(F, o)) /\ Spread(F, o) \in Nat
<1> USE DEF Family
<1> DEFINE At(d) == {<<d, i>> : i \in Spots(o, F[d])}
<1> DEFINE f == [d \in D |-> At(d)]
<1> DEFINE T == {At(d) : d \in D}
<1>1. f \in Surjection(D, T)
  <2>1. f \in [D -> T]  OBVIOUS
  <2>2. \A t \in T : \E d \in D : f[d] = t  OBVIOUS
  <2>3. QED  BY <2>1, <2>2 DEF Surjection
<1>2. IsFiniteSet(T)
  <2> HIDE DEF f, T
  <2>1. QED  BY <1>1, FS_Surjection
<1>3. ASSUME NEW d \in D  PROVE IsFiniteSet(At(d))
  <2>1. F[d] \in Seq(V)  OBVIOUS
  <2>2. IsFiniteSet(Spots(o, F[d]))  BY <2>1, OccType
  <2>3. QED  BY <2>2, PairedSet
<1>4. \A X \in T : IsFiniteSet(X)  BY <1>3
<1>5. IsFiniteSet(UNION T)
  <2> HIDE DEF T
  <2>1. QED  BY <1>2, <1>4, FS_UNION
<1>6. Slots(F, o) = UNION T  BY DEF Slots
<1>7. QED  BY <1>5, <1>6, FS_CardinalityType DEF Spread

\* One more sequence adds its own occurrences.
LEMMA SpreadAdd ==
  ASSUME NEW V, NEW E, IsFiniteSet(E), NEW d \in E,
         NEW F \in Family(V, E \ {d}), NEW G \in Family(V, E),
         \A x \in E \ {d} : G[x] = F[x], NEW o
  PROVE  Spread(G, o) = Spread(F, o) + Occurrences(o, G[d])
<1>0. F \in [E \ {d} -> Seq(V)] /\ G \in [E -> Seq(V)]  BY DEF Family
<1> DEFINE S == Spots(o, G[d])
<1> DEFINE X == {<<d, i>> : i \in S}
<1>1. G[d] \in Seq(V)  BY <1>0
<1>2. IsFiniteSet(S) /\ Occurrences(o, G[d]) = Cardinality(S)
  BY <1>1, OccType
<1>3. IsFiniteSet(X) /\ Cardinality(X) = Cardinality(S)
  <2> HIDE DEF S
  <2>1. QED  BY <1>2, PairedSet
<1>4. Slots(G, o) = Slots(F, o) \cup X
  <2>1. DOMAIN F = E \ {d} /\ DOMAIN G = E  BY <1>0
  <2>2. \A x \in E \ {d} : Spots(o, G[x]) = Spots(o, F[x])  OBVIOUS
  <2>3. QED  BY <2>1, <2>2 DEF Slots
<1>5. Slots(F, o) \cap X = {}  BY <1>0 DEF Slots
<1>6. IsFiniteSet(Slots(F, o))
  <2>1. IsFiniteSet(E \ {d})  BY FS_Difference
  <2>2. QED  BY <2>1, SpreadType
<1>7. Cardinality(Slots(F, o) \cup X)
        = Cardinality(Slots(F, o)) + Cardinality(X)
  <2> HIDE DEF X
  <2>1. QED  BY <1>3, <1>5, <1>6, DisjointUnion
<1>8. QED  BY <1>2, <1>3, <1>4, <1>7 DEF Spread

\* One sequence replaced takes its occurrences along.
LEMMA SpreadChange ==
  ASSUME NEW V, NEW D, IsFiniteSet(D), NEW d \in D,
         NEW F \in Family(V, D), NEW G \in Family(V, D),
         \A x \in D \ {d} : G[x] = F[x], NEW o
  PROVE  Spread(G, o) = Spread(F, o) - Occurrences(o, F[d])
                                     + Occurrences(o, G[d])
<1> DEFINE H == [x \in D \ {d} |-> F[x]]
<1>1. IsFiniteSet(D \ {d})  BY FS_Difference
<1>2. H \in Family(V, D \ {d})  BY DEF Family
<1>3. \A x \in D \ {d} : F[x] = H[x]  OBVIOUS
<1>4. \A x \in D \ {d} : G[x] = H[x]  OBVIOUS
<1> HIDE DEF H
<1>5. Spread(F, o) = Spread(H, o) + Occurrences(o, F[d])
  BY <1>2, <1>3, SpreadAdd
<1>6. Spread(G, o) = Spread(H, o) + Occurrences(o, G[d])
  BY <1>2, <1>4, SpreadAdd
<1>9. Spread(H, o) \in Nat  BY <1>1, <1>2, SpreadType
<1>7. Occurrences(o, F[d]) \in Nat /\ Occurrences(o, G[d]) \in Nat
  <2>1. F[d] \in Seq(V) /\ G[d] \in Seq(V)  BY DEF Family
  <2>2. QED  BY <2>1, OccType
<1>8. QED  BY <1>5, <1>6, <1>7, <1>9

\* An object that occurs somewhere is counted.
LEMMA SpreadFinds ==
  ASSUME NEW V, NEW D, IsFiniteSet(D), NEW F \in Family(V, D),
         NEW d \in D, NEW i \in 1..Len(F[d])
  PROVE  Spread(F, F[d][i]) > 0
<1>1. F[d] \in Seq(V) /\ DOMAIN F = D  BY DEF Family
<1>2. <<d, i>> \in Slots(F, F[d][i])  BY <1>1, LenProperties DEF Slots, Spots
<1>3. QED  BY <1>2, SpreadType, FS_EmptySet DEF Spread

-----------------------------------------------------------------------------
(* The heap.                                                                *)

Heaps(K) == [cell  : [Object -> [kind : K, count : Nat,
                                 contents : Seq(Value)]],
             dying : SUBSET Object]

\* A count is zero for objects freed or about to be, and what is not in use
\* holds nothing.
WellKept(h) ==
  \A o \in Object :
    /\ h.cell[o].count = 0 <=> (~ Live(h, o) \/ o \in h.dying)
    /\ o \in h.dying => Live(h, o)
    /\ ~ Live(h, o) => h.cell[o].contents = <<>>

HeapOK(h, K) == h \in Heaps(K) /\ WellKept(h)

Contents(h) == [c \in Object |-> h.cell[c].contents]

\* The references to o that its count covers beyond those of other objects.
Spare(h, o) == h.cell[o].count - HeldInside(h, o)

LEMMA HeldType ==
  ASSUME NEW K, NEW h \in Heaps(K), NEW o \in Object
  PROVE  /\ Contents(h) \in Family(Value, Object)
         /\ HeldInside(h, o) = Spread(Contents(h), o)
         /\ HeldInside(h, o) \in Nat
         /\ h.cell[o].count \in Nat
         /\ h.cell[o].contents \in Seq(Value)
         /\ Spare(h, o) \in Int
         /\ h.cell[o].count = Spare(h, o) + HeldInside(h, o)
         /\ Spare(h, o) <= h.cell[o].count
<1>1. Contents(h) \in Family(Value, Object)  BY DEF Heaps, Contents, Family
<1>2. HeldInside(h, o) = Spread(Contents(h), o)
  BY DEF HeldInside, Spread, Slots, Spots, Contents
<1>3. Spread(Contents(h), o) \in Nat  BY <1>1, MemoryIsFinite, SpreadType
<1>4. h.cell[o].count \in Nat /\ h.cell[o].contents \in Seq(Value)
  BY DEF Heaps
<1>5. QED  BY <1>1, <1>2, <1>3, <1>4 DEF Spare

\* Only the cell that changes changes what objects hold.
LEMMA HeldChange ==
  ASSUME NEW K, NEW h \in Heaps(K), NEW g \in Heaps(K), NEW a \in Object,
         \A c \in Object \ {a} : g.cell[c].contents = h.cell[c].contents,
         NEW o \in Object
  PROVE  HeldInside(g, o) = HeldInside(h, o)
                            - Occurrences(o, h.cell[a].contents)
                            + Occurrences(o, g.cell[a].contents)
<1>1. Contents(h) \in Family(Value, Object)  BY HeldType
<1>2. Contents(g) \in Family(Value, Object)  BY HeldType
<1>3. \A c \in Object \ {a} : Contents(g)[c] = Contents(h)[c]
  BY DEF Contents
<1>4. Spread(Contents(g), o) = Spread(Contents(h), o)
                               - Occurrences(o, Contents(h)[a])
                               + Occurrences(o, Contents(g)[a])
  BY <1>1, <1>2, <1>3, MemoryIsFinite, SpreadChange
<1>5. HeldInside(g, o) = Spread(Contents(g), o)  BY HeldType
<1>6. HeldInside(h, o) = Spread(Contents(h), o)  BY HeldType
<1>7. QED  BY <1>4, <1>5, <1>6 DEF Contents

LEMMA HeldSame ==
  ASSUME NEW K, NEW h \in Heaps(K), NEW g \in Heaps(K),
         \A c \in Object : g.cell[c].contents = h.cell[c].contents,
         NEW o \in Object
  PROVE  HeldInside(g, o) = HeldInside(h, o)
<1>1. Contents(g) = Contents(h)  BY DEF Contents
<1>2. HeldInside(g, o) = Spread(Contents(g), o)  BY HeldType
<1>3. HeldInside(h, o) = Spread(Contents(h), o)  BY HeldType
<1>4. QED  BY <1>1, <1>2, <1>3

\* Whatever an object holds has a count, as long as no reference is overdrawn.
LEMMA HeldIsCounted ==
  ASSUME NEW K, NEW h \in Heaps(K), NEW c \in Object,
         NEW i \in 1..Len(h.cell[c].contents), h.cell[c].contents[i] \in Object,
         Spare(h, h.cell[c].contents[i]) >= 0
  PROVE  h.cell[h.cell[c].contents[i]].count > 0
<1> DEFINE v == h.cell[c].contents[i]
<1>1. Contents(h) \in Family(Value, Object)  BY HeldType
<1>2. Contents(h)[c] = h.cell[c].contents  BY DEF Contents
<1>3. Spread(Contents(h), v) > 0  BY <1>1, <1>2, MemoryIsFinite, SpreadFinds
<1>4. v \in Object /\ Spare(h, v) >= 0  OBVIOUS
<1> HIDE DEF v
<1>5. h.cell[v].count > 0  BY <1>3, <1>4, HeldType
<1>6. QED  BY <1>5 DEF v

\* vm_adopt_ref.
LEMMA AdoptStep ==
  ASSUME NEW K, NEW h, HeapOK(h, K), NEW vs \in Seq(Value),
         \A o \in Object : Occurrences(o, vs) > 0 => h.cell[o].count > 0
  PROVE  /\ HeapOK(AdoptAll(h, vs), K)
         /\ \A o \in Object :
              /\ Spare(AdoptAll(h, vs), o) = Spare(h, o) + Occurrences(o, vs)
              /\ AdoptAll(h, vs).cell[o].contents = h.cell[o].contents
              /\ AdoptAll(h, vs).cell[o].kind = h.cell[o].kind
         /\ AdoptAll(h, vs).dying = h.dying
<1> DEFINE g == AdoptAll(h, vs)
<1>1. h \in Heaps(K) /\ WellKept(h)  BY DEF HeapOK
<1>2. \A o \in Object : Occurrences(o, vs) \in Nat  BY OccType
<1>3. \A o \in Object : /\ g.cell[o].count = h.cell[o].count + Occurrences(o, vs)
                        /\ g.cell[o].contents = h.cell[o].contents
                        /\ g.cell[o].kind = h.cell[o].kind
  BY <1>1 DEF AdoptAll, Heaps
<1>4. g.dying = h.dying  BY <1>1 DEF AdoptAll, Heaps
<1>5. g \in Heaps(K)
  <2>1. \A o \in Object : h.cell[o].count + Occurrences(o, vs) \in Nat
    BY <1>1, <1>2 DEF Heaps
  <2>2. QED  BY <1>1, <2>1 DEF AdoptAll, Heaps
<1> HIDE DEF g
<1>6. WellKept(g)
  <2>1. ASSUME NEW o \in Object
        PROVE  g.cell[o].count = 0 <=> h.cell[o].count = 0
    <3>1. h.cell[o].count \in Nat  BY <1>1, HeldType
    <3>2. QED  BY <1>2, <1>3, <3>1
  <2>2. QED  BY <1>1, <1>3, <1>4, <2>1 DEF WellKept, Live
<1>7. ASSUME NEW o \in Object
      PROVE  Spare(g, o) = Spare(h, o) + Occurrences(o, vs)
  <2>1. HeldInside(g, o) = HeldInside(h, o)  BY <1>1, <1>3, <1>5, HeldSame
  <2>2. HeldInside(h, o) \in Nat /\ h.cell[o].count \in Nat  BY <1>1, HeldType
  <2>3. Occurrences(o, vs) \in Nat  BY <1>2
  <2>4. QED  BY <1>3, <2>1, <2>2, <2>3 DEF Spare
<1>8. QED  BY <1>3, <1>4, <1>5, <1>6, <1>7 DEF g, HeapOK

\* vm_free_ref: an object that loses its last reference is due to its deleter.
LEMMA ReleaseStep ==
  ASSUME NEW K, NEW h, HeapOK(h, K), NEW vs \in Seq(Value),
         \A o \in Object : Occurrences(o, vs) <= h.cell[o].count
  PROVE  /\ HeapOK(ReleaseAll(h, vs), K)
         /\ \A o \in Object :
              /\ Spare(ReleaseAll(h, vs), o) = Spare(h, o) - Occurrences(o, vs)
              /\ ReleaseAll(h, vs).cell[o].contents = h.cell[o].contents
              /\ ReleaseAll(h, vs).cell[o].kind = h.cell[o].kind
<1> DEFINE g == ReleaseAll(h, vs)
<1>1. h \in Heaps(K) /\ WellKept(h)  BY DEF HeapOK
<1>2. \A o \in Object : Occurrences(o, vs) \in Nat  BY OccType
<1>3. \A o \in Object : /\ g.cell[o].count = h.cell[o].count - Occurrences(o, vs)
                        /\ g.cell[o].contents = h.cell[o].contents
                        /\ g.cell[o].kind = h.cell[o].kind
  BY <1>1 DEF ReleaseAll, Heaps
<1>4. g.dying = h.dying \cup {o \in Object : /\ Occurrences(o, vs) > 0
                                             /\ g.cell[o].count = 0}
  BY <1>3 DEF ReleaseAll
<1>5. g \in Heaps(K)
  <2>1. \A o \in Object : h.cell[o].count - Occurrences(o, vs) \in Nat
    BY <1>1, <1>2 DEF Heaps
  <2>2. QED  BY <1>1, <2>1 DEF ReleaseAll, Heaps
<1> HIDE DEF g
<1>6. WellKept(g)
  <2>1. ASSUME NEW o \in Object
        PROVE  /\ g.cell[o].count = 0 <=> (~ Live(g, o) \/ o \in g.dying)
               /\ o \in g.dying => Live(g, o)
    <3>1. h.cell[o].count \in Nat  BY <1>1, HeldType
    <3>2. Live(g, o) <=> Live(h, o)  BY <1>3 DEF Live
    <3>3. Occurrences(o, vs) \in Nat /\ Occurrences(o, vs) <= h.cell[o].count
      BY <1>2
    <3>4. g.cell[o].count = h.cell[o].count - Occurrences(o, vs)  BY <1>3
    <3>5. /\ h.cell[o].count = 0 <=> (~ Live(h, o) \/ o \in h.dying)
          /\ o \in h.dying => Live(h, o)
      BY <1>1 DEF WellKept
    <3>6. o \in g.dying <=> \/ o \in h.dying
                            \/ Occurrences(o, vs) > 0 /\ g.cell[o].count = 0
      BY <1>4
    <3>7. QED  BY <3>1, <3>2, <3>3, <3>4, <3>5, <3>6
  <2>2. QED  BY <1>1, <1>3, <2>1 DEF WellKept, Live
<1>7. ASSUME NEW o \in Object
      PROVE  Spare(g, o) = Spare(h, o) - Occurrences(o, vs)
  <2>1. HeldInside(g, o) = HeldInside(h, o)  BY <1>1, <1>3, <1>5, HeldSame
  <2>2. HeldInside(h, o) \in Nat /\ h.cell[o].count \in Nat  BY <1>1, HeldType
  <2>3. Occurrences(o, vs) \in Nat  BY <1>2
  <2>4. g.cell[o].count = h.cell[o].count - Occurrences(o, vs)  BY <1>3
  <2>5. QED  BY <2>1, <2>2, <2>3, <2>4 DEF Spare
<1>8. QED  BY <1>3, <1>5, <1>6, <1>7 DEF g, HeapOK

\* A new object owes its first reference to whoever allocated it and takes
\* over the references that were moved into it.
LEMMA PlaceStep ==
  ASSUME NEW K, NEW h, HeapOK(h, K), NEW p \in Fresh(h),
         NEW kind \in K \ {"free"}, NEW cs \in Seq(Value)
  PROVE  /\ HeapOK(Place(h, p, kind, cs), K)
         /\ \A o \in Object :
              Spare(Place(h, p, kind, cs), o)
                = Spare(h, o) + One(o, p) - Occurrences(o, cs)
         /\ \A o \in Object \ {p} :
              Place(h, p, kind, cs).cell[o] = h.cell[o]
         /\ Place(h, p, kind, cs).dying = h.dying
         /\ Place(h, p, kind, cs).cell[p].count = 1
<1> DEFINE g == Place(h, p, kind, cs)
<1>1. h \in Heaps(K) /\ WellKept(h)  BY DEF HeapOK
<1>2. p \in Object /\ ~ Live(h, p)  BY DEF Fresh
<1>3. /\ h.cell[p].count = 0 /\ h.cell[p].contents = <<>> /\ p \notin h.dying
  BY <1>1, <1>2 DEF WellKept
<1>4. g.cell[p] = [kind |-> kind, count |-> 1, contents |-> cs]
  BY <1>1, <1>2 DEF Place, Heaps
<1>5. \A o \in Object \ {p} : g.cell[o] = h.cell[o]
  BY <1>1, <1>2 DEF Place, Heaps
<1>6. g.dying = h.dying  BY <1>1 DEF Place, Heaps
<1>7. g \in Heaps(K)  BY <1>1, <1>2 DEF Place, Heaps
<1> HIDE DEF g
<1>8. WellKept(g)
  <2>1. ASSUME NEW o \in Object \ {p}
        PROVE  /\ g.cell[o].count = 0 <=> (~ Live(g, o) \/ o \in g.dying)
               /\ o \in g.dying => Live(g, o)
               /\ ~ Live(g, o) => g.cell[o].contents = <<>>
    BY <1>1, <1>5, <1>6 DEF WellKept, Live
  <2>2. /\ g.cell[p].count = 1 /\ Live(g, p) /\ p \notin g.dying
    BY <1>3, <1>4, <1>6 DEF Live
  <2>3. QED  BY <2>1, <2>2 DEF WellKept
<1>9. ASSUME NEW o \in Object
      PROVE  Spare(g, o) = Spare(h, o) + One(o, p) - Occurrences(o, cs)
  <2>1. HeldInside(g, o) = HeldInside(h, o) - Occurrences(o, <<>>)
                                            + Occurrences(o, cs)
    <3>1. \A c \in Object \ {p} : g.cell[c].contents = h.cell[c].contents
      BY <1>5
    <3>2. g.cell[p].contents = cs  BY <1>4
    <3>3. QED  BY <1>1, <1>2, <1>3, <1>7, <3>1, <3>2, HeldChange
  <2>2. HeldInside(h, o) \in Nat /\ h.cell[o].count \in Nat  BY <1>1, HeldType
  <2>3. Occurrences(o, <<>>) = 0 /\ Occurrences(o, cs) \in Nat
    BY OccEmpty, OccType
  <2>4. g.cell[o].count = h.cell[o].count + One(o, p)
    BY <1>3, <1>4, <1>5, <2>2 DEF One
  <2>5. One(o, p) \in Nat  BY DEF One
  <2>6. QED  BY <2>1, <2>2, <2>3, <2>4, <2>5 DEF Spare
<1>10. QED  BY <1>4, <1>5, <1>6, <1>7, <1>8, <1>9 DEF g, HeapOK

\* An object in use that gets other contents.
WithContents(h, a, cs) == [h EXCEPT !.cell[a].contents = cs]

LEMMA ContentsStep ==
  ASSUME NEW K, NEW h, HeapOK(h, K), NEW a \in Object, Live(h, a),
         NEW cs \in Seq(Value)
  PROVE  /\ HeapOK(WithContents(h, a, cs), K)
         /\ \A o \in Object :
              Spare(WithContents(h, a, cs), o)
                = Spare(h, o) + Occurrences(o, h.cell[a].contents)
                              - Occurrences(o, cs)
         /\ WithContents(h, a, cs).cell[a].contents = cs
<1> DEFINE g == WithContents(h, a, cs)
<1>1. h \in Heaps(K) /\ WellKept(h)  BY DEF HeapOK
<1>2. \A o \in Object : /\ g.cell[o].count = h.cell[o].count
                        /\ g.cell[o].kind = h.cell[o].kind
  BY <1>1 DEF Heaps, WithContents
<1>3. g.cell[a].contents = cs  BY <1>1 DEF Heaps, WithContents
<1>4. \A o \in Object \ {a} : g.cell[o].contents = h.cell[o].contents
  BY <1>1 DEF Heaps, WithContents
<1>5. g.dying = h.dying  BY <1>1 DEF Heaps, WithContents
<1>6. g \in Heaps(K)  BY <1>1 DEF Heaps, WithContents
<1> HIDE DEF g
<1>7. WellKept(g)
  BY <1>1, <1>2, <1>4, <1>5 DEF WellKept, Live
<1>8. ASSUME NEW o \in Object
      PROVE  Spare(g, o) = Spare(h, o) + Occurrences(o, h.cell[a].contents)
                                       - Occurrences(o, cs)
  <2>1. HeldInside(g, o) = HeldInside(h, o)
                           - Occurrences(o, h.cell[a].contents)
                           + Occurrences(o, cs)
    <3>1. \A c \in Object \ {a} : g.cell[c].contents = h.cell[c].contents
      BY <1>4
    <3>2. h \in Heaps(K)  BY <1>1
    <3>3. HeldInside(g, o) = HeldInside(h, o)
                             - Occurrences(o, h.cell[a].contents)
                             + Occurrences(o, g.cell[a].contents)
      BY <1>6, <3>1, <3>2, HeldChange
    <3>4. QED  BY <1>3, <3>3
  <2>2. HeldInside(h, o) \in Nat /\ h.cell[o].count \in Nat  BY <1>1, HeldType
  <2>3. h.cell[a].contents \in Seq(Value)  BY <1>1, HeldType
  <2>4. /\ Occurrences(o, h.cell[a].contents) \in Nat
        /\ Occurrences(o, cs) \in Nat
    BY <2>3, OccType
  <2>5. g.cell[o].count = h.cell[o].count  BY <1>2
  <2>6. QED  BY <2>1, <2>2, <2>4, <2>5 DEF Spare
<1>9. QED  BY <1>3, <1>6, <1>7, <1>8 DEF g, HeapOK

\* A deleter gives up exactly what its object held.
LEMMA DestroyStep ==
  ASSUME NEW K, "free" \in K, NEW h, HeapOK(h, K), NEW p \in h.dying,
         \A o \in Object : Spare(h, o) >= 0
  PROVE  /\ HeapOK(Destroy(h, p), K)
         /\ \A o \in Object : Spare(Destroy(h, p), o) = Spare(h, o)
<1> DEFINE f == [h EXCEPT !.dying = @ \ {p}, !.cell[p] = NoCell]
<1> DEFINE cs == h.cell[p].contents
<1>1. h \in Heaps(K) /\ WellKept(h)  BY DEF HeapOK
<1>2. p \in Object  BY <1>1 DEF Heaps
<1>3. cs \in Seq(Value)  BY <1>1, <1>2, HeldType
<1>4. h.cell[p].count = 0  BY <1>1, <1>2 DEF WellKept
<1>5. f.cell[p] = NoCell /\ f.dying = h.dying \ {p}
  BY <1>1, <1>2 DEF Heaps
<1>6. \A o \in Object \ {p} : f.cell[o] = h.cell[o]
  BY <1>1, <1>2 DEF Heaps
<1>7. f \in Heaps(K)
  <2>1. NoCell \in [kind : K, count : Nat, contents : Seq(Value)]
    BY EmptySeq DEF NoCell
  <2>2. QED  BY <1>1, <1>2, <2>1 DEF Heaps
<1>8. Destroy(h, p) = ReleaseAll(f, cs)  BY DEF Destroy
<1> HIDE DEF f, cs
<1>9. HeapOK(f, K)
  <2>1. ASSUME NEW o \in Object \ {p}
        PROVE  /\ f.cell[o].count = 0 <=> (~ Live(f, o) \/ o \in f.dying)
               /\ o \in f.dying => Live(f, o)
               /\ ~ Live(f, o) => f.cell[o].contents = <<>>
    BY <1>1, <1>5, <1>6 DEF WellKept, Live
  <2>2. /\ f.cell[p].count = 0 /\ ~ Live(f, p) /\ p \notin f.dying
        /\ f.cell[p].contents = <<>>
    BY <1>5 DEF Live, NoCell
  <2>3. QED  BY <1>7, <2>1, <2>2 DEF WellKept, HeapOK
<1>10. ASSUME NEW o \in Object
       PROVE  /\ Spare(f, o) = Spare(h, o) + Occurrences(o, cs)
              /\ Occurrences(o, cs) <= f.cell[o].count
  <2>1. HeldInside(f, o) = HeldInside(h, o) - Occurrences(o, cs)
                                            + Occurrences(o, <<>>)
    <3>1. \A c \in Object \ {p} : f.cell[c].contents = h.cell[c].contents
      BY <1>6
    <3>2. f.cell[p].contents = <<>>  BY <1>5 DEF NoCell
    <3>3. QED  BY <1>1, <1>2, <1>7, <3>1, <3>2, HeldChange DEF cs
  <2>2. Occurrences(o, <<>>) = 0 /\ Occurrences(o, cs) \in Nat
    BY <1>3, OccEmpty, OccType
  <2>3. HeldInside(h, o) \in Nat /\ h.cell[o].count \in Nat  BY <1>1, HeldType
  <2>4. f.cell[o].count = h.cell[o].count
    BY <1>4, <1>5, <1>6 DEF NoCell
  <2>5. Spare(f, o) = Spare(h, o) + Occurrences(o, cs)
    <3>1. Spare(f, o) = h.cell[o].count
                        - (HeldInside(h, o) - Occurrences(o, cs) + 0)
      BY <2>1, <2>2, <2>4 DEF Spare
    <3>2. QED  BY <2>2, <2>3, <3>1 DEF Spare
  <2>6. Spare(f, o) <= f.cell[o].count  BY <1>7, HeldType
  <2>7. Spare(h, o) >= 0 /\ Spare(h, o) \in Int  BY <1>1, HeldType
  <2>8. f.cell[o].count \in Nat  BY <2>3, <2>4
  <2>9. QED  BY <2>2, <2>5, <2>6, <2>7, <2>8
<1>11. /\ HeapOK(ReleaseAll(f, cs), K)
       /\ \A o \in Object :
            Spare(ReleaseAll(f, cs), o) = Spare(f, o) - Occurrences(o, cs)
  BY <1>3, <1>9, <1>10, ReleaseStep
<1>12. ASSUME NEW o \in Object
       PROVE  Spare(ReleaseAll(f, cs), o) = Spare(h, o)
  <2>1. Spare(h, o) \in Int /\ Occurrences(o, cs) \in Nat
    BY <1>1, <1>3, HeldType, OccType
  <2>2. QED  BY <1>10, <1>11, <2>1
<1>13. QED  BY <1>8, <1>11, <1>12

-----------------------------------------------------------------------------
(* Native functions: what f(argv) leaves of the references it was given.    *)

\* The heap owes argv to the caller.
Owes(h, argv) ==
  /\ HeapOK(h, Kind) /\ argv \in Seq(Value)
  /\ \A o \in Object : Spare(h, o) >= Occurrences(o, argv)

\* An outcome owes its value and its exception, and no reference is overdrawn.
Repays(out, h, argv) ==
  /\ HeapOK(out.heap, Kind) /\ out.value \in Value /\ out.thrown \in Value
  /\ \A o \in Object :
       Spare(out.heap, o) >= Spare(h, o) - Occurrences(o, argv)
                             + One(o, out.value) + One(o, out.thrown)

\* Without an exception no reference is lost either.
RepaysAll(out, h, argv) ==
  out.thrown = Unit =>
    \A o \in Object :
      Spare(out.heap, o) = Spare(h, o) - Occurrences(o, argv)
                           + One(o, out.value)

LEMMA NoUnit == \A o \in Object : One(o, Unit) = 0
BY UnitIsNotAnObject DEF One

\* vm_adopt_ref of one value that is counted already, or is no reference.
LEMMA AdoptOne ==
  ASSUME NEW h, HeapOK(h, Kind), NEW v \in Value,
         v \in Object => h.cell[v].count > 0
  PROVE  /\ HeapOK(Adopt(h, v), Kind)
         /\ \A o \in Object : Spare(Adopt(h, v), o) = Spare(h, o) + One(o, v)
         /\ \A o \in Object : /\ Adopt(h, v).cell[o].contents = h.cell[o].contents
                              /\ Adopt(h, v).cell[o].kind = h.cell[o].kind
<1>1. <<v>> \in Seq(Value)  OBVIOUS
<1>2. \A o \in Object : Occurrences(o, <<v>>) = One(o, v)  BY OccSingle
<1>3. \A o \in Object : Occurrences(o, <<v>>) > 0 => h.cell[o].count > 0
  BY <1>2 DEF One
<1>4. /\ HeapOK(AdoptAll(h, <<v>>), Kind)
      /\ \A o \in Object :
           /\ Spare(AdoptAll(h, <<v>>), o) = Spare(h, o) + Occurrences(o, <<v>>)
           /\ AdoptAll(h, <<v>>).cell[o].contents = h.cell[o].contents
           /\ AdoptAll(h, <<v>>).cell[o].kind = h.cell[o].kind
  BY <1>1, <1>3, AdoptStep
<1>5. QED  BY <1>2, <1>4 DEF Adopt

\* vm_free_ref of values whose references the heap owes.
LEMMA ReleaseOwed ==
  ASSUME NEW h, NEW vs, Owes(h, vs)
  PROVE  /\ HeapOK(ReleaseAll(h, vs), Kind)
         /\ \A o \in Object :
              /\ Spare(ReleaseAll(h, vs), o) = Spare(h, o) - Occurrences(o, vs)
              /\ ReleaseAll(h, vs).cell[o].contents = h.cell[o].contents
              /\ ReleaseAll(h, vs).cell[o].kind = h.cell[o].kind
<1>1. HeapOK(h, Kind) /\ vs \in Seq(Value)  BY DEF Owes
<1>2. ASSUME NEW o \in Object  PROVE Occurrences(o, vs) <= h.cell[o].count
  <2>1. h \in Heaps(Kind)  BY <1>1 DEF HeapOK
  <2>2. /\ Spare(h, o) <= h.cell[o].count
        /\ Spare(h, o) \in Int /\ h.cell[o].count \in Nat
    BY <2>1, HeldType
  <2>3. Spare(h, o) >= Occurrences(o, vs)  BY DEF Owes
  <2>4. Occurrences(o, vs) \in Nat  BY <1>1, OccType
  <2>5. QED  BY <2>2, <2>3, <2>4
<1>3. QED  BY <1>1, <1>2, ReleaseStep

LEMMA ReleaseOne ==
  ASSUME NEW h, HeapOK(h, Kind), NEW v \in Value,
         \A o \in Object : Spare(h, o) >= One(o, v)
  PROVE  /\ HeapOK(Release(h, v), Kind)
         /\ \A o \in Object :
              /\ Spare(Release(h, v), o) = Spare(h, o) - One(o, v)
              /\ Release(h, v).cell[o].contents = h.cell[o].contents
              /\ Release(h, v).cell[o].kind = h.cell[o].kind
<1>1. \A o \in Object : Occurrences(o, <<v>>) = One(o, v)  BY OccSingle
<1>2. Owes(h, <<v>>)  BY <1>1 DEF Owes
<1>3. QED  BY <1>1, <1>2, ReleaseOwed DEF Release

\* An exception that a native function throws: an object of its own.
LEMMA RangeErrorOwes ==
  ASSUME NEW h, HeapOK(h, Kind), NEW out \in RangeError(h)
  PROVE  /\ HeapOK(out.heap, Kind) /\ out.value = Unit /\ out.thrown \in Object
         /\ \A o \in Object :
              Spare(out.heap, o) = Spare(h, o) + One(o, out.thrown)
                                               + One(o, out.thrown)
<1>1. PICK e \in Fresh(h) :
        out = [heap |-> Adopt(Place(h, e, "str", <<>>), e), value |-> Unit,
               thrown |-> e]
  BY DEF RangeError
<1> DEFINE nothing == <<>>
<1> DEFINE g == Place(h, e, "str", nothing)
<1>2. "str" \in Kind \ {"free"} /\ nothing \in Seq(Value) /\ e \in Object
  BY EmptySeq DEF Kind, Fresh
<1>8. \A o \in Object : Occurrences(o, nothing) = 0  BY OccEmpty
<1> HIDE DEF nothing
<1>3. /\ HeapOK(g, Kind) /\ g.cell[e].count = 1
      /\ \A o \in Object : Spare(g, o) = Spare(h, o) + One(o, e)
                                         - Occurrences(o, nothing)
  BY <1>2, PlaceStep
<1> HIDE DEF g
<1>4. /\ HeapOK(Adopt(g, e), Kind)
      /\ \A o \in Object : Spare(Adopt(g, e), o) = Spare(g, o) + One(o, e)
  BY <1>2, <1>3, AdoptOne DEF Value
<1>5. out.heap = Adopt(g, e) /\ out.value = Unit /\ out.thrown = e
  BY <1>1 DEF g, nothing
<1>6. ASSUME NEW o \in Object
      PROVE  Spare(out.heap, o) = Spare(h, o) + One(o, e) + One(o, e)
  <2>1. h \in Heaps(Kind)  BY DEF HeapOK
  <2>2. Spare(h, o) \in Int /\ One(o, e) \in Int  BY <2>1, HeldType DEF One
  <2>3. Occurrences(o, nothing) = 0  BY <1>8
  <2>4. QED  BY <1>3, <1>4, <1>5, <2>2, <2>3
<1>7. QED  BY <1>2, <1>4, <1>5, <1>6

\* A new object that takes over what is put into it.
LEMMA PlaceOwed ==
  ASSUME NEW h, NEW cs, Owes(h, cs), NEW p \in Fresh(h),
         NEW kind \in Kind \ {"free"},
         NEW out, out = Returned(Place(h, p, kind, cs), p)
  PROVE  Repays(out, h, cs) /\ RepaysAll(out, h, cs)
<1>1. HeapOK(h, Kind) /\ cs \in Seq(Value) /\ p \in Object
  BY DEF Owes, Fresh
<1>2. /\ out.heap = Place(h, p, kind, cs) /\ out.value = p
      /\ out.thrown = Unit
  BY DEF Returned
<1>3. /\ HeapOK(out.heap, Kind)
      /\ \A o \in Object : Spare(out.heap, o) = Spare(h, o) + One(o, p)
                                                - Occurrences(o, cs)
  BY <1>1, <1>2, PlaceStep
<1>4. ASSUME NEW o \in Object
      PROVE  /\ Spare(out.heap, o) = Spare(h, o) - Occurrences(o, cs)
                                     + One(o, out.value)
             /\ One(o, out.thrown) = 0 /\ Spare(out.heap, o) \in Int
  <2>1. h \in Heaps(Kind)  BY <1>1 DEF HeapOK
  <2>2. Spare(h, o) \in Int /\ One(o, p) \in Int  BY <2>1, HeldType DEF One
  <2>3. Occurrences(o, cs) \in Int  BY <1>1, OccType
  <2>4. QED  BY <1>2, <1>3, <2>2, <2>3, NoUnit
<1>5. QED  BY <1>1, <1>2, <1>3, <1>4 DEF Repays, RepaysAll, Value

\* After giving up one of its arguments a native function throws.
LEMMA ThrowRepays ==
  ASSUME NEW h, NEW argv, Owes(h, argv), NEW a \in Object,
         \A o \in Object : Occurrences(o, argv) >= One(o, a),
         NEW out \in RangeError(Release(h, a))
  PROVE  Repays(out, h, argv) /\ RepaysAll(out, h, argv)
<1>1. HeapOK(h, Kind) /\ argv \in Seq(Value) /\ a \in Value
  BY DEF Owes, Value
<1>2. ASSUME NEW o \in Object
      PROVE  /\ Spare(h, o) \in Int /\ Occurrences(o, argv) \in Nat
             /\ Spare(h, o) >= One(o, a) /\ One(o, a) \in Nat
  <2>1. Spare(h, o) \in Int  BY <1>1, HeldType DEF HeapOK
  <2>2. Occurrences(o, argv) \in Nat  BY <1>1, OccType
  <2>3. Spare(h, o) >= Occurrences(o, argv)  BY DEF Owes
  <2>4. One(o, a) \in Nat  BY DEF One
  <2>5. QED  BY <2>1, <2>2, <2>3, <2>4
<1>3. /\ HeapOK(Release(h, a), Kind)
      /\ \A o \in Object : Spare(Release(h, a), o) = Spare(h, o) - One(o, a)
  BY <1>1, <1>2, ReleaseOne
<1>4. /\ HeapOK(out.heap, Kind) /\ out.value = Unit /\ out.thrown \in Object
      /\ \A o \in Object :
           Spare(out.heap, o) = Spare(Release(h, a), o) + One(o, out.thrown)
                                                        + One(o, out.thrown)
  BY <1>3, RangeErrorOwes
<1>5. ASSUME NEW o \in Object
      PROVE  Spare(out.heap, o) >= Spare(h, o) - Occurrences(o, argv)
                                   + One(o, out.value) + One(o, out.thrown)
  <2>1. One(o, out.value) = 0  BY <1>4, NoUnit
  <2>2. One(o, out.thrown) \in Nat  BY DEF One
  <2>3. QED  BY <1>2, <1>3, <1>4, <2>1, <2>2
<1>6. out.thrown # Unit  BY <1>4, UnitIsNotAnObject
<1>7. QED  BY <1>4, <1>5, <1>6 DEF Repays, RepaysAll, Value

\* array_get: the element is adopted before the array is released.
LEMMA ArrayGetRepays ==
  ASSUME NEW h, NEW argv, Owes(h, argv), NEW a \in Object,
         \A o \in Object : Occurrences(o, argv) = One(o, a),
         NEW out \in ArrayGet(a, h)
  PROVE  Repays(out, h, argv) /\ RepaysAll(out, h, argv)
<1>1. HeapOK(h, Kind) /\ h \in Heaps(Kind) /\ a \in Value
  BY DEF Owes, Value, HeapOK
<1>2. ASSUME NEW o \in Object
      PROVE  /\ Spare(h, o) \in Int /\ One(o, a) \in Nat
             /\ Spare(h, o) >= One(o, a)
  BY <1>1, HeldType DEF Owes, One
<1>3. CASE out \in RangeError(Release(h, a))
  <2>1. \A o \in Object : Occurrences(o, argv) >= One(o, a)  BY <1>2
  <2>2. QED  BY <1>3, <2>1, ThrowRepays
<1>4. CASE out \notin RangeError(Release(h, a))
  <2>1. PICK i \in DOMAIN h.cell[a].contents :
          out = Returned(Release(Adopt(h, h.cell[a].contents[i]), a),
                         h.cell[a].contents[i])
    BY <1>4 DEF ArrayGet
  <2> DEFINE v == h.cell[a].contents[i]
  <2> DEFINE g == Adopt(h, v)
  <2>2. h.cell[a].contents \in Seq(Value)  BY <1>1, HeldType
  <2>3. i \in 1..Len(h.cell[a].contents) /\ v \in Value
    BY <2>2, LenProperties, ElementOfSeq
  <2>4. v \in Object => h.cell[v].count > 0  BY <1>1, <1>2, <2>3, HeldIsCounted
  <2>5. out.heap = Release(g, a) /\ out.value = v /\ out.thrown = Unit
    BY <2>1 DEF Returned
  <2> HIDE DEF v
  <2>6. HeapOK(g, Kind) /\ \A o \in Object : Spare(g, o) = Spare(h, o) + One(o, v)
    BY <1>1, <2>3, <2>4, AdoptOne
  <2> HIDE DEF g
  <2>7. \A o \in Object : One(o, v) \in Nat  BY DEF One
  <2>8. \A o \in Object : Spare(g, o) >= One(o, a)  BY <1>2, <2>6, <2>7
  <2>9. /\ HeapOK(Release(g, a), Kind)
        /\ \A o \in Object : Spare(Release(g, a), o) = Spare(g, o) - One(o, a)
    BY <1>1, <2>6, <2>8, ReleaseOne
  <2>10. ASSUME NEW o \in Object
         PROVE  /\ Spare(out.heap, o) = Spare(h, o) - Occurrences(o, argv)
                                        + One(o, out.value)
                /\ Spare(out.heap, o) \in Int /\ One(o, out.thrown) = 0
    BY <1>2, <2>5, <2>6, <2>7, <2>9, NoUnit
  <2>11. QED  BY <2>3, <2>5, <2>9, <2>10 DEF Repays, RepaysAll, Value
<1>5. QED  BY <1>3, <1>4

\* array_set: the new element moves in and is adopted as the result, the old
\* one and the array are released.
LEMMA ArraySetRepays ==
  ASSUME NEW h, NEW argv, Owes(h, argv), NEW a, Is("array", h, a), NEW v \in Value,
         \A o \in Object : Occurrences(o, argv) = One(o, a) + One(o, v),
         NEW out \in ArraySet(a, v, h)
  PROVE  Repays(out, h, argv) /\ RepaysAll(out, h, argv)
<1>1. /\ HeapOK(h, Kind) /\ h \in Heaps(Kind) /\ a \in Object /\ a \in Value
      /\ Live(h, a)
  BY DEF Owes, Value, HeapOK, Is, Live
<1>2. ASSUME NEW o \in Object
      PROVE  /\ Spare(h, o) \in Int /\ One(o, a) \in Nat /\ One(o, v) \in Nat
             /\ Spare(h, o) >= One(o, a) + One(o, v)
  BY <1>1, HeldType DEF Owes, One
<1>3. CASE out \in RangeError(Release(h, a))
  <2>1. \A o \in Object : Occurrences(o, argv) >= One(o, a)  BY <1>2
  <2>2. QED  BY <1>1, <1>3, <2>1, ThrowRepays
<1>4. CASE out \notin RangeError(Release(h, a))
  <2>1. PICK i \in DOMAIN h.cell[a].contents :
          out = Returned(Adopt(ReleaseAll([h EXCEPT !.cell[a].contents[i] = v],
                                          <<h.cell[a].contents[i], a>>), v), v)
    BY <1>4 DEF ArraySet
  <2> DEFINE cs  == h.cell[a].contents
  <2> DEFINE old == cs[i]
  <2> DEFINE new == [cs EXCEPT ![i] = v]
  <2> DEFINE f   == WithContents(h, a, new)
  <2> DEFINE g   == ReleaseAll(f, <<old, a>>)
  <2>2. cs \in Seq(Value)  BY <1>1, HeldType
  <2>3. i \in 1..Len(cs) /\ old \in Value
    BY <2>2, LenProperties, ElementOfSeq
  <2>4. new \in Seq(Value) /\ Len(new) = Len(cs) /\ new[i] = v
    BY <2>2, <2>3, ExceptSeq
  <2>5. \A o \in Object : Occurrences(o, new)
                            = Occurrences(o, cs) - One(o, old) + One(o, v)
    BY <2>2, <2>3, OccExcept
  <2>6. f = [h EXCEPT !.cell[a].contents[i] = v]
    BY <1>1, <2>2 DEF Heaps, WithContents
  <2>7. out.heap = Adopt(g, v) /\ out.value = v /\ out.thrown = Unit
    BY <2>1, <2>6 DEF Returned
  <2> HIDE DEF new
  <2>8. /\ HeapOK(f, Kind) /\ f.cell[a].contents = new
        /\ \A o \in Object : Spare(f, o) = Spare(h, o) + Occurrences(o, cs)
                                           - Occurrences(o, new)
    BY <1>1, <2>4, ContentsStep
  <2> HIDE DEF f, old
  <2>9. ASSUME NEW o \in Object
        PROVE  /\ Spare(f, o) = Spare(h, o) + One(o, old) - One(o, v)
               /\ Occurrences(o, <<old, a>>) = One(o, old) + One(o, a)
               /\ One(o, old) \in Nat
               /\ Spare(f, o) >= One(o, old) + One(o, a)
    <3>1. Occurrences(o, cs) \in Nat  BY <2>2, OccType
    <3>2. One(o, old) \in Nat  BY DEF One
    <3>3. Occurrences(o, <<old, a>>) = One(o, old) + One(o, a)  BY OccPair
    <3>4. Spare(f, o) = Spare(h, o) + One(o, old) - One(o, v)
      BY <1>2, <2>5, <2>8, <3>1, <3>2
    <3>5. QED  BY <1>2, <3>2, <3>3, <3>4
  <2> HIDE DEF cs
  <2>10. Owes(f, <<old, a>>)
    <3>1. <<old, a>> \in Seq(Value)  BY <1>1, <2>3
    <3>2. QED  BY <2>8, <2>9, <3>1 DEF Owes
  <2>11. /\ HeapOK(g, Kind)
         /\ \A o \in Object :
              /\ Spare(g, o) = Spare(f, o) - Occurrences(o, <<old, a>>)
              /\ g.cell[o].contents = f.cell[o].contents
    BY <2>10, ReleaseOwed
  <2> HIDE DEF g
  <2>12. \A o \in Object : Spare(g, o) = Spare(h, o) - One(o, v) - One(o, a)
    BY <1>2, <2>9, <2>11
  <2>13. v \in Object => g.cell[v].count > 0
    <3>1. g \in Heaps(Kind) /\ g.cell[a].contents = new
      BY <1>1, <2>8, <2>11 DEF HeapOK
    <3>2. v \in Object => Spare(g, v) >= 0  BY <1>2, <2>12
    <3>3. QED  BY <1>1, <2>3, <2>4, <3>1, <3>2, HeldIsCounted
  <2>14. /\ HeapOK(Adopt(g, v), Kind)
         /\ \A o \in Object : Spare(Adopt(g, v), o) = Spare(g, o) + One(o, v)
    BY <2>11, <2>13, AdoptOne
  <2>15. ASSUME NEW o \in Object
         PROVE  /\ Spare(out.heap, o) = Spare(h, o) - Occurrences(o, argv)
                                        + One(o, out.value)
                /\ Spare(out.heap, o) \in Int /\ One(o, out.thrown) = 0
    BY <1>2, <2>7, <2>12, <2>14, NoUnit
  <2>16. QED  BY <2>7, <2>14, <2>15 DEF Repays, RepaysAll, Value
<1>5. QED  BY <1>3, <1>4

\* array_push: the element moves in, the array is released.
LEMMA ArrayPushRepays ==
  ASSUME NEW h, NEW argv, Owes(h, argv), NEW a, Is("array", h, a), NEW v \in Value,
         \A o \in Object : Occurrences(o, argv) = One(o, a) + One(o, v),
         NEW out \in ArrayPush(a, v, h)
  PROVE  Repays(out, h, argv) /\ RepaysAll(out, h, argv)
<1> DEFINE cs  == h.cell[a].contents
<1> DEFINE new == Append(cs, v)
<1> DEFINE f   == WithContents(h, a, new)
<1>1. /\ HeapOK(h, Kind) /\ h \in Heaps(Kind) /\ a \in Object /\ a \in Value
      /\ Live(h, a)
  BY DEF Owes, Value, HeapOK, Is, Live
<1>2. ASSUME NEW o \in Object
      PROVE  /\ Spare(h, o) \in Int /\ One(o, a) \in Nat /\ One(o, v) \in Nat
             /\ Spare(h, o) >= One(o, a) + One(o, v)
  BY <1>1, HeldType DEF Owes, One
<1>3. cs \in Seq(Value)  BY <1>1, HeldType
<1>4. new \in Seq(Value)  BY <1>3, AppendProperties
<1>5. f = [h EXCEPT !.cell[a].contents = Append(@, v)]
  BY <1>1 DEF Heaps, WithContents
<1>6. out = Returned(Release(f, a), Unit)  BY <1>5 DEF ArrayPush
<1>7. \A o \in Object : /\ Occurrences(o, new) = Occurrences(o, cs) + One(o, v)
                        /\ Occurrences(o, cs) \in Nat
  BY <1>3, OccAppend, OccType
<1> HIDE DEF new
<1>8. /\ HeapOK(f, Kind)
      /\ \A o \in Object : Spare(f, o) = Spare(h, o) + Occurrences(o, cs)
                                         - Occurrences(o, new)
  BY <1>1, <1>4, ContentsStep
<1>9. out.heap = Release(f, a) /\ out.value = Unit /\ out.thrown = Unit
  BY <1>6 DEF Returned
<1> HIDE DEF f, cs
<1>10. \A o \in Object : Spare(f, o) = Spare(h, o) - One(o, v)
  BY <1>2, <1>7, <1>8
<1>11. \A o \in Object : Spare(f, o) >= One(o, a)  BY <1>2, <1>10
<1>12. /\ HeapOK(Release(f, a), Kind)
       /\ \A o \in Object : Spare(Release(f, a), o) = Spare(f, o) - One(o, a)
  BY <1>1, <1>8, <1>11, ReleaseOne
<1>13. ASSUME NEW o \in Object
       PROVE  /\ Spare(out.heap, o) = Spare(h, o) - Occurrences(o, argv)
                                      + One(o, out.value)
              /\ Spare(out.heap, o) \in Int /\ One(o, out.thrown) = 0
  BY <1>2, <1>9, <1>10, <1>12, NoUnit
<1>14. QED  BY <1>9, <1>12, <1>13 DEF Repays, RepaysAll, Value

\* substring: the string is released before the result is allocated.
LEMMA SubstringRepays ==
  ASSUME NEW h, NEW argv, Owes(h, argv), NEW a \in Object,
         \A o \in Object : Occurrences(o, argv) = One(o, a),
         NEW out \in Substring(a, h)
  PROVE  Repays(out, h, argv) /\ RepaysAll(out, h, argv)
<1> DEFINE g == Release(h, a)
<1>1. HeapOK(h, Kind) /\ h \in Heaps(Kind) /\ a \in Value
  BY DEF Owes, Value, HeapOK
<1>2. ASSUME NEW o \in Object
      PROVE  /\ Spare(h, o) \in Int /\ One(o, a) \in Nat
             /\ Spare(h, o) >= One(o, a)
  BY <1>1, HeldType DEF Owes, One
<1>3. CASE out \in RangeError(g)
  <2>1. \A o \in Object : Occurrences(o, argv) >= One(o, a)  BY <1>2
  <2>2. QED  BY <1>3, <2>1, ThrowRepays
<1>4. CASE out \notin RangeError(g)
  <2> DEFINE nothing == <<>>
  <2>1. PICK p \in Fresh(g) : out = Returned(Place(g, p, "str", nothing), p)
    BY <1>4 DEF Substring
  <2>2. /\ HeapOK(g, Kind)
        /\ \A o \in Object : Spare(g, o) = Spare(h, o) - One(o, a)
    BY <1>1, <1>2, ReleaseOne
  <2> HIDE DEF g
  <2>3. nothing \in Seq(Value) /\ \A o \in Object : Occurrences(o, nothing) = 0
    BY EmptySeq, OccEmpty
  <2>4. "str" \in Kind \ {"free"}  BY DEF Kind
  <2> HIDE DEF nothing
  <2>5. Owes(g, nothing)  BY <1>2, <2>2, <2>3 DEF Owes
  <2>6. Repays(out, g, nothing) /\ RepaysAll(out, g, nothing)
    BY <2>1, <2>4, <2>5, PlaceOwed
  <2>7. out.thrown = Unit  BY <2>1 DEF Returned
  <2>8. ASSUME NEW o \in Object
        PROVE  Spare(g, o) - Occurrences(o, nothing)
                 = Spare(h, o) - Occurrences(o, argv)
    BY <1>2, <2>2, <2>3
  <2>9. QED  BY <2>6, <2>7, <2>8 DEF Repays, RepaysAll
<1>5. QED  BY <1>3, <1>4

\* value_of: a string is handed on; anything else is kept, and lost.
LEMMA ValueOfRepays ==
  ASSUME NEW h, NEW argv, Owes(h, argv), NEW v \in Value,
         \A o \in Object : Occurrences(o, argv) = One(o, v),
         NEW out \in ValueOf(v, h)
  PROVE  Repays(out, h, argv)
<1>1. HeapOK(h, Kind) /\ h \in Heaps(Kind)  BY DEF Owes, HeapOK
<1>2. ASSUME NEW o \in Object
      PROVE  /\ Spare(h, o) \in Int /\ One(o, v) \in Nat
             /\ Spare(h, o) >= One(o, v)
  BY <1>1, HeldType DEF Owes, One
<1>3. CASE Is("str", h, v)
  <2>1. out.heap = h /\ out.value = v /\ out.thrown = Unit
    BY <1>3 DEF ValueOf, Returned
  <2>2. QED  BY <1>1, <1>2, <2>1, NoUnit DEF Repays, Value
<1>4. CASE ~ Is("str", h, v)
  <2> DEFINE nothing == <<>>
  <2>1. PICK p \in Fresh(h) : out = Returned(Place(h, p, "str", nothing), p)
    BY <1>4 DEF ValueOf
  <2>3. nothing \in Seq(Value) /\ \A o \in Object : Occurrences(o, nothing) = 0
    BY EmptySeq, OccEmpty
  <2>4. "str" \in Kind \ {"free"}  BY DEF Kind
  <2> HIDE DEF nothing
  <2>5. Owes(h, nothing)  BY <1>1, <1>2, <2>3 DEF Owes
  <2>6. Repays(out, h, nothing)
    BY <2>1, <2>4, <2>5, PlaceOwed
  <2>7. ASSUME NEW o \in Object
        PROVE  Spare(h, o) - Occurrences(o, nothing)
                 >= Spare(h, o) - Occurrences(o, argv)
    BY <1>2, <2>3
  <2>8. ASSUME NEW o \in Object
        PROVE  Spare(out.heap, o) >= Spare(h, o) - Occurrences(o, argv)
                                     + One(o, out.value) + One(o, out.thrown)
    <3>1. Spare(out.heap, o) >= Spare(h, o) - Occurrences(o, nothing)
                                + One(o, out.value) + One(o, out.thrown)
      BY <2>6 DEF Repays
    <3>2. out.heap \in Heaps(Kind)  BY <2>6 DEF Repays, HeapOK
    <3>3. Spare(out.heap, o) \in Int  BY <3>2, HeldType
    <3>4. One(o, out.value) \in Nat /\ One(o, out.thrown) \in Nat  BY DEF One
    <3>5. QED  BY <1>2, <2>3, <3>1, <3>3, <3>4
  <2>9. QED  BY <2>6, <2>8 DEF Repays
<1>5. QED  BY <1>3, <1>4

\* array_length, equals and log release all they were given.
LEMMA ReleaseRepays ==
  ASSUME NEW h, NEW argv, Owes(h, argv),
         NEW out, out = Returned(ReleaseAll(h, argv), Unit)
  PROVE  Repays(out, h, argv) /\ RepaysAll(out, h, argv)
<1>1. /\ out.heap = ReleaseAll(h, argv) /\ out.value = Unit
      /\ out.thrown = Unit
  BY DEF Returned
<1>2. /\ HeapOK(out.heap, Kind)
      /\ \A o \in Object : Spare(out.heap, o) = Spare(h, o) - Occurrences(o, argv)
  BY <1>1, ReleaseOwed
<1>3. ASSUME NEW o \in Object
      PROVE  /\ One(o, Unit) = 0
             /\ Spare(h, o) - Occurrences(o, argv) \in Int
  <2>1. h \in Heaps(Kind) /\ argv \in Seq(Value)  BY DEF Owes, HeapOK
  <2>2. QED  BY <2>1, NoUnit, HeldType, OccType
<1>4. QED  BY <1>1, <1>2, <1>3 DEF Repays, RepaysAll, Value

\* array_new and array_init: a new object takes over contents that come to
\* the same as the arguments.
LEMMA NewArrayRepays ==
  ASSUME NEW h, NEW argv, Owes(h, argv), NEW cs \in Seq(Value),
         \A o \in Object : Occurrences(o, cs) = Occurrences(o, argv),
         NEW out \in NewArray(cs, h)
  PROVE  Repays(out, h, argv) /\ RepaysAll(out, h, argv)
<1>1. PICK p \in Fresh(h) : out = Returned(Place(h, p, "array", cs), p)
  BY DEF NewArray
<1>2. Owes(h, cs)  BY DEF Owes
<1>3. "array" \in Kind \ {"free"}  BY DEF Kind
<1>4. Repays(out, h, cs) /\ RepaysAll(out, h, cs)
  BY <1>1, <1>2, <1>3, PlaceOwed
<1>5. QED  BY <1>4 DEF Repays, RepaysAll

\* The occurrences among one, two or three arguments.
LEMMA OccArguments ==
  ASSUME NEW argv \in Seq(Value)
  PROVE  /\ Len(argv) = 1 =>
              /\ argv[1] \in Value
              /\ \A o : Occurrences(o, argv) = One(o, argv[1])
         /\ Len(argv) = 2 =>
              /\ argv[1] \in Value /\ argv[2] \in Value
              /\ \A o : Occurrences(o, argv) = One(o, argv[1]) + One(o, argv[2])
         /\ Len(argv) = 3 =>
              /\ argv[1] \in Value /\ argv[2] \in Value /\ argv[3] \in Value
              /\ \A o : Occurrences(o, argv)
                          = One(o, argv[1]) + One(o, argv[2]) + One(o, argv[3])
<1>1. CASE Len(argv) = 1
  <2>1. argv = <<argv[1]>> /\ argv[1] \in Value  BY <1>1
  <2>2. \A o : Occurrences(o, <<argv[1]>>) = One(o, argv[1])  BY OccSingle
  <2>3. QED  BY <1>1, <2>1, <2>2
<1>2. CASE Len(argv) = 2
  <2>1. argv = <<argv[1], argv[2]>> /\ argv[1] \in Value /\ argv[2] \in Value
    BY <1>2
  <2>2. \A o : Occurrences(o, <<argv[1], argv[2]>>)
                 = One(o, argv[1]) + One(o, argv[2])
    BY OccPair
  <2>3. QED  BY <1>2, <2>1, <2>2
<1>3. CASE Len(argv) = 3
  <2>1. /\ argv = <<argv[1], argv[2], argv[3]>>
        /\ argv[1] \in Value /\ argv[2] \in Value /\ argv[3] \in Value
    <3>1. argv \in [1..3 -> Value]  BY <1>3, LenProperties
    <3>2. 1 \in 1..3 /\ 2 \in 1..3 /\ 3 \in 1..3  OBVIOUS
    <3>3. argv[1] \in Value /\ argv[2] \in Value /\ argv[3] \in Value
      BY <3>1, <3>2
    <3> DEFINE t == <<argv[1], argv[2], argv[3]>>
    <3>4. t \in Seq(Value) /\ Len(t) = 3  BY <3>3
    <3>5. \A i \in 1..3 : argv[i] = t[i]  OBVIOUS
    <3> HIDE DEF t
    <3>6. argv = t  BY <1>3, <3>4, <3>5, SeqEqual
    <3>7. QED  BY <3>3, <3>6 DEF t
  <2>2. \A o : Occurrences(o, <<argv[1], argv[2], argv[3]>>)
                 = One(o, argv[1]) + One(o, argv[2]) + One(o, argv[3])
    BY OccTriple
  <2>3. QED  BY <1>3, <2>1, <2>2
<1>4. QED  BY <1>1, <1>2, <1>3

\* A native function repays what it is given, and all of it unless it throws
\* or is value_of.
LEMMA NativeRepays ==
  ASSUME NEW h, NEW argv, Owes(h, argv), NEW f \in Native,
         Accepts(f, argv, h), NEW out \in Outcomes(f, argv, h)
  PROVE  /\ Repays(out, h, argv)
         /\ f # "value_of" => RepaysAll(out, h, argv)
<1>1. argv \in Seq(Value)  BY DEF Owes
<1>2. \A o \in Object, v \in Value : One(o, v) \in Nat  BY DEF One
<1>3. CASE f = "array_new"
  <2>1. PICK n \in Nat : out \in NewArray([i \in 1..n |-> Unit], h)
    <3>1. Outcomes(f, argv, h)
            = UNION {NewArray([i \in 1..n |-> Unit], h) :
                       n \in IF argv = <<>> THEN {0} ELSE 0..MaxContents}
      BY <1>3 DEF Outcomes
    <3>2. PICK n \in IF argv = <<>> THEN {0} ELSE 0..MaxContents :
            out \in NewArray([i \in 1..n |-> Unit], h)
      BY <3>1
    <3>3. n \in Nat  BY SizesAreNaturals
    <3>4. QED  BY <3>2, <3>3
  <2> DEFINE cs == [i \in 1..n |-> Unit]
  <2>2. cs \in Seq(Value) /\ Len(cs) = n  BY DEF Value
  <2>3. argv = <<>> \/ argv = <<Unit>>  BY <1>3 DEF Accepts
  <2>4. ASSUME NEW o \in Object
        PROVE  Occurrences(o, cs) = 0 /\ Occurrences(o, argv) = 0
    <3>1. Occurrences(o, argv) = 0
      BY <2>3, OccEmpty, OccSingle, NoUnit
    <3>2. \A i \in 1..Len(cs) : cs[i] # o  BY <2>2, UnitIsNotAnObject
    <3> HIDE DEF cs
    <3>3. Occurrences(o, cs) \in Nat /\ ~ (Occurrences(o, cs) > 0)
      BY <2>2, <3>2, OccType
    <3>4. QED  BY <3>1, <3>3
  <2>5. out \in NewArray(cs, h)  BY <2>1
  <2> HIDE DEF cs
  <2>6. QED  BY <1>3, <2>2, <2>4, <2>5, NewArrayRepays
<1>4. CASE f = "array_init"
  <2>1. out \in NewArray(argv, h)  BY <1>4 DEF Outcomes
  <2>2. QED  BY <1>1, <2>1, NewArrayRepays
<1>5. CASE f = "array_get"
  <2>1. /\ Len(argv) = 2 /\ Is("array", h, argv[1]) /\ argv[2] = Unit
        /\ out \in ArrayGet(argv[1], h)
    <3>1. Signature[f] = <<"array", "scalar">>  BY <1>5 DEF Signature
    <3>2. /\ Len(argv) = 2
          /\ \A i \in DOMAIN argv :
               \/ Signature[f][i] = "any"
               \/ Signature[f][i] = "scalar" /\ argv[i] = Unit
               \/ Is(Signature[f][i], h, argv[i])
      BY <1>5, <3>1 DEF Accepts
    <3>3. DOMAIN argv = 1..2  BY <1>1, <3>2, LenProperties
    <3>4. /\ Is("array", h, argv[1])
          /\ argv[2] = Unit \/ Is("scalar", h, argv[2])
      BY <3>1, <3>2, <3>3
    <3>5. \A v : ~ Is("scalar", h, v)  BY DEF Is, Owes, HeapOK, Heaps, Kind
    <3>6. QED  BY <1>5, <3>2, <3>4, <3>5 DEF Outcomes
  <2>2. argv[1] \in Object  BY <2>1 DEF Is
  <2>3. \A o \in Object : Occurrences(o, argv) = One(o, argv[1])
    BY <1>1, <1>2, <2>1, OccArguments, NoUnit
  <2>4. QED  BY <2>1, <2>2, <2>3, ArrayGetRepays
<1>6. CASE f = "array_set"
  <2>1. /\ Len(argv) = 3 /\ Is("array", h, argv[1]) /\ argv[2] = Unit
        /\ out \in ArraySet(argv[1], argv[3], h)
    <3>1. Signature[f] = <<"array", "scalar", "any">>  BY <1>6 DEF Signature
    <3>2. /\ Len(argv) = 3
          /\ \A i \in DOMAIN argv :
               \/ Signature[f][i] = "any"
               \/ Signature[f][i] = "scalar" /\ argv[i] = Unit
               \/ Is(Signature[f][i], h, argv[i])
      BY <1>6, <3>1 DEF Accepts
    <3>3. DOMAIN argv = 1..3  BY <1>1, <3>2, LenProperties
    <3>4. /\ Is("array", h, argv[1])
          /\ argv[2] = Unit \/ Is("scalar", h, argv[2])
      BY <3>1, <3>2, <3>3
    <3>5. \A v : ~ Is("scalar", h, v)  BY DEF Is, Owes, HeapOK, Heaps, Kind
    <3>6. QED  BY <1>6, <3>2, <3>4, <3>5 DEF Outcomes
  <2>2. argv[3] \in Value /\ argv[1] \in Value  BY <1>1, <2>1, OccArguments
  <2>3. \A o \in Object : Occurrences(o, argv) = One(o, argv[1]) + One(o, argv[3])
    BY <1>1, <1>2, <2>1, <2>2, OccArguments, NoUnit
  <2>4. QED  BY <2>1, <2>2, <2>3, ArraySetRepays
<1>7. CASE f = "array_push"
  <2>1. /\ Len(argv) = 2 /\ Is("array", h, argv[1])
        /\ out \in ArrayPush(argv[1], argv[2], h)
    BY <1>1, <1>7 DEF Accepts, Outcomes, Signature
  <2>2. /\ argv[2] \in Value
        /\ \A o \in Object : Occurrences(o, argv) = One(o, argv[1]) + One(o, argv[2])
    BY <1>1, <2>1, OccArguments
  <2>3. QED  BY <2>1, <2>2, ArrayPushRepays
<1>8. CASE f = "substring"
  <2>1. /\ Len(argv) = 3 /\ Is("str", h, argv[1])
        /\ argv[2] = Unit /\ argv[3] = Unit
        /\ out \in Substring(argv[1], h)
    <3>1. Signature[f] = <<"str", "scalar", "scalar">>  BY <1>8 DEF Signature
    <3>2. /\ Len(argv) = 3
          /\ \A i \in DOMAIN argv :
               \/ Signature[f][i] = "any"
               \/ Signature[f][i] = "scalar" /\ argv[i] = Unit
               \/ Is(Signature[f][i], h, argv[i])
      BY <1>8, <3>1 DEF Accepts
    <3>3. DOMAIN argv = 1..3  BY <1>1, <3>2, LenProperties
    <3>4. /\ Is("str", h, argv[1])
          /\ argv[2] = Unit \/ Is("scalar", h, argv[2])
          /\ argv[3] = Unit \/ Is("scalar", h, argv[3])
      BY <3>1, <3>2, <3>3
    <3>5. \A v : ~ Is("scalar", h, v)  BY DEF Is, Owes, HeapOK, Heaps, Kind
    <3>6. QED  BY <1>8, <3>2, <3>4, <3>5 DEF Outcomes
  <2>2. argv[1] \in Object /\ argv[1] \in Value
    BY <1>1, <2>1, OccArguments DEF Is
  <2>3. \A o \in Object : Occurrences(o, argv) = One(o, argv[1])
    BY <1>1, <1>2, <2>1, <2>2, OccArguments, NoUnit
  <2>4. QED  BY <2>1, <2>2, <2>3, SubstringRepays
<1>9. CASE f = "value_of"
  <2>1. Len(argv) = 1 /\ out \in ValueOf(argv[1], h)
    BY <1>1, <1>9 DEF Accepts, Outcomes, Signature
  <2>2. /\ argv[1] \in Value
        /\ \A o \in Object : Occurrences(o, argv) = One(o, argv[1])
    BY <1>1, <2>1, OccArguments
  <2>3. QED  BY <1>9, <2>1, <2>2, ValueOfRepays
<1>10. CASE f \in {"array_length", "equals", "log"}
  <2>1. out = Returned(ReleaseAll(h, argv), Unit)  BY <1>10 DEF Outcomes
  <2>2. QED  BY <2>1, ReleaseRepays
<1>11. QED  BY <1>3, <1>4, <1>5, <1>6, <1>7, <1>8, <1>9, <1>10 DEF Native

-----------------------------------------------------------------------------
(* The inductive invariant.                                                 *)

FrameSet == [locals : [1..NumLocals -> Value],
             tries  : 0..MaxTries,
             base   : 0..MaxSlots]

Machine ==
  /\ stack \in Seq(Value)
  /\ frames \in Seq(FrameSet) /\ Len(frames) <= MaxFrames
  /\ frame \in 0..MaxFrames
  /\ exception \in Value
  /\ unhandled \in BOOLEAN /\ finished \in BOOLEAN

\* The heap is in order and owes every holder its reference.
IInv == HeapOK(heap, Kind) /\ Machine /\ CountsCover

\* What a step makes of it.
Kept == HeapOK(heap, Kind)' /\ Machine' /\ \A o \in Object : Lost(o)' >= Lost(o)

KeptAll == HeapOK(heap, Kind)' /\ Machine' /\ \A o \in Object : Lost(o)' = Lost(o)

\* The holders outside of the heap.
InFrames(fs, o) == Cardinality({l \in (DOMAIN fs) \X (1..NumLocals) :
                                  fs[l[1]].locals[l[2]] = o})

InLiterals(o) == Cardinality({c \in Literal : c = o})

Pending(ex, un, o) == IF un /\ ex = o THEN 1 ELSE 0

LocalsOf(fs) == [f \in DOMAIN fs |-> fs[f].locals]

LEMMA SizesInNat == /\ NumLocals \in Nat /\ MaxSlots \in Nat /\ MaxFrames \in Nat
                    /\ MaxTries \in Nat /\ MaxContents \in Nat /\ MaxLost \in Nat
BY SizesAreNaturals

LEMMA LocalsAreASequence ==
  ASSUME NEW ls \in [1..NumLocals -> Value]
  PROVE  ls \in Seq(Value) /\ Len(ls) = NumLocals
BY SizesInNat

LEMMA FramesType ==
  ASSUME NEW fs \in Seq(FrameSet), NEW o
  PROVE  /\ LocalsOf(fs) \in Family(Value, 1..Len(fs))
         /\ IsFiniteSet(1..Len(fs))
         /\ InFrames(fs, o) = Spread(LocalsOf(fs), o)
         /\ InFrames(fs, o) \in Nat
<1>1. /\ DOMAIN fs = 1..Len(fs) /\ Len(fs) \in Nat
      /\ \A f \in 1..Len(fs) : fs[f] \in FrameSet
  BY LenProperties, ElementOfSeq
<1>2. \A f \in 1..Len(fs) : /\ fs[f].locals \in [1..NumLocals -> Value]
                            /\ fs[f].locals \in Seq(Value)
                            /\ DOMAIN fs[f].locals = 1..NumLocals
  BY <1>1, LocalsAreASequence DEF FrameSet
<1>3. LocalsOf(fs) \in Family(Value, 1..Len(fs))
  BY <1>1, <1>2 DEF LocalsOf, Family
<1>4. IsFiniteSet(1..Len(fs))  BY <1>1, FS_Interval
<1>5. {l \in (DOMAIN fs) \X (1..NumLocals) : fs[l[1]].locals[l[2]] = o}
        = Slots(LocalsOf(fs), o)
  <2>1. \A f \in DOMAIN fs : Spots(o, LocalsOf(fs)[f])
                               = {i \in 1..NumLocals : fs[f].locals[i] = o}
    BY <1>1, <1>2 DEF Spots, LocalsOf
  <2>2. Slots(LocalsOf(fs), o)
          = UNION {{<<f, i>> : i \in {j \in 1..NumLocals : fs[f].locals[j] = o}} :
                     f \in DOMAIN fs}
    BY <2>1 DEF Slots, LocalsOf
  <2>3. QED  BY <2>2
<1>6. InFrames(fs, o) = Spread(LocalsOf(fs), o)
  BY <1>5 DEF InFrames, Spread
<1>7. QED  BY <1>3, <1>4, <1>6, SpreadType

\* A call adds the locals of its frame.
LEMMA FramesPush ==
  ASSUME NEW fs \in Seq(FrameSet), NEW fr \in FrameSet, NEW o
  PROVE  InFrames(Append(fs, fr), o) = InFrames(fs, o)
                                       + Occurrences(o, fr.locals)
<1> DEFINE gs == Append(fs, fr)
<1> DEFINE d  == Len(fs) + 1
<1>1. /\ gs \in Seq(FrameSet) /\ Len(gs) = d /\ gs[d] = fr
      /\ \A f \in 1..Len(fs) : gs[f] = fs[f]
  BY AppendProperties
<1>2. DOMAIN gs = 1..d /\ DOMAIN fs = 1..Len(fs) /\ Len(fs) \in Nat
  BY <1>1, LenProperties
<1>3. 1..Len(fs) = (1..d) \ {d} /\ d \in 1..d  BY <1>2
<1> HIDE DEF gs
<1>4. LocalsOf(fs) \in Family(Value, (1..d) \ {d})  BY <1>3, FramesType
<1>5. LocalsOf(gs) \in Family(Value, 1..d) /\ IsFiniteSet(1..d)
  BY <1>1, FramesType
<1>6. \A f \in (1..d) \ {d} : LocalsOf(gs)[f] = LocalsOf(fs)[f]
  BY <1>1, <1>2, <1>3 DEF LocalsOf
<1>7. LocalsOf(gs)[d] = fr.locals  BY <1>1, <1>2, <1>3 DEF LocalsOf
<1>8. Spread(LocalsOf(gs), o) = Spread(LocalsOf(fs), o)
                                + Occurrences(o, LocalsOf(gs)[d])
  <2> DEFINE E == 1..d
  <2>1. /\ d \in E /\ LocalsOf(fs) \in Family(Value, E \ {d})
        /\ LocalsOf(gs) \in Family(Value, E) /\ IsFiniteSet(E)
        /\ \A f \in E \ {d} : LocalsOf(gs)[f] = LocalsOf(fs)[f]
    BY <1>3, <1>4, <1>5, <1>6
  <2> HIDE DEF d, E
  <2>2. QED  BY <2>1, SpreadAdd
<1> HIDE DEF d
<1>9. QED  BY <1>1, <1>7, <1>8, FramesType DEF gs

\* The end of a call takes them away.
LEMMA FramesPop ==
  ASSUME NEW fs \in Seq(FrameSet), fs # <<>>, NEW o
  PROVE  /\ SubSeq(fs, 1, Len(fs) - 1) \in Seq(FrameSet)
         /\ Len(SubSeq(fs, 1, Len(fs) - 1)) = Len(fs) - 1
         /\ fs[Len(fs)] \in FrameSet
         /\ InFrames(fs, o) = InFrames(SubSeq(fs, 1, Len(fs) - 1), o)
                              + Occurrences(o, fs[Len(fs)].locals)
<1>1. Len(fs) \in Nat \ {0} /\ \A f \in 1..Len(fs) : fs[f] \in FrameSet
  BY EmptySeq, ElementOfSeq
<1>2. fs[Len(fs)] \in FrameSet  BY <1>1
<1> DEFINE gs == SubSeq(fs, 1, Len(fs) - 1)
<1>3. /\ gs \in Seq(FrameSet) /\ Len(gs) = Len(fs) - 1
      /\ \A f \in 1..Len(gs) : gs[f] = fs[f]
  <2>1. \A f \in 1..(Len(fs) - 1) : fs[f] \in FrameSet  BY <1>1
  <2>2. /\ gs \in Seq(FrameSet)
        /\ Len(gs) = IF 1 <= Len(fs) - 1 THEN (Len(fs) - 1) - 1 + 1 ELSE 0
        /\ \A f \in 1..((Len(fs) - 1) - 1 + 1) : gs[f] = fs[1 + f - 1]
    BY <1>1, <2>1, SubSeqProperties
  <2> HIDE DEF gs
  <2>3. (Len(fs) - 1) - 1 + 1 = Len(fs) - 1 /\ Len(gs) = Len(fs) - 1
    <3>1. Len(gs) = IF 1 <= Len(fs) - 1 THEN (Len(fs) - 1) - 1 + 1 ELSE 0
      BY <2>2
    <3>2. Len(fs) \in Nat /\ Len(fs) # 0  BY <1>1
    <3>3. \A n \in Nat : n # 0 =>
            /\ (n - 1) - 1 + 1 = n - 1
            /\ (IF 1 <= n - 1 THEN (n - 1) - 1 + 1 ELSE 0) = n - 1
      OBVIOUS
    <3>4. QED  BY <3>1, <3>2, <3>3
  <2>4. \A f \in 1..Len(gs) : 1 + f - 1 = f  BY <1>1, <2>3
  <2>5. QED  BY <2>2, <2>3, <2>4
<1>4. DOMAIN gs = 1..Len(gs) /\ DOMAIN fs = 1..Len(fs)
  BY <1>3, LenProperties
<1> HIDE DEF gs
<1> DEFINE d == Len(fs)
<1>5. 1..Len(gs) = (1..d) \ {d} /\ d \in 1..d  BY <1>1, <1>3
<1>6. LocalsOf(gs) \in Family(Value, (1..d) \ {d})  BY <1>3, <1>5, FramesType
<1>7. LocalsOf(fs) \in Family(Value, 1..d) /\ IsFiniteSet(1..d)
  BY FramesType
<1>8. \A f \in (1..d) \ {d} : LocalsOf(fs)[f] = LocalsOf(gs)[f]
  BY <1>3, <1>4, <1>5 DEF LocalsOf
<1>9. LocalsOf(fs)[d] = fs[d].locals  BY <1>4, <1>5 DEF LocalsOf
<1>10. InFrames(fs, o) = InFrames(gs, o) + Occurrences(o, fs[d].locals)
  <2> DEFINE E == 1..d
  <2>1. /\ d \in E /\ LocalsOf(gs) \in Family(Value, E \ {d})
        /\ LocalsOf(fs) \in Family(Value, E) /\ IsFiniteSet(E)
        /\ \A f \in E \ {d} : LocalsOf(fs)[f] = LocalsOf(gs)[f]
    BY <1>5, <1>6, <1>7, <1>8
  <2> HIDE DEF d, E
  <2>2. Spread(LocalsOf(fs), o) = Spread(LocalsOf(gs), o)
                                  + Occurrences(o, LocalsOf(fs)[d])
    BY <2>1, SpreadAdd
  <2>3. QED  BY <1>3, <1>9, <2>2, FramesType
<1>11. QED  BY <1>2, <1>3, <1>10 DEF gs

\* One frame replaced by another.
LEMMA FramesReplace ==
  ASSUME NEW fs \in Seq(FrameSet), NEW gs \in Seq(FrameSet), NEW E,
         E = DOMAIN fs, E = DOMAIN gs, NEW f \in E,
         \A g \in E \ {f} : gs[g] = fs[g], NEW o
  PROVE  InFrames(gs, o) = InFrames(fs, o) - Occurrences(o, fs[f].locals)
                                           + Occurrences(o, gs[f].locals)
<1> DEFINE F == LocalsOf(fs)
<1> DEFINE G == LocalsOf(gs)
<1>1. E = 1..Len(fs) /\ E = 1..Len(gs)  BY LenProperties
<1>2. /\ F \in Family(Value, E) /\ G \in Family(Value, E) /\ IsFiniteSet(E)
      /\ InFrames(fs, o) = Spread(F, o) /\ InFrames(gs, o) = Spread(G, o)
  BY <1>1, FramesType
<1>3. /\ \A g \in E \ {f} : G[g] = F[g]
      /\ F[f] = fs[f].locals /\ G[f] = gs[f].locals
  BY DEF LocalsOf
<1> HIDE DEF F, G
<1>4. Spread(G, o) = Spread(F, o) - Occurrences(o, F[f]) + Occurrences(o, G[f])
  BY <1>2, <1>3, SpreadChange
<1>5. QED  BY <1>2, <1>3, <1>4

\* A local replaced.
WithLocal(fs, f, i, v) == [fs EXCEPT ![f].locals[i] = v]

LEMMA FramesStore ==
  ASSUME NEW fs \in Seq(FrameSet), NEW f \in 1..Len(fs), NEW i \in 1..NumLocals,
         NEW v \in Value, NEW o
  PROVE  /\ WithLocal(fs, f, i, v) \in Seq(FrameSet)
         /\ Len(WithLocal(fs, f, i, v)) = Len(fs)
         /\ InFrames(WithLocal(fs, f, i, v), o)
              = InFrames(fs, o) - One(o, fs[f].locals[i]) + One(o, v)
<1> DEFINE ls == fs[f].locals
<1> DEFINE new == [ls EXCEPT ![i] = v]
<1> DEFINE fr == [fs[f] EXCEPT !.locals = new]
<1> DEFINE gs == [fs EXCEPT ![f] = fr]
<1>1. fs[f] \in FrameSet /\ DOMAIN fs = 1..Len(fs)
  BY ElementOfSeq, LenProperties
<1>2. ls \in [1..NumLocals -> Value]  BY <1>1 DEF FrameSet
<1>3. ls \in Seq(Value) /\ Len(ls) = NumLocals  BY <1>2, LocalsAreASequence
<1>4. new \in [1..NumLocals -> Value]  BY <1>2
<1>5. Occurrences(o, new) = Occurrences(o, ls) - One(o, ls[i]) + One(o, v)
  BY <1>3, OccExcept
<1>6. WithLocal(fs, f, i, v) = gs  BY <1>1 DEF FrameSet, WithLocal
<1>7. fr \in FrameSet /\ fr.locals = new  BY <1>1, <1>4 DEF FrameSet
<1> HIDE DEF fr
<1>8. gs \in Seq(FrameSet) /\ Len(gs) = Len(fs)  BY <1>7, ExceptSeq
<1>9. \A g \in 1..Len(fs) : gs[g] = IF g = f THEN fr ELSE fs[g]
  BY <1>7, ExceptSeq
<1> HIDE DEF gs
<1>10. DOMAIN gs = DOMAIN fs /\ f \in DOMAIN fs /\ gs[f] = fr
  BY <1>1, <1>8, <1>9, LenProperties
<1>11. \A g \in (DOMAIN fs) \ {f} : gs[g] = fs[g]  BY <1>1, <1>9
<1>12. InFrames(gs, o) = InFrames(fs, o) - Occurrences(o, ls)
                                         + Occurrences(o, new)
  <2> DEFINE E == DOMAIN fs
  <2>1. /\ E = DOMAIN fs /\ E = DOMAIN gs /\ f \in E
        /\ \A g \in E \ {f} : gs[g] = fs[g]
    BY <1>10, <1>11
  <2>2. gs[f].locals = new  BY <1>7, <1>10
  <2> HIDE DEF E, new
  <2>3. InFrames(gs, o) = InFrames(fs, o) - Occurrences(o, fs[f].locals)
                                          + Occurrences(o, gs[f].locals)
    BY <1>8, <2>1, FramesReplace
  <2>4. QED  BY <2>2, <2>3
<1>14. InFrames(gs, o) = InFrames(fs, o) - One(o, ls[i]) + One(o, v)
  <2>1. InFrames(fs, o) \in Nat  BY FramesType
  <2>2. Occurrences(o, ls) \in Nat  BY <1>3, OccType
  <2>3. One(o, ls[i]) \in Nat /\ One(o, v) \in Nat  BY DEF One
  <2> HIDE DEF ls, new
  <2>4. QED  BY <1>5, <1>12, <2>1, <2>2, <2>3
<1>15. QED  BY <1>6, <1>8, <1>14 DEF ls

\* A "try" block opened or closed.
WithTries(fs, f, t) == [fs EXCEPT ![f].tries = t]

LEMMA FramesTry ==
  ASSUME NEW fs \in Seq(FrameSet), NEW f \in 1..Len(fs), NEW t \in 0..MaxTries,
         NEW o
  PROVE  /\ WithTries(fs, f, t) \in Seq(FrameSet)
         /\ Len(WithTries(fs, f, t)) = Len(fs)
         /\ InFrames(WithTries(fs, f, t), o) = InFrames(fs, o)
<1> DEFINE fr == [fs[f] EXCEPT !.tries = t]
<1> DEFINE gs == [fs EXCEPT ![f] = fr]
<1>1. fs[f] \in FrameSet /\ DOMAIN fs = 1..Len(fs)
  BY ElementOfSeq, LenProperties
<1>2. WithTries(fs, f, t) = gs  BY <1>1 DEF FrameSet, WithTries
<1>3. fr \in FrameSet /\ fr.locals = fs[f].locals  BY <1>1 DEF FrameSet
<1> HIDE DEF fr
<1>4. gs \in Seq(FrameSet) /\ Len(gs) = Len(fs)  BY <1>3, ExceptSeq
<1>5. \A g \in 1..Len(fs) : gs[g] = IF g = f THEN fr ELSE fs[g]
  BY <1>3, ExceptSeq
<1> HIDE DEF gs
<1>6. DOMAIN gs = 1..Len(fs)  BY <1>4, LenProperties
<1>7. LocalsOf(gs) = LocalsOf(fs)  BY <1>1, <1>3, <1>5, <1>6 DEF LocalsOf
<1>8. InFrames(gs, o) = InFrames(fs, o)  BY <1>4, <1>7, FramesType
<1>9. QED  BY <1>2, <1>4, <1>8

-----------------------------------------------------------------------------
(* What is lost, by parts.                                                  *)

LEMMA HoldersType ==
  /\ \A o \in Object : InLiterals(o) \in Nat
  /\ \A o \in Literal : InLiterals(o) = 1
  /\ \A o \in Object \ Literal : InLiterals(o) = 0
  /\ \A ex, un, o : Pending(ex, un, o) \in Nat
<1>1. ASSUME NEW o \in Object, o \in Literal  PROVE InLiterals(o) = 1
  <2>1. {c \in Literal : c = o} = {o}  BY <1>1
  <2>2. QED  BY <2>1, FS_Singleton DEF InLiterals
<1>2. ASSUME NEW o \in Object, o \notin Literal  PROVE InLiterals(o) = 0
  <2>1. {c \in Literal : c = o} = {}  BY <1>2
  <2>2. QED  BY <2>1, FS_EmptySet DEF InLiterals
<1>3. QED  BY <1>1, <1>2, LiteralsAreObjects DEF Pending

LEMMA LostIs ==
  ASSUME HeapOK(heap, Kind), Machine, NEW o \in Object
  PROVE  /\ Lost(o) = Spare(heap, o) - Occurrences(o, stack)
                      - InFrames(frames, o) - InLiterals(o)
                      - Pending(exception, unhandled, o)
         /\ Spare(heap, o) \in Int /\ Occurrences(o, stack) \in Nat
         /\ InFrames(frames, o) \in Nat /\ InLiterals(o) \in Nat
         /\ Pending(exception, unhandled, o) \in Nat
         /\ Holders(o) \in Nat
<1>1. heap \in Heaps(Kind)  BY DEF HeapOK
<1>2. /\ Spare(heap, o) \in Int /\ HeldInside(heap, o) \in Nat
      /\ heap.cell[o].count \in Nat
  BY <1>1, HeldType
<1>3. Occurrences(o, stack) \in Nat  BY OccType DEF Machine
<1>4. InFrames(frames, o) \in Nat  BY FramesType DEF Machine
<1>5. InLiterals(o) \in Nat /\ Pending(exception, unhandled, o) \in Nat
  BY HoldersType
<1>6. Holders(o) = Occurrences(o, stack) + InFrames(frames, o)
                   + HeldInside(heap, o) + InLiterals(o)
                   + Pending(exception, unhandled, o)
  BY DEF Holders, InFrames, InLiterals, Pending
<1>7. Lost(o) = heap.cell[o].count - Holders(o)  BY DEF Lost
<1>8. Spare(heap, o) = heap.cell[o].count - HeldInside(heap, o)  BY DEF Spare
<1>9. QED  BY <1>2, <1>3, <1>4, <1>5, <1>6, <1>7, <1>8

LEMMA LostIsNext ==
  ASSUME HeapOK(heap, Kind)', Machine', NEW o \in Object
  PROVE  /\ Lost(o)' = Spare(heap', o) - Occurrences(o, stack')
                       - InFrames(frames', o) - InLiterals(o)
                       - Pending(exception', unhandled', o)
         /\ Spare(heap', o) \in Int /\ Occurrences(o, stack') \in Nat
         /\ InFrames(frames', o) \in Nat /\ InLiterals(o) \in Nat
         /\ Pending(exception', unhandled', o) \in Nat
<1>1. heap' \in Heaps(Kind)  BY DEF HeapOK
<1>2. /\ Spare(heap', o) \in Int /\ HeldInside(heap', o) \in Nat
      /\ heap'.cell[o].count \in Nat
  BY <1>1, HeldType
<1>3. Occurrences(o, stack') \in Nat  BY OccType DEF Machine
<1>4. InFrames(frames', o) \in Nat  BY FramesType DEF Machine
<1>5. InLiterals(o) \in Nat /\ Pending(exception', unhandled', o) \in Nat
  BY HoldersType
<1>6. Holders(o)' = Occurrences(o, stack') + InFrames(frames', o)
                    + HeldInside(heap', o) + InLiterals(o)
                    + Pending(exception', unhandled', o)
  BY DEF Holders, InFrames, InLiterals, Pending, HeldInside, Occurrences
<1>7. Lost(o)' = heap'.cell[o].count - Holders(o)'  BY DEF Lost
<1>8. Spare(heap', o) = heap'.cell[o].count - HeldInside(heap', o)  BY DEF Spare
<1>9. QED  BY <1>2, <1>3, <1>4, <1>5, <1>6, <1>7, <1>8

\* Whatever is held has a count.
LEMMA HeldHasCount ==
  ASSUME IInv, NEW o \in Object, Holders(o) > 0
  PROVE  heap.cell[o].count > 0
<1>1. Lost(o) >= 0 /\ Holders(o) \in Nat  BY LostIs DEF IInv, CountsCover
<1>2. heap.cell[o].count \in Nat  BY HeldType DEF IInv, HeapOK
<1>3. QED  BY <1>1, <1>2 DEF Lost

\* The operands of an instruction are on the stack and owned by it.
LEMMA OperandsOwned ==
  ASSUME IInv, frames # <<>>, NEW n \in Nat, n <= Own
  PROVE  /\ Len(frames) \in Nat \ {0} /\ Current \in FrameSet
         /\ n <= Len(stack) /\ Len(stack) \in Nat
         /\ Below(n) \in Seq(Value) /\ Len(Below(n)) = Len(stack) - n
         /\ Top(n) \in Seq(Value) /\ Len(Top(n)) = n
         /\ \A i \in 1..n : Top(n)[i] = stack[Len(stack) - n + i]
         /\ \A o \in Object :
              /\ Occurrences(o, stack) = Occurrences(o, Below(n))
                                         + Occurrences(o, Top(n))
              /\ Occurrences(o, Below(n)) \in Nat
              /\ Occurrences(o, Top(n)) \in Nat
         /\ Owes(heap, Top(n))
<1>1. stack \in Seq(Value) /\ frames \in Seq(FrameSet)  BY DEF IInv, Machine
<1>2. Len(frames) \in Nat \ {0} /\ Current \in FrameSet
  BY <1>1, EmptySeq, ElementOfSeq DEF Current
<1>3. Current.base \in Nat /\ Len(stack) \in Nat
  BY <1>1, <1>2, SizesInNat, LenProperties DEF FrameSet
<1>4. n \in 0..Len(stack)  BY <1>3 DEF Own
<1>5. /\ Below(n) \in Seq(Value) /\ Len(Below(n)) = Len(stack) - n
      /\ Top(n) \in Seq(Value) /\ Len(Top(n)) = n
      /\ \A i \in 1..n : Top(n)[i] = stack[Len(stack) - n + i]
      /\ \A o : Occurrences(o, stack) = Occurrences(o, Below(n))
                                        + Occurrences(o, Top(n))
  BY <1>1, <1>4, OccSplit DEF Below, Top
<1>6. \A o \in Object : /\ Occurrences(o, Below(n)) \in Nat
                        /\ Occurrences(o, Top(n)) \in Nat
  BY <1>5, OccType
<1>7. ASSUME NEW o \in Object  PROVE Spare(heap, o) >= Occurrences(o, Top(n))
  <2>1. Lost(o) >= 0  BY DEF IInv, CountsCover
  <2>2. /\ Lost(o) = Spare(heap, o) - Occurrences(o, stack)
                     - InFrames(frames, o) - InLiterals(o)
                     - Pending(exception, unhandled, o)
        /\ Spare(heap, o) \in Int /\ Occurrences(o, stack) \in Nat
        /\ InFrames(frames, o) \in Nat /\ InLiterals(o) \in Nat
        /\ Pending(exception, unhandled, o) \in Nat
    BY LostIs DEF IInv
  <2>3. Spare(heap, o) >= Occurrences(o, stack)  BY <2>1, <2>2
  <2>4. Occurrences(o, stack) >= Occurrences(o, Top(n))  BY <1>5, <1>6
  <2>5. QED  BY <1>6, <2>2, <2>3, <2>4
<1>8. Owes(heap, Top(n))  BY <1>5, <1>7 DEF Owes, IInv
<1>9. QED  BY <1>2, <1>3, <1>4, <1>5, <1>6, <1>8

LEMMA TopOne ==
  ASSUME IInv, frames # <<>>, 1 <= Own
  PROVE  /\ stack[Len(stack)] \in Value
         /\ Top(1) = <<stack[Len(stack)]>>
         /\ \A o \in Object : Occurrences(o, Top(1)) = One(o, stack[Len(stack)])
<1>1. /\ Top(1) \in Seq(Value) /\ Len(Top(1)) = 1 /\ Len(stack) \in Nat
      /\ \A i \in 1..1 : Top(1)[i] = stack[Len(stack) - 1 + i]
  BY OperandsOwned
<1>2. Top(1)[1] = stack[Len(stack)]
  <2>1. Len(stack) - 1 + 1 = Len(stack)  BY <1>1
  <2>2. QED  BY <1>1, <2>1
<1>3. Top(1) = <<Top(1)[1]>> /\ Top(1)[1] \in Value  BY <1>1
<1>4. QED  BY <1>2, <1>3, OccSingle

LEMMA TopNone ==
  ASSUME IInv, frames # <<>>, 0 <= Own
  PROVE  \A o \in Object : Occurrences(o, Top(0)) = 0
<1>1. Top(0) \in Seq(Value) /\ Len(Top(0)) = 0  BY OperandsOwned
<1>2. QED  BY <1>1, OccEmpty, EmptySeq

\* Who may be adopted: every holder's reference is counted.
LEMMA HolderCounts ==
  ASSUME IInv
  PROVE  /\ \A i \in 1..Len(stack) : stack[i] \in Object =>
              heap.cell[stack[i]].count > 0
         /\ \A f \in 1..Len(frames), i \in 1..NumLocals :
              frames[f].locals[i] \in Object =>
                heap.cell[frames[f].locals[i]].count > 0
         /\ \A o \in Literal : heap.cell[o].count > 0
         /\ unhandled /\ exception \in Object =>
              heap.cell[exception].count > 0
<1>1. ASSUME NEW o \in Object,
             \/ Occurrences(o, stack) > 0 \/ InFrames(frames, o) > 0
             \/ InLiterals(o) > 0 \/ Pending(exception, unhandled, o) > 0
      PROVE  heap.cell[o].count > 0
  <2>1. Lost(o) >= 0  BY DEF IInv, CountsCover
  <2>2. /\ Lost(o) = Spare(heap, o) - Occurrences(o, stack)
                     - InFrames(frames, o) - InLiterals(o)
                     - Pending(exception, unhandled, o)
        /\ Spare(heap, o) \in Int /\ Occurrences(o, stack) \in Nat
        /\ InFrames(frames, o) \in Nat /\ InLiterals(o) \in Nat
        /\ Pending(exception, unhandled, o) \in Nat
    BY LostIs DEF IInv
  <2>3. Spare(heap, o) > 0  BY <1>1, <2>1, <2>2
  <2>4. Spare(heap, o) <= heap.cell[o].count /\ heap.cell[o].count \in Nat
    BY HeldType DEF IInv, HeapOK
  <2>5. QED  BY <2>2, <2>3, <2>4
<1>2. stack \in Seq(Value) /\ frames \in Seq(FrameSet)  BY DEF IInv, Machine
<1>3. ASSUME NEW i \in 1..Len(stack), stack[i] \in Object
      PROVE  heap.cell[stack[i]].count > 0
  <2>1. Occurrences(stack[i], stack) > 0  BY <1>2, OccType
  <2>2. QED  BY <1>1, <1>3, <2>1
<1>4. ASSUME NEW f \in 1..Len(frames), NEW i \in 1..NumLocals,
             frames[f].locals[i] \in Object
      PROVE  heap.cell[frames[f].locals[i]].count > 0
  <2> DEFINE E == 1..Len(frames)
  <2> DEFINE F == LocalsOf(frames)
  <2> DEFINE o == frames[f].locals[i]
  <2>1. /\ F \in Family(Value, E) /\ IsFiniteSet(E) /\ f \in E
        /\ InFrames(frames, o) = Spread(F, o)
    BY <1>2, FramesType
  <2>2. F[f] = frames[f].locals /\ frames[f] \in FrameSet
    BY <1>2, LenProperties, ElementOfSeq DEF LocalsOf
  <2>3. i \in 1..Len(F[f]) /\ F[f][i] = o
    BY <2>2, LocalsAreASequence DEF FrameSet
  <2> HIDE DEF E, F
  <2>4. Spread(F, F[f][i]) > 0  BY <2>1, <2>3, SpreadFinds
  <2>5. InFrames(frames, o) > 0  BY <2>1, <2>3, <2>4
  <2>6. QED  BY <1>1, <1>4, <2>5
<1>5. \A o \in Literal : heap.cell[o].count > 0
  BY <1>1, HoldersType, LiteralsAreObjects
<1>6. unhandled /\ exception \in Object => heap.cell[exception].count > 0
  BY <1>1 DEF Pending
<1>7. QED  BY <1>3, <1>4, <1>5, <1>6

-----------------------------------------------------------------------------
(* Instructions that call nothing.                                          *)

LEMMA Sums ==
  ASSUME NEW s \in Int, NEW t \in Int, NEW k \in Int, NEW f \in Int,
         NEW l \in Int, NEW p \in Int, NEW n \in Int, NEW w \in Int
  PROVE  t - (k - n + w) - f - l - p = (s - k - f - l - p) + (t - s) + n - w
OBVIOUS

\* n operands replaced by v: what is lost changes by what the heap owes more,
\* what the operands owned and what v is owed.
LEMMA StraightStep ==
  ASSUME IInv, NEW n \in Nat, Executes(n), NEW v \in Value, Replace(n, v),
         Straight, HeapOK(heap, Kind)'
  PROVE  /\ Machine'
         /\ \A o \in Object :
              /\ Lost(o)' = Lost(o) + (Spare(heap', o) - Spare(heap, o))
                            + Occurrences(o, Top(n)) - One(o, v)
              /\ Spare(heap, o) \in Int /\ Spare(heap', o) \in Int
              /\ Lost(o) \in Int /\ One(o, v) \in Nat
              /\ Occurrences(o, Top(n)) \in Nat
<1>1. frames # <<>> /\ n <= Own /\ stack' = Append(Below(n), v)
  BY DEF Executes, Replace
<1>2. /\ Below(n) \in Seq(Value)
      /\ \A o \in Object : /\ Occurrences(o, stack) = Occurrences(o, Below(n))
                                                      + Occurrences(o, Top(n))
                           /\ Occurrences(o, Below(n)) \in Nat
                           /\ Occurrences(o, Top(n)) \in Nat
  BY <1>1, OperandsOwned
<1>3. /\ stack' \in Seq(Value)
      /\ \A o : Occurrences(o, stack') = Occurrences(o, Below(n)) + One(o, v)
  BY <1>1, <1>2, AppendProperties, OccAppend
<1>4. Machine'  BY <1>3 DEF Machine, IInv, Executes, Straight
<1>5. ASSUME NEW o \in Object
      PROVE  /\ Lost(o)' = Lost(o) + (Spare(heap', o) - Spare(heap, o))
                           + Occurrences(o, Top(n)) - One(o, v)
             /\ Spare(heap, o) \in Int /\ Spare(heap', o) \in Int
             /\ Lost(o) \in Int /\ One(o, v) \in Nat
  <2>1. /\ Lost(o) = Spare(heap, o) - Occurrences(o, stack)
                     - InFrames(frames, o) - InLiterals(o)
                     - Pending(exception, unhandled, o)
        /\ Spare(heap, o) \in Int /\ Occurrences(o, stack) \in Nat
        /\ InFrames(frames, o) \in Nat /\ InLiterals(o) \in Nat
        /\ Pending(exception, unhandled, o) \in Nat
    BY LostIs DEF IInv
  <2>2. /\ Lost(o)' = Spare(heap', o) - Occurrences(o, stack')
                      - InFrames(frames', o) - InLiterals(o)
                      - Pending(exception', unhandled', o)
        /\ Spare(heap', o) \in Int
    BY <1>4, LostIsNext
  <2>3. /\ InFrames(frames', o) = InFrames(frames, o)
        /\ Pending(exception', unhandled', o) = Pending(exception, unhandled, o)
    BY DEF Straight
  <2>4. One(o, v) \in Nat  BY DEF One
  <2>5. Lost(o) \in Int  BY <2>1
  <2>6. Occurrences(o, stack') = Occurrences(o, stack)
                                 - Occurrences(o, Top(n)) + One(o, v)
    BY <1>2, <1>3, <2>4
  <2>7. Lost(o)' = Lost(o) + (Spare(heap', o) - Spare(heap, o))
                   + Occurrences(o, Top(n)) - One(o, v)
    <3>1. Lost(o)' = Spare(heap', o)
                     - (Occurrences(o, stack) - Occurrences(o, Top(n)) + One(o, v))
                     - InFrames(frames, o) - InLiterals(o)
                     - Pending(exception, unhandled, o)
      BY <2>2, <2>3, <2>6
    <3>2. Occurrences(o, Top(n)) \in Int  BY <1>2
    <3>3. QED  BY <2>1, <2>2, <2>4, <3>1, <3>2, Sums
  <2>8. QED  BY <2>1, <2>2, <2>4, <2>5, <2>7
<1>6. QED  BY <1>2, <1>4, <1>5

\* n operands taken away.
LEMMA StraightPop ==
  ASSUME IInv, NEW n \in Nat, Executes(n), stack' = Below(n),
         Straight, HeapOK(heap, Kind)'
  PROVE  /\ Machine'
         /\ \A o \in Object :
              /\ Lost(o)' = Lost(o) + (Spare(heap', o) - Spare(heap, o))
                            + Occurrences(o, Top(n))
              /\ Spare(heap, o) \in Int /\ Spare(heap', o) \in Int
              /\ Lost(o) \in Int
              /\ Occurrences(o, Top(n)) \in Nat
<1>1. frames # <<>> /\ n <= Own
  BY DEF Executes
<1>2. /\ Below(n) \in Seq(Value)
      /\ \A o \in Object : /\ Occurrences(o, stack) = Occurrences(o, Below(n))
                                                      + Occurrences(o, Top(n))
                           /\ Occurrences(o, Below(n)) \in Nat
                           /\ Occurrences(o, Top(n)) \in Nat
  BY <1>1, OperandsOwned
<1>4. Machine'  BY <1>2 DEF Machine, IInv, Executes, Straight
<1>5. ASSUME NEW o \in Object
      PROVE  /\ Lost(o)' = Lost(o) + (Spare(heap', o) - Spare(heap, o))
                           + Occurrences(o, Top(n))
             /\ Spare(heap, o) \in Int /\ Spare(heap', o) \in Int
             /\ Lost(o) \in Int
  <2>1. /\ Lost(o) = Spare(heap, o) - Occurrences(o, stack)
                     - InFrames(frames, o) - InLiterals(o)
                     - Pending(exception, unhandled, o)
        /\ Spare(heap, o) \in Int /\ Occurrences(o, stack) \in Nat
        /\ InFrames(frames, o) \in Nat /\ InLiterals(o) \in Nat
        /\ Pending(exception, unhandled, o) \in Nat
    BY LostIs DEF IInv
  <2>2. /\ Lost(o)' = Spare(heap', o) - Occurrences(o, stack')
                      - InFrames(frames', o) - InLiterals(o)
                      - Pending(exception', unhandled', o)
        /\ Spare(heap', o) \in Int
    BY <1>4, LostIsNext
  <2>3. /\ InFrames(frames', o) = InFrames(frames, o)
        /\ Pending(exception', unhandled', o) = Pending(exception, unhandled, o)
    BY DEF Straight
  <2>4. Lost(o) \in Int  BY <2>1
  <2>5. Occurrences(o, stack') = Occurrences(o, stack)
                                 - Occurrences(o, Top(n))
    BY <1>2
  <2>6. Lost(o)' = Lost(o) + (Spare(heap', o) - Spare(heap, o))
                   + Occurrences(o, Top(n))
    <3>1. Lost(o)' = Spare(heap', o)
                     - (Occurrences(o, stack) - Occurrences(o, Top(n)) + 0)
                     - InFrames(frames, o) - InLiterals(o)
                     - Pending(exception, unhandled, o)
      BY <1>2, <2>1, <2>2, <2>3, <2>5
    <3>2. Occurrences(o, Top(n)) \in Int /\ 0 \in Int  BY <1>2
    <3>3. Lost(o)' = Lost(o) + (Spare(heap', o) - Spare(heap, o))
                     + Occurrences(o, Top(n)) - 0
      BY <2>1, <2>2, <3>1, <3>2, Sums
    <3>4. QED  BY <2>1, <2>2, <2>4, <3>2, <3>3
  <2>7. QED  BY <2>1, <2>2, <2>4, <2>6
<1>6. QED  BY <1>2, <1>4, <1>5

\* push_stack of a value that somebody holds.
LEMMA PushKeeps ==
  ASSUME IInv, NEW v \in Value, v \in Object => heap.cell[v].count > 0, Push(v)
  PROVE  KeptAll
<1>1. /\ Executes(0) /\ Replace(0, v) /\ heap' = Adopt(heap, v) /\ Straight
  BY DEF Push
<1>2. /\ HeapOK(heap', Kind)
      /\ \A o \in Object : Spare(heap', o) = Spare(heap, o) + One(o, v)
  BY <1>1, AdoptOne DEF IInv
<1>3. \A o \in Object : Occurrences(o, Top(0)) = 0
  BY <1>1, TopNone DEF Executes
<1>4. QED  BY <1>1, <1>2, <1>3, StraightStep DEF KeptAll

LEMMA PushesKeep ==
  ASSUME IInv, PushScalar \/ PushConst \/ PushLocal \/ Dup
  PROVE  KeptAll
<1>1. CASE PushScalar
  BY <1>1, PushKeeps, UnitIsNotAnObject DEF PushScalar, Value
<1>2. CASE PushConst
  BY <1>2, PushKeeps, HolderCounts, LiteralsAreObjects DEF PushConst, Value
<1>3. CASE PushLocal
  <2>1. PICK i \in 1..NumLocals : Executes(0) /\ Push(Current.locals[i])
    BY <1>3 DEF PushLocal
  <2>2. /\ Len(frames) \in 1..Len(frames) /\ Current \in FrameSet
    BY <2>1, OperandsOwned DEF Executes
  <2>3. Current.locals[i] \in Value  BY <2>2 DEF FrameSet
  <2>4. Current.locals[i] \in Object => heap.cell[Current.locals[i]].count > 0
    BY <2>2, HolderCounts DEF Current
  <2>5. QED  BY <2>1, <2>3, <2>4, PushKeeps
<1>4. CASE Dup
  <2>1. Executes(1) /\ Push(stack[Len(stack)])  BY <1>4 DEF Dup
  <2>2. stack[Len(stack)] \in Value  BY <2>1, TopOne DEF Executes
  <2>3. Len(stack) \in 1..Len(stack)  BY <2>1, OperandsOwned DEF Executes
  <2>4. QED  BY <2>1, <2>2, <2>3, HolderCounts, PushKeeps
<1>5. QED  BY <1>1, <1>2, <1>3, <1>4

LEMMA DelKeeps ==
  ASSUME IInv, Del  PROVE KeptAll
<1>1. /\ Executes(1) /\ stack' = Below(1) /\ Straight
      /\ heap' = ReleaseAll(heap, Top(1))
  BY DEF Del
<1>2. Owes(heap, Top(1))  BY <1>1, OperandsOwned DEF Executes
<1>3. /\ HeapOK(heap', Kind)
      /\ \A o \in Object :
           Spare(heap', o) = Spare(heap, o) - Occurrences(o, Top(1))
  BY <1>1, <1>2, ReleaseOwed
<1>4. QED  BY <1>1, <1>3, StraightPop DEF KeptAll

LEMMA IsNullKeeps ==
  ASSUME IInv, IsNull  PROVE KeptAll
<1>1. /\ Executes(1) /\ Replace(1, Unit) /\ Straight
      /\ heap' = ReleaseAll(heap, Top(1))
  BY DEF IsNull
<1>2. Owes(heap, Top(1))  BY <1>1, OperandsOwned DEF Executes
<1>3. /\ HeapOK(heap', Kind)
      /\ \A o \in Object :
           Spare(heap', o) = Spare(heap, o) - Occurrences(o, Top(1))
  BY <1>1, <1>2, ReleaseOwed
<1>4. Unit \in Value  BY DEF Value
<1>5. QED  BY <1>1, <1>3, <1>4, StraightStep, NoUnit DEF KeptAll

\* Scalars are no references.
LEMMA ArithmeticKeeps ==
  ASSUME IInv, Arithmetic  PROVE KeptAll
<1>1. /\ Executes(2) /\ Replace(2, Unit) /\ Straight /\ heap' = heap
      /\ Top(2) = <<Unit, Unit>>
  BY DEF Arithmetic
<1>2. \A o \in Object : Occurrences(o, Top(2)) = 0  BY <1>1, OccPair, NoUnit
<1>3. HeapOK(heap', Kind) /\ Unit \in Value  BY <1>1 DEF IInv, Value
<1>4. QED  BY <1>1, <1>2, <1>3, StraightStep, NoUnit DEF KeptAll

LEMMA JumpIfKeeps ==
  ASSUME IInv, JumpIf  PROVE KeptAll
<1>1. /\ Executes(1) /\ stack' = Below(1) /\ Straight /\ heap' = heap
      /\ Top(1) = <<Unit>>
  BY DEF JumpIf
<1>2. \A o \in Object : Occurrences(o, Top(1)) = 0  BY <1>1, OccSingle, NoUnit
<1>3. HeapOK(heap', Kind)  BY <1>1 DEF IInv
<1>4. QED  BY <1>1, <1>2, <1>3, StraightPop DEF KeptAll

\* OP_NOT, OP_AND and OP_OR may lose what they are given.
LEMMA TruthKeeps ==
  ASSUME IInv, Truth  PROVE Kept
<1>1. PICK n \in 1..2 : Executes(n) /\ Replace(n, Unit) /\ UNCHANGED heap /\ Straight
  BY DEF Truth
<1>2. HeapOK(heap', Kind) /\ Unit \in Value  BY <1>1 DEF IInv, Value
<1>3. QED  BY <1>1, <1>2, StraightStep, NoUnit DEF Kept

LEMMA ConcatKeeps ==
  ASSUME IInv, Concat  PROVE KeptAll
<1>1. PICK p \in Fresh(heap) :
        /\ Executes(2) /\ Replace(2, p) /\ Straight
        /\ heap' = ReleaseAll(Place(heap, p, "str", <<>>), Top(2))
  BY DEF Concat
<1> DEFINE nothing == <<>>
<1> DEFINE g == Place(heap, p, "str", nothing)
<1>2. /\ "str" \in Kind \ {"free"} /\ nothing \in Seq(Value) /\ p \in Value
      /\ \A o \in Object : Occurrences(o, nothing) = 0
  BY EmptySeq, OccEmpty DEF Kind, Fresh, Value
<1>3. heap' = ReleaseAll(g, Top(2))  BY <1>1
<1> HIDE DEF nothing
<1>4. /\ HeapOK(g, Kind)
      /\ \A o \in Object : Spare(g, o) = Spare(heap, o) + One(o, p)
                                         - Occurrences(o, nothing)
  BY <1>2, PlaceStep DEF IInv
<1> HIDE DEF g
<1>5. /\ Owes(heap, Top(2)) /\ Top(2) \in Seq(Value)
      /\ \A o \in Object : Occurrences(o, Top(2)) \in Nat
  BY <1>1, OperandsOwned DEF Executes
<1>6. \A o \in Object : Spare(heap, o) \in Int /\ One(o, p) \in Nat
  BY HeldType DEF IInv, HeapOK, One
<1>7. Owes(g, Top(2))  BY <1>2, <1>4, <1>5, <1>6 DEF Owes
<1>8. /\ HeapOK(heap', Kind)
      /\ \A o \in Object : Spare(heap', o) = Spare(g, o) - Occurrences(o, Top(2))
  BY <1>3, <1>7, ReleaseOwed
<1>9. QED
  BY <1>1, <1>2, <1>4, <1>5, <1>6, <1>8, StraightStep DEF KeptAll

\* OP_BIND: the copies are adopted, the originals released.
LEMMA BindKeeps ==
  ASSUME IInv, Bind  PROVE KeptAll
<1>1. PICK n \in 0..NumLocals, p \in Fresh(heap) :
        /\ Executes(n) /\ Replace(n, p) /\ Straight
        /\ heap' = ReleaseAll(AdoptAll(Place(heap, p, "closure", Top(n)), Top(n)),
                              Top(n))
  BY DEF Bind
<1> DEFINE g == Place(heap, p, "closure", Top(n))
<1> DEFINE f == AdoptAll(g, Top(n))
<1>2. "closure" \in Kind \ {"free"} /\ p \in Object /\ p \in Value /\ n \in Nat
  BY SizesInNat DEF Kind, Fresh, Value
<1>3. /\ Owes(heap, Top(n)) /\ Top(n) \in Seq(Value)
      /\ \A o \in Object : Occurrences(o, Top(n)) \in Nat
  BY <1>1, <1>2, OperandsOwned DEF Executes
<1>4. /\ HeapOK(g, Kind) /\ g.cell[p].count = 1
      /\ \A o \in Object : Spare(g, o) = Spare(heap, o) + One(o, p)
                                         - Occurrences(o, Top(n))
      /\ \A o \in Object \ {p} : g.cell[o] = heap.cell[o]
  BY <1>2, <1>3, PlaceStep DEF IInv
<1>5. \A o \in Object : /\ Spare(heap, o) \in Int /\ One(o, p) \in Nat
                        /\ Spare(heap, o) <= heap.cell[o].count
                        /\ heap.cell[o].count \in Nat
                        /\ Spare(heap, o) >= Occurrences(o, Top(n))
  BY <1>3, HeldType DEF IInv, HeapOK, One, Owes
<1>6. heap' = ReleaseAll(f, Top(n))  BY <1>1
<1> HIDE DEF g
<1>7. \A o \in Object : Occurrences(o, Top(n)) > 0 => g.cell[o].count > 0
  <2>1. Occurrences(p, Top(n)) > 0 => g.cell[p].count > 0  BY <1>4
  <2>2. ASSUME NEW o \in Object \ {p}, Occurrences(o, Top(n)) > 0
        PROVE  g.cell[o].count > 0
    <3>1. heap.cell[o].count > 0  BY <1>3, <1>5, <2>2
    <3>2. QED  BY <1>4, <3>1
  <2>3. QED  BY <2>1, <2>2
<1>8. /\ HeapOK(f, Kind)
      /\ \A o \in Object : Spare(f, o) = Spare(g, o) + Occurrences(o, Top(n))
  BY <1>3, <1>4, <1>7, AdoptStep
<1> HIDE DEF f
<1>9. \A o \in Object : Spare(f, o) = Spare(heap, o) + One(o, p)
  BY <1>3, <1>4, <1>5, <1>8
<1>10. Owes(f, Top(n))  BY <1>3, <1>5, <1>8, <1>9 DEF Owes
<1>11. /\ HeapOK(heap', Kind)
       /\ \A o \in Object : Spare(heap', o) = Spare(f, o) - Occurrences(o, Top(n))
  BY <1>6, <1>10, ReleaseOwed
<1>12. QED
  <2>1. \A o \in Object : Spare(heap', o) - Spare(heap, o)
                            = One(o, p) - Occurrences(o, Top(n))
    BY <1>3, <1>5, <1>9, <1>11
  <2>2. QED  BY <1>1, <1>2, <1>11, <2>1, StraightStep DEF KeptAll

LEMMA NewObjectKeeps ==
  ASSUME IInv, NewObject  PROVE KeptAll
<1>1. PICK n \in 0..MaxContents, p \in Fresh(heap) :
        /\ Executes(n) /\ Replace(n, p) /\ Straight
        /\ heap' = Place(heap, p, "array", Top(n))
  BY DEF NewObject
<1>2. "array" \in Kind \ {"free"} /\ p \in Object /\ p \in Value /\ n \in Nat
  BY SizesInNat DEF Kind, Fresh, Value
<1>3. /\ Top(n) \in Seq(Value)
      /\ \A o \in Object : Occurrences(o, Top(n)) \in Nat
  BY <1>1, <1>2, OperandsOwned DEF Executes
<1>4. /\ HeapOK(heap', Kind)
      /\ \A o \in Object : Spare(heap', o) = Spare(heap, o) + One(o, p)
                                             - Occurrences(o, Top(n))
  BY <1>1, <1>2, <1>3, PlaceStep DEF IInv
<1>5. QED  BY <1>1, <1>2, <1>4, StraightStep DEF KeptAll

-----------------------------------------------------------------------------
(* Instructions that touch frames or exceptions, and calls.                 *)

LEMMA Difference ==
  ASSUME NEW s \in Int, NEW t \in Int, NEW k \in Int, NEW l \in Int,
         NEW f \in Int, NEW g \in Int, NEW c \in Int, NEW p \in Int, NEW q \in Int
  PROVE  t - l - g - c - q
           = (s - k - f - c - p) + (t - s) + (k - l) + (f - g) + (p - q)
OBVIOUS

\* What is lost in a step: what the heap owes more, and what the stack, the
\* locals and the exception hold less.
LEMMA Ledger ==
  ASSUME IInv, HeapOK(heap, Kind)', Machine', NEW o \in Object
  PROVE  /\ Lost(o)' = Lost(o) + (Spare(heap', o) - Spare(heap, o))
                       + (Occurrences(o, stack) - Occurrences(o, stack'))
                       + (InFrames(frames, o) - InFrames(frames', o))
                       + (Pending(exception, unhandled, o)
                          - Pending(exception', unhandled', o))
         /\ Lost(o) \in Int /\ Lost(o) >= 0
         /\ Spare(heap, o) \in Int /\ Spare(heap', o) \in Int
         /\ Occurrences(o, stack) \in Nat /\ Occurrences(o, stack') \in Nat
         /\ InFrames(frames, o) \in Nat /\ InFrames(frames', o) \in Nat
         /\ Pending(exception, unhandled, o) \in Nat
         /\ Pending(exception', unhandled', o) \in Nat
<1>1. /\ Lost(o) = Spare(heap, o) - Occurrences(o, stack)
                   - InFrames(frames, o) - InLiterals(o)
                   - Pending(exception, unhandled, o)
      /\ Spare(heap, o) \in Int /\ Occurrences(o, stack) \in Nat
      /\ InFrames(frames, o) \in Nat /\ InLiterals(o) \in Nat
      /\ Pending(exception, unhandled, o) \in Nat
  BY LostIs DEF IInv
<1>2. /\ Lost(o)' = Spare(heap', o) - Occurrences(o, stack')
                    - InFrames(frames', o) - InLiterals(o)
                    - Pending(exception', unhandled', o)
      /\ Spare(heap', o) \in Int /\ Occurrences(o, stack') \in Nat
      /\ InFrames(frames', o) \in Nat
      /\ Pending(exception', unhandled', o) \in Nat
  BY LostIsNext
<1>3. Lost(o) >= 0  BY DEF IInv, CountsCover
<1>4. Lost(o)' = Lost(o) + (Spare(heap', o) - Spare(heap, o))
                 + (Occurrences(o, stack) - Occurrences(o, stack'))
                 + (InFrames(frames, o) - InFrames(frames', o))
                 + (Pending(exception, unhandled, o)
                    - Pending(exception', unhandled', o))
  BY <1>1, <1>2, Difference
<1>5. Lost(o) \in Int  BY <1>1
<1>6. QED  BY <1>1, <1>2, <1>3, <1>4, <1>5

\* The local that is overwritten is given up.
LEMMA StoreLocalKeeps ==
  ASSUME IInv, StoreLocal  PROVE KeptAll
<1>1. PICK i \in 1..NumLocals :
        /\ Executes(1)
        /\ frames' = [frames EXCEPT ![Len(frames)].locals[i] = stack[Len(stack)]]
        /\ stack' = Below(1)
        /\ heap' = Release(heap, Current.locals[i])
        /\ UNCHANGED <<frame, exception, unhandled>>
  BY DEF StoreLocal
<1> DEFINE v   == stack[Len(stack)]
<1> DEFINE old == Current.locals[i]
<1>2. /\ frames # <<>> /\ 1 <= Own /\ UNCHANGED finished
      /\ frames \in Seq(FrameSet)
  BY <1>1 DEF Executes, IInv, Machine
<1>3. /\ Len(frames) \in 1..Len(frames) /\ Current \in FrameSet
      /\ Below(1) \in Seq(Value)
      /\ \A o \in Object : /\ Occurrences(o, stack) = Occurrences(o, Below(1))
                                                      + Occurrences(o, Top(1))
                           /\ Occurrences(o, Below(1)) \in Nat
  BY <1>2, OperandsOwned
<1>4. /\ v \in Value
      /\ \A o \in Object : Occurrences(o, Top(1)) = One(o, v)
  BY <1>2, TopOne
<1>5. old \in Value  BY <1>3 DEF FrameSet
<1>6. /\ frames' \in Seq(FrameSet) /\ Len(frames') = Len(frames)
      /\ \A o : InFrames(frames', o)
                  = InFrames(frames, o) - One(o, old) + One(o, v)
  <2> DEFINE d == Len(frames)
  <2>1. d \in 1..Len(frames) /\ frames' = WithLocal(frames, d, i, v)
    BY <1>1, <1>3 DEF WithLocal
  <2>2. old = frames[d].locals[i]  BY DEF Current
  <2>3. v \in Value  BY <1>4
  <2> HIDE DEF d, v, old
  <2>4. /\ frames' \in Seq(FrameSet) /\ Len(frames') = Len(frames)
        /\ \A o : InFrames(frames', o)
                    = InFrames(frames, o) - One(o, frames[d].locals[i]) + One(o, v)
    BY <1>2, <2>1, <2>3, FramesStore
  <2>5. QED  BY <2>2, <2>4
<1> HIDE DEF v, old
<1>7. ASSUME NEW o \in Object  PROVE Spare(heap, o) >= One(o, old)
  <2>1. /\ Lost(o) = Spare(heap, o) - Occurrences(o, stack)
                     - InFrames(frames, o) - InLiterals(o)
                     - Pending(exception, unhandled, o)
        /\ Spare(heap, o) \in Int /\ Occurrences(o, stack) \in Nat
        /\ InFrames(frames, o) \in Nat /\ InLiterals(o) \in Nat
        /\ Pending(exception, unhandled, o) \in Nat
    BY LostIs DEF IInv
  <2>2. Lost(o) >= 0  BY DEF IInv, CountsCover
  <2>3. /\ InFrames(frames', o) \in Nat
        /\ InFrames(frames', o) = InFrames(frames, o) - One(o, old) + One(o, v)
    BY <1>6, FramesType
  <2>4. Occurrences(o, stack) >= One(o, v)  BY <1>3, <1>4 DEF One
  <2>5. One(o, v) \in Nat /\ One(o, old) \in Nat  BY DEF One
  <2>6. QED  BY <2>1, <2>2, <2>3, <2>4, <2>5
<1>8. /\ HeapOK(heap', Kind)
      /\ \A o \in Object : Spare(heap', o) = Spare(heap, o) - One(o, old)
  BY <1>1, <1>5, <1>7, ReleaseOne DEF IInv, old
<1>9. Machine'  BY <1>1, <1>2, <1>3, <1>6 DEF Machine, IInv
<1>10. ASSUME NEW o \in Object  PROVE Lost(o)' = Lost(o)
  <2>1. Pending(exception', unhandled', o) = Pending(exception, unhandled, o)
    BY <1>1
  <2>2. Occurrences(o, stack') = Occurrences(o, stack) - One(o, v)
    <3>1. One(o, v) \in Nat  BY DEF One
    <3>2. Occurrences(o, stack') = Occurrences(o, Below(1))  BY <1>1
    <3>3. QED  BY <1>3, <1>4, <3>1, <3>2
  <2>3. One(o, v) \in Nat /\ One(o, old) \in Nat  BY DEF One
  <2>4. /\ Lost(o)' = Lost(o) + (Spare(heap', o) - Spare(heap, o))
                      + (Occurrences(o, stack) - Occurrences(o, stack'))
                      + (InFrames(frames, o) - InFrames(frames', o))
                      + (Pending(exception, unhandled, o)
                         - Pending(exception', unhandled', o))
        /\ Lost(o) \in Int /\ Spare(heap, o) \in Int
        /\ Occurrences(o, stack) \in Nat /\ InFrames(frames, o) \in Nat
        /\ Pending(exception, unhandled, o) \in Nat
    BY <1>8, <1>9, Ledger
  <2>5. Spare(heap', o) = Spare(heap, o) - One(o, old)  BY <1>8
  <2>6. InFrames(frames', o) = InFrames(frames, o) - One(o, old) + One(o, v)
    BY <1>6
  <2>7. QED  BY <2>1, <2>2, <2>3, <2>4, <2>5, <2>6
<1>11. QED  BY <1>8, <1>9, <1>10 DEF KeptAll

\* vm_invoke of a native function: the heap h owes the arguments, and what
\* the caller releases after the call, in place of the operands.
LEMMA InvokeKeeps ==
  ASSUME IInv, NEW n \in Nat, Executes(n), NEW h, NEW argv, Owes(h, argv),
         NEW after \in Seq(Value), NEW f \in Native,
         Invoke(f, argv, h, n, after),
         \A o \in Object :
           Spare(h, o) = Spare(heap, o) - Occurrences(o, Top(n))
                         + Occurrences(o, argv) + Occurrences(o, after)
  PROVE  Kept /\ (f # "value_of" /\ ~ unhandled' => KeptAll)
<1>1. PICK out \in Outcomes(f, argv, h) :
        /\ Replace(n, out.value)
        /\ heap' = ReleaseAll(out.heap, after)
        /\ IF out.thrown = Unit
           THEN UNCHANGED <<exception, unhandled>>
           ELSE exception' = out.thrown /\ unhandled' = TRUE
  BY DEF Invoke
<1>2. UNCHANGED <<frames, frame, finished>> /\ ~ unhandled /\ frames # <<>>
      /\ n <= Own
  BY DEF Invoke, Executes
<1>3. Repays(out, h, argv) /\ (f # "value_of" => RepaysAll(out, h, argv))
  BY NativeRepays DEF Invoke
<1>4. /\ Below(n) \in Seq(Value)
      /\ \A o \in Object : /\ Occurrences(o, stack) = Occurrences(o, Below(n))
                                                      + Occurrences(o, Top(n))
                           /\ Occurrences(o, Below(n)) \in Nat
                           /\ Occurrences(o, Top(n)) \in Nat
                           /\ Spare(heap, o) >= Occurrences(o, Top(n))
  BY <1>2, OperandsOwned DEF Owes
<1>5. out.value \in Value /\ out.thrown \in Value /\ HeapOK(out.heap, Kind)
  BY <1>3 DEF Repays
<1>6. ASSUME NEW o \in Object
      PROVE  /\ Spare(heap, o) \in Int /\ Spare(out.heap, o) \in Int
             /\ Occurrences(o, argv) \in Nat /\ Occurrences(o, after) \in Nat
             /\ One(o, out.value) \in Nat /\ One(o, out.thrown) \in Nat
  <2>1. heap \in Heaps(Kind) /\ out.heap \in Heaps(Kind)
    BY <1>5 DEF IInv, HeapOK
  <2>2. Spare(heap, o) \in Int /\ Spare(out.heap, o) \in Int  BY <2>1, HeldType
  <2>3. Occurrences(o, argv) \in Nat /\ Occurrences(o, after) \in Nat
    BY OccType DEF Owes
  <2>4. QED  BY <2>2, <2>3 DEF One
<1>7. ASSUME NEW o \in Object
      PROVE  Spare(out.heap, o)
               >= Spare(heap, o) - Occurrences(o, Top(n)) + Occurrences(o, after)
                  + One(o, out.value) + One(o, out.thrown)
  <2>1. Spare(out.heap, o) >= Spare(h, o) - Occurrences(o, argv)
                              + One(o, out.value) + One(o, out.thrown)
    BY <1>3 DEF Repays
  <2>2. QED  BY <1>4, <1>6, <2>1
<1>8. ASSUME NEW o \in Object, RepaysAll(out, h, argv), out.thrown = Unit
      PROVE  Spare(out.heap, o)
               = Spare(heap, o) - Occurrences(o, Top(n)) + Occurrences(o, after)
                 + One(o, out.value)
  <2>1. Spare(out.heap, o) = Spare(h, o) - Occurrences(o, argv)
                             + One(o, out.value)
    BY <1>8 DEF RepaysAll
  <2>2. QED  BY <1>4, <1>6, <2>1
<1>9. Owes(out.heap, after)
  <2>1. \A o \in Object : Spare(out.heap, o) >= Occurrences(o, after)
    BY SMTT(30), <1>4, <1>6, <1>7
  <2>2. QED  BY <1>5, <2>1 DEF Owes
<1>10. /\ HeapOK(heap', Kind)
       /\ \A o \in Object :
            Spare(heap', o) = Spare(out.heap, o) - Occurrences(o, after)
  BY <1>1, <1>9, ReleaseOwed
<1>11. stack' = Append(Below(n), out.value)  BY <1>1 DEF Replace
<1>12. stack' \in Seq(Value)  BY <1>4, <1>5, <1>11, AppendProperties
<1>13. Machine'
  <2>1. exception' \in Value /\ unhandled' \in BOOLEAN
    BY <1>1, <1>5 DEF Machine, IInv
  <2>2. QED  BY <1>2, <1>12, <2>1 DEF Machine, IInv
<1>14. ASSUME NEW o \in Object
       PROVE  /\ Lost(o)' = Lost(o) + (Spare(out.heap, o)
                                       - (Spare(heap, o) - Occurrences(o, Top(n))
                                          + Occurrences(o, after)
                                          + One(o, out.value)
                                          + One(o, out.thrown)))
              /\ Lost(o) \in Int
  <2>1. InFrames(frames', o) = InFrames(frames, o)  BY <1>2
  <2>2. Pending(exception, unhandled, o) = 0  BY <1>2 DEF Pending
  <2>3. Pending(exception', unhandled', o) = One(o, out.thrown)
    <3>1. CASE out.thrown = Unit
      BY <1>1, <1>2, <3>1, NoUnit DEF Pending
    <3>2. CASE out.thrown # Unit
      BY <1>1, <3>2 DEF Pending, One
    <3>3. QED  BY <3>1, <3>2
  <2>4. Occurrences(o, stack') = Occurrences(o, Below(n)) + One(o, out.value)
    BY <1>4, <1>5, <1>11, OccAppend
  <2>5. /\ Lost(o)' = Lost(o) + (Spare(heap', o) - Spare(heap, o))
                      + (Occurrences(o, stack) - Occurrences(o, stack'))
                      + (InFrames(frames, o) - InFrames(frames', o))
                      + (Pending(exception, unhandled, o)
                         - Pending(exception', unhandled', o))
        /\ Lost(o) \in Int /\ InFrames(frames, o) \in Nat
    BY <1>10, <1>13, Ledger
  <2>6. Spare(heap', o) = Spare(out.heap, o) - Occurrences(o, after)  BY <1>10
  <2>7. Occurrences(o, stack) = Occurrences(o, Below(n)) + Occurrences(o, Top(n))
        /\ Occurrences(o, Below(n)) \in Nat /\ Occurrences(o, Top(n)) \in Nat
    BY <1>4
  <2>8. Lost(o)' = Lost(o)
           + ((Spare(out.heap, o) - Occurrences(o, after)) - Spare(heap, o))
           + ((Occurrences(o, Below(n)) + Occurrences(o, Top(n)))
              - (Occurrences(o, Below(n)) + One(o, out.value)))
           + (InFrames(frames, o) - InFrames(frames, o))
           + (0 - One(o, out.thrown))
    BY <2>1, <2>2, <2>3, <2>4, <2>5, <2>6, <2>7
  <2> DEFINE l == Lost(o)
  <2> DEFINE s == Spare(heap, o)
  <2> DEFINE t == Spare(out.heap, o)
  <2> DEFINE a == Occurrences(o, after)
  <2> DEFINE b == Occurrences(o, Below(n))
  <2> DEFINE k == Occurrences(o, Top(n))
  <2> DEFINE v == One(o, out.value)
  <2> DEFINE w == One(o, out.thrown)
  <2> DEFINE c == InFrames(frames, o)
  <2>9. /\ l \in Int /\ s \in Int /\ t \in Int /\ a \in Int /\ b \in Int
        /\ k \in Int /\ v \in Int /\ w \in Int /\ c \in Int
        /\ Lost(o)' = l + ((t - a) - s) + ((b + k) - (b + v)) + (c - c) + (0 - w)
    BY <1>6, <2>5, <2>7, <2>8
  <2> HIDE DEF l, s, t, a, b, k, v, w, c
  <2>10. Lost(o)' = l + (t - (s - k + a + v + w))  BY <2>9
  <2>11. QED  BY <2>9, <2>10 DEF l, s, t, a, k, v, w
<1>15. Kept
  <2>1. ASSUME NEW o \in Object  PROVE Lost(o)' >= Lost(o)
    <3> DEFINE due == Spare(heap, o) - Occurrences(o, Top(n))
                      + Occurrences(o, after)
                      + One(o, out.value) + One(o, out.thrown)
    <3>1. due \in Int  BY SMTT(30), <1>4, <1>6
    <3>2. /\ Spare(out.heap, o) >= due /\ Spare(out.heap, o) \in Int
          /\ Lost(o)' = Lost(o) + (Spare(out.heap, o) - due) /\ Lost(o) \in Int
      BY <1>6, <1>7, <1>14
    <3> HIDE DEF due
    <3>3. QED  BY <3>1, <3>2
  <2>2. QED  BY <1>10, <1>13, <2>1 DEF Kept
<1>16. ASSUME f # "value_of", ~ unhandled'  PROVE KeptAll
  <2>1. out.thrown = Unit  BY <1>1, <1>16
  <2>2. \A o \in Object : Spare(out.heap, o)
          = Spare(heap, o) - Occurrences(o, Top(n)) + Occurrences(o, after)
            + One(o, out.value)
    BY <1>3, <1>8, <1>16, <2>1
  <2>3. \A o \in Object : One(o, out.thrown) = 0  BY <2>1, NoUnit
  <2>4. ASSUME NEW o \in Object  PROVE Lost(o)' = Lost(o)
    <3> DEFINE due == Spare(heap, o) - Occurrences(o, Top(n))
                      + Occurrences(o, after)
                      + One(o, out.value) + One(o, out.thrown)
    <3>1. due = Spare(heap, o) - Occurrences(o, Top(n)) + Occurrences(o, after)
                + One(o, out.value)
      BY <1>4, <1>6, <2>3
    <3>2. /\ Spare(out.heap, o) = due /\ Spare(out.heap, o) \in Int
          /\ Lost(o)' = Lost(o) + (Spare(out.heap, o) - due) /\ Lost(o) \in Int
      BY <1>6, <1>14, <2>2, <3>1
    <3> HIDE DEF due
    <3>3. QED  BY <3>2
  <2>5. QED  BY <1>10, <1>13, <2>4 DEF KeptAll
<1>17. QED  BY <1>15, <1>16

LEMMA CallNativeKeeps ==
  ASSUME IInv, NEW f \in Native, CallNative(f)
  PROVE  Kept /\ (f # "value_of" /\ ~ unhandled' => KeptAll)
<1>1. PICK n \in 0..3 : Executes(n) /\ Invoke(f, Top(n), heap, n, <<>>)
  BY DEF CallNative
<1> DEFINE nothing == <<>>
<1>2. /\ nothing \in Seq(Value)
      /\ \A o \in Object : Occurrences(o, nothing) = 0
  BY EmptySeq, OccEmpty
<1>3. Invoke(f, Top(n), heap, n, nothing)  BY <1>1
<1> HIDE DEF nothing
<1>4. /\ Owes(heap, Top(n))
      /\ \A o \in Object : Occurrences(o, Top(n)) \in Nat
  BY <1>1, OperandsOwned DEF Executes
<1>5. \A o \in Object : Spare(heap, o) \in Int  BY HeldType DEF IInv, HeapOK
<1>6. \A o \in Object :
        Spare(heap, o) = Spare(heap, o) - Occurrences(o, Top(n))
                         + Occurrences(o, Top(n)) + Occurrences(o, nothing)
  BY <1>2, <1>4, <1>5
<1>7. n \in Nat  OBVIOUS
<1>8. QED  BY <1>1, <1>2, <1>3, <1>4, <1>6, <1>7, InvokeKeeps

LEMMA NotNegative == \A a, b \in Nat : a * b \in Nat
OBVIOUS

\* A new frame holds its arguments and nothing else.
LEMMA NewFrameHolds ==
  ASSUME NEW argv \in Seq(Value), Len(argv) <= NumLocals,
         NEW base \in 0..MaxSlots
  PROVE  /\ NewFrame(argv, base) \in FrameSet
         /\ \A o \in Object :
              Occurrences(o, NewFrame(argv, base).locals) = Occurrences(o, argv)
<1> DEFINE ls == [i \in 1..NumLocals |-> IF i <= Len(argv) THEN argv[i] ELSE Unit]
<1>1. NewFrame(argv, base) = [locals |-> ls, tries |-> 0, base |-> base]
  BY DEF NewFrame
<1>2. /\ Len(argv) \in Nat /\ DOMAIN argv = 1..Len(argv)
      /\ \A i \in 1..Len(argv) : argv[i] \in Value
  BY LenProperties, ElementOfSeq
<1>3. ls \in [1..NumLocals -> Value]  BY <1>2 DEF Value
<1>4. 0 \in 0..MaxTries  BY SizesInNat
<1>5. NewFrame(argv, base) \in FrameSet /\ NewFrame(argv, base).locals = ls
  BY <1>1, <1>3, <1>4 DEF FrameSet
<1>6. ASSUME NEW o \in Object  PROVE Occurrences(o, ls) = Occurrences(o, argv)
  <2>1. Spots(o, ls) = Spots(o, argv)
    BY <1>2, SizesInNat, UnitIsNotAnObject DEF Spots
  <2>2. Occurrences(o, ls) = Cardinality(Spots(o, ls))  BY DEF Occurrences, Spots
  <2>3. Occurrences(o, argv) = Cardinality(Spots(o, argv))
    BY DEF Occurrences, Spots
  <2>4. QED  BY <2>1, <2>2, <2>3
<1>7. QED  BY <1>5, <1>6

\* The arguments move from the operands into the locals.
LEMMA EnterKeeps ==
  ASSUME IInv, NEW n \in Nat, Executes(n), NEW argv \in Seq(Value),
         Enter(argv, n), HeapOK(heap, Kind)',
         \A o \in Object :
           Spare(heap', o) = Spare(heap, o) - Occurrences(o, Top(n))
                             + Occurrences(o, argv)
  PROVE  KeptAll
<1> DEFINE fr == NewFrame(argv, Len(stack) - n)
<1>1. /\ Len(frames) < MaxFrames /\ Len(argv) <= NumLocals
      /\ Len(stack) - n + NumLocals * (Len(frames) + 1) <= MaxSlots
      /\ frames' = Append(frames, fr) /\ frame' = Len(frames')
      /\ stack' = Below(n) /\ UNCHANGED <<exception, unhandled, finished>>
      /\ frames # <<>> /\ n <= Own
  BY DEF Enter, Executes
<1>2. /\ n <= Len(stack) /\ Len(stack) \in Nat /\ Below(n) \in Seq(Value)
      /\ \A o \in Object :
           /\ Occurrences(o, stack) = Occurrences(o, Below(n))
                                      + Occurrences(o, Top(n))
           /\ Occurrences(o, Below(n)) \in Nat
           /\ Occurrences(o, Top(n)) \in Nat
  BY <1>1, OperandsOwned
<1>3. frames \in Seq(FrameSet) /\ Len(frames) \in Nat  BY DEF IInv, Machine
<1>4. Len(stack) - n \in 0..MaxSlots
  <2> DEFINE k == NumLocals * (Len(frames) + 1)
  <2>1. k \in Nat  BY <1>3, SizesInNat, NotNegative
  <2>2. Len(stack) - n + k <= MaxSlots  BY <1>1
  <2> HIDE DEF k
  <2>3. QED  BY <1>2, <2>1, <2>2, SizesInNat
<1>5. /\ fr \in FrameSet
      /\ \A o \in Object : Occurrences(o, fr.locals) = Occurrences(o, argv)
  BY <1>1, <1>4, NewFrameHolds
<1> HIDE DEF fr
<1>6. /\ frames' \in Seq(FrameSet) /\ Len(frames') = Len(frames) + 1
      /\ \A o : InFrames(frames', o) = InFrames(frames, o)
                                       + Occurrences(o, fr.locals)
  BY <1>1, <1>3, <1>5, AppendProperties, FramesPush
<1>7. Machine'
  <2>1. Len(frames') <= MaxFrames /\ frame' \in 0..MaxFrames
    BY <1>1, <1>3, <1>6, SizesInNat
  <2>2. QED  BY <1>1, <1>2, <1>6, <2>1 DEF Machine, IInv
<1>8. ASSUME NEW o \in Object  PROVE Lost(o)' = Lost(o)
  <2>1. Pending(exception', unhandled', o) = Pending(exception, unhandled, o)
    BY <1>1
  <2>2. Occurrences(o, stack') = Occurrences(o, stack) - Occurrences(o, Top(n))
    BY <1>1, <1>2
  <2>3. InFrames(frames', o) = InFrames(frames, o) + Occurrences(o, argv)
    BY <1>5, <1>6
  <2>4. /\ Lost(o)' = Lost(o) + (Spare(heap', o) - Spare(heap, o))
                      + (Occurrences(o, stack) - Occurrences(o, stack'))
                      + (InFrames(frames, o) - InFrames(frames', o))
                      + (Pending(exception, unhandled, o)
                         - Pending(exception', unhandled', o))
        /\ Lost(o) \in Int /\ Spare(heap, o) \in Int
        /\ Occurrences(o, stack) \in Nat /\ InFrames(frames, o) \in Nat
        /\ Pending(exception, unhandled, o) \in Nat
    BY <1>7, Ledger
  <2>5. Occurrences(o, argv) \in Nat /\ Occurrences(o, Top(n)) \in Nat
    BY <1>2, OccType
  <2>6. Spare(heap', o) = Spare(heap, o) - Occurrences(o, Top(n))
                          + Occurrences(o, argv)
    OBVIOUS
  <2>7. QED  BY SMTT(30), <2>1, <2>2, <2>3, <2>4, <2>5, <2>6
<1>9. QED  BY <1>7, <1>8 DEF KeptAll

LEMMA CallKeeps ==
  ASSUME IInv, Call  PROVE KeptAll
<1>1. PICK n \in 0..NumLocals : Executes(n) /\ Enter(Top(n), n) /\ UNCHANGED heap
  BY DEF Call
<1>2. n \in Nat  BY SizesInNat
<1>3. /\ Top(n) \in Seq(Value)
      /\ \A o \in Object : Occurrences(o, Top(n)) \in Nat
  BY <1>1, <1>2, OperandsOwned DEF Executes
<1>4. HeapOK(heap, Kind)'  BY <1>1 DEF IInv
<1>5. ASSUME NEW o \in Object
      PROVE  Spare(heap', o) = Spare(heap, o) - Occurrences(o, Top(n))
                               + Occurrences(o, Top(n))
  <2>1. Spare(heap, o) \in Int  BY HeldType DEF IInv, HeapOK
  <2>2. QED  BY <1>1, <1>3, <2>1
<1>6. QED  BY <1>1, <1>2, <1>3, <1>4, <1>5, EnterKeeps

\* The operands of a dynamic call: the arguments and, on top, the closure.
LEMMA ClosureOnTop ==
  ASSUME IInv, NEW n \in Nat, Executes(n + 1)
  PROVE  /\ SubSeq(Top(n + 1), 1, n) \in Seq(Value)
         /\ \A o \in Object :
              Occurrences(o, Top(n + 1))
                = Occurrences(o, SubSeq(Top(n + 1), 1, n))
                  + One(o, stack[Len(stack)])
<1> DEFINE T == Top(n + 1)
<1>1. /\ T \in Seq(Value) /\ Len(T) = n + 1 /\ Len(stack) \in Nat
      /\ \A i \in 1..(n + 1) : T[i] = stack[Len(stack) - (n + 1) + i]
  BY OperandsOwned DEF Executes
<1>2. T[n + 1] = stack[Len(stack)]
  <2>1. Len(stack) - (n + 1) + (n + 1) = Len(stack)  BY <1>1
  <2>2. QED  BY <1>1, <2>1
<1> HIDE DEF T
<1>3. Len(T) - 1 = n /\ 1 \in 0..Len(T) /\ Len(T) - 1 + 1 = n + 1  BY <1>1
<1> DEFINE last == SubSeq(T, Len(T) - 1 + 1, Len(T))
<1>4. /\ SubSeq(T, 1, Len(T) - 1) \in Seq(Value)
      /\ last \in Seq(Value) /\ Len(last) = 1
      /\ \A i \in 1..1 : last[i] = T[Len(T) - 1 + i]
      /\ \A o : Occurrences(o, T) = Occurrences(o, SubSeq(T, 1, Len(T) - 1))
                                    + Occurrences(o, last)
  BY <1>1, <1>3, OccSplit
<1>5. last[1] = stack[Len(stack)]  BY <1>2, <1>3, <1>4
<1> HIDE DEF last
<1>6. last = <<stack[Len(stack)]>>  BY <1>4, <1>5
<1>7. \A o \in Object : Occurrences(o, last) = One(o, stack[Len(stack)])
  BY <1>6, OccSingle
<1>8. SubSeq(T, 1, Len(T) - 1) = SubSeq(T, 1, n)  BY <1>3
<1>9. QED  BY <1>4, <1>7, <1>8 DEF T

LEMMA DynamicCallKeeps ==
  ASSUME IInv, NEW f \in Function, DynamicCall(f)
  PROVE  Kept /\ (f # "value_of" /\ ~ unhandled' => KeptAll)
<1>1. PICK n \in 0..3 :
        /\ Executes(n + 1) /\ Is("closure", heap, stack[Len(stack)])
        /\ LET fn    == stack[Len(stack)]
               bound == heap.cell[fn].contents
               argv  == bound \o SubSeq(Top(n + 1), 1, n)
               held  == AdoptAll(heap, bound)
           IN  IF f = "bytecode"
               THEN Enter(argv, n + 1) /\ heap' = Release(held, fn)
               ELSE Invoke(f, argv, held, n + 1, <<fn>>)
  BY DEF DynamicCall
<1> DEFINE fn    == stack[Len(stack)]
<1> DEFINE bound == heap.cell[fn].contents
<1> DEFINE rest  == SubSeq(Top(n + 1), 1, n)
<1> DEFINE argv  == bound \o rest
<1> DEFINE held  == AdoptAll(heap, bound)
<1> DEFINE m     == n + 1
<1>2. /\ Executes(m) /\ m \in Nat /\ n \in Nat /\ fn \in Object /\ fn \in Value
      /\ f = "bytecode" => Enter(argv, m) /\ heap' = Release(held, fn)
      /\ f # "bytecode" => Invoke(f, argv, held, m, <<fn>>)
  BY <1>1 DEF Is, Value
<1>3. /\ rest \in Seq(Value)
      /\ \A o \in Object : Occurrences(o, Top(m)) = Occurrences(o, rest) + One(o, fn)
  BY <1>2, ClosureOnTop
<1>4. bound \in Seq(Value)  BY <1>2, HeldType DEF IInv, HeapOK
<1>5. \A o \in Object : Spare(heap, o) >= Occurrences(o, Top(m))
  BY <1>2, OperandsOwned DEF Executes, Owes
<1> HIDE DEF fn, m
<1>6. ASSUME NEW o \in Object, Occurrences(o, bound) > 0
      PROVE  heap.cell[o].count > 0
  <2>1. PICK i \in 1..Len(bound) : bound[i] = o  BY <1>4, <1>6, OccType
  <2>2. Spare(heap, o) >= 0
    <3>1. Spare(heap, o) \in Int  BY HeldType DEF IInv, HeapOK
    <3>2. Occurrences(o, rest) \in Nat /\ One(o, fn) \in Nat
      BY <1>3, OccType DEF One
    <3>3. QED  BY <1>3, <1>5, <3>1, <3>2
  <2>3. heap \in Heaps(Kind)  BY DEF IInv, HeapOK
  <2>4. QED  BY <1>2, <2>1, <2>2, <2>3, HeldIsCounted
<1> HIDE DEF bound, rest
<1>7. /\ HeapOK(held, Kind)
      /\ \A o \in Object : Spare(held, o) = Spare(heap, o) + Occurrences(o, bound)
  BY <1>4, <1>6, AdoptStep DEF IInv
<1>8. /\ argv \in Seq(Value)
      /\ \A o \in Object :
           Occurrences(o, argv) = Occurrences(o, bound) + Occurrences(o, rest)
  BY <1>3, <1>4, ConcatProperties, OccConcat
<1> HIDE DEF argv, held
<1>9. ASSUME NEW o \in Object
      PROVE  /\ Spare(heap, o) \in Int /\ Occurrences(o, bound) \in Nat
             /\ Occurrences(o, rest) \in Nat /\ One(o, fn) \in Nat
  <2>1. Spare(heap, o) \in Int  BY HeldType DEF IInv, HeapOK
  <2>2. Occurrences(o, bound) \in Nat /\ Occurrences(o, rest) \in Nat
    BY <1>3, <1>4, OccType
  <2>3. QED  BY <2>1, <2>2 DEF One
<1>10. ASSUME NEW o \in Object
       PROVE  /\ Spare(held, o) >= Occurrences(o, argv)
              /\ Spare(held, o) >= One(o, fn)
              /\ Spare(held, o) - One(o, fn)
                   = Spare(heap, o) - Occurrences(o, Top(m)) + Occurrences(o, argv)
              /\ Spare(held, o)
                   = Spare(heap, o) - Occurrences(o, Top(m)) + Occurrences(o, argv)
                     + One(o, fn)
  BY <1>3, <1>5, <1>7, <1>8, <1>9
<1>11. CASE f = "bytecode"
  <2>1. Enter(argv, m) /\ heap' = Release(held, fn)  BY <1>2, <1>11
  <2>2. /\ HeapOK(heap', Kind)
        /\ \A o \in Object : Spare(heap', o) = Spare(held, o) - One(o, fn)
    BY <1>2, <1>7, <1>10, <2>1, ReleaseOne
  <2>3. \A o \in Object :
          Spare(heap', o) = Spare(heap, o) - Occurrences(o, Top(m))
                            + Occurrences(o, argv)
    BY <1>10, <2>2
  <2>4. KeptAll  BY <1>2, <1>8, <2>1, <2>2, <2>3, EnterKeeps
  <2>5. Kept
    <3>1. \A o \in Object : Lost(o)' >= Lost(o)
      BY <2>4, Ledger DEF KeptAll
    <3>2. QED  BY <2>4, <3>1 DEF Kept, KeptAll
  <2>6. QED  BY <2>4, <2>5
<1>12. CASE f # "bytecode"
  <2>1. f \in Native  BY <1>12 DEF Function
  <2>2. Owes(held, argv)  BY <1>7, <1>8, <1>10 DEF Owes
  <2> DEFINE after == <<fn>>
  <2>3. /\ after \in Seq(Value)
        /\ \A o \in Object : Occurrences(o, after) = One(o, fn)
    BY <1>2, OccSingle
  <2>4. Invoke(f, argv, held, m, after)  BY <1>2, <1>12
  <2> HIDE DEF after
  <2>5. \A o \in Object :
          Spare(held, o) = Spare(heap, o) - Occurrences(o, Top(m))
                           + Occurrences(o, argv) + Occurrences(o, after)
    BY <1>10, <2>3
  <2>6. QED  BY <1>2, <2>1, <2>2, <2>3, <2>4, <2>5, InvokeKeeps
<1>13. QED  BY <1>11, <1>12

\* exit_current_frame gives up the locals of the frame.
LEMMA ExitKeeps ==
  ASSUME IInv, frames # <<>>, heap' = ReleaseAll(heap, Current.locals),
         frames' = Callers, frame' \in 0..MaxFrames,
         UNCHANGED <<stack, exception, unhandled, finished>>
  PROVE  KeptAll
<1> DEFINE ls == Current.locals
<1>1. frames \in Seq(FrameSet) /\ Len(frames) <= MaxFrames /\ Len(frames) \in Nat
  BY DEF IInv, Machine
<1>2. /\ frames' \in Seq(FrameSet) /\ Len(frames') = Len(frames) - 1
      /\ Current \in FrameSet
      /\ \A o : InFrames(frames, o) = InFrames(frames', o) + Occurrences(o, ls)
  BY <1>1, FramesPop DEF Callers, Current
<1>3. ls \in Seq(Value)
  <2>1. ls \in [1..NumLocals -> Value]  BY <1>2 DEF FrameSet
  <2>2. QED  BY <2>1, LocalsAreASequence
<1> HIDE DEF ls
<1>4. \A o \in Object : InFrames(frames', o) \in Nat /\ Occurrences(o, ls) \in Nat
  BY <1>2, <1>3, FramesType, OccType
<1>5. ASSUME NEW o \in Object  PROVE Spare(heap, o) >= Occurrences(o, ls)
  <2>1. /\ Lost(o) = Spare(heap, o) - Occurrences(o, stack)
                     - InFrames(frames, o) - InLiterals(o)
                     - Pending(exception, unhandled, o)
        /\ Spare(heap, o) \in Int /\ Occurrences(o, stack) \in Nat
        /\ InFrames(frames, o) \in Nat /\ InLiterals(o) \in Nat
        /\ Pending(exception, unhandled, o) \in Nat
    BY LostIs DEF IInv
  <2>2. Lost(o) >= 0  BY DEF IInv, CountsCover
  <2>3. InFrames(frames, o) >= Occurrences(o, ls)  BY <1>2, <1>4
  <2>4. Occurrences(o, ls) \in Nat  BY <1>4
  <2>5. QED  BY <2>1, <2>2, <2>3, <2>4
<1>6. Owes(heap, ls)  BY <1>3, <1>5 DEF Owes, IInv
<1>7. /\ HeapOK(heap', Kind)
      /\ \A o \in Object : Spare(heap', o) = Spare(heap, o) - Occurrences(o, ls)
  BY <1>6, ReleaseOwed DEF ls
<1>8. Machine'
  <2>1. Len(frames') <= MaxFrames  BY <1>1, <1>2, SizesInNat
  <2>2. QED  BY <1>2, <2>1 DEF Machine, IInv
<1>9. ASSUME NEW o \in Object  PROVE Lost(o)' = Lost(o)
  <2>1. /\ Pending(exception', unhandled', o) = Pending(exception, unhandled, o)
        /\ Occurrences(o, stack') = Occurrences(o, stack)
    OBVIOUS
  <2>2. /\ Lost(o)' = Lost(o) + (Spare(heap', o) - Spare(heap, o))
                      + (Occurrences(o, stack) - Occurrences(o, stack'))
                      + (InFrames(frames, o) - InFrames(frames', o))
                      + (Pending(exception, unhandled, o)
                         - Pending(exception', unhandled', o))
        /\ Lost(o) \in Int /\ Spare(heap, o) \in Int
        /\ Occurrences(o, stack) \in Nat /\ InFrames(frames, o) \in Nat
        /\ Pending(exception, unhandled, o) \in Nat
    BY <1>7, <1>8, Ledger
  <2>3. /\ Spare(heap', o) = Spare(heap, o) - Occurrences(o, ls)
        /\ InFrames(frames, o) = InFrames(frames', o) + Occurrences(o, ls)
        /\ InFrames(frames', o) \in Nat /\ Occurrences(o, ls) \in Nat
    BY <1>2, <1>4, <1>7
  <2>4. QED  BY SMTT(30), <2>1, <2>2, <2>3
<1>10. QED  BY <1>7, <1>8, <1>9 DEF KeptAll

LEMMA ReturnKeeps ==
  ASSUME IInv, Return  PROVE KeptAll
<1>1. /\ frames # <<>> /\ heap' = ReleaseAll(heap, Current.locals)
      /\ frames' = Callers /\ frame' = Len(frames')
      /\ UNCHANGED <<stack, exception, unhandled, finished>>
  BY DEF Return, Executes
<1>2. frames \in Seq(FrameSet) /\ Len(frames) <= MaxFrames /\ Len(frames) \in Nat
  BY DEF IInv, Machine
<1>3. frames' \in Seq(FrameSet) /\ Len(frames') = Len(frames) - 1
  BY <1>1, <1>2, FramesPop DEF Callers
<1>4. Len(frames') \in Nat  BY <1>3
<1>5. frame' \in 0..MaxFrames  BY <1>1, <1>2, <1>3, <1>4, SizesInNat
<1>6. QED  BY <1>1, <1>5, ExitKeeps

LEMMA UnwindKeeps ==
  ASSUME IInv, Unwind  PROVE KeptAll
<1>1. /\ frames # <<>> /\ heap' = ReleaseAll(heap, Current.locals)
      /\ frames' = Callers
      /\ UNCHANGED <<stack, frame, exception, unhandled, finished>>
  BY DEF Unwind
<1>2. frame' \in 0..MaxFrames  BY <1>1 DEF IInv, Machine
<1>3. QED  BY <1>1, <1>2, ExitKeeps

\* Opening and closing "try" blocks moves no reference.
LEMMA TryKeeps ==
  ASSUME IInv, TryPush \/ TryPop  PROVE KeptAll
<1> DEFINE d == Len(frames)
<1>1. /\ frames # <<>> /\ 0 <= Own
      /\ UNCHANGED <<heap, stack, frame, exception, unhandled, finished>>
  BY DEF TryPush, TryPop, Executes
<1>2. /\ d \in Nat \ {0} /\ d \in 1..Len(frames) /\ Current \in FrameSet
      /\ frames \in Seq(FrameSet) /\ d \in DOMAIN frames
  BY <1>1, OperandsOwned DEF IInv, Machine
<1>3. Current.tries \in 0..MaxTries  BY <1>2 DEF FrameSet
<1>4. PICK t \in 0..MaxTries : frames' = WithTries(frames, d, t)
  <2>1. CASE TryPush
    <3>1. frames' = [frames EXCEPT ![d].tries = @ + 1] /\ frames[d].tries < MaxTries
      BY <1>2, <2>1 DEF TryPush
    <3>2. frames' = WithTries(frames, d, frames[d].tries + 1)
      BY <3>1 DEF WithTries
    <3>3. frames[d].tries + 1 \in 0..MaxTries
      BY <1>3, <3>1, SizesInNat DEF Current
    <3>4. QED  BY <3>2, <3>3
  <2>2. CASE TryPop
    <3>1. frames' = [frames EXCEPT ![d].tries = @ - 1] /\ frames[d].tries > 0
      BY <2>2 DEF TryPop, Current
    <3>2. frames' = WithTries(frames, d, frames[d].tries - 1)
      BY <3>1 DEF WithTries
    <3>3. frames[d].tries - 1 \in 0..MaxTries
      BY SMTT(30), <1>3, <3>1, SizesInNat DEF Current
    <3>4. QED  BY <3>2, <3>3
  <2>3. QED  BY <2>1, <2>2
<1> HIDE DEF d
<1>5. /\ frames' \in Seq(FrameSet) /\ Len(frames') = Len(frames)
      /\ \A o : InFrames(frames', o) = InFrames(frames, o)
  BY <1>2, <1>4, FramesTry
<1>6. Machine' /\ HeapOK(heap, Kind)'  BY <1>1, <1>5 DEF Machine, IInv
<1>7. ASSUME NEW o \in Object  PROVE Lost(o)' = Lost(o)
  <2>1. /\ Spare(heap', o) = Spare(heap, o)
        /\ Occurrences(o, stack') = Occurrences(o, stack)
        /\ InFrames(frames', o) = InFrames(frames, o)
        /\ Pending(exception', unhandled', o) = Pending(exception, unhandled, o)
    BY <1>1, <1>5
  <2>2. QED  BY <1>6, <2>1, Ledger
<1>8. QED  BY <1>6, <1>7 DEF KeptAll

\* OP_THROW: the operand moves into vm->exception.
LEMMA ThrowKeeps ==
  ASSUME IInv, Throw  PROVE KeptAll
<1> DEFINE v == stack[Len(stack)]
<1>1. /\ Executes(1) /\ exception' = v /\ unhandled' = TRUE
      /\ stack' = Below(1) /\ UNCHANGED <<heap, frames, frame, finished>>
      /\ ~ unhandled /\ frames # <<>> /\ 1 <= Own
  BY DEF Throw, Executes
<1>2. /\ Below(1) \in Seq(Value) /\ v \in Value
      /\ \A o \in Object : /\ Occurrences(o, stack) = Occurrences(o, Below(1))
                                                      + One(o, v)
                           /\ Occurrences(o, Below(1)) \in Nat
  BY <1>1, OperandsOwned, TopOne
<1> HIDE DEF v
<1>3. Machine' /\ HeapOK(heap, Kind)'  BY <1>1, <1>2 DEF Machine, IInv
<1>4. ASSUME NEW o \in Object  PROVE Lost(o)' = Lost(o)
  <2>1. /\ Pending(exception, unhandled, o) = 0
        /\ Pending(exception', unhandled', o) = One(o, v)
    BY <1>1 DEF Pending, One
  <2>2. /\ Lost(o)' = Lost(o) + (Spare(heap', o) - Spare(heap, o))
                      + (Occurrences(o, stack) - Occurrences(o, stack'))
                      + (InFrames(frames, o) - InFrames(frames', o))
                      + (Pending(exception, unhandled, o)
                         - Pending(exception', unhandled', o))
        /\ Lost(o) \in Int /\ Spare(heap, o) \in Int
        /\ Occurrences(o, stack) \in Nat /\ InFrames(frames, o) \in Nat
    BY <1>3, Ledger
  <2>3. /\ Spare(heap', o) = Spare(heap, o)
        /\ InFrames(frames', o) = InFrames(frames, o)
        /\ Occurrences(o, stack') = Occurrences(o, Below(1))
    BY <1>1
  <2>4. One(o, v) \in Nat  BY DEF One
  <2>5. QED  BY <1>2, <2>1, <2>2, <2>3, <2>4
<1>5. QED  BY <1>3, <1>4 DEF KeptAll

\* The n topmost values, without regard to whose operands they are.
LEMMA StackOwed ==
  ASSUME IInv, NEW n \in 0..Len(stack)
  PROVE  /\ Below(n) \in Seq(Value) /\ Top(n) \in Seq(Value) /\ Len(Top(n)) = n
         /\ \A o \in Object :
              /\ Occurrences(o, stack) = Occurrences(o, Below(n))
                                         + Occurrences(o, Top(n))
              /\ Occurrences(o, Below(n)) \in Nat
              /\ Occurrences(o, Top(n)) \in Nat
         /\ Owes(heap, Top(n))
<1>1. stack \in Seq(Value)  BY DEF IInv, Machine
<1>2. /\ Below(n) \in Seq(Value) /\ Top(n) \in Seq(Value) /\ Len(Top(n)) = n
      /\ \A o : Occurrences(o, stack) = Occurrences(o, Below(n))
                                        + Occurrences(o, Top(n))
  BY <1>1, OccSplit DEF Below, Top
<1>3. \A o \in Object : /\ Occurrences(o, Below(n)) \in Nat
                        /\ Occurrences(o, Top(n)) \in Nat
  BY <1>2, OccType
<1>4. ASSUME NEW o \in Object  PROVE Spare(heap, o) >= Occurrences(o, Top(n))
  <2>1. Lost(o) >= 0  BY DEF IInv, CountsCover
  <2>2. /\ Lost(o) = Spare(heap, o) - Occurrences(o, stack)
                     - InFrames(frames, o) - InLiterals(o)
                     - Pending(exception, unhandled, o)
        /\ Spare(heap, o) \in Int /\ Occurrences(o, stack) \in Nat
        /\ InFrames(frames, o) \in Nat /\ InLiterals(o) \in Nat
        /\ Pending(exception, unhandled, o) \in Nat
    BY LostIs DEF IInv
  <2>3. Spare(heap, o) >= Occurrences(o, stack)  BY <2>1, <2>2
  <2>4. Occurrences(o, stack) >= Occurrences(o, Top(n))  BY <1>2, <1>3
  <2>5. QED  BY <1>3, <2>2, <2>3, <2>4
<1>5. Owes(heap, Top(n))  BY <1>2, <1>4 DEF Owes, IInv
<1>6. QED  BY <1>2, <1>3, <1>5

\* handle_exception: the exception is adopted for the stack, and its reference
\* in vm->exception is never given up.
LEMMA CatchKeeps ==
  ASSUME IInv, Catch  PROVE Kept
<1> DEFINE d == Len(frames)
<1>1. /\ unhandled /\ frames # <<>> /\ frames[d].tries > 0
      /\ stack' = Append(Below(0), exception)
      /\ heap' = Adopt(heap, exception)
      /\ frames' = [frames EXCEPT ![d].tries = @ - 1]
      /\ unhandled' = FALSE /\ exception' = Unit
      /\ UNCHANGED <<frame, finished>>
  BY DEF Catch, Replace, Current
<1>2. /\ frames \in Seq(FrameSet) /\ stack \in Seq(Value) /\ exception \in Value
      /\ frame \in 0..MaxFrames /\ finished \in BOOLEAN /\ Len(frames) <= MaxFrames
  BY DEF IInv, Machine
<1>3. d \in 1..Len(frames) /\ frames[d] \in FrameSet
  <2>1. d \in Nat \ {0}  BY <1>1, <1>2, EmptySeq
  <2>2. QED  BY <1>2, <2>1, ElementOfSeq
<1>4. PICK t \in 0..MaxTries : frames' = WithTries(frames, d, t)
  <2>1. frames' = WithTries(frames, d, frames[d].tries - 1)
    BY <1>1 DEF WithTries
  <2>2. frames[d].tries \in 0..MaxTries  BY <1>3 DEF FrameSet
  <2>3. frames[d].tries - 1 \in 0..MaxTries  BY <1>1, <2>2, SizesInNat
  <2>4. QED  BY <2>1, <2>3
<1> HIDE DEF d
<1>5. /\ frames' \in Seq(FrameSet) /\ Len(frames') = Len(frames)
      /\ \A o : InFrames(frames', o) = InFrames(frames, o)
  BY <1>2, <1>3, <1>4, FramesTry
<1>6. /\ Below(0) \in Seq(Value)
      /\ \A o \in Object : /\ Occurrences(o, stack) = Occurrences(o, Below(0))
                           /\ Occurrences(o, Below(0)) \in Nat
  <2>1. 0 \in 0..Len(stack)  BY <1>2, LenProperties
  <2>2. /\ Below(0) \in Seq(Value) /\ Top(0) \in Seq(Value) /\ Len(Top(0)) = 0
        /\ \A o \in Object :
             /\ Occurrences(o, stack) = Occurrences(o, Below(0))
                                        + Occurrences(o, Top(0))
             /\ Occurrences(o, Below(0)) \in Nat
    BY <2>1, StackOwed
  <2>3. Top(0) = <<>>  BY <2>2, EmptySeq
  <2>4. \A o \in Object : Occurrences(o, Top(0)) = 0  BY <2>3, OccEmpty
  <2>5. QED  BY <2>2, <2>4
<1>7. /\ stack' \in Seq(Value)
      /\ \A o : Occurrences(o, stack') = Occurrences(o, Below(0))
                                         + One(o, exception)
  BY <1>1, <1>2, <1>6, AppendProperties, OccAppend
<1>8. /\ HeapOK(heap', Kind)
      /\ \A o \in Object : Spare(heap', o) = Spare(heap, o) + One(o, exception)
  BY <1>1, <1>2, HolderCounts, AdoptOne DEF IInv
<1>9. Machine'  BY <1>1, <1>2, <1>5, <1>7 DEF Machine, Value
<1>10. ASSUME NEW o \in Object  PROVE Lost(o)' >= Lost(o)
  <2>1. /\ Pending(exception, unhandled, o) = One(o, exception)
        /\ Pending(exception', unhandled', o) = 0
    BY <1>1 DEF Pending, One
  <2>2. /\ Lost(o)' = Lost(o) + (Spare(heap', o) - Spare(heap, o))
                      + (Occurrences(o, stack) - Occurrences(o, stack'))
                      + (InFrames(frames, o) - InFrames(frames', o))
                      + (Pending(exception, unhandled, o)
                         - Pending(exception', unhandled', o))
        /\ Lost(o) \in Int /\ Spare(heap, o) \in Int
        /\ Occurrences(o, stack) \in Nat /\ InFrames(frames, o) \in Nat
    BY <1>8, <1>9, Ledger
  <2>3. /\ Spare(heap', o) = Spare(heap, o) + One(o, exception)
        /\ InFrames(frames', o) = InFrames(frames, o)
        /\ Occurrences(o, stack') = Occurrences(o, stack) + One(o, exception)
    BY <1>5, <1>6, <1>7, <1>8
  <2>4. One(o, exception) \in Nat  BY DEF One
  <2>5. QED  BY <2>1, <2>2, <2>3, <2>4
<1>11. QED  BY <1>8, <1>9, <1>10 DEF Kept

LEMMA RunDeleterKeeps ==
  ASSUME IInv, RunDeleter  PROVE KeptAll
<1>1. PICK p \in heap.dying :
        /\ heap' = Destroy(heap, p)
        /\ UNCHANGED <<stack, frames, frame, exception, unhandled, finished>>
  BY DEF RunDeleter
<1>2. ASSUME NEW o \in Object  PROVE Spare(heap, o) >= 0
  <2>1. /\ Lost(o) = Spare(heap, o) - Occurrences(o, stack)
                     - InFrames(frames, o) - InLiterals(o)
                     - Pending(exception, unhandled, o)
        /\ Spare(heap, o) \in Int /\ Occurrences(o, stack) \in Nat
        /\ InFrames(frames, o) \in Nat /\ InLiterals(o) \in Nat
        /\ Pending(exception, unhandled, o) \in Nat
    BY LostIs DEF IInv
  <2>2. Lost(o) >= 0  BY DEF IInv, CountsCover
  <2>3. QED  BY <2>1, <2>2
<1>3. "free" \in Kind  BY DEF Kind
<1>4. /\ HeapOK(heap', Kind)
      /\ \A o \in Object : Spare(heap', o) = Spare(heap, o)
  BY <1>1, <1>2, <1>3, DestroyStep DEF IInv
<1>5. Machine'  BY <1>1 DEF Machine, IInv
<1>6. ASSUME NEW o \in Object  PROVE Lost(o)' = Lost(o)
  <2>1. /\ Spare(heap', o) = Spare(heap, o)
        /\ Occurrences(o, stack') = Occurrences(o, stack)
        /\ InFrames(frames', o) = InFrames(frames, o)
        /\ Pending(exception', unhandled', o) = Pending(exception, unhandled, o)
    BY <1>1, <1>4
  <2>2. QED  BY <1>4, <1>5, <2>1, Ledger
<1>7. QED  BY <1>4, <1>5, <1>6 DEF KeptAll

LEMMA FinishKeeps ==
  ASSUME IInv, Finish  PROVE KeptAll
<1>1. /\ stack # <<>> /\ stack' = Below(1) /\ heap' = ReleaseAll(heap, Top(1))
      /\ finished' = TRUE /\ UNCHANGED <<frames, frame, exception, unhandled>>
  BY DEF Finish
<1>2. 1 \in 0..Len(stack)
  <2>1. stack \in Seq(Value)  BY DEF IInv, Machine
  <2>2. Len(stack) \in Nat \ {0}  BY <1>1, <2>1, EmptySeq
  <2>3. QED  BY <2>2
<1>3. /\ Below(1) \in Seq(Value) /\ Owes(heap, Top(1))
      /\ \A o \in Object : /\ Occurrences(o, stack) = Occurrences(o, Below(1))
                                                      + Occurrences(o, Top(1))
                           /\ Occurrences(o, Below(1)) \in Nat
                           /\ Occurrences(o, Top(1)) \in Nat
  BY <1>2, StackOwed
<1>4. /\ HeapOK(heap', Kind)
      /\ \A o \in Object :
           Spare(heap', o) = Spare(heap, o) - Occurrences(o, Top(1))
  BY <1>1, <1>3, ReleaseOwed
<1>5. Machine'  BY <1>1, <1>3 DEF Machine, IInv
<1>6. ASSUME NEW o \in Object  PROVE Lost(o)' = Lost(o)
  <2>1. /\ InFrames(frames', o) = InFrames(frames, o)
        /\ Pending(exception', unhandled', o) = Pending(exception, unhandled, o)
        /\ Occurrences(o, stack') = Occurrences(o, Below(1))
    BY <1>1
  <2>2. /\ Lost(o)' = Lost(o) + (Spare(heap', o) - Spare(heap, o))
                      + (Occurrences(o, stack) - Occurrences(o, stack'))
                      + (InFrames(frames, o) - InFrames(frames', o))
                      + (Pending(exception, unhandled, o)
                         - Pending(exception', unhandled', o))
        /\ Lost(o) \in Int /\ Spare(heap, o) \in Int
        /\ InFrames(frames, o) \in Nat
        /\ Pending(exception, unhandled, o) \in Nat
    BY <1>4, <1>5, Ledger
  <2>3. QED  BY <1>3, <1>4, <2>1, <2>2
<1>7. QED  BY <1>4, <1>5, <1>6 DEF KeptAll

-----------------------------------------------------------------------------
(* The machine as a whole.                                                  *)

LEMMA KeptAllIsKept == IInv /\ KeptAll => Kept
<1> SUFFICES ASSUME IInv, KeptAll  PROVE Kept
  OBVIOUS
<1>1. HeapOK(heap, Kind)' /\ Machine'  BY DEF KeptAll
<1>2. ASSUME NEW o \in Object  PROVE Lost(o)' >= Lost(o)
  <2>1. Lost(o)' = Lost(o)  BY DEF KeptAll
  <2>2. Lost(o) \in Int  BY <1>1, Ledger
  <2>3. QED  BY <2>1, <2>2
<1>3. QED  BY <1>1, <1>2 DEF Kept

\* Each step keeps what is counted, and loses references where it may.
LEMMA StepKeeps ==
  ASSUME IInv, [Next]_vars
  PROVE  /\ Kept
         /\ \/ unhandled \/ unhandled' \/ KeptAll
            \/ Truth \/ CallNative("value_of") \/ DynamicCall("value_of")
<1>1. CASE \/ PushScalar \/ PushConst \/ PushLocal \/ Dup \/ Del \/ StoreLocal
           \/ Arithmetic \/ JumpIf \/ IsNull \/ Concat \/ Bind \/ NewObject
           \/ Call \/ Return \/ TryPush \/ TryPop \/ Throw
  <2>1. KeptAll
    BY <1>1, PushesKeep, DelKeeps, StoreLocalKeeps, ArithmeticKeeps, JumpIfKeeps,
       IsNullKeeps, ConcatKeeps, BindKeeps, NewObjectKeeps, CallKeeps,
       ReturnKeeps, TryKeeps, ThrowKeeps
  <2>2. QED  BY <2>1, KeptAllIsKept
<1>2. CASE Truth  BY <1>2, TruthKeeps
<1>3. ASSUME NEW f \in Native, CallNative(f)
      PROVE  Kept /\ (\/ unhandled' \/ KeptAll \/ CallNative("value_of"))
  BY <1>3, CallNativeKeeps
<1>4. ASSUME NEW f \in Function, DynamicCall(f)
      PROVE  Kept /\ (\/ unhandled' \/ KeptAll \/ DynamicCall("value_of"))
  BY <1>4, DynamicCallKeeps
<1>5. CASE Unwind \/ RunDeleter \/ Finish
  BY <1>5, UnwindKeeps, RunDeleterKeeps, FinishKeeps, KeptAllIsKept
<1>6. CASE Catch
  <2>1. unhandled  BY <1>6 DEF Catch
  <2>2. QED  BY <1>6, <2>1, CatchKeeps
<1>7. CASE UNCHANGED vars
  <2>1. HeapOK(heap, Kind)' /\ Machine'  BY <1>7 DEF vars, IInv, Machine
  <2>2. ASSUME NEW o \in Object  PROVE Lost(o)' = Lost(o)
    <3>1. /\ Spare(heap', o) = Spare(heap, o)
          /\ Occurrences(o, stack') = Occurrences(o, stack)
          /\ InFrames(frames', o) = InFrames(frames, o)
          /\ Pending(exception', unhandled', o) = Pending(exception, unhandled, o)
      BY <1>7 DEF vars
    <3>2. QED  BY <2>1, <3>1, Ledger
  <2>3. KeptAll  BY <2>1, <2>2 DEF KeptAll
  <2>4. QED  BY <2>3, KeptAllIsKept
<1>8. QED
  <2>1. CASE Instruction  BY <1>1, <1>2, <1>3, <1>4, <2>1 DEF Instruction
  <2>2. QED  BY <1>5, <1>6, <1>7, <2>1 DEF Next

\* At first every literal has one reference, in the constant table.
LEMMA InitCounts == Init => IInv
<1> SUFFICES ASSUME Init  PROVE IInv
  OBVIOUS
<1> DEFINE fr == NewFrame(<<>>, 0)
<1>1. /\ heap = [cell  |-> [o \in Object |->
                              IF o \in Literal
                              THEN [kind |-> "str", count |-> 1, contents |-> <<>>]
                              ELSE NoCell],
                 dying |-> {}]
      /\ stack = <<>> /\ frames = <<fr>> /\ frame = 1
      /\ exception = Unit /\ unhandled = FALSE /\ finished = FALSE
  BY DEF Init
<1>2. <<>> \in Seq(Value) /\ <<>> \in Seq(FrameSet) /\ Len(<<>>) = 0  BY EmptySeq
<1>3. /\ fr \in FrameSet
      /\ \A o \in Object : Occurrences(o, fr.locals) = Occurrences(o, <<>>)
  <2> DEFINE nothing == <<>>
  <2>1. nothing \in Seq(Value) /\ Len(nothing) <= NumLocals /\ 0 \in 0..MaxSlots
    BY <1>2, SizesInNat
  <2> HIDE DEF nothing
  <2>2. /\ NewFrame(nothing, 0) \in FrameSet
        /\ \A o \in Object : Occurrences(o, NewFrame(nothing, 0).locals)
                               = Occurrences(o, nothing)
    BY <2>1, NewFrameHolds
  <2>3. QED  BY <2>2 DEF nothing
<1> HIDE DEF fr
<1>4. HeapOK(heap, Kind)
  <2>1. heap \in Heaps(Kind)  BY <1>1, <1>2 DEF Heaps, Kind, NoCell
  <2>2. WellKept(heap)  BY <1>1 DEF WellKept, Live, NoCell
  <2>3. QED  BY <2>1, <2>2 DEF HeapOK
<1>5. Machine
  <2>1. frames \in Seq(FrameSet) /\ Len(frames) = 1  BY <1>1, <1>3
  <2>2. 1 <= MaxFrames /\ 1 \in 0..MaxFrames  BY MainHasAFrame, SizesInNat
  <2>3. QED  BY <1>1, <1>2, <2>1, <2>2 DEF Machine, Value
<1>6. ASSUME NEW o \in Object  PROVE Lost(o) = 0
  <2>1. Occurrences(o, stack) = 0  BY <1>1, OccEmpty
  <2>2. InFrames(frames, o) = 0
    <3> DEFINE none == <<>>
    <3>1. frames = Append(none, fr) /\ none \in Seq(FrameSet)  BY <1>1, <1>2
    <3>2. InFrames(none, o) = 0
      <4>1. {l \in (DOMAIN none) \X (1..NumLocals) : none[l[1]].locals[l[2]] = o}
              = {}
        OBVIOUS
      <4>2. QED  BY <4>1, FS_EmptySet DEF InFrames
    <3>3. Occurrences(o, fr.locals) = 0  BY <1>3, OccEmpty
    <3> HIDE DEF none
    <3>4. InFrames(Append(none, fr), o) = InFrames(none, o)
                                          + Occurrences(o, fr.locals)
      BY <1>3, <3>1, FramesPush
    <3>5. QED  BY <3>1, <3>2, <3>3, <3>4
  <2>3. Pending(exception, unhandled, o) = 0  BY <1>1 DEF Pending
  <2>4. HeldInside(heap, o) = 0
    <3>1. \A c \in Object : {j \in DOMAIN heap.cell[c].contents :
                               heap.cell[c].contents[j] = o} = {}
      <4>1. \A c \in Object : heap.cell[c].contents = <<>>  BY <1>1 DEF NoCell
      <4>2. DOMAIN <<>> = {}  BY <1>2, LenProperties
      <4>3. QED  BY <4>1, <4>2
    <3>2. UNION {{<<c, i>> : i \in {j \in DOMAIN heap.cell[c].contents :
                                      heap.cell[c].contents[j] = o}} :
                   c \in Object} = {}
      BY <3>1
    <3>3. QED  BY <3>2, FS_EmptySet DEF HeldInside
  <2>5. heap.cell[o].count = InLiterals(o)
    BY <1>1, HoldersType DEF NoCell
  <2>6. /\ Lost(o) = Spare(heap, o) - Occurrences(o, stack)
                     - InFrames(frames, o) - InLiterals(o)
                     - Pending(exception, unhandled, o)
        /\ InLiterals(o) \in Nat
    BY <1>4, <1>5, LostIs
  <2>7. Spare(heap, o) = InLiterals(o)  BY <2>4, <2>5, <2>6 DEF Spare
  <2>8. QED  BY <2>1, <2>2, <2>3, <2>6, <2>7
<1>7. CountsCover  BY <1>6 DEF CountsCover
<1>8. QED  BY <1>4, <1>5, <1>7 DEF IInv

LEMMA StepCounts == IInv /\ [Next]_vars => IInv'
<1> SUFFICES ASSUME IInv, [Next]_vars  PROVE IInv'
  OBVIOUS
<1>1. HeapOK(heap, Kind)' /\ Machine' /\ \A o \in Object : Lost(o)' >= Lost(o)
  BY StepKeeps DEF Kept
<1>2. ASSUME NEW o \in Object  PROVE Lost(o)' >= 0
  <2>1. /\ Lost(o) >= 0 /\ Lost(o) \in Int
        /\ Lost(o)' = Lost(o) + (Spare(heap', o) - Spare(heap, o))
                      + (Occurrences(o, stack) - Occurrences(o, stack'))
                      + (InFrames(frames, o) - InFrames(frames', o))
                      + (Pending(exception, unhandled, o)
                         - Pending(exception', unhandled', o))
        /\ Spare(heap, o) \in Int /\ Spare(heap', o) \in Int
        /\ Occurrences(o, stack) \in Nat /\ Occurrences(o, stack') \in Nat
        /\ InFrames(frames, o) \in Nat /\ InFrames(frames', o) \in Nat
        /\ Pending(exception, unhandled, o) \in Nat
        /\ Pending(exception', unhandled', o) \in Nat
    BY <1>1, Ledger
  <2>2. Lost(o)' \in Int  BY <2>1
  <2>3. Lost(o)' >= Lost(o)  BY <1>1
  <2>4. QED  BY <2>1, <2>2, <2>3
<1>3. CountsCover'  BY <1>2 DEF CountsCover
<1>4. QED  BY <1>1, <1>3 DEF IInv

LEMMA AlwaysCounted == Spec => []IInv
BY InitCounts, StepCounts, PTL DEF Spec

\* Whatever the program: counts, frames, stack and exception keep to their
\* domains, and a count is zero only for what is free or about to be.
THEOREM InterpreterTyped == Spec => []TypeOK
<1>1. IInv => TypeOK
  <2> SUFFICES ASSUME IInv  PROVE TypeOK
    OBVIOUS
  <2>1. heap \in Heaps(Kind) /\ WellKept(heap) /\ Machine  BY DEF IInv, HeapOK
  <2>2. heap \in [cell  : [Object -> [kind : Kind, count : Nat,
                                      contents : Seq(Value)]],
                  dying : SUBSET Object]
    BY <2>1 DEF Heaps
  <2>3. \A o \in Object :
          heap.cell[o].count = 0 <=> (~ Live(heap, o) \/ o \in heap.dying)
    BY <2>1 DEF WellKept
  <2>4. QED  BY <2>1, <2>2, <2>3 DEF TypeOK, Machine, FrameSet
<1>2. QED  BY <1>1, AlwaysCounted, PTL

\* An object's count covers all who will decrement it, in any order.
THEOREM CountsSuffice == Spec => []CountsCover
<1>1. IInv => CountsCover  BY DEF IInv
<1>2. QED  BY <1>1, AlwaysCounted, PTL

\* The VM never frees an object while the stack, a local, an element, a bound
\* argument, the constant table or the pending exception refers to it.
THEOREM NothingDangles == Spec => []NoDangling
<1>1. IInv => NoDangling
  <2> SUFFICES ASSUME IInv, NEW o \in Object, Holders(o) > 0
               PROVE  Live(heap, o)
    BY DEF NoDangling
  <2>1. heap.cell[o].count > 0  BY HeldHasCount
  <2>2. heap.cell[o].count = 0 <=> (~ Live(heap, o) \/ o \in heap.dying)
    BY DEF IInv, HeapOK, WellKept
  <2>3. QED  BY <2>1, <2>2
<1>2. QED  BY <1>1, AlwaysCounted, PTL

\* Exceptions, OP_AND, OP_OR, OP_NOT and String.valueOf apart, no instruction
\* and no native function loses a reference.
THEOREM LeaksNowhereElse == Spec => LosesOnlyThere
<1>1. IInv /\ [Next]_vars =>
        [\/ unhandled \/ unhandled'
         \/ \A o \in Object : Lost(o)' = Lost(o)
         \/ Truth \/ CallNative("value_of") \/ DynamicCall("value_of")]_vars
  BY StepKeeps DEF KeptAll
<1>2. QED  BY <1>1, AlwaysCounted, PTL DEF Spec, LosesOnlyThere
=============================================================================
