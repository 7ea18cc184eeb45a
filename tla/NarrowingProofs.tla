--------------------------- MODULE NarrowingProofs ---------------------------
(***************************************************************************)
(* Narrowing is sound: for any number of variables and any body, what the  *)
(* analyzer knows at a statement is so in every execution that comes there,*)
(* unless one of the doubts of Narrowing was met.                          *)
(***************************************************************************)
EXTENDS Narrowing, SequenceTheorems, TLAPS

(* Types.                                                                  *)

Bindings   == [Variables -> (SUBSET Declared) \cup {Unknown}]
Conditions == Atoms \cup Logic
Pairs      == SUBSET (Stores \X Stores)
RunType    == [here : Pairs, broke : Pairs, again : Pairs, failed : SUBSET Stores]
LoopType   == [initial : Bindings, breaks : {<<>>} \cup {<<b>> : b \in Bindings},
               cond : Conditions, outer : RunType]
BlockType  == [kind : {"body", "then", "else", "while"}, loop : Nat,
               known : Bindings, ends : BOOLEAN, after : Bindings,
               aside : Pairs, thenEnds : BOOLEAN]
DoubtNames == {"stale", "test", "or", "skipped"}

TypeOK ==
  /\ blocks \in Seq(BlockType) /\ blocks # <<>>
  /\ loops \in Seq(LoopType)
  /\ run \in RunType
  /\ doubts \in SUBSET DoubtNames

(* Knowledge: store s agrees with b; b says at least as much as c; an      *)
(* execution that began in agreement with b is here in agreement with c.   *)
Sat(s, b)   == \A v \in Variables : b[v] = Unknown \/ s[v] \in b[v]
Below(b, c) ==
  \A v \in Variables : c[v] = Unknown \/ (b[v] # Unknown /\ b[v] \subseteq c[v])
Keeps(b, pairs, c) == \A p \in pairs : Sat(p[1], b) => Sat(p[2], c)

\* What was known before loop number d of ls, and at its breaks; 0 is the body.
Initial(ls, d) == IF d = 0 THEN Nothing ELSE ls[d].initial
Breaks(ls, d)  == IF d = 0 THEN <<>> ELSE ls[d].breaks

(* How blocks and loops nest.  A block forgets nothing that is known in the *)
(* block around it.                                                        *)
Fits(b, o, ls) ==
  /\ b.kind # "body" /\ ~ o.ends
  /\ Below(b.known, o.known) /\ Below(b.after, o.known)
  /\ IF b.kind = "while"
     THEN b.loop = o.loop + 1 /\ ls[b.loop].initial = o.known
     ELSE b.loop = o.loop

NestedIn(bs, ls) ==
  /\ bs[Len(bs)].loop = Len(ls)
  /\ bs[1].kind = "body" /\ bs[1].loop = 0
  /\ \A i \in 2 .. Len(bs) : Fits(bs[i], bs[i - 1], ls)
  /\ \A i \in 1 .. Len(bs) : Below(bs[i].known, Initial(ls, bs[i].loop))
  /\ \A i, j \in 1 .. Len(bs) : i <= j => bs[i].loop <= bs[j].loop

Gathered(ls) ==
  \A d \in 1 .. Len(ls) :
    ls[d].breaks # <<>> => Below(ls[d].breaks[1], ls[d].initial)

Nested == NestedIn(blocks, loops) /\ Gathered(loops)

\* What is taken to end does end.
EndingIn(bs, r) ==
  /\ bs[Len(bs)].ends => r.here = {}
  /\ \A i \in 1 .. Len(bs) :
       bs[i].kind = "else" /\ bs[i].thenEnds => bs[i].aside = {}

Ending == "skipped" \notin doubts => EndingIn(blocks, run)

(* What is known is so: of the executions that left an if or wait for a    *)
(* loop, of those at breaks and continues, and of those here.              *)
SoundBlock(b, o, ls) ==
  /\ b.kind \in {"then", "else"} => Keeps(Initial(ls, b.loop), b.aside, b.after)
  /\ b.kind = "while" =>
       /\ Keeps(Initial(ls, o.loop), ls[b.loop].outer.here, o.known)
       /\ ls[b.loop].cond.op # "or"
       /\ b.after = Both(ls[b.loop].initial, Check(ls[b.loop].cond).false)

SoundFlow(ls, d, r) ==
  /\ \A e \in r.failed : ~ Sat(e, Initial(ls, d))
  /\ Breaks(ls, d) = <<>> => r.broke = {}
  /\ Breaks(ls, d) # <<>> => Keeps(Initial(ls, d), r.broke, Breaks(ls, d)[1])
  /\ Keeps(Initial(ls, d), r.again, Initial(ls, d))

SoundOutside(ls) == \A d \in 1 .. Len(ls) : SoundFlow(ls, d - 1, ls[d].outer)

SoundIn(bs, ls, r) ==
  /\ \A i \in 2 .. Len(bs) : SoundBlock(bs[i], bs[i - 1], ls)
  /\ SoundOutside(ls)
  /\ SoundFlow(ls, Len(ls), r)
  /\ Keeps(Initial(ls, Len(ls)), r.here, bs[Len(bs)].known)

Sound == doubts = {} => SoundIn(blocks, loops, run)

NarrowingInv == TypeOK /\ Nested /\ Ending /\ Sound

-----------------------------------------------------------------------------
(* Lemmas about knowledge.                                                 *)

LEMMA Tags ==
  /\ Nil \in Declared /\ Number \in Declared /\ Nil # Number
  /\ Unknown \notin (SUBSET Declared)
  /\ Nothing \in Bindings
BY DEF Nil, Number, Declared, Unknown, Nothing, Bindings

LEMMA BindingsClosed ==
  ASSUME NEW b \in Bindings, NEW c \in Bindings
  PROVE  /\ Both(b, c) \in Bindings /\ Either(b, c) \in Bindings
         /\ \A d \in Bindings : UnionBindings(b, c, d) \in Bindings
<1>1. \A v \in Variables : b[v] \in (SUBSET Declared) \cup {Unknown}
                        /\ c[v] \in (SUBSET Declared) \cup {Unknown}
  BY DEF Bindings
<1>2. Both(b, c) \in Bindings
  BY <1>1 DEF Both, Bindings
<1>3. Either(b, c) \in Bindings
  BY <1>1 DEF Either, Bindings
<1>4. ASSUME NEW d \in Bindings
      PROVE  UnionBindings(b, c, d) \in Bindings
  <2>1. ASSUME NEW v \in Variables
        PROVE  UnionBindings(b, c, d)[v] \in (SUBSET Declared) \cup {Unknown}
    <3>1. d[v] \in (SUBSET Declared) \cup {Unknown}
      BY DEF Bindings
    <3>2. CASE d[v] = Unknown
      BY <3>2, <1>3 DEF UnionBindings, Bindings
    <3>3. CASE d[v] # Unknown
      BY <3>1, <3>3, <1>1 DEF UnionBindings
    <3>. QED
      BY <3>2, <3>3
  <2>2. UnionBindings(b, c, d) = [v \in Variables |-> UnionBindings(b, c, d)[v]]
    BY DEF UnionBindings
  <2>. QED
    BY <2>1, <2>2 DEF Bindings
<1>. QED
  BY <1>2, <1>3, <1>4

LEMMA BothSat ==
  ASSUME NEW s, NEW b \in Bindings, NEW c \in Bindings, Sat(s, b), Sat(s, c)
  PROVE  Sat(s, Both(b, c))
BY DEF Sat, Both

LEMMA BothBelow ==
  ASSUME NEW b \in Bindings, NEW c \in Bindings
  PROVE  Below(Both(b, c), b)
<1>1. \A v \in Variables : b[v] \in (SUBSET Declared) \cup {Unknown}
                        /\ c[v] \in (SUBSET Declared) \cup {Unknown}
  BY DEF Bindings
<1>. QED
  BY <1>1, Tags DEF Below, Both

LEMMA BelowTransitive ==
  ASSUME NEW b, NEW c, NEW d, Below(b, c), Below(c, d)
  PROVE  Below(b, d)
BY DEF Below

LEMMA BelowSelf == \A b : Below(b, b)
BY DEF Below

LEMMA BelowSat ==
  ASSUME NEW s, NEW b, NEW c, Below(b, c), Sat(s, b)
  PROVE  Sat(s, c)
BY DEF Below, Sat

LEMMA NothingKnown ==
  /\ \A s : Sat(s, Nothing)
  /\ \A b : Below(b, Nothing)
BY DEF Sat, Below, Nothing

\* What holds of both flows is known behind their join, and no more than was
\* known before they parted is forgotten.
LEMMA JoinBelow ==
  ASSUME NEW b \in Bindings, NEW c \in Bindings, NEW base \in Bindings,
         Below(b, base), Below(c, base)
  PROVE  Below(UnionBindings(b, c, base), base)
<1>. SUFFICES ASSUME NEW v \in Variables, base[v] # Unknown
              PROVE  /\ UnionBindings(b, c, base)[v] # Unknown
                     /\ UnionBindings(b, c, base)[v] \subseteq base[v]
  BY DEF Below
<1>1. /\ b[v] # Unknown /\ b[v] \subseteq base[v] /\ b[v] \in (SUBSET Declared)
      /\ c[v] # Unknown /\ c[v] \subseteq base[v] /\ c[v] \in (SUBSET Declared)
  BY DEF Below, Bindings
<1>2. UnionBindings(b, c, base)[v] = b[v] \cup c[v]
  BY <1>1 DEF UnionBindings
<1>. QED
  BY <1>1, <1>2, Tags

LEMMA JoinSat ==
  ASSUME NEW b \in Bindings, NEW c \in Bindings, NEW base \in Bindings,
         Below(b, base), Below(c, base), NEW s, Sat(s, b) \/ Sat(s, c)
  PROVE  Sat(s, UnionBindings(b, c, base))
<1>. SUFFICES ASSUME NEW v \in Variables, UnionBindings(b, c, base)[v] # Unknown
              PROVE  s[v] \in UnionBindings(b, c, base)[v]
  BY DEF Sat
<1>1. CASE base[v] = Unknown
  <2>1. UnionBindings(b, c, base)[v] = Either(b, c)[v]
    BY <1>1 DEF UnionBindings
  <2>2. b[v] # Unknown /\ c[v] # Unknown /\ Either(b, c)[v] = b[v] \cup c[v]
    BY <2>1 DEF Either
  <2>. QED
    BY <2>1, <2>2 DEF Sat
<1>2. CASE base[v] # Unknown
  <2>1. b[v] # Unknown /\ c[v] # Unknown
    BY <1>2 DEF Below
  <2>2. UnionBindings(b, c, base)[v] = b[v] \cup c[v]
    BY <1>2, <2>1 DEF UnionBindings
  <2>. QED
    BY <2>1, <2>2 DEF Sat
<1>. QED
  BY <1>1, <1>2

-----------------------------------------------------------------------------
(* Lemmas about conditions.                                                *)

LEMMA AtomFields ==
  ASSUME NEW a \in Atoms
  PROVE  \/ a = Input /\ a.op = "input"
         \/ a.op \in {"eq", "ne"} /\ a.var \in Variables
BY DEF Atoms, Input

LEMMA AtomChecked ==
  ASSUME NEW a \in Atoms, NEW s \in Stores
  PROVE  /\ May(a, TRUE, s) => Sat(s, Compared(a).true)
         /\ May(a, FALSE, s) => Sat(s, Compared(a).false)
<1>1. CASE a.op = "input"
  <2>1. Compared(a).true = Nothing /\ Compared(a).false = Nothing
    BY <1>1 DEF Compared
  <2>. QED
    BY <2>1, NothingKnown
<1>2. CASE a.op \in {"eq", "ne"} /\ a.var \in Variables
  <2>1. s[a.var] \in {Nil, Number}
    BY <1>2 DEF Stores, Declared
  <2>2. \A t : Sat(s, Only(a.var, {t})) <=> s[a.var] = t \/ {t} = Unknown
    BY <1>2 DEF Sat, Only, Nothing
  <2>3. CASE a.op = "eq"
    <3>1. May(a, TRUE, s) => s[a.var] = Nil
      BY <2>3 DEF May
    <3>2. May(a, FALSE, s) => s[a.var] # Nil
      BY <2>3 DEF May
    <3>3. Compared(a).true = Only(a.var, {Nil}) /\ Compared(a).false = Only(a.var, {Number})
      BY <2>3 DEF Compared
    <3>. QED
      BY <2>1, <2>2, <3>1, <3>2, <3>3
  <2>4. CASE a.op = "ne"
    <3>1. May(a, TRUE, s) => s[a.var] # Nil
      BY <2>4 DEF May
    <3>2. May(a, FALSE, s) => s[a.var] = Nil
      BY <2>4 DEF May
    <3>3. Compared(a).true = Only(a.var, {Number}) /\ Compared(a).false = Only(a.var, {Nil})
      BY <2>4 DEF Compared
    <3>. QED
      BY <2>1, <2>2, <3>1, <3>2, <3>3
  <2>. QED
    BY <1>2, <2>3, <2>4
<1>. QED
  BY <1>1, <1>2, AtomFields

LEMMA AtomBindings ==
  ASSUME NEW a \in Atoms
  PROVE  Compared(a).true \in Bindings /\ Compared(a).false \in Bindings
<1>1. \A v \in Variables, t \in Declared : Only(v, {t}) \in Bindings
  BY Tags DEF Only, Bindings
<1>2. CASE a.op = "input"
  BY <1>2, Tags DEF Compared
<1>3. CASE a.op = "eq" /\ a.var \in Variables
  BY <1>1, <1>3, Tags DEF Compared
<1>4. CASE a.op = "ne" /\ a.var \in Variables
  BY <1>1, <1>4, Tags DEF Compared
<1>. QED
  BY <1>2, <1>3, <1>4, AtomFields

LEMMA MayAnd ==
  ASSUME NEW c \in Logic, c.op = "and", NEW s
  PROVE  /\ May(c, TRUE, s) => May(c.lhs, TRUE, s) /\ May(c.rhs, TRUE, s)
         /\ May(c, FALSE, s) => May(c.lhs, FALSE, s) \/ May(c.rhs, FALSE, s)
<1>. DEFINE is(a) == CASE a.op = "input" -> BOOLEAN
                       [] a.op = "eq" -> {s[a.var] = Nil}
                       [] a.op = "ne" -> {s[a.var] # Nil}
<1>1. \A b : May(c, b, s) <=> \E l \in is(c.lhs), r \in is(c.rhs) : b = (l /\ r)
  BY DEF May
<1>2. \A a \in Atoms : \A b : May(a, b, s) <=> b \in is(a)
  BY AtomFields DEF May
<1>3. \A a \in Atoms : is(a) \subseteq BOOLEAN
  BY AtomFields
<1>4. c.lhs \in Atoms /\ c.rhs \in Atoms
  BY DEF Logic
<1>. HIDE DEF is
<1>. QED
  BY ZenonT(40), <1>1, <1>2, <1>3, <1>4

LEMMA EitherSat ==
  ASSUME NEW b \in Bindings, NEW c \in Bindings, NEW s, Sat(s, b) \/ Sat(s, c)
  PROVE  Sat(s, Either(b, c))
BY DEF Sat, Either, Bindings

\* A condition tells the truth about a store it is evaluated in.
LEMMA Checked ==
  ASSUME NEW c \in Conditions, c.op # "or", NEW s \in Stores
  PROVE  /\ May(c, TRUE, s) => Sat(s, Check(c).true)
         /\ May(c, FALSE, s) => Sat(s, Check(c).false)
<1>1. CASE c \in Atoms
  <2>1. Check(c) = Compared(c)
    BY <1>1, AtomFields DEF Check
  <2>. QED
    BY <1>1, <2>1, AtomChecked
<1>2. CASE c \in Logic
  <2>1. c.op = "and" /\ c.lhs \in Atoms /\ c.rhs \in Atoms
    BY <1>2 DEF Logic
  <2>2. /\ Check(c).true = Both(Compared(c.lhs).true, Compared(c.rhs).true)
        /\ Check(c).false = Either(Compared(c.lhs).false, Compared(c.rhs).false)
    BY <2>1 DEF Check, Logical
  <2>3. May(c, TRUE, s) => Sat(s, Compared(c.lhs).true) /\ Sat(s, Compared(c.rhs).true)
    BY <1>2, <2>1, MayAnd, AtomChecked
  <2>4. May(c, FALSE, s) => Sat(s, Compared(c.lhs).false) \/ Sat(s, Compared(c.rhs).false)
    BY <1>2, <2>1, MayAnd, AtomChecked
  <2>. QED
    BY <2>1, <2>2, <2>3, <2>4, AtomBindings, BothSat, EitherSat
<1>. QED
  BY <1>1, <1>2 DEF Conditions

LEMMA ConditionBindings ==
  ASSUME NEW c \in Conditions
  PROVE  Check(c).true \in Bindings /\ Check(c).false \in Bindings
<1>1. CASE c \in Atoms
  BY <1>1, AtomFields, AtomBindings DEF Check
<1>2. CASE c \in Logic
  <2>. DEFINE l == Compared(c.lhs)  r == Compared(c.rhs)
  <2>1. c.op \in {"and", "or"} /\ c.lhs \in Atoms /\ c.rhs \in Atoms
    BY <1>2 DEF Logic
  <2>2. /\ l.true \in Bindings /\ l.false \in Bindings
        /\ r.true \in Bindings /\ r.false \in Bindings
    BY <2>1, AtomBindings
  <2>3. Check(c) = Logical(c.op, l, r)
    BY <2>1 DEF Check
  <2>. HIDE DEF l, r
  <2>4. FalseOfOr(l, r) \in Bindings
    BY <2>2 DEF FalseOfOr, Bindings
  <2>. QED
    BY <2>1, <2>2, <2>3, <2>4, BindingsClosed DEF Logical
<1>. QED
  BY <1>1, <1>2 DEF Conditions

-----------------------------------------------------------------------------
(* Lemmas about the stack of blocks.                                       *)

\* t is what is left of s when m elements are kept and e comes on top.
Stacked(t, s, m, e, S) ==
  /\ t \in Seq(S) /\ t # <<>> /\ Len(t) = m + 1
  /\ t[m + 1] = e
  /\ \A i \in 1 .. m : t[i] = s[i]

LEMMA StackTop ==
  ASSUME NEW S, NEW s \in Seq(S), s # <<>>
  PROVE  Len(s) \in Nat \ {0} /\ s[Len(s)] \in S
BY EmptySeq, ElementOfSeq

LEMMA StackChange ==
  ASSUME NEW S, NEW s \in Seq(S), s # <<>>, NEW e \in S
  PROVE  Stacked([s EXCEPT ![Len(s)] = e], s, Len(s) - 1, e, S)
<1>. DEFINE t == [s EXCEPT ![Len(s)] = e]
<1>1. Len(s) \in Nat \ {0}
  BY StackTop
<1>2. /\ t \in Seq(S) /\ Len(t) = Len(s)
      /\ \A j \in 1 .. Len(s) : t[j] = IF j = Len(s) THEN e ELSE s[j]
  BY <1>1, ExceptSeq
<1>3. t # <<>>
  BY <1>1, <1>2, EmptySeq
<1>. HIDE DEF t
<1>. QED
  BY <1>1, <1>2, <1>3 DEF Stacked

LEMMA StackPush ==
  ASSUME NEW S, NEW s \in Seq(S), NEW e \in S
  PROVE  Stacked(Append(s, e), s, Len(s), e, S)
BY AppendProperties DEF Stacked

LEMMA StackPop ==
  ASSUME NEW S, NEW s \in Seq(S), s # <<>>
  PROVE  LET o == SubSeq(s, 1, Len(s) - 1) IN
         /\ o \in Seq(S) /\ Len(o) = Len(s) - 1
         /\ \A i \in 1 .. (Len(s) - 1) : o[i] = s[i]
<1>. DEFINE n == Len(s) - 1
<1>1. n \in Nat /\ Len(s) = n + 1
  BY StackTop
<1>2. \A i \in 1 .. n : s[i] \in S
  BY <1>1, ElementOfSeq
<1>. HIDE DEF n
<1>3. /\ SubSeq(s, 1, n) \in Seq(S)
      /\ Len(SubSeq(s, 1, n)) = IF 1 <= n THEN n - 1 + 1 ELSE 0
      /\ \A i \in 1 .. n - 1 + 1 : SubSeq(s, 1, n)[i] = s[1 + i - 1]
  BY <1>1, <1>2, SubSeqProperties
<1>4. n - 1 + 1 = n /\ \A i \in 1 .. n : 1 + i - 1 = i
  BY <1>1
<1>5. Len(SubSeq(s, 1, n)) = n /\ \A i \in 1 .. n : SubSeq(s, 1, n)[i] = s[i]
  BY <1>1, <1>3, <1>4
<1>. QED
  BY <1>3, <1>5 DEF n

LEMMA StackReplace ==
  ASSUME NEW S, NEW s \in Seq(S), s # <<>>, NEW e \in S
  PROVE  Stacked(Append(SubSeq(s, 1, Len(s) - 1), e), s, Len(s) - 1, e, S)
<1>. DEFINE o == SubSeq(s, 1, Len(s) - 1)
<1>1. /\ o \in Seq(S) /\ Len(o) = Len(s) - 1
      /\ \A i \in 1 .. (Len(s) - 1) : o[i] = s[i]
  BY StackPop
<1>. HIDE DEF o
<1>2. Stacked(Append(o, e), o, Len(o), e, S)
  BY <1>1, StackPush
<1>3. Stacked(Append(o, e), s, Len(s) - 1, e, S)
  BY <1>1, <1>2 DEF Stacked
<1>. QED
  BY <1>3 DEF o

LEMMA StackUnder ==
  ASSUME NEW S, NEW s \in Seq(S), Len(s) > 1, NEW e \in S
  PROVE  LET o == SubSeq(s, 1, Len(s) - 1) IN
         Stacked([o EXCEPT ![Len(o)] = e], s, Len(s) - 2, e, S)
<1>. DEFINE o == SubSeq(s, 1, Len(s) - 1)
<1>1. s # <<>> /\ Len(s) \in Nat
  BY EmptySeq, LenProperties
<1>2. /\ o \in Seq(S) /\ Len(o) = Len(s) - 1
      /\ \A i \in 1 .. (Len(s) - 1) : o[i] = s[i]
  BY <1>1, StackPop
<1>. HIDE DEF o
<1>3. Len(o) > 0
  BY <1>1, <1>2
<1>4. o # <<>>
  BY <1>3
<1>5. Stacked([o EXCEPT ![Len(o)] = e], o, Len(o) - 1, e, S)
  BY <1>2, <1>4, StackChange
<1>6. Len(o) - 1 = Len(s) - 2
  BY <1>1, <1>2
<1>7. \A i \in 1 .. Len(s) - 2 : o[i] = s[i]
  BY <1>1, <1>2
<1>. QED
  BY <1>5, <1>6, <1>7 DEF Stacked, o

-----------------------------------------------------------------------------
(* Lemmas about what stays so in a step that keeps the m lowest blocks of   *)
(* bs and makes B the new top of the stack bt; lt are the loops then.      *)

\* The k outermost loops are the same, but for what is known at their breaks.
Agree(ls, lt, k) ==
  \A d \in 1 .. k : /\ lt[d].initial = ls[d].initial
                    /\ lt[d].outer = ls[d].outer
                    /\ lt[d].cond = ls[d].cond

\* The loop that block m is in.
Around(bs, m) == IF m = 0 THEN 0 ELSE bs[m].loop

Placed(bs, m, B, lt) ==
  /\ B \in BlockType /\ Len(lt) = B.loop
  /\ IF m = 0 THEN B.kind = "body" /\ B.loop = 0 ELSE Fits(B, bs[m], lt)

LEMMA BlockAt ==
  ASSUME NEW bs \in Seq(BlockType), NEW i \in 1 .. Len(bs)
  PROVE  /\ bs[i] \in BlockType /\ bs[i].loop \in Nat
         /\ bs[i].known \in Bindings /\ bs[i].after \in Bindings
         /\ bs[i].aside \in Pairs /\ bs[i].ends \in BOOLEAN
<1>1. bs[i] \in BlockType
  BY ElementOfSeq
<1>. QED
  BY <1>1 DEF BlockType

LEMMA InitialSame ==
  ASSUME NEW ls, NEW lt, NEW k \in Nat, Agree(ls, lt, k)
  PROVE  \A d \in 0 .. k : Initial(lt, d) = Initial(ls, d)
BY DEF Agree, Initial

LEMMA AroundLoop ==
  ASSUME NEW bs \in Seq(BlockType), NEW ls, NestedIn(bs, ls), NEW m \in 0 .. Len(bs)
  PROVE  /\ Around(bs, m) \in Nat
         /\ \A i \in 1 .. m : bs[i].loop \in 0 .. Around(bs, m)
<1>1. \A i \in 1 .. Len(bs) : bs[i].loop \in Nat
  BY BlockAt
<1>2. Len(bs) \in Nat
  BY LenProperties
<1>3. CASE m = 0
  BY <1>3 DEF Around
<1>4. CASE m # 0
  <2>1. \A i \in 1 .. m : bs[i].loop <= bs[m].loop
    BY <1>2, <1>4 DEF NestedIn
  <2>. QED
    BY <1>1, <1>2, <1>4, <2>1 DEF Around
<1>. QED
  BY <1>3, <1>4

\* Blocks fit as before when the loops around them are the same.
LEMMA FitsSame ==
  ASSUME NEW b \in BlockType, NEW o \in BlockType, NEW ls, NEW lt, NEW k \in Nat,
         Agree(ls, lt, k), b.loop <= k, Fits(b, o, ls)
  PROVE  Fits(b, o, lt)
<1>1. b.loop \in Nat /\ o.loop \in Nat
  BY DEF BlockType
<1>2. b.kind = "while" => b.loop \in 1 .. k
  BY <1>1 DEF Fits
<1>. QED
  BY <1>2 DEF Fits, Agree

LEMMA SoundSame ==
  ASSUME NEW b \in BlockType, NEW o \in BlockType, NEW ls, NEW lt, NEW k \in Nat,
         Agree(ls, lt, k), b.loop <= k, Fits(b, o, ls), SoundBlock(b, o, ls)
  PROVE  SoundBlock(b, o, lt)
<1>1. b.loop \in Nat /\ o.loop \in Nat
  BY DEF BlockType
<1>2. b.loop \in 0 .. k /\ o.loop \in 0 .. k /\ (b.kind = "while" => b.loop \in 1 .. k)
  BY <1>1 DEF Fits
<1>3. Initial(lt, b.loop) = Initial(ls, b.loop) /\ Initial(lt, o.loop) = Initial(ls, o.loop)
  BY <1>2, InitialSame
<1>4. b.kind = "while" => /\ lt[b.loop].outer = ls[b.loop].outer
                          /\ lt[b.loop].cond = ls[b.loop].cond
                          /\ lt[b.loop].initial = ls[b.loop].initial
  BY <1>2 DEF Agree
<1>. QED
  BY <1>3, <1>4 DEF SoundBlock

LEMMA NestedStep ==
  ASSUME NEW bs \in Seq(BlockType), NEW ls, NestedIn(bs, ls),
         NEW m \in 0 .. Len(bs), NEW B, NEW bt, NEW lt,
         Stacked(bt, bs, m, B, BlockType), Placed(bs, m, B, lt),
         Agree(ls, lt, Around(bs, m))
  PROVE  NestedIn(bt, lt)
<1>. DEFINE k == Around(bs, m)
<1>1. k \in Nat /\ \A i \in 1 .. m : bs[i].loop \in 0 .. k
  BY AroundLoop
<1>2. m \in Nat /\ Len(bs) \in Nat /\ m <= Len(bs)
  BY LenProperties
<1>3. /\ Len(bt) = m + 1 /\ bt[m + 1] = B /\ B \in BlockType
      /\ \A i \in 1 .. m : bt[i] = bs[i]
  BY DEF Stacked, Placed
<1>4. \A d \in 0 .. k : Initial(lt, d) = Initial(ls, d)
  BY <1>1, InitialSame
<1>5. B.loop \in Nat /\ k <= B.loop
  BY <1>1, <1>3 DEF Placed, Around, Fits, BlockType
<1>6. bt[1].kind = "body" /\ bt[1].loop = 0
  <2>1. CASE m = 0
    BY <2>1, <1>3 DEF Placed
  <2>2. CASE m # 0
    BY <2>2, <1>2, <1>3 DEF NestedIn
  <2>. QED
    BY <2>1, <2>2
<1>7. ASSUME NEW i \in 2 .. Len(bt)
      PROVE  Fits(bt[i], bt[i - 1], lt)
  <2>1. CASE i = m + 1
    BY <2>1, <1>2, <1>3 DEF Placed
  <2>2. CASE i # m + 1
    <3>1. i \in 2 .. m /\ i - 1 \in 1 .. m /\ i \in 2 .. Len(bs) /\ i - 1 \in 1 .. Len(bs)
      BY <2>2, <1>2, <1>3
    <3>2. Fits(bs[i], bs[i - 1], ls)
      BY <3>1 DEF NestedIn
    <3>3. bs[i] \in BlockType /\ bs[i - 1] \in BlockType /\ bs[i].loop <= k
      BY <3>1, <1>1, BlockAt
    <3>4. Fits(bs[i], bs[i - 1], lt)
      BY <3>2, <3>3, <1>1, FitsSame
    <3>. QED
      BY <3>1, <3>4, <1>3
  <2>. QED
    BY <2>1, <2>2
<1>8. ASSUME NEW i \in 1 .. Len(bt)
      PROVE  Below(bt[i].known, Initial(lt, bt[i].loop))
  <2>1. \A j \in 1 .. m : Below(bs[j].known, Initial(lt, bs[j].loop))
    BY <1>1, <1>2, <1>4 DEF NestedIn
  <2>2. Below(B.known, Initial(lt, B.loop))
    <3>1. CASE m = 0
      BY <3>1, NothingKnown DEF Placed, Initial
    <3>2. CASE m # 0
      <4>1. Fits(B, bs[m], lt) /\ m \in 1 .. m /\ bs[m].loop \in Nat
        BY <3>2, <1>1, <1>2 DEF Placed
      <4>2. CASE B.kind = "while"
        BY <4>1, <4>2 DEF Fits, Initial
      <4>3. CASE B.kind # "while"
        BY <4>1, <4>3, <2>1, BelowTransitive DEF Fits
      <4>. QED
        BY <4>2, <4>3
    <3>. QED
      BY <3>1, <3>2
  <2>. QED
    BY <2>1, <2>2, <1>2, <1>3
<1>9. ASSUME NEW i \in 1 .. Len(bt), NEW j \in 1 .. Len(bt), i <= j
      PROVE  bt[i].loop <= bt[j].loop
  <2>1. CASE j = m + 1
    <3>1. \A h \in 1 .. m : bs[h].loop <= B.loop
      BY <1>1, <1>5
    <3>. QED
      BY <2>1, <3>1, <1>2, <1>3, <1>5
  <2>2. CASE j # m + 1
    <3>1. i \in 1 .. m /\ j \in 1 .. m /\ i \in 1 .. Len(bs) /\ j \in 1 .. Len(bs)
      BY <2>2, <1>2, <1>3, <1>9
    <3>. QED
      BY <3>1, <1>3, <1>9 DEF NestedIn
  <2>. QED
    BY <2>1, <2>2
<1>10. bt[Len(bt)].loop = Len(lt)
  BY <1>3 DEF Placed
<1>. QED
  BY <1>6, <1>7, <1>8, <1>9, <1>10 DEF NestedIn

LEMMA SoundStep ==
  ASSUME NEW bs \in Seq(BlockType), NEW ls, NestedIn(bs, ls), NEW r, SoundIn(bs, ls, r),
         NEW m \in 0 .. Len(bs), NEW B, NEW bt, NEW lt, NEW rt,
         Stacked(bt, bs, m, B, BlockType),
         Agree(ls, lt, Around(bs, m)),
         m > 0 => SoundBlock(B, bs[m], lt),
         SoundOutside(lt), SoundFlow(lt, Len(lt), rt),
         Keeps(Initial(lt, Len(lt)), rt.here, B.known)
  PROVE  SoundIn(bt, lt, rt)
<1>. DEFINE k == Around(bs, m)
<1>1. k \in Nat /\ \A i \in 1 .. m : bs[i].loop \in 0 .. k
  BY AroundLoop
<1>2. m \in Nat /\ Len(bs) \in Nat /\ m <= Len(bs)
  BY LenProperties
<1>3. /\ Len(bt) = m + 1 /\ bt[m + 1] = B
      /\ \A i \in 1 .. m : bt[i] = bs[i]
  BY DEF Stacked
<1>4. ASSUME NEW i \in 2 .. Len(bt)
      PROVE  SoundBlock(bt[i], bt[i - 1], lt)
  <2>1. CASE i = m + 1
    BY <2>1, <1>2, <1>3
  <2>2. CASE i # m + 1
    <3>1. i \in 2 .. m /\ i - 1 \in 1 .. m /\ i \in 1 .. m
          /\ i \in 1 .. Len(bs) /\ i \in 2 .. Len(bs) /\ i - 1 \in 1 .. Len(bs)
      BY <2>2, <1>2, <1>3
    <3>2. Fits(bs[i], bs[i - 1], ls) /\ SoundBlock(bs[i], bs[i - 1], ls)
      BY <3>1 DEF NestedIn, SoundIn
    <3>3. bs[i] \in BlockType /\ bs[i - 1] \in BlockType /\ bs[i].loop <= k
      BY <3>1, <1>1, BlockAt
    <3>4. SoundBlock(bs[i], bs[i - 1], lt)
      BY <3>2, <3>3, <1>1, SoundSame
    <3>. QED
      BY <3>1, <3>4, <1>3
  <2>. QED
    BY <2>1, <2>2
<1>. QED
  BY <1>3, <1>4 DEF SoundIn

LEMMA EndingStep ==
  ASSUME NEW bs \in Seq(BlockType), NEW r, EndingIn(bs, r),
         NEW m \in 0 .. Len(bs), NEW B, NEW bt, NEW rt,
         Stacked(bt, bs, m, B, BlockType),
         B.ends => rt.here = {},
         B.kind = "else" /\ B.thenEnds => B.aside = {}
  PROVE  EndingIn(bt, rt)
<1>1. m \in Nat /\ Len(bs) \in Nat /\ m <= Len(bs)
  BY LenProperties
<1>2. /\ Len(bt) = m + 1 /\ bt[m + 1] = B
      /\ \A i \in 1 .. m : bt[i] = bs[i]
  BY DEF Stacked
<1>. QED
  BY <1>1, <1>2 DEF EndingIn

\* The new top is the block that was there, with more known or at its end.
Varied(B, b) ==
  /\ B \in BlockType /\ Below(B.known, b.known)
  /\ B.kind = b.kind /\ B.loop = b.loop /\ B.after = b.after
  /\ B.aside = b.aside /\ B.thenEnds = b.thenEnds

LEMMA VariedStep ==
  ASSUME NEW bs \in Seq(BlockType), NEW ls, NestedIn(bs, ls),
         NEW m \in 0 .. Len(bs) - 1, NEW B, Varied(B, bs[m + 1]), NEW bt, NEW lt,
         Stacked(bt, bs, m, B, BlockType), Len(lt) = B.loop, Agree(ls, lt, B.loop)
  PROVE  /\ NestedIn(bt, lt)
         /\ \A r, rt : /\ SoundIn(bs, ls, r) /\ SoundOutside(lt)
                       /\ SoundFlow(lt, Len(lt), rt)
                       /\ Keeps(Initial(lt, Len(lt)), rt.here, B.known)
                       => SoundIn(bt, lt, rt)
<1>. DEFINE b == bs[m + 1]  o == bs[m]
<1>1. m \in Nat /\ m + 1 \in 1 .. Len(bs) /\ m \in 0 .. Len(bs) /\ Len(bs) \in Nat
  BY LenProperties
<1>2. b \in BlockType /\ b.loop \in Nat /\ B.loop = b.loop
  BY <1>1, BlockAt DEF Varied
<1>3. Agree(ls, lt, Around(bs, m))
  <2>1. Around(bs, m) \in Nat
    BY <1>1, AroundLoop
  <2>2. CASE m = 0
    BY <2>2 DEF Around, Agree
  <2>3. CASE m # 0
    <3>1. m \in 1 .. Len(bs) /\ m <= m + 1
      BY <2>3, <1>1
    <3>2. bs[m].loop <= b.loop
      BY <3>1, <1>1 DEF NestedIn
    <3>3. Around(bs, m) <= B.loop
      BY <3>2, <2>3, <1>2 DEF Around
    <3>. QED
      BY <2>1, <3>3, <1>2 DEF Agree
  <2>. QED
    BY <2>2, <2>3
<1>4. ASSUME m # 0
      PROVE  /\ o \in BlockType /\ Fits(b, o, ls) /\ Fits(b, o, lt)
  <2>1. m \in 1 .. Len(bs) /\ m + 1 \in 2 .. Len(bs) /\ (m + 1) - 1 = m
    BY <1>4, <1>1
  <2>2. Fits(b, o, ls)
    BY <2>1 DEF NestedIn
  <2>3. o \in BlockType
    BY <2>1, BlockAt
  <2>. QED
    BY <2>2, <2>3, <1>2, FitsSame
<1>5. Placed(bs, m, B, lt)
  <2>1. CASE m = 0
    BY <2>1 DEF Placed, NestedIn, Varied
  <2>2. CASE m # 0
    <3>1. Fits(b, o, lt)
      BY <1>4, <2>2
    <3>2. Fits(B, o, lt)
      BY <3>1, BelowTransitive DEF Fits, Varied
    <3>. QED
      BY <2>2, <3>2 DEF Placed, Varied
  <2>. QED
    BY <2>1, <2>2
<1>6. NestedIn(bt, lt)
  BY <1>1, <1>3, <1>5, NestedStep
<1>7. ASSUME NEW r, NEW rt, SoundIn(bs, ls, r), SoundOutside(lt),
             SoundFlow(lt, Len(lt), rt), Keeps(Initial(lt, Len(lt)), rt.here, B.known)
      PROVE  SoundIn(bt, lt, rt)
  <2>1. ASSUME m > 0
        PROVE  SoundBlock(B, o, lt)
    <3>1. m + 1 \in 2 .. Len(bs) /\ (m + 1) - 1 = m /\ m # 0
      BY <2>1, <1>1
    <3>2. SoundBlock(b, o, ls)
      BY <3>1, <1>7 DEF SoundIn
    <3>3. SoundBlock(b, o, lt)
      BY <3>1, <3>2, <1>2, <1>4, SoundSame
    <3>. QED
      BY <3>3 DEF SoundBlock, Varied
  <2>. QED
    BY <2>1, <1>1, <1>3, <1>7, SoundStep
<1>. QED
  BY <1>6, <1>7

\* What can be done to the loops.
LEMMA FlowSame ==
  ASSUME NEW ls, NEW lt, NEW k \in Nat, \A d \in 1 .. k : lt[d] = ls[d],
         NEW d \in 0 .. k, NEW r, SoundFlow(ls, d, r)
  PROVE  SoundFlow(lt, d, r)
<1>1. Initial(lt, d) = Initial(ls, d) /\ Breaks(lt, d) = Breaks(ls, d)
  BY DEF Initial, Breaks
<1>. QED
  BY <1>1 DEF SoundFlow

LEMMA LoopsPush ==
  ASSUME NEW ls \in Seq(LoopType), Gathered(ls), NEW e \in LoopType, e.breaks = <<>>
  PROVE  LET lt == Append(ls, e) IN
         /\ lt \in Seq(LoopType) /\ Len(lt) = Len(ls) + 1 /\ lt[Len(ls) + 1] = e
         /\ Gathered(lt) /\ Agree(ls, lt, Len(ls))
         /\ SoundOutside(ls) /\ SoundFlow(ls, Len(ls), e.outer) => SoundOutside(lt)
<1>. DEFINE lt == Append(ls, e)
<1>1. /\ lt \in Seq(LoopType) /\ Len(lt) = Len(ls) + 1 /\ lt[Len(ls) + 1] = e
      /\ \A d \in 1 .. Len(ls) : lt[d] = ls[d]
  BY AppendProperties
<1>2. Len(ls) \in Nat
  BY LenProperties
<1>. HIDE DEF lt
<1>3. Gathered(lt)
  BY <1>1, <1>2 DEF Gathered
<1>4. ASSUME SoundOutside(ls), SoundFlow(ls, Len(ls), e.outer)
      PROVE  SoundOutside(lt)
  <2>. SUFFICES ASSUME NEW d \in 1 .. Len(lt)
                PROVE  SoundFlow(lt, d - 1, lt[d].outer)
    BY DEF SoundOutside
  <2>1. SoundFlow(ls, d - 1, lt[d].outer)
    <3>1. CASE d = Len(ls) + 1
      BY <3>1, <1>1, <1>2, <1>4
    <3>2. CASE d # Len(ls) + 1
      BY <3>2, <1>1, <1>2, <1>4 DEF SoundOutside
    <3>. QED
      BY <3>1, <3>2
  <2>2. d - 1 \in 0 .. Len(ls)
    BY <1>1, <1>2
  <2>. QED
    BY <2>1, <2>2, <1>1, <1>2, FlowSame
<1>. QED
  BY <1>1, <1>3, <1>4 DEF Agree, lt

LEMMA LoopsPop ==
  ASSUME NEW ls \in Seq(LoopType), ls # <<>>, Gathered(ls)
  PROVE  LET lt == SubSeq(ls, 1, Len(ls) - 1) IN
         /\ lt \in Seq(LoopType) /\ Len(lt) = Len(ls) - 1
         /\ Gathered(lt) /\ Agree(ls, lt, Len(ls) - 1)
         /\ SoundOutside(ls) => /\ SoundOutside(lt)
                                /\ SoundFlow(lt, Len(ls) - 1, ls[Len(ls)].outer)
<1>. DEFINE lt == SubSeq(ls, 1, Len(ls) - 1)
<1>1. /\ lt \in Seq(LoopType) /\ Len(lt) = Len(ls) - 1
      /\ \A d \in 1 .. Len(ls) - 1 : lt[d] = ls[d]
  BY StackPop
<1>2. Len(ls) \in Nat \ {0}
  BY StackTop
<1>. HIDE DEF lt
<1>3. Gathered(lt)
  BY <1>1, <1>2 DEF Gathered
<1>4. ASSUME SoundOutside(ls), NEW d \in 1 .. Len(ls)
      PROVE  SoundFlow(lt, d - 1, ls[d].outer)
  <2>1. SoundFlow(ls, d - 1, ls[d].outer) /\ d - 1 \in 0 .. Len(ls) - 1
    BY <1>2, <1>4 DEF SoundOutside
  <2>. DEFINE k == Len(ls) - 1  h == d - 1
  <2>2. k \in Nat /\ h \in 0 .. k /\ \A j \in 1 .. k : lt[j] = ls[j]
    BY <2>1, <1>1, <1>2
  <2>3. SoundFlow(ls, h, ls[d].outer)
    BY <2>1
  <2>. HIDE DEF k, h
  <2>4. SoundFlow(lt, h, ls[d].outer)
    BY <2>2, <2>3, FlowSame
  <2>. QED
    BY <2>4 DEF h
<1>5. ASSUME SoundOutside(ls)
      PROVE  SoundOutside(lt) /\ SoundFlow(lt, Len(ls) - 1, ls[Len(ls)].outer)
  BY <1>1, <1>2, <1>4, <1>5 DEF SoundOutside
<1>. QED
  BY <1>1, <1>3, <1>5 DEF Agree, lt

LEMMA LoopsBreak ==
  ASSUME NEW ls \in Seq(LoopType), ls # <<>>, Gathered(ls),
         NEW x \in Bindings, Below(x, ls[Len(ls)].initial)
  PROVE  LET lt == [ls EXCEPT ![Len(ls)].breaks = <<x>>] IN
         /\ lt \in Seq(LoopType) /\ Len(lt) = Len(ls) /\ lt[Len(ls)].breaks = <<x>>
         /\ Gathered(lt) /\ Agree(ls, lt, Len(ls))
         /\ SoundOutside(ls) => SoundOutside(lt)
<1>. DEFINE e  == [ls[Len(ls)] EXCEPT !.breaks = <<x>>]
            lt == [ls EXCEPT ![Len(ls)] = e]
<1>1. Len(ls) \in Nat \ {0} /\ ls[Len(ls)] \in LoopType
  BY StackTop
<1>2. /\ e \in LoopType /\ e.breaks = <<x>> /\ e.initial = ls[Len(ls)].initial
      /\ e.outer = ls[Len(ls)].outer /\ e.cond = ls[Len(ls)].cond
  BY <1>1 DEF LoopType
<1>. HIDE DEF e
<1>3. Stacked(lt, ls, Len(ls) - 1, e, LoopType)
  BY <1>2, StackChange
<1>. HIDE DEF lt
<1>4. /\ lt \in Seq(LoopType) /\ Len(lt) = Len(ls) /\ lt[Len(ls)] = e
      /\ \A d \in 1 .. Len(ls) - 1 : lt[d] = ls[d]
  BY <1>1, <1>3 DEF Stacked
<1>5. \A d \in 1 .. Len(ls) : d = Len(ls) \/ d \in 1 .. Len(ls) - 1
  BY <1>1
<1>6. Gathered(lt)
  <2>1. <<x>> # <<>> /\ <<x>>[1] = x
    OBVIOUS
  <2>. QED
    BY <2>1, <1>2, <1>4, <1>5 DEF Gathered
<1>7. Agree(ls, lt, Len(ls))
  BY <1>2, <1>4, <1>5 DEF Agree
<1>8. ASSUME SoundOutside(ls), NEW d \in 1 .. Len(ls)
      PROVE  SoundFlow(lt, d - 1, lt[d].outer)
  <2>1. SoundFlow(ls, d - 1, lt[d].outer) /\ d - 1 \in 0 .. Len(ls) - 1
    BY <1>1, <1>2, <1>4, <1>5, <1>8 DEF SoundOutside
  <2>. DEFINE k == Len(ls) - 1  h == d - 1
  <2>2. k \in Nat /\ h \in 0 .. k /\ \A j \in 1 .. k : lt[j] = ls[j]
    BY <2>1, <1>1, <1>4
  <2>3. SoundFlow(ls, h, lt[d].outer)
    BY <2>1
  <2>. HIDE DEF k, h
  <2>4. SoundFlow(lt, h, lt[d].outer)
    BY <2>2, <2>3, FlowSame
  <2>. QED
    BY <2>4 DEF h
<1>9. lt = [ls EXCEPT ![Len(ls)].breaks = <<x>>]
  BY DEF lt, e
<1>10. SoundOutside(ls) => SoundOutside(lt)
  BY <1>4, <1>8 DEF SoundOutside
<1>11. lt[Len(ls)].breaks = <<x>>
  BY <1>2, <1>4
<1>. QED
  BY <1>4, <1>6, <1>7, <1>9, <1>10, <1>11

-----------------------------------------------------------------------------
(* The invariant in a step that changes a block, and in one that puts a new *)
(* block on top.                                                           *)

LEMMA TopFacts ==
  ASSUME NarrowingInv
  PROVE  /\ Len(blocks) \in Nat \ {0} /\ Len(loops) \in Nat
         /\ Top \in BlockType /\ known \in Bindings /\ Top.loop = Len(loops)
         /\ Initial(loops, Len(loops)) \in Bindings
         /\ Below(known, Initial(loops, Len(loops)))
<1>1. Len(blocks) \in Nat \ {0} /\ Top \in BlockType
  BY StackTop DEF NarrowingInv, TypeOK, Top
<1>2. known \in Bindings /\ Top.loop = Len(loops) /\ Len(loops) \in Nat
  BY <1>1 DEF NarrowingInv, Nested, NestedIn, Top, known, BlockType
<1>3. Below(known, Initial(loops, Len(loops)))
  BY <1>1, <1>2 DEF NarrowingInv, Nested, NestedIn, Top, known
<1>4. Initial(loops, Len(loops)) \in Bindings
  <2>1. CASE Len(loops) = 0
    BY <2>1, Tags DEF Initial
  <2>2. CASE Len(loops) # 0
    <3>1. loops[Len(loops)] \in LoopType
      BY <2>2, <1>2, ElementOfSeq DEF NarrowingInv, TypeOK
    <3>. QED
      BY <2>2, <3>1 DEF Initial, LoopType
  <2>. QED
    BY <2>1, <2>2
<1>. QED
  BY <1>1, <1>2, <1>3, <1>4

LEMMA ChangeInv ==
  ASSUME NarrowingInv,
         NEW m \in 0 .. Len(blocks) - 1, NEW B, Varied(B, blocks[m + 1]),
         Stacked(blocks', blocks, m, B, BlockType),
         loops' \in Seq(LoopType), Len(loops') = B.loop, Gathered(loops'),
         Agree(loops, loops', B.loop),
         run' \in RunType, doubts' \in SUBSET DoubtNames, doubts \subseteq doubts',
         "skipped" \notin doubts' /\ B.ends => run'.here = {},
         doubts' = {} => /\ SoundOutside(loops')
                         /\ SoundFlow(loops', Len(loops'), run')
                         /\ Keeps(Initial(loops', Len(loops')), run'.here, B.known)
  PROVE  NarrowingInv'
<1>1. m \in Nat /\ m + 1 \in 1 .. Len(blocks) /\ m \in 0 .. Len(blocks)
  BY TopFacts
<1>2. TypeOK'
  BY DEF TypeOK, Stacked
<1>3. /\ NestedIn(blocks', loops')
      /\ \A r, rt : /\ SoundIn(blocks, loops, r) /\ SoundOutside(loops')
                    /\ SoundFlow(loops', Len(loops'), rt)
                    /\ Keeps(Initial(loops', Len(loops')), rt.here, B.known)
                    => SoundIn(blocks', loops', rt)
  BY VariedStep DEF NarrowingInv, Nested, TypeOK
<1>4. Nested'
  BY <1>3 DEF Nested
<1>5. Ending'
  <2>. SUFFICES ASSUME "skipped" \notin doubts'
                PROVE  EndingIn(blocks', run')
    BY DEF Ending
  <2>1. EndingIn(blocks, run)
    BY DEF NarrowingInv, Ending
  <2>2. B.kind = "else" /\ B.thenEnds => B.aside = {}
    BY <2>1, <1>1 DEF EndingIn, Varied
  <2>. QED
    BY <2>1, <2>2, <1>1, EndingStep DEF NarrowingInv, TypeOK
<1>6. Sound'
  <2>. SUFFICES ASSUME doubts' = {}
                PROVE  SoundIn(blocks', loops', run')
    BY DEF Sound
  <2>1. SoundIn(blocks, loops, run)
    BY DEF NarrowingInv, Sound
  <2>. QED
    BY <2>1, <1>3
<1>. QED
  BY <1>2, <1>4, <1>5, <1>6 DEF NarrowingInv

LEMMA EnterInv ==
  ASSUME NarrowingInv,
         NEW m \in 1 .. Len(blocks), NEW B,
         Stacked(blocks', blocks, m, B, BlockType), Placed(blocks, m, B, loops'),
         loops' \in Seq(LoopType), Gathered(loops'),
         Agree(loops, loops', blocks[m].loop),
         run' \in RunType, doubts' \in SUBSET DoubtNames, doubts \subseteq doubts',
         "skipped" \notin doubts' =>
           /\ B.ends => run'.here = {}
           /\ B.kind = "else" /\ B.thenEnds => B.aside = {},
         doubts' = {} => /\ SoundBlock(B, blocks[m], loops')
                         /\ SoundOutside(loops')
                         /\ SoundFlow(loops', Len(loops'), run')
                         /\ Keeps(Initial(loops', Len(loops')), run'.here, B.known)
  PROVE  NarrowingInv'
<1>1. m \in Nat /\ m # 0 /\ m \in 0 .. Len(blocks)
  BY TopFacts
<1>2. TypeOK'
  BY DEF TypeOK, Stacked
<1>3. Agree(loops, loops', Around(blocks, m))
  BY <1>1 DEF Around
<1>4. Nested'
  BY <1>1, <1>3, NestedStep DEF NarrowingInv, Nested, TypeOK
<1>5. Ending'
  <2>. SUFFICES ASSUME "skipped" \notin doubts'
                PROVE  EndingIn(blocks', run')
    BY DEF Ending
  <2>1. EndingIn(blocks, run)
    BY DEF NarrowingInv, Ending
  <2>. QED
    BY <2>1, <1>1, EndingStep DEF NarrowingInv, TypeOK
<1>6. Sound'
  <2>. SUFFICES ASSUME doubts' = {}
                PROVE  SoundIn(blocks', loops', run')
    BY DEF Sound
  <2>1. SoundIn(blocks, loops, run)
    BY DEF NarrowingInv, Sound
  <2>. QED
    BY <2>1, <1>1, <1>3, SoundStep DEF NarrowingInv, Nested, TypeOK
<1>. QED
  BY <1>2, <1>4, <1>5, <1>6 DEF NarrowingInv

\* A statement of the innermost block; loops stay, but for what is known at
\* the breaks of the innermost.
LEMMA StatementInv ==
  ASSUME NarrowingInv,
         NEW B, Varied(B, Top), blocks' = [blocks EXCEPT ![Len(blocks)] = B],
         loops' \in Seq(LoopType), Len(loops') = Len(loops), Gathered(loops'),
         Agree(loops, loops', Len(loops)),
         SoundOutside(loops) => SoundOutside(loops'),
         run' \in RunType, doubts' \in SUBSET DoubtNames, doubts \subseteq doubts',
         "skipped" \notin doubts' /\ B.ends => run'.here = {},
         doubts' = {} => /\ SoundFlow(loops', Len(loops'), run')
                         /\ Keeps(Initial(loops', Len(loops')), run'.here, B.known)
  PROVE  NarrowingInv'
<1>. DEFINE m == Len(blocks) - 1
<1>1. m \in 0 .. Len(blocks) - 1 /\ m + 1 = Len(blocks) /\ Top.loop = Len(loops)
  BY TopFacts
<1>2. blocks[m + 1] = Top /\ B.loop = Len(loops)
  BY <1>1 DEF Top, Varied
<1>3. Stacked(blocks', blocks, m, B, BlockType)
  BY StackChange DEF NarrowingInv, TypeOK, Varied
<1>4. doubts' = {} => SoundOutside(loops)
  BY DEF NarrowingInv, Sound, SoundIn
<1>. HIDE DEF m
<1>. QED
  BY <1>1, <1>2, <1>3, <1>4, ChangeInv

\* The same when the loops are untouched.
LEMMA SimpleInv ==
  ASSUME NarrowingInv,
         NEW B, Varied(B, Top), blocks' = [blocks EXCEPT ![Len(blocks)] = B],
         UNCHANGED loops,
         run' \in RunType, doubts' \in SUBSET DoubtNames, doubts \subseteq doubts',
         "skipped" \notin doubts' /\ B.ends => run'.here = {},
         doubts' = {} => /\ SoundFlow(loops, Len(loops), run')
                         /\ Keeps(Initial(loops, Len(loops)), run'.here, B.known)
  PROVE  NarrowingInv'
<1>1. loops \in Seq(LoopType) /\ Gathered(loops) /\ Agree(loops, loops, Len(loops))
  BY DEF NarrowingInv, TypeOK, Nested, Agree
<1>. QED
  BY <1>1, StatementInv

-----------------------------------------------------------------------------
(* Statements.                                                             *)

LEMMA Here ==
  ASSUME NarrowingInv, doubts = {}
  PROVE  /\ SoundFlow(loops, Len(loops), run)
         /\ Keeps(Initial(loops, Len(loops)), run.here, known)
BY DEF NarrowingInv, Sound, SoundIn, known, Top

\* Falls and Ends change the top.
LEMMA Fallen ==
  ASSUME NarrowingInv, NEW k \in Bindings, Below(k, known), Falls(blocks, k)
  PROVE  LET B == [Top EXCEPT !.known = k] IN
         /\ Varied(B, Top) /\ blocks' = [blocks EXCEPT ![Len(blocks)] = B]
         /\ B.known = k /\ B.ends = Top.ends
BY TopFacts DEF Falls, Varied, BlockType, known, Top

LEMMA Ended ==
  ASSUME NarrowingInv, Ends(blocks)
  PROVE  LET B == [Top EXCEPT !.ends = TRUE] IN
         /\ Varied(B, Top) /\ blocks' = [blocks EXCEPT ![Len(blocks)] = B]
         /\ B.known = known
BY TopFacts, BelowSelf DEF Ends, Varied, BlockType, known, Top

LEMMA Doubts ==
  ASSUME TypeOK, NEW name \in DoubtNames, NEW met, Doubt(name, met)
  PROVE  /\ doubts' \in SUBSET DoubtNames /\ doubts \subseteq doubts'
         /\ doubts' = {} => doubts = {} /\ ~ met
         /\ met => name \in doubts'
BY DEF TypeOK, Doubt

LEMMA Flow ==
  ASSUME TypeOK
  PROVE  /\ run.here \in Pairs /\ run.broke \in Pairs
         /\ run.again \in Pairs /\ run.failed \in SUBSET Stores
         /\ \A p \in run.here : p = <<p[1], p[2]>> /\ p[1] \in Stores /\ p[2] \in Stores
BY DEF TypeOK, RunType, Pairs

\* A value that has the assigned type agrees with what is known then.
LEMMA SetSat ==
  ASSUME NEW k \in Bindings, NEW s \in Stores, Sat(s, k), NEW v \in Variables,
         NEW type \in SUBSET Declared, NEW x \in type,
         k[v] = Unknown \/ type \subseteq k[v]
  PROVE  Sat([s EXCEPT ![v] = x], Both(k, Only(v, type)))
<1>. DEFINE t == [s EXCEPT ![v] = x]
            c == Only(v, type)
<1>. SUFFICES ASSUME NEW u \in Variables, Both(k, c)[u] # Unknown
              PROVE  t[u] \in Both(k, c)[u]
  BY DEF Sat
<1>1. /\ Both(k, c)[u] = IF k[u] = Unknown THEN c[u]
                         ELSE IF c[u] = Unknown THEN k[u] ELSE k[u] \cap c[u]
  BY DEF Both
<1>2. t[u] = IF u = v THEN x ELSE s[u]
  BY DEF Stores
<1>3. CASE u # v
  <2>1. c[u] = Unknown
    BY <1>3 DEF Only, Nothing
  <2>. QED
    BY <2>1, <1>1, <1>2, <1>3 DEF Sat
<1>4. CASE u = v
  <2>1. c[v] = type
    BY DEF Only, Nothing
  <2>. HIDE DEF c
  <2>. QED
    BY <2>1, <1>1, <1>2, <1>4
<1>. QED
  BY <1>3, <1>4

\* H are the executions behind v = e, where e is of type `type` in a store
\* that agrees with what is known, whether the analyzer learns it or not.
Given(v, type, H) ==
  /\ ~ Top.ends /\ UNCHANGED loops
  /\ \E k \in {known, Both(known, Only(v, type))} : Falls(blocks, k)
  /\ Doubt("stale", known[v] # Unknown /\ ~ type \subseteq known[v])
  /\ run' = [run EXCEPT !.here = H]
  /\ \A q \in H : \E p \in run.here, x \in Declared :
       q = <<p[1], [p[2] EXCEPT ![v] = x]>> /\ (Sat(p[2], known) => x \in type)

LEMMA Assigned ==
  ASSUME NarrowingInv, NEW v \in Variables, Assign(v)
  PROVE  \E type \in SUBSET Declared : \E H : Given(v, type, H)
<1>1. \A p \in run.here : p[2] \in Stores
  BY Flow DEF NarrowingInv
<1>2. ASSUME NEW learns \in BOOLEAN, NEW x \in Declared, Set(v, {x}, learns, LAMBDA s : {x})
      PROVE  \E type \in SUBSET Declared : \E H : Given(v, type, H)
  <2>. DEFINE H == UNION {{<<p[1], [p[2] EXCEPT ![v] = y]>> : y \in {x}} : p \in run.here}
  <2>1. /\ ~ Top.ends /\ UNCHANGED loops
        /\ \E k \in {known, Both(known, Only(v, {x}))} : Falls(blocks, k)
        /\ Doubt("stale", known[v] # Unknown /\ ~ {x} \subseteq known[v])
        /\ run' = [run EXCEPT !.here = H]
    BY <1>2 DEF Set, Statement
  <2>2. Given(v, {x}, H)
    BY <2>1 DEF Given
  <2>. HIDE DEF H
  <2>3. {x} \in SUBSET Declared
    OBVIOUS
  <2>. QED
    BY <2>2, <2>3
<1>3. ASSUME NEW learns \in BOOLEAN, Set(v, Declared, learns, LAMBDA s : Declared)
      PROVE  \E type \in SUBSET Declared : \E H : Given(v, type, H)
  <2>. DEFINE H == UNION {{<<p[1], [p[2] EXCEPT ![v] = y]>> : y \in Declared} : p \in run.here}
  <2>1. /\ ~ Top.ends /\ UNCHANGED loops
        /\ \E k \in {known, Both(known, Only(v, Declared))} : Falls(blocks, k)
        /\ Doubt("stale", known[v] # Unknown /\ ~ Declared \subseteq known[v])
        /\ run' = [run EXCEPT !.here = H]
    BY <1>3 DEF Set, Statement
  <2>2. Given(v, Declared, H)
    BY <2>1 DEF Given
  <2>. HIDE DEF H
  <2>3. Declared \in SUBSET Declared
    OBVIOUS
  <2>. QED
    BY <2>2, <2>3
<1>4. ASSUME NEW learns \in BOOLEAN, NEW w \in Variables \ {v},
             Set(v, TypeOf(known, w), learns, LAMBDA s : {s[w]})
      PROVE  \E type \in SUBSET Declared : \E H : Given(v, type, H)
  <2>. DEFINE type == TypeOf(known, w)
              H == UNION {{<<p[1], [p[2] EXCEPT ![v] = y]>> : y \in {p[2][w]}} : p \in run.here}
  <2>1. /\ ~ Top.ends /\ UNCHANGED loops
        /\ \E k \in {known, Both(known, Only(v, type))} : Falls(blocks, k)
        /\ Doubt("stale", known[v] # Unknown /\ ~ type \subseteq known[v])
        /\ run' = [run EXCEPT !.here = H]
    BY <1>4 DEF Set, Statement
  <2>2. type \in SUBSET Declared
    BY TopFacts DEF TypeOf, Bindings
  <2>3. \A p \in run.here : p[2][w] \in Declared /\ (Sat(p[2], known) => p[2][w] \in type)
    BY <1>1 DEF Stores, Sat, TypeOf
  <2>4. Given(v, type, H)
    BY <2>1, <2>3 DEF Given
  <2>. HIDE DEF H, type
  <2>. QED
    BY <2>2, <2>4
<1>. QED
  BY <1>2, <1>3, <1>4 DEF Assign

LEMMA AssignInv ==
  ASSUME NarrowingInv, NEW v \in Variables, Assign(v)
  PROVE  NarrowingInv'
<1>0. PICK type \in SUBSET Declared : \E H : Given(v, type, H)
  BY Assigned
<1>1. PICK H : Given(v, type, H)
  BY <1>0
<1>5. PICK k \in {known, Both(known, Only(v, type))} : Falls(blocks, k)
  BY <1>1 DEF Given
<1>. DEFINE c == Only(v, type)
            B == [Top EXCEPT !.known = k]
            I == Initial(loops, Len(loops))
<1>2. c \in Bindings
  BY Tags DEF Only, Bindings
<1>3. known \in Bindings
  BY TopFacts
<1>4. /\ Both(known, c) \in Bindings /\ k \in Bindings
      /\ Below(Both(known, c), k) /\ Below(k, known)
  BY <1>2, <1>3, <1>5, BindingsClosed, BothBelow, BelowSelf
<1>6. ASSUME NEW q \in H
      PROVE  /\ q \in Stores \X Stores
             /\ known[v] = Unknown \/ type \subseteq known[v] =>
                  \E p \in run.here : q[1] = p[1] /\ (Sat(p[2], known) => Sat(q[2], k))
  <2>1. PICK p \in run.here, x \in Declared :
           q = <<p[1], [p[2] EXCEPT ![v] = x]>> /\ (Sat(p[2], known) => x \in type)
    BY <1>1 DEF Given
  <2>2. p[1] \in Stores /\ p[2] \in Stores
    BY Flow DEF NarrowingInv
  <2>3. [p[2] EXCEPT ![v] = x] \in Stores
    BY <2>2 DEF Stores
  <2>4. ASSUME known[v] = Unknown \/ type \subseteq known[v], Sat(p[2], known)
        PROVE  Sat([p[2] EXCEPT ![v] = x], k)
    <3>1. Sat([p[2] EXCEPT ![v] = x], Both(known, c))
      BY <2>1, <2>2, <2>4, <1>3, SetSat
    <3>. QED
      BY <3>1, <1>4, BelowSat
  <2>. QED
    BY <2>1, <2>2, <2>3, <2>4
<1>7. /\ Varied(B, Top) /\ blocks' = [blocks EXCEPT ![Len(blocks)] = B]
      /\ B.known = k /\ B.ends = Top.ends
  BY <1>4, <1>5, Fallen
<1>8. /\ run' \in RunType /\ run'.here = H /\ run'.broke = run.broke
      /\ run'.again = run.again /\ run'.failed = run.failed
  BY <1>1, <1>6 DEF NarrowingInv, TypeOK, RunType, Pairs, Given
<1>9. /\ doubts' \in SUBSET DoubtNames /\ doubts \subseteq doubts'
      /\ doubts' = {} => doubts = {} /\ (known[v] = Unknown \/ type \subseteq known[v])
  BY <1>1, Doubts DEF NarrowingInv, DoubtNames, Given
<1>10. ASSUME doubts' = {}
       PROVE  SoundFlow(loops, Len(loops), run') /\ Keeps(I, H, k)
  <2>1. SoundFlow(loops, Len(loops), run) /\ Keeps(I, run.here, known)
    BY <1>9, <1>10, Here
  <2>2. SoundFlow(loops, Len(loops), run')
    BY <2>1, <1>8 DEF SoundFlow
  <2>3. Keeps(I, H, k)
    BY <2>1, <1>6, <1>9, <1>10 DEF Keeps
  <2>. QED
    BY <2>2, <2>3
<1>. HIDE DEF B
<1>11. ~ Top.ends /\ UNCHANGED loops
  BY <1>1 DEF Given
<1>. QED
  BY <1>7, <1>8, <1>9, <1>10, <1>11, SimpleInv

LEMMA UseInv ==
  ASSUME NarrowingInv, NEW v \in Variables, Use(v)
  PROVE  NarrowingInv'
<1>. DEFINE I == Initial(loops, Len(loops))
            bad == {p \in run.here : p[2][v] = Nil}
            H == {p \in run.here : p[2][v] # Nil}
            F == run.failed \cup {p[1] : p \in bad}
<1>1. /\ ~ Top.ends /\ TypeOf(known, v) \subseteq {Number}
      /\ run' = [run EXCEPT !.here = H, !.failed = F]
      /\ UNCHANGED <<blocks, loops, doubts>>
  BY DEF Use, Statement
<1>2. H \in Pairs /\ F \in SUBSET Stores /\ H \subseteq run.here
  BY Flow DEF NarrowingInv, Pairs
<1>3. /\ run' \in RunType /\ run'.here = H /\ run'.broke = run.broke
      /\ run'.again = run.again /\ run'.failed = F
  <2>. HIDE DEF H, F
  <2>. QED
    BY <1>1, <1>2 DEF NarrowingInv, TypeOK, RunType
<1>4. Varied(Top, Top) /\ blocks' = [blocks EXCEPT ![Len(blocks)] = Top]
  BY <1>1, TopFacts, BelowSelf, ElementOfSeq DEF Varied, Top, NarrowingInv, TypeOK
<1>5. ASSUME doubts' = {}
      PROVE  SoundFlow(loops, Len(loops), run') /\ Keeps(I, H, known)
  <2>1. SoundFlow(loops, Len(loops), run) /\ Keeps(I, run.here, known)
    BY <1>1, <1>5, Here
  <2>2. ASSUME NEW p \in bad
        PROVE  ~ Sat(p[1], I)
    <3>1. SUFFICES ASSUME Sat(p[2], known)
                   PROVE  FALSE
      BY <2>1 DEF Keeps
    <3>2. p[2][v] = Nil
      OBVIOUS
    <3>3. known[v] = Unknown \/ Nil \in known[v]
      BY <3>1, <3>2 DEF Sat
    <3>4. Nil \in TypeOf(known, v)
      BY <3>3, Tags DEF TypeOf
    <3>. QED
      BY <3>4, <1>1, Tags
  <2>3. SoundFlow(loops, Len(loops), run')
    BY <2>1, <2>2, <1>3 DEF SoundFlow
  <2>4. Keeps(I, H, known)
    BY <2>1, <1>2 DEF Keeps
  <2>. QED
    BY <2>3, <2>4
<1>6. doubts' \in SUBSET DoubtNames /\ doubts \subseteq doubts' /\ Top.known = known
  BY <1>1 DEF NarrowingInv, TypeOK, known
<1>. HIDE DEF H, F
<1>. QED
  BY <1>1, <1>3, <1>4, <1>5, <1>6, SimpleInv

LEMMA TestInv ==
  ASSUME NarrowingInv, NEW c \in Conditions, Test(c)
  PROVE  NarrowingInv'
<1>. DEFINE k == Both(known, Check(c).true)
            B == [Top EXCEPT !.known = k]
<1>1. /\ ~ Top.ends /\ Falls(blocks, k) /\ Doubt("test", k # known)
      /\ UNCHANGED <<loops, run>>
  BY DEF Test, Statement
<1>2. k \in Bindings /\ Below(k, known)
  BY TopFacts, ConditionBindings, BindingsClosed, BothBelow
<1>. HIDE DEF k
<1>3. /\ Varied(B, Top) /\ blocks' = [blocks EXCEPT ![Len(blocks)] = B]
      /\ B.known = k /\ B.ends = Top.ends
  BY <1>1, <1>2, Fallen
<1>4. /\ doubts' \in SUBSET DoubtNames /\ doubts \subseteq doubts'
      /\ doubts' = {} => doubts = {} /\ k = known
  BY <1>1, Doubts DEF NarrowingInv, DoubtNames
<1>5. doubts' = {} => /\ SoundFlow(loops, Len(loops), run')
                      /\ Keeps(Initial(loops, Len(loops)), run'.here, k)
  BY <1>1, <1>4, Here
<1>6. run' \in RunType
  BY <1>1 DEF NarrowingInv, TypeOK
<1>. HIDE DEF B
<1>. QED
  BY <1>1, <1>3, <1>4, <1>5, <1>6, SimpleInv

LEMMA ReturnInv ==
  ASSUME NarrowingInv, Return
  PROVE  NarrowingInv'
<1>. DEFINE B == [Top EXCEPT !.ends = TRUE]
<1>1. /\ Ends(blocks) /\ run' = [run EXCEPT !.here = {}] /\ UNCHANGED <<loops, doubts>>
  BY DEF Return
<1>2. Varied(B, Top) /\ blocks' = [blocks EXCEPT ![Len(blocks)] = B] /\ B.known = known
  BY <1>1, Ended
<1>3. /\ run' \in RunType /\ run'.here = {} /\ run'.broke = run.broke
      /\ run'.again = run.again /\ run'.failed = run.failed
  BY <1>1 DEF NarrowingInv, TypeOK, RunType, Pairs
<1>4. doubts' = {} => SoundFlow(loops, Len(loops), run')
  BY <1>1, <1>3, Here DEF SoundFlow
<1>5. Keeps(Initial(loops, Len(loops)), run'.here, B.known)
  BY <1>3 DEF Keeps
<1>6. doubts' \in SUBSET DoubtNames /\ doubts \subseteq doubts'
  BY <1>1 DEF NarrowingInv, TypeOK
<1>. HIDE DEF B
<1>. QED
  BY <1>1, <1>2, <1>3, <1>4, <1>5, <1>6, SimpleInv

LEMMA ContinueInv ==
  ASSUME NarrowingInv, Continue
  PROVE  NarrowingInv'
<1>. DEFINE B == [Top EXCEPT !.ends = TRUE]
            I == Initial(loops, Len(loops))
<1>1. /\ Ends(blocks) /\ UNCHANGED <<loops, doubts>>
      /\ run' = [run EXCEPT !.here = {}, !.again = run.again \cup run.here]
  BY DEF Continue
<1>2. Varied(B, Top) /\ blocks' = [blocks EXCEPT ![Len(blocks)] = B] /\ B.known = known
  BY <1>1, Ended
<1>3. /\ run' \in RunType /\ run'.here = {} /\ run'.broke = run.broke
      /\ run'.again = run.again \cup run.here /\ run'.failed = run.failed
  BY <1>1 DEF NarrowingInv, TypeOK, RunType, Pairs
<1>4. ASSUME doubts' = {}
      PROVE  SoundFlow(loops, Len(loops), run')
  <2>1. SoundFlow(loops, Len(loops), run) /\ Keeps(I, run.here, known)
    BY <1>1, <1>4, Here
  <2>2. Keeps(I, run.here, I)
    BY <2>1, TopFacts, BelowSat DEF Keeps
  <2>3. Keeps(I, run'.again, I)
    BY <2>1, <2>2, <1>3 DEF SoundFlow, Keeps
  <2>. QED
    BY <2>1, <2>3, <1>3 DEF SoundFlow
<1>5. Keeps(I, run'.here, B.known)
  BY <1>3 DEF Keeps
<1>6. doubts' \in SUBSET DoubtNames /\ doubts \subseteq doubts'
  BY <1>1 DEF NarrowingInv, TypeOK
<1>. HIDE DEF B
<1>. QED
  BY <1>1, <1>2, <1>3, <1>4, <1>5, <1>6, SimpleInv

LEMMA BreakInv ==
  ASSUME NarrowingInv, Break
  PROVE  NarrowingInv'
<1>. DEFINE B == [Top EXCEPT !.ends = TRUE]
            n == Len(loops)
            I == Initial(loops, n)
            gathered == Breaks(loops, n)
            x == IF gathered = <<>> THEN known ELSE UnionBindings(gathered[1], known, I)
<1>1. /\ Ends(blocks) /\ UNCHANGED doubts /\ loops # <<>>
      /\ run' = [run EXCEPT !.here = {}, !.broke = run.broke \cup run.here]
  BY DEF Break
<1>2. n \in Nat \ {0} /\ loops[n] \in LoopType /\ loops \in Seq(LoopType)
  BY <1>1, StackTop DEF NarrowingInv, TypeOK
<1>3. I = loops[n].initial /\ gathered = loops[n].breaks
  BY <1>2 DEF Initial, Breaks
<1>4. loops' = [loops EXCEPT ![n].breaks = <<x>>]
  BY <1>3 DEF Break, Loop
<1>5. /\ I \in Bindings /\ known \in Bindings /\ Below(known, I)
      /\ gathered # <<>> => gathered[1] \in Bindings /\ Below(gathered[1], I)
  <2>1. gathered # <<>> => gathered[1] \in Bindings
    BY <1>2, <1>3 DEF LoopType
  <2>2. gathered # <<>> => Below(gathered[1], I)
    BY <1>2, <1>3 DEF NarrowingInv, Nested, Gathered
  <2>. QED
    BY <2>1, <2>2, TopFacts
<1>6. x \in Bindings /\ Below(x, I)
  BY <1>5, BindingsClosed, JoinBelow
<1>7. \A s : Sat(s, known) \/ (gathered # <<>> /\ Sat(s, gathered[1])) => Sat(s, x)
  BY <1>5, JoinSat
<1>8. /\ run' \in RunType /\ run'.here = {} /\ run'.broke = run.broke \cup run.here
      /\ run'.again = run.again /\ run'.failed = run.failed
  BY <1>1 DEF NarrowingInv, TypeOK, RunType, Pairs
<1>. HIDE DEF x
<1>9. /\ loops' \in Seq(LoopType) /\ Len(loops') = n /\ loops'[n].breaks = <<x>>
      /\ Gathered(loops') /\ Agree(loops, loops', n)
      /\ SoundOutside(loops) => SoundOutside(loops')
  BY <1>1, <1>2, <1>3, <1>4, <1>6, LoopsBreak DEF NarrowingInv, Nested
<1>10. Initial(loops', n) = I /\ Breaks(loops', n) = <<x>>
  BY <1>2, <1>9 DEF Agree, Initial, Breaks
<1>11. ASSUME doubts' = {}
       PROVE  SoundFlow(loops', n, run')
  <2>1. SoundFlow(loops, n, run) /\ Keeps(I, run.here, known)
    BY <1>1, <1>11, Here
  <2>2. ASSUME NEW p \in run'.broke, Sat(p[1], I)
        PROVE  Sat(p[2], x)
    <3>1. CASE p \in run.here
      BY <3>1, <2>1, <2>2, <1>7 DEF Keeps
    <3>2. CASE p \in run.broke
      BY <3>2, <2>1, <2>2, <1>7 DEF SoundFlow, Keeps
    <3>. QED
      BY <3>1, <3>2, <1>8
  <2>3. Keeps(I, run'.broke, x)
    BY <2>2 DEF Keeps
  <2>4. <<x>> # <<>> /\ <<x>>[1] = x
    OBVIOUS
  <2>. QED
    BY <2>1, <2>3, <2>4, <1>8, <1>10 DEF SoundFlow
<1>12. Varied(B, Top) /\ blocks' = [blocks EXCEPT ![Len(blocks)] = B] /\ B.known = known
  BY <1>1, Ended
<1>13. Keeps(Initial(loops', n), run'.here, B.known)
  BY <1>8 DEF Keeps
<1>14. doubts' \in SUBSET DoubtNames /\ doubts \subseteq doubts'
  BY <1>1 DEF NarrowingInv, TypeOK
<1>. HIDE DEF B
<1>. QED
  BY <1>8, <1>9, <1>11, <1>12, <1>13, <1>14, StatementInv

-----------------------------------------------------------------------------
(* Branches.                                                               *)

\* The executions with which c holds, or not, agree with what is known then.
LEMMA Decided ==
  ASSUME NEW k \in Bindings, NEW c \in Conditions, NEW I, NEW pairs \in Pairs
  PROVE  /\ Both(k, Check(c).true) \in Bindings /\ Both(k, Check(c).false) \in Bindings
         /\ Below(Both(k, Check(c).true), k) /\ Below(Both(k, Check(c).false), k)
         /\ When(pairs, c, TRUE) \in Pairs /\ When(pairs, c, FALSE) \in Pairs
         /\ c.op # "or" /\ Keeps(I, pairs, k) =>
              /\ Keeps(I, When(pairs, c, TRUE), Both(k, Check(c).true))
              /\ Keeps(I, When(pairs, c, FALSE), Both(k, Check(c).false))
<1>1. Check(c).true \in Bindings /\ Check(c).false \in Bindings
  BY ConditionBindings
<1>2. When(pairs, c, TRUE) \in Pairs /\ When(pairs, c, FALSE) \in Pairs
  BY DEF When, Pairs
<1>3. ASSUME c.op # "or", Keeps(I, pairs, k), NEW p \in pairs, Sat(p[1], I)
      PROVE  /\ May(c, TRUE, p[2]) => Sat(p[2], Both(k, Check(c).true))
             /\ May(c, FALSE, p[2]) => Sat(p[2], Both(k, Check(c).false))
  <2>1. p[2] \in Stores /\ Sat(p[2], k)
    BY <1>3 DEF Pairs, Keeps
  <2>. QED
    BY <2>1, <1>1, <1>3, Checked, BothSat
<1>. QED
  BY <1>1, <1>2, <1>3, BindingsClosed, BothBelow DEF When, Keeps

LEMMA IfInv ==
  ASSUME NarrowingInv, NEW c \in Conditions, If(c)
  PROVE  NarrowingInv'
<1>. DEFINE m == Len(blocks)
            I == Initial(loops, Len(loops))
            k == Both(known, Check(c).true)
            after == Both(known, Check(c).false)
            H == When(run.here, c, TRUE)
            aside == When(run.here, c, FALSE)
            B == Block("then", Len(loops), k, after, aside)
<1>1. /\ ~ Top.ends /\ blocks' = Append(blocks, B) /\ run' = [run EXCEPT !.here = H]
      /\ Doubt("or", c.op = "or") /\ UNCHANGED loops
  BY DEF If, Statement
<1>2. /\ m \in Nat \ {0} /\ Len(loops) \in Nat /\ Top \in BlockType /\ known \in Bindings
      /\ Top.loop = Len(loops) /\ Top = blocks[m] /\ Top.known = known
  BY TopFacts DEF Top, known
<1>3. /\ k \in Bindings /\ after \in Bindings /\ Below(k, known) /\ Below(after, known)
      /\ H \in Pairs /\ aside \in Pairs
      /\ c.op # "or" /\ Keeps(I, run.here, known) => Keeps(I, H, k) /\ Keeps(I, aside, after)
  BY <1>2, Flow, Decided DEF NarrowingInv
<1>. HIDE DEF k, after, H, aside
<1>4. /\ B \in BlockType /\ B.kind = "then" /\ B.loop = Len(loops) /\ B.known = k
      /\ B.after = after /\ B.aside = aside /\ ~ B.ends
  BY <1>2, <1>3 DEF Block, BlockType
<1>. HIDE DEF B
<1>5. Stacked(blocks', blocks, m, B, BlockType)
  BY <1>1, <1>4, StackPush DEF NarrowingInv, TypeOK
<1>6. Placed(blocks, m, B, loops')
  BY <1>1, <1>2, <1>3, <1>4 DEF Placed, Fits
<1>7. /\ run' \in RunType /\ run'.here = H /\ run'.broke = run.broke
      /\ run'.again = run.again /\ run'.failed = run.failed
  BY <1>1, <1>3 DEF NarrowingInv, TypeOK, RunType
<1>8. /\ doubts' \in SUBSET DoubtNames /\ doubts \subseteq doubts'
      /\ doubts' = {} => doubts = {} /\ c.op # "or"
  BY <1>1, Doubts DEF NarrowingInv, DoubtNames
<1>9. ASSUME doubts' = {}
      PROVE  /\ SoundBlock(B, blocks[m], loops) /\ SoundOutside(loops)
             /\ SoundFlow(loops, Len(loops), run')
             /\ Keeps(I, run'.here, B.known)
  <2>1. SoundFlow(loops, Len(loops), run) /\ Keeps(I, run.here, known)
    BY <1>8, <1>9, Here
  <2>2. SoundFlow(loops, Len(loops), run')
    BY <2>1, <1>7 DEF SoundFlow
  <2>3. SoundBlock(B, blocks[m], loops)
    BY <2>1, <1>3, <1>4, <1>8, <1>9 DEF SoundBlock
  <2>4. SoundOutside(loops)
    BY <1>8, <1>9 DEF NarrowingInv, Sound, SoundIn
  <2>. QED
    BY <2>1, <2>2, <2>3, <2>4, <1>3, <1>4, <1>7, <1>8, <1>9
<1>10. loops' \in Seq(LoopType) /\ Gathered(loops') /\ Agree(loops, loops', blocks[m].loop)
  BY <1>1 DEF NarrowingInv, TypeOK, Nested, Agree
<1>11. m \in 1 .. Len(blocks)
  BY <1>2
<1>. HIDE DEF m
<1>. QED
  BY <1>1, <1>4, <1>5, <1>6, <1>7, <1>8, <1>9, <1>10, <1>11, EnterInv

\* An inner block, the one around it, and what is known in them.
LEMMA InnerFacts ==
  ASSUME NarrowingInv, Top.kind # "body"
  PROVE  LET n == Len(blocks)  o == blocks[n - 1] IN
         /\ n - 1 \in 1 .. n /\ n - 2 \in 0 .. n - 1 /\ n > 1
         /\ Outer \in Seq(BlockType) /\ Len(Outer) = n - 1 /\ Outer[n - 1] = o
         /\ o \in BlockType /\ o.known \in Bindings /\ ~ o.ends
         /\ Fits(Top, o, loops)
         /\ doubts = {} => SoundBlock(Top, o, loops)
<1>. DEFINE n == Len(blocks)
<1>1. n \in Nat \ {0} /\ Top = blocks[n]
  BY TopFacts DEF Top
<1>2. n # 1
  BY <1>1 DEF NarrowingInv, Nested, NestedIn
<1>3. n - 1 \in 1 .. n /\ n - 2 \in 0 .. n - 1 /\ n > 1 /\ n \in 2 .. n /\ n - 1 \in 1 .. n - 1
  <2>. HIDE DEF n
  <2>. QED
    BY <1>1, <1>2
<1>4. blocks[n - 1] \in BlockType /\ blocks[n - 1].known \in Bindings
  BY <1>3, BlockAt DEF NarrowingInv, TypeOK
<1>5. Fits(Top, blocks[n - 1], loops)
  BY <1>1, <1>3 DEF NarrowingInv, Nested, NestedIn
<1>6. doubts = {} => SoundBlock(Top, blocks[n - 1], loops)
  BY <1>1, <1>3 DEF NarrowingInv, Sound, SoundIn
<1>7. /\ Outer \in Seq(BlockType) /\ Len(Outer) = n - 1
      /\ \A i \in 1 .. n - 1 : Outer[i] = blocks[i]
  BY StackPop DEF Outer, NarrowingInv, TypeOK
<1>8. Outer[n - 1] = blocks[n - 1]
  BY <1>3, <1>7
<1>9. ~ blocks[n - 1].ends
  BY <1>5 DEF Fits
<1>. HIDE DEF n
<1>. QED
  BY <1>3, <1>4, <1>5, <1>6, <1>7, <1>8, <1>9 DEF n

LEMMA ElseInv ==
  ASSUME NarrowingInv, Else
  PROVE  NarrowingInv'
<1>. DEFINE m == Len(blocks) - 1
            o == blocks[m]
            I == Initial(loops, Len(loops))
            B == [Block("else", Len(loops), Top.after, known, run.here)
                    EXCEPT !.thenEnds = Top.ends]
<1>1. /\ Top.kind = "then" /\ blocks' = Append(Outer, B)
      /\ run' = [run EXCEPT !.here = Top.aside] /\ UNCHANGED <<loops, doubts>>
  BY DEF Else
<1>2. /\ Len(loops) \in Nat /\ Top \in BlockType /\ known \in Bindings
      /\ Top.loop = Len(loops) /\ Top.known = known
      /\ Top.after \in Bindings /\ Top.aside \in Pairs /\ Top.ends \in BOOLEAN
  BY TopFacts DEF known, BlockType
<1>3. /\ m \in 1 .. Len(blocks) /\ Fits(Top, o, loops)
      /\ doubts = {} => SoundBlock(Top, o, loops)
  BY <1>1, InnerFacts
<1>4. /\ B \in BlockType /\ B.kind = "else" /\ B.loop = Len(loops) /\ B.known = Top.after
      /\ B.after = known /\ B.aside = run.here /\ ~ B.ends /\ B.thenEnds = Top.ends
  BY <1>2, Flow DEF Block, BlockType, NarrowingInv
<1>5. Stacked(blocks', blocks, m, B, BlockType)
  BY <1>1, <1>4, StackReplace DEF NarrowingInv, TypeOK, Outer
<1>. HIDE DEF B
<1>6. o.loop = Len(loops) /\ Placed(blocks, m, B, loops')
  <2>1. /\ o.loop = Len(loops) /\ ~ o.ends
        /\ Below(Top.known, o.known) /\ Below(Top.after, o.known)
    BY <1>1, <1>2, <1>3 DEF Fits
  <2>2. Fits(B, o, loops)
    BY <2>1, <1>2, <1>4 DEF Fits
  <2>. HIDE DEF m
  <2>3. m # 0
    BY <1>3, TopFacts
  <2>4. Placed(blocks, m, B, loops)
    BY <2>2, <2>3, <1>4 DEF Placed
  <2>. QED
    BY <2>1, <2>4, <1>1
<1>7. /\ run' \in RunType /\ run'.here = Top.aside /\ run'.broke = run.broke
      /\ run'.again = run.again /\ run'.failed = run.failed
  BY <1>1, <1>2 DEF NarrowingInv, TypeOK, RunType
<1>8. ASSUME "skipped" \notin doubts', B.thenEnds
      PROVE  B.aside = {}
  BY <1>1, <1>4, <1>8 DEF NarrowingInv, Ending, EndingIn, Top
<1>9. ASSUME doubts' = {}
      PROVE  /\ SoundBlock(B, o, loops) /\ SoundOutside(loops)
             /\ SoundFlow(loops, Len(loops), run')
             /\ Keeps(I, run'.here, B.known)
  <2>1. SoundFlow(loops, Len(loops), run) /\ Keeps(I, run.here, known)
    BY <1>1, <1>9, Here
  <2>2. SoundFlow(loops, Len(loops), run')
    BY <2>1, <1>7 DEF SoundFlow
  <2>3. SoundBlock(B, o, loops)
    BY <2>1, <1>4 DEF SoundBlock
  <2>4. SoundOutside(loops)
    BY <1>1, <1>9 DEF NarrowingInv, Sound, SoundIn
  <2>5. Keeps(I, Top.aside, Top.after)
    BY <1>1, <1>2, <1>3, <1>9 DEF SoundBlock
  <2>. QED
    BY <2>2, <2>3, <2>4, <2>5, <1>4, <1>7
<1>10. loops' \in Seq(LoopType) /\ Gathered(loops') /\ Agree(loops, loops', o.loop)
  BY <1>1 DEF NarrowingInv, TypeOK, Nested, Agree
<1>11. doubts' \in SUBSET DoubtNames /\ doubts \subseteq doubts'
  BY <1>1 DEF NarrowingInv, TypeOK
<1>. HIDE DEF m
<1>. QED
  BY <1>1, <1>3, <1>4, <1>5, <1>6, <1>7, <1>8, <1>9, <1>10, <1>11, EnterInv

\* Back in the block around the top.
LEMMA LeaveInv ==
  ASSUME NarrowingInv, Top.kind # "body", NEW o, o = blocks[Len(blocks) - 1],
         NEW B, Varied(B, o), blocks' = [Outer EXCEPT ![Len(Outer)] = B],
         loops' \in Seq(LoopType), Len(loops') = B.loop, Gathered(loops'),
         Agree(loops, loops', B.loop),
         run' \in RunType, doubts' \in SUBSET DoubtNames, doubts \subseteq doubts',
         "skipped" \notin doubts' /\ B.ends => run'.here = {},
         doubts' = {} => /\ SoundOutside(loops')
                         /\ SoundFlow(loops', Len(loops'), run')
                         /\ Keeps(Initial(loops', Len(loops')), run'.here, B.known)
  PROVE  NarrowingInv'
<1>. DEFINE m == Len(blocks) - 2
<1>1. Len(blocks) > 1 /\ m \in 0 .. Len(blocks) - 1 /\ m + 1 = Len(blocks) - 1
  BY InnerFacts, TopFacts
<1>2. Stacked(blocks', blocks, m, B, BlockType)
  BY <1>1, StackUnder DEF NarrowingInv, TypeOK, Outer, Varied
<1>3. Varied(B, blocks[m + 1])
  BY <1>1
<1>. HIDE DEF m
<1>. QED
  BY <1>1, <1>2, <1>3, ChangeInv

LEMMA OuterFallen ==
  ASSUME NarrowingInv, Top.kind # "body", NEW o, o = blocks[Len(blocks) - 1],
         NEW k \in Bindings, Below(k, o.known), Falls(Outer, k)
  PROVE  LET B == [o EXCEPT !.known = k] IN
         /\ Varied(B, o) /\ blocks' = [Outer EXCEPT ![Len(Outer)] = B]
         /\ B.known = k /\ B.loop = o.loop /\ ~ B.ends
<1>1. o \in BlockType /\ ~ o.ends /\ Outer[Len(Outer)] = o
  BY InnerFacts
<1>. QED
  BY <1>1 DEF Falls, Varied, BlockType

LEMMA OuterEnded ==
  ASSUME NarrowingInv, Top.kind # "body", NEW o, o = blocks[Len(blocks) - 1],
         Ends(Outer)
  PROVE  LET B == [o EXCEPT !.ends = TRUE] IN
         /\ Varied(B, o) /\ blocks' = [Outer EXCEPT ![Len(Outer)] = B]
         /\ B.known = o.known /\ B.loop = o.loop
<1>1. o \in BlockType /\ Outer[Len(Outer)] = o
  BY InnerFacts
<1>. QED
  BY <1>1, BelowSelf DEF Ends, Varied, BlockType

\* What is known where the two branches of an if join.
Joined(base) ==
  IF Top.thenEnds THEN known
  ELSE IF Top.ends THEN Top.after ELSE UnionBindings(Top.after, known, base)

LEMMA EndIfInv ==
  ASSUME NarrowingInv, EndIf
  PROVE  NarrowingInv'
<1>. DEFINE o == blocks[Len(blocks) - 1]
            I == Initial(loops, Len(loops))
            k == Joined(o.known)
            all == Top.thenEnds /\ Top.ends
            B == IF all THEN [o EXCEPT !.ends = TRUE] ELSE [o EXCEPT !.known = k]
            H == run.here \cup Top.aside
<1>1. /\ Top.kind = "else" /\ run' = [run EXCEPT !.here = H] /\ UNCHANGED <<loops, doubts>>
  BY DEF EndIf
<1>2. /\ Top \in BlockType /\ known \in Bindings /\ Top.after \in Bindings
      /\ Top.aside \in Pairs /\ Top.thenEnds \in BOOLEAN /\ Top.ends \in BOOLEAN
      /\ Top.loop = Len(loops) /\ Top.known = known
  BY TopFacts DEF BlockType, known
<1>3. /\ o \in BlockType /\ o.known \in Bindings /\ Fits(Top, o, loops)
      /\ Outer[Len(Outer)] = o
      /\ doubts = {} => SoundBlock(Top, o, loops)
  BY <1>1, InnerFacts
<1>4. o.loop = Len(loops) /\ Below(known, o.known) /\ Below(Top.after, o.known)
  BY <1>1, <1>2, <1>3 DEF Fits
<1>5. k \in Bindings /\ Below(k, o.known)
  BY <1>2, <1>3, <1>4, BindingsClosed, JoinBelow DEF Joined
<1>6. IF all THEN Ends(Outer) ELSE Falls(Outer, k)
  BY <1>2, <1>3 DEF EndIf, Joined
<1>7. "skipped" \notin doubts =>
        /\ Top.ends => run.here = {}
        /\ Top.thenEnds => Top.aside = {}
  BY <1>1, TopFacts DEF NarrowingInv, Ending, EndingIn, Top
<1>8. ASSUME doubts = {}
      PROVE  SoundFlow(loops, Len(loops), run) /\ Keeps(I, H, B.known)
  <2>1. SoundFlow(loops, Len(loops), run) /\ Keeps(I, run.here, known)
    BY <1>8, Here
  <2>2. Keeps(I, Top.aside, Top.after)
    BY <1>1, <1>2, <1>3, <1>8 DEF SoundBlock
  <2>3. "skipped" \notin doubts
    BY <1>8
  <2>4. CASE all
    BY <2>1, <2>3, <2>4, <1>7 DEF Keeps
  <2>5. CASE ~ all
    <3>1. B.known = k
      BY <2>5, <1>3 DEF BlockType
    <3>. HIDE DEF B
    <3>2. CASE Top.thenEnds
      BY <3>1, <3>2, <2>1, <2>3, <1>7 DEF Joined, Keeps
    <3>3. CASE ~ Top.thenEnds /\ Top.ends
      BY <3>1, <3>3, <2>1, <2>2, <2>3, <1>7 DEF Joined, Keeps
    <3>4. CASE ~ Top.thenEnds /\ ~ Top.ends
      <4>1. k = UnionBindings(Top.after, known, o.known)
        BY <3>4 DEF Joined
      <4>2. \A s : Sat(s, Top.after) \/ Sat(s, known) => Sat(s, k)
        BY <4>1, <1>2, <1>3, <1>4, JoinSat
      <4>. HIDE DEF k
      <4>. QED
        BY <4>2, <3>1, <2>1, <2>2 DEF Keeps
    <3>. QED
      BY <3>2, <3>3, <3>4
  <2>. QED
    BY <2>1, <2>4, <2>5
<1>9. /\ Varied(B, o) /\ blocks' = [Outer EXCEPT ![Len(Outer)] = B]
      /\ B.loop = Len(loops) /\ (B.ends => all)
  <2>1. CASE all
    BY <2>1, <1>1, <1>4, <1>6, OuterEnded
  <2>2. CASE ~ all
    <3>. HIDE DEF k
    <3>. QED
      BY <2>2, <1>1, <1>4, <1>5, <1>6, OuterFallen
  <2>. QED
    BY <2>1, <2>2
<1>. HIDE DEF B
<1>10. H \in Pairs
  BY <1>2, Flow DEF NarrowingInv, Pairs
<1>11. "skipped" \notin doubts' /\ B.ends => H = {}
  BY <1>1, <1>7, <1>9
<1>. HIDE DEF H, all
<1>12. /\ run' \in RunType /\ run'.here = H /\ run'.broke = run.broke
       /\ run'.again = run.again /\ run'.failed = run.failed
  BY <1>1, <1>10 DEF NarrowingInv, TypeOK, RunType
<1>13. /\ loops' \in Seq(LoopType) /\ Gathered(loops') /\ Agree(loops, loops', B.loop)
       /\ Len(loops') = B.loop
  BY <1>1, <1>9 DEF NarrowingInv, TypeOK, Nested, Agree
<1>14. ASSUME doubts' = {}
       PROVE  /\ SoundOutside(loops) /\ SoundFlow(loops, Len(loops), run')
              /\ Keeps(I, run'.here, B.known)
  <2>1. SoundOutside(loops)
    BY <1>1, <1>14 DEF NarrowingInv, Sound, SoundIn
  <2>2. SoundFlow(loops, Len(loops), run')
    BY <1>1, <1>8, <1>12, <1>14 DEF SoundFlow
  <2>. QED
    BY <2>1, <2>2, <1>1, <1>8, <1>12, <1>14
<1>15. doubts' \in SUBSET DoubtNames /\ doubts \subseteq doubts'
  BY <1>1 DEF NarrowingInv, TypeOK
<1>. HIDE DEF o
<1>. QED
  BY <1>1, <1>9, <1>11, <1>12, <1>13, <1>14, <1>15, LeaveInv DEF o

-----------------------------------------------------------------------------
(* Loops.                                                                  *)

LEMMA WhileInv ==
  ASSUME NarrowingInv, NEW c \in Conditions, While(c)
  PROVE  NarrowingInv'
<1>. DEFINE m == Len(blocks)
            n == Len(loops)
            k == Both(known, Check(c).true)
            after == Both(known, Check(c).false)
            S == {s \in Stores : May(c, TRUE, s)}
            e == [initial |-> known, breaks |-> <<>>, cond |-> c, outer |-> run]
            B == Block("while", n + 1, k, after, {})
<1>1. /\ ~ Top.ends /\ blocks' = Append(blocks, B) /\ loops' = Append(loops, e)
      /\ run' = Entered(S) /\ Doubt("or", c.op = "or")
  BY DEF While, Statement
<1>2. /\ m \in Nat \ {0} /\ n \in Nat /\ Top \in BlockType /\ known \in Bindings
      /\ Top.loop = n /\ Top = blocks[m] /\ Top.known = known
  BY TopFacts DEF Top, known
<1>3. Check(c).true \in Bindings /\ Check(c).false \in Bindings
  BY ConditionBindings
<1>4. /\ k \in Bindings /\ after \in Bindings /\ Below(k, known) /\ Below(after, known)
  BY <1>2, <1>3, BindingsClosed, BothBelow
<1>5. ASSUME c.op # "or", NEW s \in S, Sat(s, known)
      PROVE  Sat(s, k)
  BY <1>2, <1>3, <1>5, Checked, BothSat
<1>6. after = Both(known, Check(c).false)
  OBVIOUS
<1>. HIDE DEF k, after
<1>7. /\ B \in BlockType /\ B.kind = "while" /\ B.loop = n + 1 /\ B.known = k
      /\ B.after = after /\ ~ B.ends
  BY <1>2, <1>4 DEF Block, BlockType, Pairs
<1>8. /\ e \in LoopType /\ e.initial = known /\ e.breaks = <<>> /\ e.cond = c
      /\ e.outer = run
  BY <1>2 DEF LoopType, NarrowingInv, TypeOK
<1>. HIDE DEF B, e
<1>9. /\ loops' \in Seq(LoopType) /\ Len(loops') = n + 1 /\ loops'[n + 1] = e
      /\ Gathered(loops') /\ Agree(loops, loops', n)
      /\ SoundOutside(loops) /\ SoundFlow(loops, n, e.outer) => SoundOutside(loops')
  BY <1>1, <1>8, LoopsPush DEF NarrowingInv, TypeOK, Nested
<1>10. Stacked(blocks', blocks, m, B, BlockType)
  BY <1>1, <1>7, StackPush DEF NarrowingInv, TypeOK
<1>11. Placed(blocks, m, B, loops')
  <2>1. Fits(B, Top, loops')
    BY <1>1, <1>2, <1>4, <1>7, <1>8, <1>9 DEF Fits
  <2>. HIDE DEF m
  <2>. QED
    BY <2>1, <1>2, <1>7, <1>9 DEF Placed
<1>12. /\ run' \in RunType /\ run'.here = {<<s, s>> : s \in S}
       /\ run'.broke = {} /\ run'.again = {} /\ run'.failed = {}
  <2>0. \A s \in S : s \in Stores
    OBVIOUS
  <2>. HIDE DEF S
  <2>1. {<<s, s>> : s \in S} \in Pairs
    BY <2>0 DEF Pairs
  <2>. QED
    BY <2>1, <1>1 DEF Entered, RunType, Pairs
<1>13. /\ doubts' \in SUBSET DoubtNames /\ doubts \subseteq doubts'
       /\ doubts' = {} => doubts = {} /\ c.op # "or"
  BY <1>1, Doubts DEF NarrowingInv, DoubtNames
<1>14. /\ Initial(loops', n + 1) = known /\ Breaks(loops', n + 1) = <<>>
       /\ Initial(loops', n) = Initial(loops, n)
  <2>1. n + 1 # 0 /\ n \in 0 .. n
    BY <1>2
  <2>2. Initial(loops', n) = Initial(loops, n)
    BY <2>1, <1>2, <1>9, InitialSame
  <2>. QED
    BY <2>1, <2>2, <1>8, <1>9 DEF Initial, Breaks
<1>15. ASSUME doubts' = {}
       PROVE  /\ SoundBlock(B, Top, loops') /\ SoundOutside(loops')
              /\ SoundFlow(loops', n + 1, run')
              /\ Keeps(Initial(loops', n + 1), run'.here, B.known)
  <2>1. SoundFlow(loops, n, run) /\ Keeps(Initial(loops, n), run.here, known)
    BY <1>13, <1>15, Here
  <2>2. SoundFlow(loops', n + 1, run')
    BY <1>12, <1>14 DEF SoundFlow, Keeps
  <2>3. SoundBlock(B, Top, loops')
    BY <2>1, <1>2, <1>6, <1>7, <1>8, <1>9, <1>13, <1>14, <1>15 DEF SoundBlock
  <2>4. SoundOutside(loops')
    BY <2>1, <1>8, <1>9, <1>13, <1>15 DEF NarrowingInv, Sound, SoundIn
  <2>5. ASSUME NEW p \in run'.here, Sat(p[1], known)
        PROVE  Sat(p[2], k)
    <3>1. PICK s \in S : p = <<s, s>>
      BY <1>12
    <3>. HIDE DEF S
    <3>. QED
      BY <3>1, <2>5, <1>5, <1>13, <1>15
  <2>6. Keeps(Initial(loops', n + 1), run'.here, B.known)
    BY <2>5, <1>7, <1>14 DEF Keeps
  <2>. QED
    BY <2>2, <2>3, <2>4, <2>6
<1>16. m \in 1 .. Len(blocks) /\ blocks[m] = Top /\ blocks[m].loop = n
  BY <1>2
<1>. HIDE DEF m, n
<1>. QED
  BY <1>7, <1>9, <1>10, <1>11, <1>12, <1>13, <1>15, <1>16, EnterInv

\* Whatever went round, the condition is evaluated in a store that agrees
\* with what was known before the loop.
LEMMA HeadsSat ==
  ASSUME NEW I, NEW k, NEW r, Keeps(I, r.here, k), Below(k, I), Keeps(I, r.again, I),
         r.here \in Pairs, r.again \in Pairs,
         NEW s \in Stores, Sat(s, I), NEW t \in Heads(s, r)
  PROVE  t \in Stores /\ Sat(t, I)
<1>. DEFINE X == {u \in Stores : Sat(u, I)}
<1>1. t \in Stores
  BY DEF Heads
<1>2. X \in SUBSET Stores /\ s \in X
  OBVIOUS
<1>3. ASSUME NEW p \in r.here \cup r.again, p[1] \in X
      PROVE  p[2] \in X
  <2>1. p[2] \in Stores /\ Sat(p[1], I)
    BY <1>3 DEF Pairs
  <2>2. CASE p \in r.here
    BY <2>1, <2>2, BelowSat DEF Keeps
  <2>3. CASE p \in r.again
    BY <2>1, <2>3 DEF Keeps
  <2>. QED
    BY <2>2, <2>3
<1>4. t \in X
  <2>. HIDE DEF X
  <2>. QED
    BY <1>2, <1>3 DEF Heads
<1>. QED
  BY <1>1, <1>4

LEMMA EndWhileInv ==
  ASSUME NarrowingInv, EndWhile
  PROVE  NarrowingInv'
<1>. DEFINE o == blocks[Len(blocks) - 1]
            n == Len(loops)
            I == Loop.initial
            gathered == Loop.breaks
            outer == Loop.outer
            never == Top.ends /\ gathered = <<>>
            k == IF gathered = <<>> THEN Top.after
                 ELSE UnionBindings(Top.after, gathered[1], I)
            B == IF never THEN [o EXCEPT !.ends = TRUE] ELSE [o EXCEPT !.known = k]
            exits(s) == {t \in Heads(s, run) : May(Loop.cond, FALSE, t)}
                          \cup {q[2] : q \in {r \in run.broke : r[1] \in Heads(s, run)}}
            H == UNION {{<<p[1], t>> : t \in exits(p[2])} : p \in outer.here}
            F == outer.failed \cup {p[1] : p \in {q \in outer.here :
                                                   Heads(q[2], run) \cap run.failed # {}}}
(* What EndWhile does, and what the invariant says of the loop. *)
<1>1. /\ Top.kind = "while" /\ (IF never THEN Ends(Outer) ELSE Falls(Outer, k))
      /\ run' = [outer EXCEPT !.here = H, !.failed = F]
      /\ loops' = SubSeq(loops, 1, n - 1) /\ Doubt("skipped", never)
  BY DEF EndWhile
<1>2. /\ Top \in BlockType /\ known \in Bindings /\ Top.after \in Bindings
      /\ Top.loop = n /\ n \in Nat /\ Top.known = known
      /\ Below(known, Initial(loops, n))
  BY TopFacts DEF BlockType, known
<1>3. /\ o \in BlockType /\ o.known \in Bindings /\ o.loop \in Nat
      /\ Fits(Top, o, loops)
      /\ doubts = {} => SoundBlock(Top, o, loops)
  BY <1>1, InnerFacts DEF BlockType
<1>4. /\ n = o.loop + 1 /\ n # 0 /\ n - 1 \in Nat /\ loops[n].initial = o.known
      /\ Below(Top.after, o.known)
  BY <1>1, <1>2, <1>3 DEF Fits
<1>5. loops # <<>> /\ loops \in Seq(LoopType)
  BY <1>4 DEF NarrowingInv, TypeOK
<1>6. /\ Loop \in LoopType /\ Loop = loops[n] /\ I = o.known /\ outer \in RunType
      /\ gathered # <<>> => gathered[1] \in Bindings
      /\ Initial(loops, n) = I /\ Breaks(loops, n) = gathered
  <2>1. Loop = loops[n] /\ loops[n] \in LoopType
    BY <1>5, StackTop DEF Loop
  <2>. QED
    BY <2>1, <1>4 DEF LoopType, Initial, Breaks
<1>7. gathered # <<>> => Below(gathered[1], I)
  BY <1>2, <1>4, <1>6 DEF NarrowingInv, Nested, Gathered
<1>8. k \in Bindings /\ Below(k, o.known)
  BY <1>2, <1>3, <1>4, <1>6, <1>7, BindingsClosed, JoinBelow
<1>9. \A s : (gathered = <<>> /\ Sat(s, Top.after))
             \/ (gathered # <<>> /\ (Sat(s, Top.after) \/ Sat(s, gathered[1])))
             => Sat(s, k)
  BY <1>2, <1>3, <1>4, <1>6, <1>7, JoinSat
<1>. HIDE DEF k
(* Types. *)
<1>10. ASSUME NEW s \in Stores, NEW t \in exits(s)
       PROVE  t \in Stores
  <2>1. \A u \in Heads(s, run) : u \in Stores
    BY DEF Heads
  <2>2. \A r \in run.broke : r[2] \in Stores
    BY TopFacts DEF NarrowingInv, TypeOK, RunType, Pairs
  <2>. QED
    BY <2>1, <2>2
<1>11. \A p \in outer.here : p[1] \in Stores /\ p[2] \in Stores
  BY <1>6 DEF RunType, Pairs
<1>12. \A q \in H : \E p \in outer.here : \E t \in exits(p[2]) : q = <<p[1], t>>
  <2>. HIDE DEF exits
  <2>. QED
    OBVIOUS
<1>13. H \in Pairs
  <2>. HIDE DEF exits, H
  <2>. QED
    BY <1>10, <1>11, <1>12 DEF Pairs
<1>14. F \in SUBSET Stores
  BY <1>6, <1>11 DEF RunType
<1>15. /\ run' \in RunType /\ run'.here = H /\ run'.broke = outer.broke
       /\ run'.again = outer.again /\ run'.failed = F
  <2>. HIDE DEF H, F
  <2>. QED
    BY <1>1, <1>6, <1>13, <1>14 DEF RunType
(* The loops, and the block, that are left. *)
<1>16. /\ loops' \in Seq(LoopType) /\ Len(loops') = n - 1
       /\ Gathered(loops') /\ Agree(loops, loops', n - 1)
       /\ SoundOutside(loops) => /\ SoundOutside(loops')
                                 /\ SoundFlow(loops', n - 1, outer)
  BY <1>1, <1>5, <1>6, LoopsPop DEF NarrowingInv, Nested
<1>17. Initial(loops', n - 1) = Initial(loops, o.loop) /\ o.loop = n - 1
  <2>1. n - 1 \in 0 .. n - 1 /\ o.loop = n - 1
    BY <1>2, <1>3, <1>4
  <2>. QED
    BY <2>1, <1>4, <1>16, InitialSame
<1>18. /\ Varied(B, o) /\ blocks' = [Outer EXCEPT ![Len(Outer)] = B]
       /\ B.loop = o.loop /\ (B.ends => never) /\ (~ never => B.known = k)
  <2>1. CASE never
    BY <2>1, <1>1, OuterEnded
  <2>2. CASE ~ never
    BY <2>2, <1>1, <1>8, OuterFallen
  <2>. QED
    BY <2>1, <2>2
<1>. HIDE DEF B
<1>19. /\ doubts' \in SUBSET DoubtNames /\ doubts \subseteq doubts'
       /\ doubts' = {} => doubts = {} /\ ~ never
       /\ never => "skipped" \in doubts'
  BY <1>1, Doubts DEF NarrowingInv, DoubtNames
(* What is known behind the loop is so. *)
<1>20. ASSUME doubts' = {}
       PROVE  /\ SoundOutside(loops') /\ SoundFlow(loops', n - 1, run')
              /\ Keeps(Initial(loops', n - 1), run'.here, B.known)
  <2>. DEFINE J == Initial(loops', n - 1)
  <2>1. SoundFlow(loops, n, run) /\ Keeps(I, run.here, known)
    BY <1>6, <1>19, <1>20, Here
  <2>2. /\ Keeps(I, run.again, I) /\ (\A e \in run.failed : ~ Sat(e, I))
        /\ gathered = <<>> => run.broke = {}
        /\ gathered # <<>> => Keeps(I, run.broke, gathered[1])
    BY <2>1, <1>6 DEF SoundFlow
  <2>3. /\ Keeps(J, outer.here, I) /\ Loop.cond.op # "or"
        /\ Top.after = Both(I, Check(Loop.cond).false)
    BY <1>1, <1>2, <1>3, <1>6, <1>17, <1>19, <1>20 DEF SoundBlock
  <2>4. SoundOutside(loops') /\ SoundFlow(loops', n - 1, outer)
    BY <1>16, <1>19, <1>20 DEF NarrowingInv, Sound, SoundIn
  <2>5. ASSUME NEW p \in outer.here, Sat(p[1], J), NEW t \in Heads(p[2], run)
        PROVE  t \in Stores /\ Sat(t, I)
    <3>1. p[2] \in Stores /\ Sat(p[2], I)
      BY <2>3, <2>5, <1>11 DEF Keeps
    <3>2. run.here \in Pairs /\ run.again \in Pairs
      BY Flow DEF NarrowingInv
    <3>. HIDE DEF I
    <3>. QED
      BY <3>1, <3>2, <2>1, <2>2, <1>2, <1>6, HeadsSat
  <2>6. ASSUME NEW p \in outer.here, Sat(p[1], J), NEW t \in exits(p[2])
        PROVE  Sat(t, k)
    <3>1. CASE t \in Heads(p[2], run) /\ May(Loop.cond, FALSE, t)
      <4>1. t \in Stores /\ Sat(t, I)
        BY <3>1, <2>5, <2>6
      <4>2. Loop.cond \in Conditions /\ Check(Loop.cond).false \in Bindings
        BY <1>6, ConditionBindings DEF LoopType
      <4>3. Sat(t, Check(Loop.cond).false)
        BY <3>1, <4>1, <4>2, <2>3, Checked
      <4>4. Sat(t, Top.after)
        BY <4>1, <4>2, <4>3, <2>3, <1>3, <1>6, BothSat
      <4>. QED
        BY <4>4, <1>9
    <3>2. CASE \E r \in run.broke : r[1] \in Heads(p[2], run) /\ t = r[2]
      <4>1. PICK r \in run.broke : r[1] \in Heads(p[2], run) /\ t = r[2]
        BY <3>2
      <4>2. Sat(r[1], I)
        BY <4>1, <2>5, <2>6
      <4>3. gathered # <<>> /\ Sat(t, gathered[1])
        BY <4>1, <4>2, <2>2 DEF Keeps
      <4>. QED
        BY <4>3, <1>9
    <3>. QED
      BY <3>1, <3>2, <2>6
  <2>. HIDE DEF exits, H, J, I, gathered, outer
  <2>7. Keeps(J, H, k)
    BY <2>6, <1>12 DEF Keeps
  <2>8. \A e \in F : ~ Sat(e, J)
    <3>1. \A e \in outer.failed : ~ Sat(e, J)
      BY <2>4 DEF SoundFlow, J
    <3>2. ASSUME NEW p \in outer.here, Heads(p[2], run) \cap run.failed # {}
          PROVE  ~ Sat(p[1], J)
      BY <3>2, <2>2, <2>5
    <3>. QED
      BY <3>1, <3>2
  <2>9. SoundFlow(loops', n - 1, run')
    BY <2>4, <2>8, <1>15 DEF SoundFlow, J
  <2>. QED
    BY <2>4, <2>7, <2>9, <1>15, <1>18, <1>19, <1>20 DEF J
<1>. HIDE DEF H, F, I, gathered, outer, never
<1>21. Len(loops') = B.loop /\ Agree(loops, loops', B.loop)
  BY <1>16, <1>17, <1>18
<1>22. Top.kind # "body"
  BY <1>1
<1>. HIDE DEF o, n
<1>. QED
  BY <1>15, <1>16, <1>17, <1>18, <1>19, <1>20, <1>21, <1>22, LeaveInv DEF o

-----------------------------------------------------------------------------
(* Theorems.                                                               *)

LEMMA InitInv == Init => NarrowingInv
<1>. SUFFICES ASSUME Init
              PROVE  NarrowingInv
  OBVIOUS
<1>. DEFINE B == Block("body", 0, Nothing, Nothing, {})
<1>1. /\ blocks = <<B>> /\ loops = <<>> /\ doubts = {}
      /\ run.here = {<<s, s>> : s \in Stores}
      /\ run.broke = {} /\ run.again = {} /\ run.failed = {}
      /\ run = Entered(Stores)
  BY DEF Init, Entered
<1>2. /\ B \in BlockType /\ B.kind = "body" /\ B.loop = 0 /\ B.known = Nothing /\ ~ B.ends
  BY Tags DEF Block, BlockType, Pairs
<1>. HIDE DEF B
<1>3. Len(blocks) = 1 /\ blocks[1] = B /\ Len(loops) = 0
  BY <1>1
<1>4. TypeOK
  <2>1. {<<s, s>> : s \in Stores} \in Pairs
    BY DEF Pairs
  <2>2. run \in RunType
    BY <2>1, <1>1 DEF Entered, RunType, Pairs
  <2>. QED
    BY <2>2, <1>1, <1>2 DEF TypeOK
<1>5. Nested
  BY <1>2, <1>3, NothingKnown DEF Nested, NestedIn, Gathered, Initial
<1>6. Ending
  BY <1>2, <1>3 DEF Ending, EndingIn
<1>7. Sound
  BY <1>1, <1>2, <1>3, NothingKnown
     DEF Sound, SoundIn, SoundOutside, SoundFlow, Keeps, Initial, Breaks
<1>. QED
  BY <1>4, <1>5, <1>6, <1>7 DEF NarrowingInv

LEMMA StepInv == NarrowingInv /\ [Next]_vars => NarrowingInv'
<1>. SUFFICES ASSUME NarrowingInv, [Next]_vars
              PROVE  NarrowingInv'
  OBVIOUS
<1>1. ASSUME NEW v \in Variables, Assign(v)
      PROVE  NarrowingInv'
  BY <1>1, AssignInv
<1>2. ASSUME NEW v \in Variables, Use(v)
      PROVE  NarrowingInv'
  BY <1>2, UseInv
<1>3. ASSUME NEW c \in Conditions, Test(c)
      PROVE  NarrowingInv'
  BY <1>3, TestInv
<1>4. ASSUME NEW c \in Conditions, If(c)
      PROVE  NarrowingInv'
  BY <1>4, IfInv
<1>5. ASSUME NEW c \in Conditions, While(c)
      PROVE  NarrowingInv'
  BY <1>5, WhileInv
<1>6. CASE Else
  BY <1>6, ElseInv
<1>7. CASE EndIf
  BY <1>7, EndIfInv
<1>8. CASE EndWhile
  BY <1>8, EndWhileInv
<1>9. CASE Return
  BY <1>9, ReturnInv
<1>10. CASE Break
  BY <1>10, BreakInv
<1>11. CASE Continue
  BY <1>11, ContinueInv
<1>12. CASE UNCHANGED vars
  BY <1>12 DEF vars, NarrowingInv, TypeOK, Nested, Ending, Sound
<1>. QED
  BY <1>1, <1>2, <1>3, <1>4, <1>5, <1>6, <1>7, <1>8, <1>9, <1>10, <1>11, <1>12
     DEF Next, Conditions

THEOREM NarrowingInvariant == Spec => []NarrowingInv
BY InitInv, StepInv, PTL DEF Spec

\* In a body that compiles no execution uses Nil where an i32 is expected,
\* unless one of the four doubts was met: with any number of variables, and
\* branches, loops, breaks and returns nested to any depth.
THEOREM NarrowingIsSound == Spec => []NilNeverUsed
<1>1. NarrowingInv => NilNeverUsed
  <2>. SUFFICES ASSUME NarrowingInv, Through, doubts = {}, NEW e \in run.failed
                PROVE  FALSE
    BY DEF NilNeverUsed
  <2>1. Len(loops) = 0
    BY DEF NarrowingInv, Nested, NestedIn, Through
  <2>2. ~ Sat(e, Nothing)
    BY <2>1, Here DEF SoundFlow, Initial
  <2>. QED
    BY <2>2, NothingKnown
<1>. QED
  BY <1>1, NarrowingInvariant, PTL

\* No execution comes to the end of a body that is taken to return on all its
\* paths, unless a loop may be skipped.
THEOREM EndsAreEnds == Spec => []EndsMeansEnds
<1>1. NarrowingInv => EndsMeansEnds
  BY DEF NarrowingInv, Ending, EndingIn, EndsMeansEnds, Top
<1>. QED
  BY <1>1, NarrowingInvariant, PTL
=============================================================================
