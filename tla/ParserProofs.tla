---------------------------- MODULE ParserProofs -----------------------------
(***************************************************************************)
(* Whatever the source is, a parse function that gives nothing has reported *)
(* an error, before or after what was skipped.  The argument: as long as   *)
(* nothing was reported or skipped every frame holds the trees it was made  *)
(* with, and none of those frames is on the stack that wait for the end of  *)
(* a recovery.                                                              *)
(***************************************************************************)
EXTENDS Parser, SequenceTheorems, TLAPS

\* An error was reported, or something was skipped or given up.
Loud == errors \/ silent # {}

\* A frame as it is when nothing was: not one that recovers from an error, and
\* what it holds is a tree.
Firm(f) ==
  /\ "at" \in DOMAIN f
  /\ f.at \notin {"syncing", "parenLost", "indexLost", "parenSynced", "memberSynced", "ofSynced",
                 "synced"}
  /\ f.at \in {"suffixed", "member", "of", "index", "instantiate"} =>
        "expr" \in DOMAIN f /\ f.expr # None
  /\ f.at = "indexEnd" => "tree" \in DOMAIN f /\ f.tree # None
  /\ f.at = "itemEnd" =>
        /\ "loop" \in DOMAIN f /\ "at" \in DOMAIN f.loop
        /\ f.loop.at \in {"templates", "fnArgument", "arguments"}

Fine ==
  /\ ret # None
  /\ stack \in Seq(ToSet(stack))
  /\ \A f \in ToSet(stack) : Firm(f)

\* The inductive invariant: the parser is loud, or everything is fine.
LoudOrFine == Loud \/ Fine

-----------------------------------------------------------------------------
(* The steps all parse functions are made of.                               *)

\* The element on top of a stack and the stack below it.
LEMMA Popped ==
  ASSUME NEW S, NEW s \in Seq(S), s # <<>>
  PROVE  /\ Last(s) = s[Len(s)] /\ Len(s) \in 1..Len(s) /\ Last(s) \in S
         /\ Front(s) \in Seq(S) /\ Len(Front(s)) = Len(s) - 1
         /\ \A i \in 1..(Len(s) - 1) : Front(s)[i] = s[i]
<1>1. Len(s) \in Nat /\ Len(s) >= 1 /\ \A i \in 1..Len(s) : s[i] \in S
  OBVIOUS
<1>2. Front(s) = SubSeq(s, 1, Len(s) - 1)
  BY DEF Front
<1>3. /\ SubSeq(s, 1, Len(s) - 1) \in Seq(S)
      /\ Len(SubSeq(s, 1, Len(s) - 1)) = Len(s) - 1
      /\ \A i \in 1..(Len(s) - 1) : SubSeq(s, 1, Len(s) - 1)[i] = s[i]
  <2>. DEFINE n == Len(s) - 1
  <2>1. n \in Int /\ n \in Nat /\ \A i \in 1..n : s[i] \in S
    BY <1>1
  <2>. HIDE DEF n
  <2>2. n - 1 + 1 = n /\ \A i \in 1..n : 1 + i - 1 = i
    BY <2>1
  <2>3. (IF 1 <= n THEN n - 1 + 1 ELSE 0) = n
    BY <2>1
  <2>4. /\ SubSeq(s, 1, n) \in Seq(S)
        /\ Len(SubSeq(s, 1, n)) = IF 1 <= n THEN n - 1 + 1 ELSE 0
        /\ \A i \in 1..(n - 1 + 1) : SubSeq(s, 1, n)[i] = s[1 + i - 1]
    BY <2>1, SubSeqProperties
  <2>5. \A i \in 1..n : SubSeq(s, 1, n)[i] = s[i]
    BY <2>1, <2>2, <2>4
  <2>. QED
    BY <2>3, <2>4, <2>5 DEF n
<1>. QED
  BY <1>1, <1>2, <1>3 DEF Last

\* The top of a stack where all is fine is a firm frame.
LEMMA TopFirm ==
  ASSUME Fine, stack # <<>>
  PROVE  Firm(Top)
<1>1. Last(stack) \in ToSet(stack)
  BY Popped DEF Fine
<1>. QED
  BY <1>1 DEF Fine, Top

\* A step that replaces the top by firm frames and gives something keeps all
\* fine.
LEMMA GoesOn ==
  ASSUME Fine, stack # <<>>, NEW S, NEW frames \in Seq(S), \A f \in S : Firm(f),
         NEW v, v # None, Go(frames, v)
  PROVE  Fine'
<1>. DEFINE T == ToSet(stack) \cup S
            new == Front(stack) \o frames
<1>1. Front(stack) \in Seq(ToSet(stack))
  BY Popped DEF Fine
<1>2. Front(stack) \in Seq(T) /\ frames \in Seq(T)
  BY <1>1
<1>3. new \in Seq(T)
  BY <1>2
<1>4. stack' = new /\ ret' = v
  BY DEF Go
<1>. HIDE DEF new, T
<1>5. new \in Seq(ToSet(new))
  <2>1. Len(new) \in Nat /\ new = [i \in 1..Len(new) |-> new[i]]
    BY <1>3
  <2>2. \A i \in 1..Len(new) : new[i] \in ToSet(new)
    BY <1>3 DEF ToSet
  <2>. QED
    BY <2>1, <2>2
<1>6. ASSUME NEW f \in ToSet(new) PROVE Firm(f)
  <2>1. PICK i \in 1..Len(new) : f = new[i]
    BY <1>3 DEF ToSet
  <2>2. f \in T
    BY <1>3, <2>1
  <2>. QED
    BY <2>2 DEF T, Fine
<1>. QED
  BY <1>4, <1>5, <1>6 DEF Fine

\* The same for no frame.
LEMMA Goes0 ==
  ASSUME Fine, stack # <<>>
  PROVE  \A v : Go(<<>>, v) /\ v # None => Fine'
<1>. DEFINE S == {}
<1>1. <<>> \in Seq(S)
  OBVIOUS
<1>2. \A f \in S : Firm(f)
  OBVIOUS
<1>. HIDE DEF S
<1>. QED
  BY <1>1, <1>2, GoesOn

\* The same for one frame.
LEMMA Goes1 ==
  ASSUME Fine, stack # <<>>, NEW a, Firm(a)
  PROVE  \A v : Go(<<a>>, v) /\ v # None => Fine'
<1>. DEFINE S == {a}
<1>1. <<a>> \in Seq(S)
  OBVIOUS
<1>2. \A f \in S : Firm(f)
  OBVIOUS
<1>. HIDE DEF S
<1>. QED
  BY <1>1, <1>2, GoesOn

\* The same for two frames.
LEMMA Goes2 ==
  ASSUME Fine, stack # <<>>, NEW a, Firm(a), NEW b, Firm(b)
  PROVE  \A v : Go(<<a, b>>, v) /\ v # None => Fine'
<1>. DEFINE S == {a, b}
<1>1. <<a, b>> \in Seq(S)
  OBVIOUS
<1>2. \A f \in S : Firm(f)
  OBVIOUS
<1>. HIDE DEF S
<1>. QED
  BY <1>1, <1>2, GoesOn

\* The same for three frames.
LEMMA Goes3 ==
  ASSUME Fine, stack # <<>>, NEW a, Firm(a), NEW b, Firm(b), NEW c, Firm(c)
  PROVE  \A v : Go(<<a, b, c>>, v) /\ v # None => Fine'
<1>. DEFINE S == {a, b, c}
<1>1. <<a, b, c>> \in Seq(S)
  OBVIOUS
<1>2. \A f \in S : Firm(f)
  OBVIOUS
<1>. HIDE DEF S
<1>. QED
  BY <1>1, <1>2, GoesOn

\* The same for four frames.
LEMMA Goes4 ==
  ASSUME Fine, stack # <<>>, NEW a, Firm(a), NEW b, Firm(b), NEW c, Firm(c), NEW d, Firm(d)
  PROVE  \A v : Go(<<a, b, c, d>>, v) /\ v # None => Fine'
<1>. DEFINE S == {a, b, c, d}
<1>1. <<a, b, c, d>> \in Seq(S)
  OBVIOUS
<1>2. \A f \in S : Firm(f)
  OBVIOUS
<1>. HIDE DEF S
<1>. QED
  BY <1>1, <1>2, GoesOn

\* The same for five frames.
LEMMA Goes5 ==
  ASSUME Fine, stack # <<>>, NEW a, Firm(a), NEW b, Firm(b), NEW c, Firm(c), NEW d, Firm(d), NEW e, Firm(e)
  PROVE  \A v : Go(<<a, b, c, d, e>>, v) /\ v # None => Fine'
<1>. DEFINE S == {a, b, c, d, e}
<1>1. <<a, b, c, d, e>> \in Seq(S)
  OBVIOUS
<1>2. \A f \in S : Firm(f)
  OBVIOUS
<1>. HIDE DEF S
<1>. QED
  BY <1>1, <1>2, GoesOn

-----------------------------------------------------------------------------
(* What becomes of the errors.                                              *)

\* Nothing takes back what was reported or skipped.
LEMMA Heard ==
  /\ Loud /\ Quiet => Loud'
  /\ Report => Loud'
  /\ \A what : Hide(what) => Loud'
<1>1. Loud /\ Quiet => Loud'
  BY DEF Loud, Quiet
<1>2. Report => Loud'
  BY DEF Report, Loud
<1>3. ASSUME NEW what, Hide(what) PROVE Loud'
  BY <1>3 DEF Hide, Loud
<1>. QED
  BY <1>1, <1>2, <1>3

\* What a parse function builds is never taken for nothing.
LEMMA Trees ==
  /\ Done # None
  /\ \A n, kids : n # "none" \/ kids # <<>> => Tree(n, kids) # None
  /\ \A token \in Atoms : Leaf(token) # None
  BY DEF Done, None, Leaf, Tree, Atoms

\* Frames pushed together are the frames of both.
LEMMA Joined ==
  /\ \A a, b : <<a>> \o <<b>> = <<a, b>>
  /\ \A a, b, c : <<a, b>> \o <<c>> = <<a, b, c>>
<1>1. ASSUME NEW a, NEW b PROVE <<a>> \o <<b>> = <<a, b>>
  <2>. DEFINE S == {a, b}
              q == <<a>> \o <<b>>
              r == <<a, b>>
  <2>1. <<a>> \in Seq(S) /\ <<b>> \in Seq(S) /\ r \in Seq(S)
    OBVIOUS
  <2>2. q \in Seq(S) /\ Len(q) = 2 /\ q[1] = a /\ q[2] = b
    BY <2>1, ConcatProperties
  <2>3. Len(r) = 2 /\ r[1] = a /\ r[2] = b
    OBVIOUS
  <2>. HIDE DEF S, q, r
  <2>4. q = r
    BY <2>1, <2>2, <2>3, SeqEqual
  <2>. QED
    BY <2>4 DEF q, r
<1>2. ASSUME NEW a, NEW b, NEW c PROVE <<a, b>> \o <<c>> = <<a, b, c>>
  <2>. DEFINE S == {a, b, c}
              q == <<a, b>> \o <<c>>
              r == <<a, b, c>>
  <2>1. <<a, b>> \in Seq(S) /\ <<c>> \in Seq(S) /\ r \in Seq(S)
    OBVIOUS
  <2>2. q \in Seq(S) /\ Len(q) = 3 /\ q[1] = a /\ q[2] = b /\ q[3] = c
    BY <2>1, ConcatProperties
  <2>3. Len(r) = 3 /\ r[1] = a /\ r[2] = b /\ r[3] = c
    OBVIOUS
  <2>. HIDE DEF S, q, r
  <2>4. q = r
    BY <2>1, <2>2, <2>3, SeqEqual
  <2>. QED
    BY <2>4 DEF q, r
<1>. QED
  BY <1>1, <1>2

-----------------------------------------------------------------------------
(* The parse functions.                                                     *)

\* A token that is not the expected one is reported.
LEMMA ConsumeTokenLoud ==
  ASSUME LoudOrFine, ConsumeToken
  PROVE  LoudOrFine'
<1>1. CASE Loud
  BY <1>1, Heard DEF LoudOrFine, ConsumeToken, TakeGive, Fail
<1>2. CASE ~ Loud
  <2>1. Fine /\ stack # <<>>
    BY <1>2 DEF LoudOrFine, ConsumeToken, At
  <2>2. Firm(Top) /\ ret # None
    BY <2>1, TopFirm DEF Fine
  <2>. QED
    BY <2>1, <2>2, Heard, Trees, Joined, Goes0, Goes1, Goes2, Goes3, Goes4, Goes5
       DEF LoudOrFine, ConsumeToken, At, TakeGive, Fail, Firm
<1>. QED
  BY <1>1, <1>2

\* What is skipped to get back in step is recorded.
LEMMA SynchronizeOnErrorLoud ==
  ASSUME LoudOrFine, SynchronizeOnError
  PROVE  LoudOrFine'
<1>1. CASE Loud
  BY <1>1, Heard DEF LoudOrFine, SynchronizeOnError, Give
<1>2. CASE ~ Loud
  <2>0. Fine /\ stack # <<>>
    BY <1>2 DEF LoudOrFine, SynchronizeOnError, At
  <2>00. Firm(Top) /\ ret # None
    BY <2>0, TopFirm DEF Fine
  <2>1. CASE Top.at = "sync"
    BY <2>0, <2>00, <2>1, Heard, Trees, Joined, Goes0, Goes1, Goes2, Goes3, Goes4, Goes5
       DEF LoudOrFine, SynchronizeOnError, At, Give, Firm
  <2>2. CASE Top.at = "syncing"
    BY <2>0, <2>00, <2>2, Heard, Trees, Joined, Goes0, Goes1, Goes2, Goes3, Goes4, Goes5
       DEF LoudOrFine, SynchronizeOnError, At, Give, Firm
  <2>. QED
    BY <2>0, <2>1, <2>2 DEF SynchronizeOnError, At
<1>. QED
  BY <1>1, <1>2

\* A caller that goes on without a result has recorded it.
LEMMA CallersLoud ==
  ASSUME LoudOrFine, Callers
  PROVE  LoudOrFine'
<1>1. CASE Loud
  BY <1>1, Heard DEF LoudOrFine, Callers, Take, Jump, Give, TakeGive, Fail
<1>2. CASE ~ Loud
  <2>0. Fine /\ stack # <<>>
    BY <1>2 DEF LoudOrFine, Callers, At
  <2>00. Firm(Top) /\ ret # None
    BY <2>0, TopFirm DEF Fine
  <2>1. CASE Top.at = "done"
    BY <2>0, <2>00, <2>1, Heard, Trees, Joined, Goes0, Goes1, Goes2, Goes3, Goes4, Goes5
       DEF LoudOrFine, Callers, At, Take, Jump, Give, TakeGive, Fail, F, Sync, Synced, Firm
  <2>2. CASE Top.at = "orReport"
    BY <2>0, <2>00, <2>2, Heard, Trees, Joined, Goes0, Goes1, Goes2, Goes3, Goes4, Goes5
       DEF LoudOrFine, Callers, At, Take, Jump, Give, TakeGive, Fail, F, Sync, Synced, Firm
  <2>3. CASE Top.at = "orSync"
    BY <2>0, <2>00, <2>3, Heard, Trees, Joined, Goes0, Goes1, Goes2, Goes3, Goes4, Goes5
       DEF LoudOrFine, Callers, At, Take, Jump, Give, TakeGive, Fail, F, Sync, Synced, Firm
  <2>4. CASE Top.at = "close"
    BY <2>0, <2>00, <2>4, Heard, Trees, Joined, Goes0, Goes1, Goes2, Goes3, Goes4, Goes5
       DEF LoudOrFine, Callers, At, Take, Jump, Give, TakeGive, Fail, F, Sync, Synced, Firm
  <2>5. CASE Top.at = "takeFound"
    BY <2>0, <2>00, <2>5, Heard, Trees, Joined, Goes0, Goes1, Goes2, Goes3, Goes4, Goes5
       DEF LoudOrFine, Callers, At, Take, Jump, Give, TakeGive, Fail, F, Sync, Synced, Firm
  <2>6. CASE Top.at = "itemEnd"
    BY <2>0, <2>00, <2>6, Heard, Trees, Joined, Goes0, Goes1, Goes2, Goes3, Goes4, Goes5
       DEF LoudOrFine, Callers, At, Take, Jump, Give, TakeGive, Fail, F, Sync, Synced, Firm
  <2>. QED
    BY <2>0, <2>1, <2>2, <2>3, <2>4, <2>5, <2>6 DEF Callers, At
<1>. QED
  BY <1>1, <1>2

\* A list that recovered at an item recovered from something.
LEMMA SyncedAtItemLoud ==
  ASSUME LoudOrFine, SyncedAtItem
  PROVE  LoudOrFine'
<1>1. CASE Loud
  BY <1>1, Heard DEF LoudOrFine, SyncedAtItem, Take, Jump, Give
<1>2. CASE ~ Loud
  <2>1. Fine /\ stack # <<>>
    BY <1>2 DEF LoudOrFine, SyncedAtItem, At
  <2>2. Firm(Top) /\ ret # None
    BY <2>1, TopFirm DEF Fine
  <2>. QED
    BY <2>1, <2>2, Heard, Trees, Joined, Goes0, Goes1, Goes2, Goes3, Goes4, Goes5
       DEF LoudOrFine, SyncedAtItem, At, Take, Jump, Give, Firm
<1>. QED
  BY <1>1, <1>2

\* An assignment without a side has reported it.
LEMMA ParseAssignmentLoud ==
  ASSUME LoudOrFine, ParseAssignment
  PROVE  LoudOrFine'
<1>1. CASE Loud
  BY <1>1, Heard DEF LoudOrFine, ParseAssignment, Take, Jump, Give
<1>2. CASE ~ Loud
  <2>0. Fine /\ stack # <<>>
    BY <1>2 DEF LoudOrFine, ParseAssignment, At
  <2>00. Firm(Top) /\ ret # None
    BY <2>0, TopFirm DEF Fine
  <2>1. CASE Top.at = "expression"
    BY <2>0, <2>00, <2>1, Heard, Trees, Joined, Goes0, Goes1, Goes2, Goes3, Goes4, Goes5
       DEF LoudOrFine, ParseAssignment, At, Take, Jump, Give, Binary, F, Firm
  <2>2. CASE Top.at = "assign"
    BY <2>0, <2>00, <2>2, Heard, Trees, Joined, Goes0, Goes1, Goes2, Goes3, Goes4, Goes5
       DEF LoudOrFine, ParseAssignment, At, Take, Jump, Give, Binary, F, Firm
  <2>3. CASE Top.at = "assigned"
    BY <2>0, <2>00, <2>3, Heard, Trees, Joined, Goes0, Goes1, Goes2, Goes3, Goes4, Goes5
       DEF LoudOrFine, ParseAssignment, At, Take, Jump, Give, Binary, F, Firm
  <2>. QED
    BY <2>0, <2>1, <2>2, <2>3 DEF ParseAssignment, At
<1>. QED
  BY <1>1, <1>2

\* So has a binary operator.
LEMMA ParseBinaryLoud ==
  ASSUME LoudOrFine, ParseBinary
  PROVE  LoudOrFine'
<1>1. CASE Loud
  BY <1>1, Heard DEF LoudOrFine, ParseBinary, Take, Jump, Give
<1>2. CASE ~ Loud
  <2>0. Fine /\ stack # <<>>
    BY <1>2 DEF LoudOrFine, ParseBinary, At
  <2>00. Firm(Top) /\ ret # None
    BY <2>0, TopFirm DEF Fine
  <2>1. CASE Top.at = "binary"
    BY <2>0, <2>00, <2>1, Heard, Trees, Joined, Goes0, Goes1, Goes2, Goes3, Goes4, Goes5
       DEF LoudOrFine, ParseBinary, At, Take, Jump, Give, Binary, F, Firm
  <2>2. CASE Top.at = "operand"
    BY <2>0, <2>00, <2>2, Heard, Trees, Joined, Goes0, Goes1, Goes2, Goes3, Goes4, Goes5
       DEF LoudOrFine, ParseBinary, At, Take, Jump, Give, Binary, F, Firm
  <2>. QED
    BY <2>0, <2>1, <2>2 DEF ParseBinary, At
<1>. QED
  BY <1>1, <1>2

\* So has a unary operator.
LEMMA ParseUnaryLoud ==
  ASSUME LoudOrFine, ParseUnary
  PROVE  LoudOrFine'
<1>1. CASE Loud
  BY <1>1, Heard DEF LoudOrFine, ParseUnary, Take, Jump, Give
<1>2. CASE ~ Loud
  <2>0. Fine /\ stack # <<>>
    BY <1>2 DEF LoudOrFine, ParseUnary, At
  <2>00. Firm(Top) /\ ret # None
    BY <2>0, TopFirm DEF Fine
  <2>1. CASE Top.at = "unary"
    BY <2>0, <2>00, <2>1, Heard, Trees, Joined, Goes0, Goes1, Goes2, Goes3, Goes4, Goes5
       DEF LoudOrFine, ParseUnary, At, Take, Jump, Give, F, Firm
  <2>2. CASE Top.at = "prefixed"
    BY <2>0, <2>00, <2>2, Heard, Trees, Joined, Goes0, Goes1, Goes2, Goes3, Goes4, Goes5
       DEF LoudOrFine, ParseUnary, At, Take, Jump, Give, F, Firm
  <2>. QED
    BY <2>0, <2>1, <2>2 DEF ParseUnary, At
<1>. QED
  BY <1>1, <1>2

\* So have the operators `is` and `as`.
LEMMA ParseInFixLoud ==
  ASSUME LoudOrFine, ParseInFix
  PROVE  LoudOrFine'
<1>1. CASE Loud
  BY <1>1, Heard DEF LoudOrFine, ParseInFix, Take, Jump, Give
<1>2. CASE ~ Loud
  <2>0. Fine /\ stack # <<>>
    BY <1>2 DEF LoudOrFine, ParseInFix, At
  <2>00. Firm(Top) /\ ret # None
    BY <2>0, TopFirm DEF Fine
  <2>1. CASE Top.at = "infix"
    BY <2>0, <2>00, <2>1, Heard, Trees, Joined, Goes0, Goes1, Goes2, Goes3, Goes4, Goes5
       DEF LoudOrFine, ParseInFix, At, Take, Jump, Give, F, Firm
  <2>2. CASE Top.at = "infixed"
    BY <2>0, <2>00, <2>2, Heard, Trees, Joined, Goes0, Goes1, Goes2, Goes3, Goes4, Goes5
       DEF LoudOrFine, ParseInFix, At, Take, Jump, Give, F, Firm
  <2>3. CASE Top.at = "cast"
    BY <2>0, <2>00, <2>3, Heard, Trees, Joined, Goes0, Goes1, Goes2, Goes3, Goes4, Goes5
       DEF LoudOrFine, ParseInFix, At, Take, Jump, Give, F, Firm
  <2>4. CASE Top.at = "casted"
    BY <2>0, <2>00, <2>4, Heard, Trees, Joined, Goes0, Goes1, Goes2, Goes3, Goes4, Goes5
       DEF LoudOrFine, ParseInFix, At, Take, Jump, Give, F, Firm
  <2>5. CASE Top.at = "coalesce"
    BY <2>0, <2>00, <2>5, Heard, Trees, Joined, Goes0, Goes1, Goes2, Goes3, Goes4, Goes5
       DEF LoudOrFine, ParseInFix, At, Take, Jump, Give, F, Firm
  <2>. QED
    BY <2>0, <2>1, <2>2, <2>3, <2>4, <2>5 DEF ParseInFix, At
<1>. QED
  BY <1>1, <1>2

\* The loop of the suffixes holds the tree it started from.
LEMMA ParsePostFixLoud ==
  ASSUME LoudOrFine, ParsePostFix
  PROVE  LoudOrFine'
<1>1. CASE Loud
  BY <1>1, Heard DEF LoudOrFine, ParsePostFix, Take, Jump, Give, Again
<1>2. CASE ~ Loud
  <2>0. Fine /\ stack # <<>>
    BY <1>2 DEF LoudOrFine, ParsePostFix, At
  <2>00. Firm(Top) /\ ret # None
    BY <2>0, TopFirm DEF Fine
  <2>1. CASE Top.at = "postfix"
    BY <2>0, <2>00, <2>1, Heard, Trees, Joined, Goes0, Goes1, Goes2, Goes3, Goes4, Goes5
       DEF LoudOrFine, ParsePostFix, At, Take, Jump, Give, Again, F, Suffix, Firm
  <2>2. CASE Top.at = "suffix"
    BY <2>0, <2>00, <2>2, Heard, Trees, Joined, Goes0, Goes1, Goes2, Goes3, Goes4, Goes5
       DEF LoudOrFine, ParsePostFix, At, Take, Jump, Give, Again, F, Suffix, Firm
  <2>3. CASE Top.at = "suffixed"
    BY <2>0, <2>00, <2>3, Heard, Trees, Joined, Goes0, Goes1, Goes2, Goes3, Goes4, Goes5
       DEF LoudOrFine, ParsePostFix, At, Take, Jump, Give, Again, F, Suffix, Firm
  <2>. QED
    BY <2>0, <2>1, <2>2, <2>3 DEF ParsePostFix, At
<1>. QED
  BY <1>1, <1>2

\* A member without a name is reported.
LEMMA ParseMemberLoud ==
  ASSUME LoudOrFine, ParseMember
  PROVE  LoudOrFine'
<1>1. CASE Loud
  BY <1>1, Heard DEF LoudOrFine, ParseMember, Take, Give, Fail, Again
<1>2. CASE ~ Loud
  <2>0. Fine /\ stack # <<>>
    BY <1>2 DEF LoudOrFine, ParseMember, At
  <2>00. Firm(Top) /\ ret # None
    BY <2>0, TopFirm DEF Fine
  <2>1. CASE Top.at = "member"
    BY <2>0, <2>00, <2>1, Heard, Trees, Joined, Goes0, Goes1, Goes2, Goes3, Goes4, Goes5
       DEF LoudOrFine, ParseMember, At, Take, Give, Fail, Again, Suffix, Sync, Firm
  <2>2. CASE Top.at = "memberSynced"
    BY <2>0, <2>00, <2>2, Heard, Trees, Joined, Goes0, Goes1, Goes2, Goes3, Goes4, Goes5
       DEF LoudOrFine, ParseMember, At, Take, Give, Fail, Again, Suffix, Sync, Firm
  <2>3. CASE Top.at = "of"
    BY <2>0, <2>00, <2>3, Heard, Trees, Joined, Goes0, Goes1, Goes2, Goes3, Goes4, Goes5
       DEF LoudOrFine, ParseMember, At, Take, Give, Fail, Again, Suffix, Sync, Firm
  <2>4. CASE Top.at = "ofSynced"
    BY <2>0, <2>00, <2>4, Heard, Trees, Joined, Goes0, Goes1, Goes2, Goes3, Goes4, Goes5
       DEF LoudOrFine, ParseMember, At, Take, Give, Fail, Again, Suffix, Sync, Firm
  <2>5. CASE Top.at = "instantiate"
    BY <2>0, <2>00, <2>5, Heard, Trees, Joined, Goes0, Goes1, Goes2, Goes3, Goes4, Goes5
       DEF LoudOrFine, ParseMember, At, Take, Give, Fail, Again, Suffix, Sync, Firm
  <2>. QED
    BY <2>0, <2>1, <2>2, <2>3, <2>4, <2>5 DEF ParseMember, At
<1>. QED
  BY <1>1, <1>2

\* An index without an expression has reported it.
LEMMA ParseIndexLoud ==
  ASSUME LoudOrFine, ParseIndex
  PROVE  LoudOrFine'
<1>1. CASE Loud
  BY <1>1, Heard DEF LoudOrFine, ParseIndex, Take, Jump, Give, Fail, Again
<1>2. CASE ~ Loud
  <2>0. Fine /\ stack # <<>>
    BY <1>2 DEF LoudOrFine, ParseIndex, At
  <2>00. Firm(Top) /\ ret # None
    BY <2>0, TopFirm DEF Fine
  <2>1. CASE Top.at = "index"
    BY <2>0, <2>00, <2>1, Heard, Trees, Joined, Goes0, Goes1, Goes2, Goes3, Goes4, Goes5
       DEF LoudOrFine, ParseIndex, At, Take, Jump, Give, Fail, Again, Suffix, Sync, Firm
  <2>2. CASE Top.at = "indexLost"
    BY <2>0, <2>00, <2>2, Heard, Trees, Joined, Goes0, Goes1, Goes2, Goes3, Goes4, Goes5
       DEF LoudOrFine, ParseIndex, At, Take, Jump, Give, Fail, Again, Suffix, Sync, Firm
  <2>3. CASE Top.at = "indexEnd"
    BY <2>0, <2>00, <2>3, Heard, Trees, Joined, Goes0, Goes1, Goes2, Goes3, Goes4, Goes5
       DEF LoudOrFine, ParseIndex, At, Take, Jump, Give, Fail, Again, Suffix, Sync, Firm
  <2>. QED
    BY <2>0, <2>1, <2>2, <2>3 DEF ParseIndex, At
<1>. QED
  BY <1>1, <1>2

\* A call without an argument has reported it.
LEMMA ParseCallLoud ==
  ASSUME LoudOrFine, ParseCall
  PROVE  LoudOrFine'
<1>1. CASE Loud
  BY <1>1, Heard DEF LoudOrFine, ParseCall, Jump, TakeGive
<1>2. CASE ~ Loud
  <2>0. Fine /\ stack # <<>>
    BY <1>2 DEF LoudOrFine, ParseCall, At
  <2>00. Firm(Top) /\ ret # None
    BY <2>0, TopFirm DEF Fine
  <2>1. CASE Top.at = "arguments"
    BY <2>0, <2>00, <2>1, Heard, Trees, Joined, Goes0, Goes1, Goes2, Goes3, Goes4, Goes5
       DEF LoudOrFine, ParseCall, At, Jump, TakeGive, F, ItemEnd, Sync, Synced, Firm
  <2>2. CASE Top.at = "argument"
    BY <2>0, <2>00, <2>2, Heard, Trees, Joined, Goes0, Goes1, Goes2, Goes3, Goes4, Goes5
       DEF LoudOrFine, ParseCall, At, Jump, TakeGive, F, ItemEnd, Sync, Synced, Firm
  <2>. QED
    BY <2>0, <2>1, <2>2 DEF ParseCall, At
<1>. QED
  BY <1>1, <1>2

\* What begins no expression is reported.
LEMMA ParsePrimaryLoud ==
  ASSUME LoudOrFine, ParsePrimary
  PROVE  LoudOrFine'
<1>1. CASE Loud
  BY <1>1, Heard DEF LoudOrFine, ParsePrimary, Take, Jump, Give, TakeGive, Fail
<1>2. CASE ~ Loud
  <2>0. Fine /\ stack # <<>>
    BY <1>2 DEF LoudOrFine, ParsePrimary, At
  <2>00. Firm(Top) /\ ret # None
    BY <2>0, TopFirm DEF Fine
  <2>1. CASE Top.at = "primary"
    BY <2>0, <2>00, <2>1, Heard, Trees, Joined, Goes0, Goes1, Goes2, Goes3, Goes4, Goes5
       DEF LoudOrFine, ParsePrimary, At, Take, Jump, Give, TakeGive, Fail, Expect, F, Sync, Firm
  <2>2. CASE Top.at = "paren"
    BY <2>0, <2>00, <2>2, Heard, Trees, Joined, Goes0, Goes1, Goes2, Goes3, Goes4, Goes5
       DEF LoudOrFine, ParsePrimary, At, Take, Jump, Give, TakeGive, Fail, Expect, F, Sync, Firm
  <2>3. CASE Top.at = "parenLost"
    BY <2>0, <2>00, <2>3, Heard, Trees, Joined, Goes0, Goes1, Goes2, Goes3, Goes4, Goes5
       DEF LoudOrFine, ParsePrimary, At, Take, Jump, Give, TakeGive, Fail, Expect, F, Sync, Firm
  <2>4. CASE Top.at = "parenSynced"
    BY <2>0, <2>00, <2>4, Heard, Trees, Joined, Goes0, Goes1, Goes2, Goes3, Goes4, Goes5
       DEF LoudOrFine, ParsePrimary, At, Take, Jump, Give, TakeGive, Fail, Expect, F, Sync, Firm
  <2>5. CASE Top.at = "sizeof"
    BY <2>0, <2>00, <2>5, Heard, Trees, Joined, Goes0, Goes1, Goes2, Goes3, Goes4, Goes5
       DEF LoudOrFine, ParsePrimary, At, Take, Jump, Give, TakeGive, Fail, Expect, F, Sync, Firm
  <2>. QED
    BY <2>0, <2>1, <2>2, <2>3, <2>4, <2>5 DEF ParsePrimary, At
<1>. QED
  BY <1>1, <1>2

\* A union or intersection holds its parts.
LEMMA ParseTypeLoud ==
  ASSUME LoudOrFine, ParseType
  PROVE  LoudOrFine'
<1>1. CASE Loud
  BY <1>1, Heard DEF LoudOrFine, ParseType, Take, Jump, Give
<1>2. CASE ~ Loud
  <2>0. Fine /\ stack # <<>>
    BY <1>2 DEF LoudOrFine, ParseType, At
  <2>00. Firm(Top) /\ ret # None
    BY <2>0, TopFirm DEF Fine
  <2>1. CASE Top.at = "type"
    BY <2>0, <2>00, <2>1, Heard, Trees, Joined, Goes0, Goes1, Goes2, Goes3, Goes4, Goes5
       DEF LoudOrFine, ParseType, At, Take, Jump, Give, F, Rest, Firm
  <2>2. CASE Top.at = "typeRest"
    BY <2>0, <2>00, <2>2, Heard, Trees, Joined, Goes0, Goes1, Goes2, Goes3, Goes4, Goes5
       DEF LoudOrFine, ParseType, At, Take, Jump, Give, F, Rest, Firm
  <2>. QED
    BY <2>0, <2>1, <2>2 DEF ParseType, At
<1>. QED
  BY <1>1, <1>2

\* What begins no type is reported or given up.
LEMMA ParsePrimaryTypeLoud ==
  ASSUME LoudOrFine, ParsePrimaryType
  PROVE  LoudOrFine'
<1>1. CASE Loud
  BY <1>1, Heard DEF LoudOrFine, ParsePrimaryType, Take, Jump, Give, TakeGive
<1>2. CASE ~ Loud
  <2>0. Fine /\ stack # <<>>
    BY <1>2 DEF LoudOrFine, ParsePrimaryType, At
  <2>00. Firm(Top) /\ ret # None
    BY <2>0, TopFirm DEF Fine
  <2>1. CASE Top.at = "primaryType"
    BY <2>0, <2>00, <2>1, Heard, Trees, Joined, Goes0, Goes1, Goes2, Goes3, Goes4, Goes5
       DEF LoudOrFine, ParsePrimaryType, At, Take, Jump, Give, TakeGive, Expect, F, Firm
  <2>2. CASE Top.at = "typeParen"
    BY <2>0, <2>00, <2>2, Heard, Trees, Joined, Goes0, Goes1, Goes2, Goes3, Goes4, Goes5
       DEF LoudOrFine, ParsePrimaryType, At, Take, Jump, Give, TakeGive, Expect, F, Firm
  <2>3. CASE Top.at = "typeArguments"
    BY <2>0, <2>00, <2>3, Heard, Trees, Joined, Goes0, Goes1, Goes2, Goes3, Goes4, Goes5
       DEF LoudOrFine, ParsePrimaryType, At, Take, Jump, Give, TakeGive, Expect, F, Firm
  <2>4. CASE Top.at = "optional"
    BY <2>0, <2>00, <2>4, Heard, Trees, Joined, Goes0, Goes1, Goes2, Goes3, Goes4, Goes5
       DEF LoudOrFine, ParsePrimaryType, At, Take, Jump, Give, TakeGive, Expect, F, Firm
  <2>. QED
    BY <2>0, <2>1, <2>2, <2>3, <2>4 DEF ParsePrimaryType, At
<1>. QED
  BY <1>1, <1>2

\* A function type without its parts has reported them.
LEMMA ParseFunctionTypeLoud ==
  ASSUME LoudOrFine, ParseFunctionType
  PROVE  LoudOrFine'
<1>1. CASE Loud
  BY <1>1, Heard DEF LoudOrFine, ParseFunctionType, Take, Jump, Give, Fail
<1>2. CASE ~ Loud
  <2>0. Fine /\ stack # <<>>
    BY <1>2 DEF LoudOrFine, ParseFunctionType, At
  <2>00. Firm(Top) /\ ret # None
    BY <2>0, TopFirm DEF Fine
  <2>1. CASE Top.at = "fnType"
    BY <2>0, <2>00, <2>1, Heard, Trees, Joined, Goes0, Goes1, Goes2, Goes3, Goes4, Goes5
       DEF LoudOrFine, ParseFunctionType, At, Take, Jump, Give, Fail, F, Sync, Firm
  <2>2. CASE Top.at = "fnTypeOpen"
    BY <2>0, <2>00, <2>2, Heard, Trees, Joined, Goes0, Goes1, Goes2, Goes3, Goes4, Goes5
       DEF LoudOrFine, ParseFunctionType, At, Take, Jump, Give, Fail, F, Sync, Firm
  <2>3. CASE Top.at = "fnTypeArgument"
    BY <2>0, <2>00, <2>3, Heard, Trees, Joined, Goes0, Goes1, Goes2, Goes3, Goes4, Goes5
       DEF LoudOrFine, ParseFunctionType, At, Take, Jump, Give, Fail, F, Sync, Firm
  <2>4. CASE Top.at = "fnTypeNext"
    BY <2>0, <2>00, <2>4, Heard, Trees, Joined, Goes0, Goes1, Goes2, Goes3, Goes4, Goes5
       DEF LoudOrFine, ParseFunctionType, At, Take, Jump, Give, Fail, F, Sync, Firm
  <2>5. CASE Top.at = "fnTypeClose"
    BY <2>0, <2>00, <2>5, Heard, Trees, Joined, Goes0, Goes1, Goes2, Goes3, Goes4, Goes5
       DEF LoudOrFine, ParseFunctionType, At, Take, Jump, Give, Fail, F, Sync, Firm
  <2>6. CASE Top.at = "fnTypeArrow"
    BY <2>0, <2>00, <2>6, Heard, Trees, Joined, Goes0, Goes1, Goes2, Goes3, Goes4, Goes5
       DEF LoudOrFine, ParseFunctionType, At, Take, Jump, Give, Fail, F, Sync, Firm
  <2>. QED
    BY <2>0, <2>1, <2>2, <2>3, <2>4, <2>5, <2>6 DEF ParseFunctionType, At
<1>. QED
  BY <1>1, <1>2

\* A list of types gives nothing only when it gave a type up.
LEMMA ParseTypeListLoud ==
  ASSUME LoudOrFine, ParseTypeList
  PROVE  LoudOrFine'
<1>1. CASE Loud
  BY <1>1, Heard DEF LoudOrFine, ParseTypeList, Take, Jump, TakeGive
<1>2. CASE ~ Loud
  <2>0. Fine /\ stack # <<>>
    BY <1>2 DEF LoudOrFine, ParseTypeList, At
  <2>00. Firm(Top) /\ ret # None
    BY <2>0, TopFirm DEF Fine
  <2>1. CASE Top.at = "typeList"
    BY <2>0, <2>00, <2>1, Heard, Trees, Joined, Goes0, Goes1, Goes2, Goes3, Goes4, Goes5
       DEF LoudOrFine, ParseTypeList, At, Take, Jump, TakeGive, F, More, Firm
  <2>2. CASE Top.at = "typeMore"
    BY <2>0, <2>00, <2>2, Heard, Trees, Joined, Goes0, Goes1, Goes2, Goes3, Goes4, Goes5
       DEF LoudOrFine, ParseTypeList, At, Take, Jump, TakeGive, F, More, Firm
  <2>. QED
    BY <2>0, <2>1, <2>2 DEF ParseTypeList, At
<1>. QED
  BY <1>1, <1>2

\* A template without a name is reported.
LEMMA ParseTemplatesLoud ==
  ASSUME LoudOrFine, ParseTemplates
  PROVE  LoudOrFine'
<1>1. CASE Loud
  BY <1>1, Heard DEF LoudOrFine, ParseTemplates, Take, Jump, Fail
<1>2. CASE ~ Loud
  <2>0. Fine /\ stack # <<>>
    BY <1>2 DEF LoudOrFine, ParseTemplates, At
  <2>00. Firm(Top) /\ ret # None
    BY <2>0, TopFirm DEF Fine
  <2>1. CASE Top.at = "templates"
    BY <2>0, <2>00, <2>1, Heard, Trees, Joined, Goes0, Goes1, Goes2, Goes3, Goes4, Goes5
       DEF LoudOrFine, ParseTemplates, At, Take, Jump, Fail, Expect, F, ItemEnd, Sync, Synced, Firm
  <2>2. CASE Top.at = "constraint"
    BY <2>0, <2>00, <2>2, Heard, Trees, Joined, Goes0, Goes1, Goes2, Goes3, Goes4, Goes5
       DEF LoudOrFine, ParseTemplates, At, Take, Jump, Fail, Expect, F, ItemEnd, Sync, Synced, Firm
  <2>3. CASE Top.at = "default"
    BY <2>0, <2>00, <2>3, Heard, Trees, Joined, Goes0, Goes1, Goes2, Goes3, Goes4, Goes5
       DEF LoudOrFine, ParseTemplates, At, Take, Jump, Fail, Expect, F, ItemEnd, Sync, Synced, Firm
  <2>. QED
    BY <2>0, <2>1, <2>2, <2>3 DEF ParseTemplates, At
<1>. QED
  BY <1>1, <1>2

\* A declaration without its name or body is reported.
LEMMA ParseDeclarationLoud ==
  ASSUME LoudOrFine, ParseDeclaration
  PROVE  LoudOrFine'
<1>1. CASE Loud
  BY <1>1, Heard DEF LoudOrFine, ParseDeclaration, Take, Jump, Give, Fail
<1>2. CASE ~ Loud
  <2>0. Fine /\ stack # <<>>
    BY <1>2 DEF LoudOrFine, ParseDeclaration, At
  <2>00. Firm(Top) /\ ret # None
    BY <2>0, TopFirm DEF Fine
  <2>1. CASE Top.at = "declaration"
    BY <2>0, <2>00, <2>1, Heard, Trees, Joined, Goes0, Goes1, Goes2, Goes3, Goes4, Goes5
       DEF LoudOrFine, ParseDeclaration, At, Take, Jump, Give, Fail, D, F, Sync, Firm
  <2>2. CASE Top.at = "name"
    BY <2>0, <2>00, <2>2, Heard, Trees, Joined, Goes0, Goes1, Goes2, Goes3, Goes4, Goes5
       DEF LoudOrFine, ParseDeclaration, At, Take, Jump, Give, Fail, D, F, Sync, Firm
  <2>3. CASE Top.at = "parameters"
    <3>. DEFINE what == IF Top.kind = "implements" THEN [at |-> "typeList", end |-> "]"]
                        ELSE F("templates")
    <3>1. CASE current = "["
      <4>1. Take(<<D("open", Top.kind), what>>)
        BY <2>0, <2>00, <2>3, <3>1, Joined DEF ParseDeclaration, At
      <4>2. Firm(D("open", Top.kind)) /\ Firm(what)
        BY DEF D, F, Firm
      <4>. HIDE DEF what
      <4>. QED
        BY <2>0, <2>00, <2>3, <4>1, <4>2, Trees, Goes2 DEF Take, LoudOrFine
    <3>2. CASE current # "["
      BY <2>0, <2>00, <2>3, <3>2, Trees, Goes1 DEF LoudOrFine, ParseDeclaration, At, Jump, D, Firm
    <3>. QED
      BY <3>1, <3>2
  <2>4. CASE Top.at = "open"
    BY <2>0, <2>00, <2>4, Heard, Trees, Joined, Goes0, Goes1, Goes2, Goes3, Goes4, Goes5
       DEF LoudOrFine, ParseDeclaration, At, Take, Jump, Give, Fail, D, F, Sync, Firm
  <2>. QED
    BY <2>0, <2>1, <2>2, <2>3, <2>4 DEF ParseDeclaration, At
<1>. QED
  BY <1>1, <1>2

\* What is no member is reported.
LEMMA ParseMembersLoud ==
  ASSUME LoudOrFine, ParseMembers
  PROVE  LoudOrFine'
<1>1. CASE Loud
  BY <1>1, Heard DEF LoudOrFine, ParseMembers, Take, Jump, Give, Fail
<1>2. CASE ~ Loud
  <2>0. Fine /\ stack # <<>>
    BY <1>2 DEF LoudOrFine, ParseMembers, At
  <2>00. Firm(Top) /\ ret # None
    BY <2>0, TopFirm DEF Fine
  <2>1. CASE Top.at = "members"
    BY <2>0, <2>00, <2>1, Heard, Trees, Joined, Goes0, Goes1, Goes2, Goes3, Goes4, Goes5
       DEF LoudOrFine, ParseMembers, At, Take, Jump, Give, Fail, D, Expect, F, Fn, MemberLost, Sync, Firm
  <2>2. CASE Top.at = "memberEnd"
    BY <2>0, <2>00, <2>2, Heard, Trees, Joined, Goes0, Goes1, Goes2, Goes3, Goes4, Goes5
       DEF LoudOrFine, ParseMembers, At, Take, Jump, Give, Fail, D, Expect, F, Fn, MemberLost, Sync, Firm
  <2>3. CASE Top.at = "memberLost"
    BY <2>0, <2>00, <2>3, Heard, Trees, Joined, Goes0, Goes1, Goes2, Goes3, Goes4, Goes5
       DEF LoudOrFine, ParseMembers, At, Take, Jump, Give, Fail, D, Expect, F, Fn, MemberLost, Sync, Firm
  <2>4. CASE Top.at = "static"
    BY <2>0, <2>00, <2>4, Heard, Trees, Joined, Goes0, Goes1, Goes2, Goes3, Goes4, Goes5
       DEF LoudOrFine, ParseMembers, At, Take, Jump, Give, Fail, D, Expect, F, Fn, MemberLost, Sync, Firm
  <2>5. CASE Top.at = "staticLost"
    BY <2>0, <2>00, <2>5, Heard, Trees, Joined, Goes0, Goes1, Goes2, Goes3, Goes4, Goes5
       DEF LoudOrFine, ParseMembers, At, Take, Jump, Give, Fail, D, Expect, F, Fn, MemberLost, Sync, Firm
  <2>6. CASE Top.at = "field"
    BY <2>0, <2>00, <2>6, Heard, Trees, Joined, Goes0, Goes1, Goes2, Goes3, Goes4, Goes5
       DEF LoudOrFine, ParseMembers, At, Take, Jump, Give, Fail, D, Expect, F, Fn, MemberLost, Sync, Firm
  <2>7. CASE Top.at = "fieldEnd"
    BY <2>0, <2>00, <2>7, Heard, Trees, Joined, Goes0, Goes1, Goes2, Goes3, Goes4, Goes5
       DEF LoudOrFine, ParseMembers, At, Take, Jump, Give, Fail, D, Expect, F, Fn, MemberLost, Sync, Firm
  <2>. QED
    BY <2>0, <2>1, <2>2, <2>3, <2>4, <2>5, <2>6, <2>7 DEF ParseMembers, At
<1>. QED
  BY <1>1, <1>2

\* A function without a part it needs has reported it.
LEMMA ParseFunctionDeclarationLoud ==
  ASSUME LoudOrFine, ParseFunctionDeclaration
  PROVE  LoudOrFine'
<1>1. CASE Loud
  BY <1>1, Heard DEF LoudOrFine, ParseFunctionDeclaration, Take, Jump, Give, TakeGive, Fail
<1>2. CASE ~ Loud
  <2>0. Fine /\ stack # <<>>
    BY <1>2 DEF LoudOrFine, ParseFunctionDeclaration, At
  <2>00. Firm(Top) /\ ret # None
    BY <2>0, TopFirm DEF Fine
  <2>1. CASE Top.at = "fn"
    BY <2>0, <2>00, <2>1, Heard, Trees, Joined, Goes0, Goes1, Goes2, Goes3, Goes4, Goes5
       DEF LoudOrFine, ParseFunctionDeclaration, At, Take, Jump, Give, TakeGive, Fail, F, Sync, Firm
  <2>2. CASE Top.at = "fnName"
    BY <2>0, <2>00, <2>2, Heard, Trees, Joined, Goes0, Goes1, Goes2, Goes3, Goes4, Goes5
       DEF LoudOrFine, ParseFunctionDeclaration, At, Take, Jump, Give, TakeGive, Fail, F, Sync, Firm
  <2>3. CASE Top.at = "fnTemplates"
    <3>1. CASE current = "["
      <4>1. Take(<<F("fnReturn"), F("fnArguments"), F("templates")>>)
        BY <2>0, <2>00, <2>3, <3>1, Joined DEF ParseFunctionDeclaration, At
      <4>2. Firm(F("fnReturn")) /\ Firm(F("fnArguments")) /\ Firm(F("templates"))
        BY DEF F, Firm
      <4>. QED
        BY <2>0, <2>00, <2>3, <4>1, <4>2, Trees, Goes3 DEF Take, LoudOrFine
    <3>2. CASE current # "["
      BY <2>0, <2>00, <2>3, <3>2, Trees, Goes2 DEF LoudOrFine, ParseFunctionDeclaration, At, Jump, F, Firm
    <3>. QED
      BY <3>1, <3>2
  <2>4. CASE Top.at = "fnReturn"
    BY <2>0, <2>00, <2>4, Heard, Trees, Joined, Goes0, Goes1, Goes2, Goes3, Goes4, Goes5
       DEF LoudOrFine, ParseFunctionDeclaration, At, Take, Jump, Give, TakeGive, Fail, F, Sync, Firm
  <2>5. CASE Top.at = "fnBody"
    BY <2>0, <2>00, <2>5, Heard, Trees, Joined, Goes0, Goes1, Goes2, Goes3, Goes4, Goes5
       DEF LoudOrFine, ParseFunctionDeclaration, At, Take, Jump, Give, TakeGive, Fail, F, Sync, Firm
  <2>6. CASE Top.at = "fnNoType"
    BY <2>0, <2>00, <2>6, Heard, Trees, Joined, Goes0, Goes1, Goes2, Goes3, Goes4, Goes5
       DEF LoudOrFine, ParseFunctionDeclaration, At, Take, Jump, Give, TakeGive, Fail, F, Sync, Firm
  <2>. QED
    BY <2>0, <2>1, <2>2, <2>3, <2>4, <2>5, <2>6 DEF ParseFunctionDeclaration, At
<1>. QED
  BY <1>1, <1>2

\* An argument without a name is reported.
LEMMA ParseFunctionArgumentListLoud ==
  ASSUME LoudOrFine, ParseFunctionArgumentList
  PROVE  LoudOrFine'
<1>1. CASE Loud
  BY <1>1, Heard DEF LoudOrFine, ParseFunctionArgumentList, Take, Jump, Give, TakeGive, Fail
<1>2. CASE ~ Loud
  <2>0. Fine /\ stack # <<>>
    BY <1>2 DEF LoudOrFine, ParseFunctionArgumentList, At
  <2>00. Firm(Top) /\ ret # None
    BY <2>0, TopFirm DEF Fine
  <2>1. CASE Top.at = "fnArguments"
    BY <2>0, <2>00, <2>1, Heard, Trees, Joined, Goes0, Goes1, Goes2, Goes3, Goes4, Goes5
       DEF LoudOrFine, ParseFunctionArgumentList, At, Take, Jump, Give, TakeGive, Fail, Close, F, FnArgument, ItemEnd, Sync, Synced, Firm
  <2>2. CASE Top.at = "fnArgument"
    BY <2>0, <2>00, <2>2, Heard, Trees, Joined, Goes0, Goes1, Goes2, Goes3, Goes4, Goes5
       DEF LoudOrFine, ParseFunctionArgumentList, At, Take, Jump, Give, TakeGive, Fail, Close, F, FnArgument, ItemEnd, Sync, Synced, Firm
  <2>3. CASE Top.at = "argumentType"
    BY <2>0, <2>00, <2>3, Heard, Trees, Joined, Goes0, Goes1, Goes2, Goes3, Goes4, Goes5
       DEF LoudOrFine, ParseFunctionArgumentList, At, Take, Jump, Give, TakeGive, Fail, Close, F, FnArgument, ItemEnd, Sync, Synced, Firm
  <2>4. CASE Top.at = "argumentEnd"
    BY <2>0, <2>00, <2>4, Heard, Trees, Joined, Goes0, Goes1, Goes2, Goes3, Goes4, Goes5
       DEF LoudOrFine, ParseFunctionArgumentList, At, Take, Jump, Give, TakeGive, Fail, Close, F, FnArgument, ItemEnd, Sync, Synced, Firm
  <2>. QED
    BY <2>0, <2>1, <2>2, <2>3, <2>4 DEF ParseFunctionArgumentList, At
<1>. QED
  BY <1>1, <1>2

\* A statement that is not understood is reported.
LEMMA ParseBlockLoud ==
  ASSUME LoudOrFine, ParseBlock
  PROVE  LoudOrFine'
<1>1. CASE Loud
  BY <1>1, Heard DEF LoudOrFine, ParseBlock, Take, Jump
<1>2. CASE ~ Loud
  <2>0. Fine /\ stack # <<>>
    BY <1>2 DEF LoudOrFine, ParseBlock, At
  <2>00. Firm(Top) /\ ret # None
    BY <2>0, TopFirm DEF Fine
  <2>1. CASE Top.at = "block"
    BY <2>0, <2>00, <2>1, Heard, Trees, Joined, Goes0, Goes1, Goes2, Goes3, Goes4, Goes5
       DEF LoudOrFine, ParseBlock, At, Take, Jump, Close, D, Expect, F, Fn, Firm
  <2>2. CASE Top.at = "statement"
    BY <2>0, <2>00, <2>2, Heard, Trees, Joined, Goes0, Goes1, Goes2, Goes3, Goes4, Goes5
       DEF LoudOrFine, ParseBlock, At, Take, Jump, Close, D, Expect, F, Fn, Firm
  <2>. QED
    BY <2>0, <2>1, <2>2 DEF ParseBlock, At
<1>. QED
  BY <1>1, <1>2

\* A condition that is missing is reported.
LEMMA ParseBlockConditionLoud ==
  ASSUME LoudOrFine, ParseBlockCondition
  PROVE  LoudOrFine'
<1>1. CASE Loud
  BY <1>1, Heard DEF LoudOrFine, ParseBlockCondition, Take, Jump, Give, Fail
<1>2. CASE ~ Loud
  <2>0. Fine /\ stack # <<>>
    BY <1>2 DEF LoudOrFine, ParseBlockCondition, At
  <2>00. Firm(Top) /\ ret # None
    BY <2>0, TopFirm DEF Fine
  <2>1. CASE Top.at = "condition"
    BY <2>0, <2>00, <2>1, Heard, Trees, Joined, Goes0, Goes1, Goes2, Goes3, Goes4, Goes5
       DEF LoudOrFine, ParseBlockCondition, At, Take, Jump, Give, Fail, Expect, F, OrSync, Sync, Firm
  <2>2. CASE Top.at = "conditionEnd"
    BY <2>0, <2>00, <2>2, Heard, Trees, Joined, Goes0, Goes1, Goes2, Goes3, Goes4, Goes5
       DEF LoudOrFine, ParseBlockCondition, At, Take, Jump, Give, Fail, Expect, F, OrSync, Sync, Firm
  <2>3. CASE Top.at = "else"
    BY <2>0, <2>00, <2>3, Heard, Trees, Joined, Goes0, Goes1, Goes2, Goes3, Goes4, Goes5
       DEF LoudOrFine, ParseBlockCondition, At, Take, Jump, Give, Fail, Expect, F, OrSync, Sync, Firm
  <2>. QED
    BY <2>0, <2>1, <2>2, <2>3 DEF ParseBlockCondition, At
<1>. QED
  BY <1>1, <1>2

\* So is what follows `extern` or `return`.
LEMMA ParseExternOrReturnLoud ==
  ASSUME LoudOrFine, ParseExternOrReturn
  PROVE  LoudOrFine'
<1>1. CASE Loud
  BY <1>1, Heard DEF LoudOrFine, ParseExternOrReturn, Jump, Give, TakeGive, Fail
<1>2. CASE ~ Loud
  <2>0. Fine /\ stack # <<>>
    BY <1>2 DEF LoudOrFine, ParseExternOrReturn, At
  <2>00. Firm(Top) /\ ret # None
    BY <2>0, TopFirm DEF Fine
  <2>1. CASE Top.at = "extern"
    BY <2>0, <2>00, <2>1, Heard, Trees, Joined, Goes0, Goes1, Goes2, Goes3, Goes4, Goes5
       DEF LoudOrFine, ParseExternOrReturn, At, Jump, Give, TakeGive, Fail, D, Expect, F, Fn, Sync, Firm
  <2>2. CASE Top.at = "return"
    BY <2>0, <2>00, <2>2, Heard, Trees, Joined, Goes0, Goes1, Goes2, Goes3, Goes4, Goes5
       DEF LoudOrFine, ParseExternOrReturn, At, Jump, Give, TakeGive, Fail, D, Expect, F, Fn, Sync, Firm
  <2>3. CASE Top.at = "returned"
    BY <2>0, <2>00, <2>3, Heard, Trees, Joined, Goes0, Goes1, Goes2, Goes3, Goes4, Goes5
       DEF LoudOrFine, ParseExternOrReturn, At, Jump, Give, TakeGive, Fail, D, Expect, F, Fn, Sync, Firm
  <2>. QED
    BY <2>0, <2>1, <2>2, <2>3 DEF ParseExternOrReturn, At
<1>. QED
  BY <1>1, <1>2

\* So is the name of a variable.
LEMMA ParseLetLoud ==
  ASSUME LoudOrFine, ParseLet
  PROVE  LoudOrFine'
<1>1. CASE Loud
  BY <1>1, Heard DEF LoudOrFine, ParseLet, Take, Jump, Fail
<1>2. CASE ~ Loud
  <2>0. Fine /\ stack # <<>>
    BY <1>2 DEF LoudOrFine, ParseLet, At
  <2>00. Firm(Top) /\ ret # None
    BY <2>0, TopFirm DEF Fine
  <2>1. CASE Top.at = "let"
    BY <2>0, <2>00, <2>1, Heard, Trees, Joined, Goes0, Goes1, Goes2, Goes3, Goes4, Goes5
       DEF LoudOrFine, ParseLet, At, Take, Jump, Fail, Expect, F, OrSync, Sync, Firm
  <2>2. CASE Top.at = "letType"
    BY <2>0, <2>00, <2>2, Heard, Trees, Joined, Goes0, Goes1, Goes2, Goes3, Goes4, Goes5
       DEF LoudOrFine, ParseLet, At, Take, Jump, Fail, Expect, F, OrSync, Sync, Firm
  <2>3. CASE Top.at = "letValue"
    BY <2>0, <2>00, <2>3, Heard, Trees, Joined, Goes0, Goes1, Goes2, Goes3, Goes4, Goes5
       DEF LoudOrFine, ParseLet, At, Take, Jump, Fail, Expect, F, OrSync, Sync, Firm
  <2>4. CASE Top.at = "letEnd"
    BY <2>0, <2>00, <2>4, Heard, Trees, Joined, Goes0, Goes1, Goes2, Goes3, Goes4, Goes5
       DEF LoudOrFine, ParseLet, At, Take, Jump, Fail, Expect, F, OrSync, Sync, Firm
  <2>. QED
    BY <2>0, <2>1, <2>2, <2>3, <2>4 DEF ParseLet, At
<1>. QED
  BY <1>1, <1>2

\* So is the name or the type of an alias.
LEMMA ParseAliasLoud ==
  ASSUME LoudOrFine, ParseAlias
  PROVE  LoudOrFine'
<1>1. CASE Loud
  BY <1>1, Heard DEF LoudOrFine, ParseAlias, Take, Jump, Give, Fail
<1>2. CASE ~ Loud
  <2>0. Fine /\ stack # <<>>
    BY <1>2 DEF LoudOrFine, ParseAlias, At
  <2>00. Firm(Top) /\ ret # None
    BY <2>0, TopFirm DEF Fine
  <2>1. CASE Top.at = "alias"
    BY <2>0, <2>00, <2>1, Heard, Trees, Joined, Goes0, Goes1, Goes2, Goes3, Goes4, Goes5
       DEF LoudOrFine, ParseAlias, At, Take, Jump, Give, Fail, Close, F, Sync, Firm
  <2>2. CASE Top.at = "aliasType"
    BY <2>0, <2>00, <2>2, Heard, Trees, Joined, Goes0, Goes1, Goes2, Goes3, Goes4, Goes5
       DEF LoudOrFine, ParseAlias, At, Take, Jump, Give, Fail, Close, F, Sync, Firm
  <2>3. CASE Top.at = "aliasSynced"
    BY <2>0, <2>00, <2>3, Heard, Trees, Joined, Goes0, Goes1, Goes2, Goes3, Goes4, Goes5
       DEF LoudOrFine, ParseAlias, At, Take, Jump, Give, Fail, Close, F, Sync, Firm
  <2>4. CASE Top.at = "aliasEnd"
    BY <2>0, <2>00, <2>4, Heard, Trees, Joined, Goes0, Goes1, Goes2, Goes3, Goes4, Goes5
       DEF LoudOrFine, ParseAlias, At, Take, Jump, Give, Fail, Close, F, Sync, Firm
  <2>. QED
    BY <2>0, <2>1, <2>2, <2>3, <2>4 DEF ParseAlias, At
<1>. QED
  BY <1>1, <1>2

\* So is the path of an import.
LEMMA ParseImportLoud ==
  ASSUME LoudOrFine, ParseImport
  PROVE  LoudOrFine'
<1>1. CASE Loud
  BY <1>1, Heard DEF LoudOrFine, ParseImport, Take, Give, TakeGive, Fail
<1>2. CASE ~ Loud
  <2>0. Fine /\ stack # <<>>
    BY <1>2 DEF LoudOrFine, ParseImport, At
  <2>00. Firm(Top) /\ ret # None
    BY <2>0, TopFirm DEF Fine
  <2>1. CASE Top.at = "import"
    BY <2>0, <2>00, <2>1, Heard, Trees, Joined, Goes0, Goes1, Goes2, Goes3, Goes4, Goes5
       DEF LoudOrFine, ParseImport, At, Take, Give, TakeGive, Fail, F, Sync, Firm
  <2>2. CASE Top.at = "importPath"
    BY <2>0, <2>00, <2>2, Heard, Trees, Joined, Goes0, Goes1, Goes2, Goes3, Goes4, Goes5
       DEF LoudOrFine, ParseImport, At, Take, Give, TakeGive, Fail, F, Sync, Firm
  <2>3. CASE Top.at = "importEnd"
    BY <2>0, <2>00, <2>3, Heard, Trees, Joined, Goes0, Goes1, Goes2, Goes3, Goes4, Goes5
       DEF LoudOrFine, ParseImport, At, Take, Give, TakeGive, Fail, F, Sync, Firm
  <2>. QED
    BY <2>0, <2>1, <2>2, <2>3 DEF ParseImport, At
<1>. QED
  BY <1>1, <1>2

-----------------------------------------------------------------------------
(* The parser.                                                              *)

\* Parsing starts with one firm frame.
LEMMA LoudInit == Init => LoudOrFine
<1>. SUFFICES ASSUME Init PROVE Fine
  BY DEF LoudOrFine
<1>. DEFINE one(f) == stack = <<f>>
<1>1. PICK f \in {F("block"), F("expression")} : one(f)
  BY DEF Init
<1>2. Firm(f)
  BY <1>1 DEF F, Firm
<1>3. \A g \in ToSet(stack) : g = f
  BY <1>1 DEF ToSet
<1>4. stack \in Seq(ToSet(stack))
  <2>1. f \in ToSet(stack)
    BY <1>1 DEF ToSet
  <2>. QED
    BY <1>1, <2>1
<1>. QED
  BY <1>2, <1>3, <1>4, Trees DEF Init, Fine

\* Every step of the parser keeps it loud or fine.
LEMMA LoudNext == LoudOrFine /\ [Next]_vars => LoudOrFine'
<1>1. ASSUME LoudOrFine, Next PROVE LoudOrFine'
  BY <1>1, ConsumeTokenLoud, SynchronizeOnErrorLoud, CallersLoud, SyncedAtItemLoud,
     ParseAssignmentLoud, ParseBinaryLoud, ParseUnaryLoud, ParseInFixLoud,
     ParsePostFixLoud, ParseMemberLoud, ParseIndexLoud, ParseCallLoud,
     ParsePrimaryLoud, ParseTypeLoud, ParsePrimaryTypeLoud, ParseFunctionTypeLoud,
     ParseTypeListLoud, ParseTemplatesLoud, ParseDeclarationLoud, ParseMembersLoud,
     ParseFunctionDeclarationLoud, ParseFunctionArgumentListLoud, ParseBlockLoud, ParseBlockConditionLoud,
     ParseExternOrReturnLoud, ParseLetLoud, ParseAliasLoud, ParseImportLoud
     DEF Next
<1>2. ASSUME LoudOrFine, UNCHANGED vars PROVE LoudOrFine'
  BY <1>2 DEF vars, LoudOrFine, Loud, Fine, Firm
<1>. QED
  BY <1>1, <1>2

\* While nothing was reported, skipped or given up, every parse function holds
\* the trees it was made with and gives something.
THEOREM AlwaysLoudOrFine == Spec => []LoudOrFine
<1>. QED
  BY LoudInit, LoudNext, PTL DEF Spec

\* A parse function that gives nothing has reported why, or something was
\* skipped or given up that a caller knows of, whatever the source is.
THEOREM NothingIsGivenUpSilently == Spec => []GivesUpAloud
<1>1. LoudOrFine => GivesUpAloud
  BY DEF LoudOrFine, Loud, Fine, GivesUpAloud
<1>. QED
  BY <1>1, AlwaysLoudOrFine, PTL

=============================================================================
