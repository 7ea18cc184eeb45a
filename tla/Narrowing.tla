----------------------------- MODULE Narrowing ------------------------------
(***************************************************************************)
(* Flow-sensitive narrowing: what semantic_analyzer.cc and                  *)
(* expression_checker.cc conclude about optional variables while they walk  *)
(* a function body, next to what its executions do.  The statements of the  *)
(* body are chosen one by one, in the order in which the analyzer comes by  *)
(* them; one that it rejects ends the compilation and is left out.          *)
(***************************************************************************)
EXTENDS Integers, Sequences

CONSTANTS
  Variables,   \* local variables of type `i32?`, the parameters of the body
  MaxSize      \* bound: statements, and operators of conditions, of the body

VARIABLES
  blocks,      \* the blocks the analyzer is in, the innermost last
  loops,       \* LoopContexts, the innermost last
  run,         \* executions of the innermost loop body (or of the body)
  doubts,      \* history: what was met that can make knowledge wrong
  size

vars == <<blocks, loops, run, doubts, size>>

\* A type is the set of values that have it: union, intersection and subset
\* of types are those of sets (module TypeBuilding).  {} is `never`.
Nil      == "Nil"
Number   == "i32"
Declared == {Nil, Number}

\* NarrowedBindings: a type for some variables.
Unknown == {"?"}
Nothing == [v \in Variables |-> Unknown]
Only(v, type) == [Nothing EXCEPT ![v] = type]
TypeOf(b, v) == IF b[v] = Unknown THEN Declared ELSE b[v]

Stores == [Variables -> Declared]

-----------------------------------------------------------------------------
(* Conditions: v == Nil, v != Nil, one that says nothing of a variable, and *)
(* two of these joined by `&&` or `||`.                                     *)

Input == [op |-> "input"]
Atoms == {Input} \cup [op : {"eq", "ne"}, var : Variables]
Logic == [op : {"and", "or"}, lhs : Atoms, rhs : Atoms]
Operators(c) == IF c.op \in {"and", "or"} THEN 1 ELSE 0

\* What is known when both b and c hold; when one of them does.
Both(b, c) ==
  [v \in Variables |-> IF b[v] = Unknown THEN c[v]
                       ELSE IF c[v] = Unknown THEN b[v] ELSE b[v] \cap c[v]]
Either(b, c) ==
  [v \in Variables |-> IF Unknown \in {b[v], c[v]} THEN Unknown ELSE b[v] \cup c[v]]

Compared(atom) ==
  CASE atom.op = "input" -> [true |-> Nothing, false |-> Nothing]
    [] atom.op = "eq" -> [true |-> Only(atom.var, {Nil}), false |-> Only(atom.var, {Number})]
    [] atom.op = "ne" -> [true |-> Only(atom.var, {Number}), false |-> Only(atom.var, {Nil})]

\* The false bindings of `||` start from lhs->true_bindings; what
\* rhs->false_bindings says overwrites.
FalseOfOr(l, r) ==
  [v \in Variables |->
     IF r.false[v] = Unknown THEN l.true[v]
     ELSE IF l.false[v] = Unknown THEN r.false[v] ELSE r.false[v] \cap l.false[v]]

\* Mutant: `&&` is false when both sides are.
FailsTwice(op, l, r) ==
  IF op = "and"
  THEN [true |-> Both(l.true, r.true), false |-> Both(l.false, r.false)]
  ELSE [true |-> Either(l.true, r.true), false |-> FalseOfOr(l, r)]

Logical(op, l, r) ==
  IF op = "and"
  THEN [true |-> Both(l.true, r.true), false |-> Either(l.false, r.false)]
  ELSE [true |-> Either(l.true, r.true), false |-> FalseOfOr(l, r)]

Check(c) ==
  IF c.op \in {"and", "or"}
  THEN Logical(c.op, Compared(c.lhs), Compared(c.rhs)) ELSE Compared(c)

\* Both sides of `&&` and `||` are checked under the same bindings; only an
\* optional (or Nil) may be compared with Nil.
MayCompare(b, c) ==
  CASE c.op = "input"         -> TRUE
    [] c.op \in {"eq", "ne"}  -> Nil \in TypeOf(b, c.var)
    [] c.op \in {"and", "or"} -> \A side \in {c.lhs, c.rhs} \ {Input} :
          Nil \in TypeOf(b, side.var)

\* c may be b in store s.
May(c, b, s) ==
  LET is(a) == CASE a.op = "input" -> BOOLEAN
                 [] a.op = "eq" -> {s[a.var] = Nil}
                 [] a.op = "ne" -> {s[a.var] # Nil}
  IN  CASE c.op = "and" -> \E l \in is(c.lhs), r \in is(c.rhs) : b = (l /\ r)
        [] c.op = "or"  -> \E l \in is(c.lhs), r \in is(c.rhs) : b = (l \/ r)
        [] OTHER        -> b \in is(c)

-----------------------------------------------------------------------------
(* Executions.  A pair <<e, s>> is one that entered the loop body with      *)
(* store e and is here, at a break or at a continue with store s; the       *)
(* stores in `failed` are those that lead to a use of Nil as an i32.        *)

Entered(stores) ==
  [here |-> {<<s, s>> : s \in stores}, broke |-> {}, again |-> {}, failed |-> {}]
When(pairs, c, b) == {p \in pairs : May(c, b, p[2])}

\* The stores with which the condition of a loop is evaluated, from s on.
Heads(s, body) ==
  {t \in Stores : \A X \in SUBSET Stores :
     s \in X /\ (\A p \in body.here \cup body.again : p[1] \in X => p[2] \in X) => t \in X}

-----------------------------------------------------------------------------
\* Check(Block): what is known at its next statement, and whether it ended.
\* A first branch keeps the bindings and the executions of the second, a
\* second branch those that left the first; a loop the bindings behind it.
\* loop is the number of its LoopContext, 0 if there is none.
Block(kind, loop, knows, after, aside) ==
  [kind |-> kind, loop |-> loop, known |-> knows, ends |-> FALSE,
   after |-> after, aside |-> aside, thenEnds |-> FALSE]

Init ==
  /\ blocks = <<Block("body", 0, Nothing, Nothing, {})>>
  /\ loops = <<>>
  /\ run = Entered(Stores)
  /\ doubts = {}
  /\ size = 0

Top   == blocks[Len(blocks)]
Outer == SubSeq(blocks, 1, Len(blocks) - 1)
Loop  == loops[Len(loops)]
known == Top.known

\* The four ways (each is needed, no other is) to know what is not so:
\*  stale    a variable that was narrowed is assigned a value of another type:
\*           what was known is intersected with it, or just kept when the
\*           assignment is an operand or an argument, but never dropped;
\*  test     a condition is a statement of its own: it is taken to hold;
\*  or       what is known if `||` is false starts from when its left is true;
\*  skipped  no path comes to the end of a loop's body or breaks out of it:
\*           the loop is taken to be entered always.
Doubt(name, met) == doubts' = doubts \cup (IF met THEN {name} ELSE {})

\* The next statement of the block; one behind its end is unreachable.
Statement(n) == ~ Top.ends /\ size + n <= MaxSize /\ size' = size + n

Falls(bs, after) == blocks' = [bs EXCEPT ![Len(bs)].known = after]
Ends(bs)         == blocks' = [bs EXCEPT ![Len(bs)].ends = TRUE]

\* v = e: a type other than the declared one is what is known of v now, next
\* to what was known.  values(s) are what e may be in store s.  f(v = e) and
\* (v = e) < 1 hand on no bindings: nothing is learned from them.
Set(v, type, learns, values(_)) ==
  /\ Statement(1)
  /\ Falls(blocks, IF learns /\ type # Declared THEN Both(known, Only(v, type)) ELSE known)
  /\ Doubt("stale", known[v] # Unknown /\ ~ type \subseteq known[v])
  /\ run' = [run EXCEPT !.here =
               UNION {{<<p[1], [p[2] EXCEPT ![v] = x]>> : x \in values(p[2])} : p \in @}]
  /\ UNCHANGED loops

\* v is given Nil, an i32, what another variable holds, or an unknown `i32?`,
\* by a statement of its own or inside another expression.
Assign(v) ==
  \E learns \in BOOLEAN :
    \/ \E x \in Declared : Set(v, {x}, learns, LAMBDA s : {x})
    \/ Set(v, Declared, learns, LAMBDA s : Declared)
    \/ \E w \in Variables \ {v} : Set(v, TypeOf(known, w), learns, LAMBDA s : {s[w]})

\* v is passed where an i32 is expected.
Use(v) ==
  /\ Statement(1)
  /\ TypeOf(known, v) \subseteq {Number}
  /\ run' = [run EXCEPT !.here = {p \in @ : p[2][v] # Nil},
                        !.failed = @ \cup {p[1] : p \in {q \in run.here : q[2][v] = Nil}}]
  /\ UNCHANGED <<blocks, loops, doubts>>

\* A condition as a statement.
Test(c) ==
  LET after == Both(known, Check(c).true) IN
  /\ Statement(1 + Operators(c)) /\ MayCompare(known, c)
  /\ Falls(blocks, after)
  /\ Doubt("test", after # known)
  /\ UNCHANGED <<loops, run>>

Return ==
  /\ Statement(1) /\ Ends(blocks)
  /\ run' = [run EXCEPT !.here = {}]
  /\ UNCHANGED <<loops, doubts>>

Continue ==
  /\ loops # <<>> /\ Statement(1) /\ Ends(blocks)
  /\ run' = [run EXCEPT !.here = {}, !.again = @ \cup run.here]
  /\ UNCHANGED <<loops, doubts>>

-----------------------------------------------------------------------------
\* Flows that started from `base` join.
UnionBindings(left, right, base) ==
  LET side(b, v) == IF b[v] = Unknown THEN base[v] ELSE b[v]
  IN  [v \in Variables |->
         IF base[v] = Unknown THEN Either(left, right)[v]
         ELSE side(left, v) \cup side(right, v)]

\* break_bindings, none or one set of bindings, gathers what is known.
Break ==
  /\ loops # <<>> /\ Statement(1) /\ Ends(blocks)
  /\ loops' = [loops EXCEPT ![Len(loops)].breaks =
       IF @ = <<>> THEN <<known>> ELSE <<UnionBindings(@[1], known, Loop.initial)>>]
  /\ run' = [run EXCEPT !.here = {}, !.broke = @ \cup run.here]
  /\ UNCHANGED doubts

\* IfStatement: into its first branch, on to the second, and out.
If(c) ==
  /\ Statement(1 + Operators(c)) /\ MayCompare(known, c)
  /\ blocks' = Append(blocks, Block("then", Len(loops), Both(known, Check(c).true),
                                    Both(known, Check(c).false), When(run.here, c, FALSE)))
  /\ run' = [run EXCEPT !.here = When(@, c, TRUE)]
  /\ Doubt("or", c.op = "or")
  /\ UNCHANGED loops

Else ==
  /\ Top.kind = "then"
  /\ blocks' = Append(Outer, [Block("else", Len(loops), Top.after, known, run.here)
                                EXCEPT !.thenEnds = Top.ends])
  /\ run' = [run EXCEPT !.here = Top.aside]
  /\ UNCHANGED <<loops, doubts, size>>

\* Mutant: one branch that ends is enough.
EndIfEarly ==
  LET base == Outer[Len(Outer)].known IN
  /\ Top.kind = "else"
  /\ IF Top.thenEnds \/ Top.ends THEN Ends(Outer)
     ELSE Falls(Outer, UnionBindings(Top.after, known, base))
  /\ run' = [run EXCEPT !.here = @ \cup Top.aside]
  /\ UNCHANGED <<loops, doubts, size>>

EndIf ==
  LET base == Outer[Len(Outer)].known IN
  /\ Top.kind = "else"
  /\ CASE Top.thenEnds /\ Top.ends     -> Ends(Outer)
       [] Top.thenEnds /\ ~ Top.ends   -> Falls(Outer, known)
       [] ~ Top.thenEnds /\ Top.ends   -> Falls(Outer, Top.after)
       [] ~ Top.thenEnds /\ ~ Top.ends -> Falls(Outer, UnionBindings(Top.after, known, base))
  /\ run' = [run EXCEPT !.here = @ \cup Top.aside]
  /\ UNCHANGED <<loops, doubts, size>>

\* WhileStatement.
While(c) ==
  /\ Statement(1 + Operators(c)) /\ MayCompare(known, c)
  /\ loops' = Append(loops, [initial |-> known, breaks |-> <<>>, cond |-> c, outer |-> run])
  /\ blocks' = Append(blocks, Block("while", Len(loops) + 1,
                                    Both(known, Check(c).true),
                                    Both(known, Check(c).false), {}))
  /\ run' = Entered({s \in Stores : May(c, TRUE, s)})
  /\ Doubt("or", c.op = "or")

EndWhile ==
  LET never == Top.ends /\ Loop.breaks = <<>>
      exits(s) == {t \in Heads(s, run) : May(Loop.cond, FALSE, t)}
                    \cup {q[2] : q \in {r \in run.broke : r[1] \in Heads(s, run)}}
  IN
  /\ Top.kind = "while"
  /\ IF never THEN Ends(Outer)
     ELSE Falls(Outer, IF Loop.breaks = <<>> THEN Top.after
                       ELSE UnionBindings(Top.after, Loop.breaks[1], Loop.initial))
  /\ run' = [Loop.outer EXCEPT
               !.here = UNION {{<<p[1], t>> : t \in exits(p[2])} : p \in @},
               !.failed = @ \cup {p[1] : p \in {q \in Loop.outer.here :
                                                   Heads(q[2], run) \cap run.failed # {}}}]
  /\ loops' = SubSeq(loops, 1, Len(loops) - 1)
  /\ Doubt("skipped", never)
  /\ UNCHANGED size

Next ==
  \/ \E v \in Variables : Assign(v) \/ Use(v)
  \/ \E c \in Atoms \cup Logic : Test(c) \/ If(c) \/ While(c)
  \/ Else \/ EndIf \/ EndWhile
  \/ Return \/ Break \/ Continue

Spec == Init /\ [][Next]_vars

-----------------------------------------------------------------------------
(* Properties.  The analyzer is through when it is back in the body.        *)

Through == Len(blocks) = 1

\* Narrowing is sound: in a body that compiles no execution uses Nil where an
\* i32 is expected, whatever its branches, loops, breaks and assignments -
\* unless one of the four doubts was met on the way.
NilNeverUsed == Through /\ doubts = {} => run.failed = {}

\* No execution comes to the end of a body that the analyzer takes to return
\* on all paths (so that it needs no return of a value), unless a loop may be
\* skipped.
EndsMeansEnds ==
  Through /\ Top.ends /\ "skipped" \notin doubts => run.here = {}

\* "`false_bindings` use the opposite": what is known when `||` is false is
\* sound as well.
OrIsOpposite == Through /\ doubts \subseteq {"or"} => run.failed = {}
=============================================================================
