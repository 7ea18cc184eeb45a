------------------------------ MODULE Emission ------------------------------
(***************************************************************************)
(* ByteCodeGenerator's emission of a function body, followed instruction   *)
(* by instruction with the height the VM's stack has above the frame.      *)
(* A syntax tree is chosen form by form while it is emitted: EmitExpression*)
(* and EmitBlock are given as the sequence of steps each form expands to,  *)
(* with the forms the checker accepts in each place.                       *)
(***************************************************************************)
EXTENDS Naturals, Sequences, FiniteSets, SequencesExt

CONSTANTS
    MaxForms,        \* bound: forms of statement and expression in the body
    MaxArguments     \* bound: arguments of a call

ASSUME BoundsAssumption == MaxForms \in Nat /\ MaxArguments \in Nat

VARIABLES
    tasks,       \* the steps still to emit, in order
    height,      \* {values on the stack here}, {} where no path leads
    arrivals,    \* the heights each label is reached with
    located,     \* label_to_location: the labels placed so far
    forms,       \* the forms chosen so far (bounded)
    unusual,     \* the forms chosen that leave the stack uneven
    aborted      \* a CHECK of the generator failed

emissionVars == <<tasks, height, arrivals, located, forms, unusual, aborted>>

NoLabel == 0

\* An expression to emit: access mode, label of the optional chain to leave at
\* a Nil, whether it lies on a chain's spine, and which forms may stand there.
Expr(mode, context, chained, shape) ==
    [do |-> "expression", mode |-> mode, context |-> context,
     chained |-> chained, shape |-> shape]
E == Expr("LOAD", NoLabel, FALSE, "any")
Arguments(n) == [i \in 1..n |-> E]

Op(pops, pushes) == [do |-> "op", pops |-> pops, pushes |-> pushes]
Push == Op(0, 1)
StackDup == Op(1, 2)
Jump(l) == [do |-> "jump", label |-> l]
JumpIf(l) == [do |-> "jump_if", label |-> l]
Label(l) == [do |-> "label", label |-> l]
Stop == [do |-> "stop"]                      \* OP_RETURN, OP_THROW
Block(loop) == [do |-> "block", loop |-> loop]
NoLoop == [break |-> NoLabel, continue |-> NoLabel]
\* What the expression before it has to have left: ghost, emits nothing.
Leaves(from, values) == [do |-> "leaves", from |-> from, values |-> values]
ValuesOf(mode) == IF mode = "STORE" THEN 2 ELSE 1

\* Two labels of the next unique id.
Fresh == Len(arrivals) + 1
Other == Fresh + 1

----------------------------------------------------------------------------
(* Expressions: the steps of every form in access mode `mode`, on a chain  *)
(* with label `context`.                                                   *)

Primary == {<<Push>>}                 \* literal, variable, function, sizeof

Binary == {<<E, Op(1, 1)>>,           \* a comparison with Nil
           <<E, E, Op(2, 1)>>}

Prefix == {<<E>>, <<E, Op(1, 1)>>, <<E, Push, Op(2, 1)>>}

Cast == {<<E>>}

ClosureForm == {[i \in 1..n |-> Push] \o <<Op(n, 1)>> : n \in 0..1}

\* MUTANT of Logic: a short circuit leaves no value.
LogicNoValue == {<<E, JumpIf(Fresh), E, Jump(Other), Label(Fresh),
                   Label(Other)>>}

Logic == {<<E, JumpIf(Fresh), E, Jump(Other), Label(Fresh), Push,
            Label(Other)>>}

NilCoalescing == {<<E, StackDup, Op(1, 1), JumpIf(Fresh), E, Label(Fresh)>>}

\* MUTANT of AssignIdentifier: the value is not duplicated.
AssignNoDup == {<<E, Op(1, 0)>>}

AssignIdentifier == {<<E, StackDup, Op(1, 0)>>}

AssignField ==
    {<<Expr("STORE", NoLabel, FALSE, s), E, Op(3, 1)>> :
        s \in {"field", "chain"}}

\* A member: a field of an object, a method bound to it, or a static method.
Field(mode, context, chained) ==
    {<<Expr("LOAD", context, chained, "any")>>
        \o (IF mode = "OBJECT_ONLY" THEN <<>> ELSE <<Push>>)
        \o (IF mode = "LOAD" THEN <<Op(2, 1)>> ELSE <<>>)}

Method(mode, context, chained) ==
    {<<Expr("LOAD", context, chained, "any")>>
        \o (IF mode = "OBJECT_ONLY" THEN <<>> ELSE <<Op(1, 1)>>)}

ArrayAccess(mode, context, chained) ==
    {<<Expr("LOAD", context, chained, "any"), E>>
        \o (IF mode = "LOAD" THEN <<Op(2, 1)>> ELSE <<>>)}

\* The target of generic arguments is emitted outside of the chain.
TemplateInstantiation(chained, shape) ==
    {<<Expr("LOAD", NoLabel, chained, shape)>>}

\* Call of a method, direct or virtual: the object is argument 0.
CallMethod(context, chained) ==
    {<<Expr("OBJECT_ONLY", context, chained, "method")>>
        \o Arguments(n) \o <<Op(n + 1, 1)>> : n \in 0..MaxArguments}

\* Free, extern and static functions and constructors.
CallFunction ==
    {Arguments(n) \o <<Op(n, 1)>> : n \in 0..MaxArguments}

\* A closure: it is emitted behind its arguments, outside of the chain.
CallAnonymous(chained) ==
    {Arguments(n) \o <<Expr("LOAD", NoLabel, chained, "any"), Op(n + 1, 1)>> :
        n \in 0..MaxArguments}

OptionalChain(mode, shape) ==
    {<<Expr(mode, Fresh, TRUE, shape), Label(Fresh)>>}

OptionalAccess(mode, context) ==
    {<<Expr(mode, context, TRUE, "any"), StackDup, Op(1, 1), JumpIf(context)>>}

\* The postfix forms, which a chain's spine consists of.
Postfix(e) ==
    Field(e.mode, e.context, e.chained) \cup Method(e.mode, e.context, e.chained)
    \cup ArrayAccess(e.mode, e.context, e.chained)
    \cup CallMethod(e.context, e.chained) \cup CallFunction
    \cup CallAnonymous(e.chained)
    \cup TemplateInstantiation(e.chained, "any")

\* The regular forms that may stand where e is expected.
Regular(e) ==
    CASE e.shape = "any" -> Primary \cup Binary \cup Prefix \cup Cast
                              \cup ClosureForm \cup Logic \cup AssignIdentifier
                              \cup AssignField \cup OptionalChain("LOAD", "any")
                              \cup Postfix(e)
      [] e.shape = "field" -> Field(e.mode, e.context, e.chained)
      [] e.shape = "chain" -> {}
      [] e.shape = "method" -> Method(e.mode, e.context, e.chained)
                                 \cup TemplateInstantiation(e.chained, "method")

\* Those after which the paths through the code disagree.
Uneven(e) ==
    CASE e.shape = "any" ->
            {[form |-> "??", steps |-> steps] : steps \in NilCoalescing}
      [] e.shape = "chain" ->
            {[form |-> "?.=", steps |-> steps] :
                steps \in OptionalChain("STORE", "field")}
      [] OTHER -> {}

----------------------------------------------------------------------------
(* Statements.                                                             *)

IfStatement(loop) ==
    <<E, JumpIf(Fresh), Block(loop), Jump(Other), Label(Fresh), Block(loop),
      Label(Other)>>

\* MUTANT of WhileStatement: the end is not labelled.
WhileOpenEnded ==
    <<Label(Fresh), E, JumpIf(Other),
      Block([break |-> Other, continue |-> Fresh]), Jump(Fresh)>>

WhileStatement ==
    <<Label(Fresh), E, JumpIf(Other),
      Block([break |-> Other, continue |-> Fresh]), Jump(Fresh), Label(Other)>>

\* An expression or a let, a return or a throw, a break or a continue.
Statements(loop) ==
    {<<E, Op(1, 0)>>, <<E, Stop>>, <<Push, Stop>>,
     IfStatement(loop), WhileStatement}
    \cup {<<Jump(l)>> : l \in {loop.break, loop.continue} \ {NoLabel}}

----------------------------------------------------------------------------
(* The emission.                                                           *)

Step == Head(tasks)
At(do) == ~aborted /\ tasks # <<>> /\ Step.do = do

NewLabels(steps) ==
    LET used == {steps[i].label : i \in {j \in 1..Len(steps) :
                    steps[j].do \in {"label", "jump", "jump_if"}}}
    IN  Cardinality({l \in used : l > Len(arrivals)})

\* The form chosen expands to `steps`; what is left to choose still fits.
Choose(steps, ghost) ==
    /\ forms' = forms + 1
    /\ tasks' = steps \o ghost \o Tail(tasks)
    /\ forms' + Len(SelectSeq(tasks', LAMBDA t : t.do = "expression"))
            <= MaxForms
    /\ arrivals' = arrivals \o [i \in 1..NewLabels(steps) |-> {}]
    /\ UNCHANGED <<height, located, aborted>>

Ghost == <<Leaves(height, ValuesOf(Step.mode))>>

EmitExpression ==
    /\ At("expression")
    /\ \/ /\ \E steps \in Regular(Step) : Choose(steps, Ghost)
          /\ UNCHANGED unusual
       \/ \E u \in Uneven(Step) :
              /\ Choose(u.steps, Ghost)
              /\ unusual' = unusual \cup {u.form}

\* An access that may be Nil, on a chain's spine: its label is needed.
EmitOptionalAccess ==
    /\ At("expression")
    /\ Step.chained /\ Step.shape = "any"
    /\ Step.context # NoLabel
    /\ \E steps \in OptionalAccess(Step.mode, Step.context) : Choose(steps, Ghost)
    /\ UNCHANGED unusual

\* CHECK(optional_chain_ctx.has_value()).
MissingContext ==
    /\ At("expression")
    /\ Step.chained /\ Step.shape = "any"
    /\ Step.context = NoLabel
    /\ aborted' = TRUE
    /\ UNCHANGED <<tasks, height, arrivals, located, forms, unusual>>

\* The next statement of a block; none is accepted after one that ends it.
EmitStatement ==
    /\ At("block")
    /\ height # {}
    /\ \E steps \in Statements(Step.loop) : Choose(steps, <<Step>>)
    /\ UNCHANGED unusual

EndBlock ==
    /\ At("block")
    /\ tasks' = Tail(tasks)
    /\ UNCHANGED <<height, arrivals, located, forms, unusual, aborted>>

Then == tasks' = Tail(tasks) /\ UNCHANGED <<forms, unusual, aborted>>

EmitOp ==
    /\ At("op") /\ Then
    /\ height' = {(h - Step.pops) + Step.pushes :
                      h \in {x \in height : x >= Step.pops}}
    /\ UNCHANGED <<arrivals, located>>

Reaches(heights) == [arrivals EXCEPT ![Step.label] = @ \cup heights]

EmitJump ==
    /\ At("jump") /\ Then
    /\ arrivals' = Reaches(height)
    /\ height' = {}
    /\ UNCHANGED located

EmitJumpIf ==
    /\ At("jump_if") /\ Then
    /\ height' = {h - 1 : h \in height \ {0}}
    /\ arrivals' = Reaches(height')
    /\ UNCHANGED located

EmitStop ==
    /\ At("stop") /\ Then
    /\ height' = {}
    /\ UNCHANGED <<arrivals, located>>

\* Behind a label, any of the paths that reach it is followed.
EmitLabel ==
    /\ At("label") /\ Then
    /\ Step.label \notin located
    /\ located' = located \cup {Step.label}
    /\ arrivals' = Reaches(height)
    /\ LET reached == arrivals'[Step.label]
       IN  IF reached = {} THEN height' = {}
           ELSE \E h \in reached : height' = {h}

PassGhost ==
    /\ At("leaves") /\ Then
    /\ UNCHANGED <<height, arrivals, located>>

\* Build: the body, then a unit return if its end is reached.
EmissionInit ==
    /\ tasks = <<Block(NoLoop)>>
    /\ height = {0}
    /\ arrivals = <<>>
    /\ located = {}
    /\ forms = 0
    /\ unusual = {}
    /\ aborted = FALSE

EmissionNext ==
    \/ EmitExpression \/ EmitOptionalAccess \/ MissingContext
    \/ EmitStatement \/ EndBlock \/ EmitOp \/ EmitJump \/ EmitJumpIf
    \/ EmitStop \/ EmitLabel \/ PassGhost

EmissionSpec == EmissionInit /\ [][EmissionNext]_emissionVars

----------------------------------------------------------------------------
(* What holds of the code.                                                 *)

\* Where two paths of the code meet, the stack is equally high on both: in
\* every function without `??` and without an assignment through `?.`.
PathsAgree ==
    unusual = {} => \A l \in 1..Len(arrivals) : Cardinality(arrivals[l]) <= 1

\* "Expressions always leave a value on the stack", bytecode_generator.cc:76
ExpressionsLeaveAValue ==
    At("leaves") =>
        \A h \in height, from \in Step.from : h = from + Step.values

\* They do under the same condition, two of them as the target of a store, and
\* no instruction takes more values than there are, nor does a statement begin
\* above values nobody takes.
StackBalanced ==
    unusual = {} =>
        /\ ExpressionsLeaveAValue
        /\ At("op") => \A h \in height : h >= Step.pops
        /\ At("block") => height \subseteq {0}

\* Every label that is jumped to is placed, and only once.
LabelsPlaced ==
    /\ At("label") => Step.label \notin located
    /\ tasks = <<>> =>
        \A l \in 1..Len(arrivals) : arrivals[l] # {} => l \in located

=============================================================================
