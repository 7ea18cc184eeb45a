-------------------------------- MODULE Slots --------------------------------
(***************************************************************************)
(* How a name becomes a stack slot: the scopes of ScopeManager, the checks *)
(* of identifiers and closures that resolve a name to a binding, the queue *)
(* of function bodies SemanticAnalyzer checks at the end of every block,   *)
(* and the numbering ByteCodeGenerator gives the bindings of a function.   *)
(*                                                                         *)
(* The program is chosen statement by statement while it is analysed; the  *)
(* code generator runs over the result once the analysis is over.  Only    *)
(* programs the analysis accepts are followed.                             *)
(***************************************************************************)
EXTENDS Naturals, Sequences, FiniteSets, SequencesExt

CONSTANTS
    Name,            \* the identifiers of the program
    MainArguments,   \* lists of distinct names: arguments of the main function
    ClosureArguments,\* and of a closure
    MaxFunctions,    \* bound: the main function and its closures
    MaxStatements    \* bound: statements of the whole program

ASSUME ArgumentsAssumption ==
    \A arguments \in MainArguments \cup ClosureArguments :
        arguments \in Seq(Name) /\ IsInjective(arguments)

VARIABLES
    scopes,      \* ScopeManager::scopes_
    active,      \* active_scope_id_
    realized,    \* TypeContext::realized_functions_: bodies still to check
    fns,         \* the function symbols: scope, required captures, code
    stack,       \* the blocks being checked, innermost last
    statements   \* how many statements the program has (bounded)

vars == <<scopes, active, realized, fns, stack, statements>>

ROOT == 1
Bindings(s) == ToSet(scopes[s].bindings)

\* The innermost function instance scope around s, or the root.
FunctionScope(s) ==
    LET up[i \in 1..Len(scopes)] ==
            IF i = ROOT \/ scopes[i].type = "FunctionInstanceScope"
            THEN i ELSE up[scopes[i].parent]
    IN  up[s]

\* MUTANT of FindBindingFor: a closure looks through every function.
FindBindingInAll(n, toCheck) ==
    LET from[i \in 1..Len(scopes)] ==
            LET here == {b \in Bindings(i) : b.name = n}
            IN  IF \/ here # {} \/ i = ROOT
                   \/ /\ toCheck = "Function"
                      /\ scopes[i].type = "FunctionInstanceScope"
                THEN here ELSE from[scopes[i].parent]
    IN  from[active]

\* The binding a name has from the active scope outwards, as a set of at most
\* one: "Function" stops at the enclosing function, "Closure" at the next one.
FindBindingFor(n, toCheck) ==
    LET here(i) == {b \in Bindings(i) : b.name = n}
        boundary(i) == scopes[i].type = "FunctionInstanceScope"
        near[i \in 1..Len(scopes)] ==
            IF here(i) # {} \/ boundary(i) \/ i = ROOT
            THEN here(i) ELSE near[scopes[i].parent]
        far[i \in 1..Len(scopes)] ==
            IF here(i) # {} \/ i = ROOT THEN here(i)
            ELSE IF boundary(i) THEN near[scopes[i].parent]
                 ELSE far[scopes[i].parent]
    IN  IF toCheck = "Function" THEN near[active] ELSE far[active]

\* The binding the next declaration of n in scope s of function scope f makes.
NewBinding(f, n, kind) ==
    [name |-> n, kind |-> kind, idx |-> scopes[f].next, fn |-> f]

\* Insert b into the scope s; its function's counter of indices moves on.
InsertNameIntoScope(s, b) ==
    [i \in 1..Len(scopes) |->
        [scopes[i] EXCEPT
            !.bindings = IF i = s THEN Append(@, b) ELSE @,
            !.next = IF i = b.fn THEN @ + 1 ELSE @]]

\* DeclareFunctionType: the scope of a function, its arguments declared.
FunctionInstanceScope(id, parent, arguments) ==
    [type |-> "FunctionInstanceScope", parent |-> parent,
     next |-> Len(arguments),
     bindings |-> [i \in 1..Len(arguments) |->
        [name |-> arguments[i], kind |-> "Argument", idx |-> i - 1,
         fn |-> id]]]

NewFunction(scope) == [scope |-> scope, captures |-> <<>>, code |-> <<>>]

----------------------------------------------------------------------------
(* The analysis.                                                           *)

Top == stack[Len(stack)]
Checking == stack # <<>> /\ ~Top.ended
Statement ==
    /\ Checking
    /\ statements < MaxStatements
    /\ statements' = statements + 1

Emits(op) == [fns EXCEPT ![Top.fn].code = Append(@, op)]

\* let n = <literal>: the value is stored in a variable of the active scope.
Let(n) ==
    /\ Statement
    /\ \A b \in Bindings(active) : b.name # n
    /\ LET b == NewBinding(FunctionScope(active), n, "Variable")
       IN  /\ scopes' = InsertNameIntoScope(active, b)
           /\ fns' = Emits([op |-> "access", binding |-> b])
    /\ UNCHANGED <<active, realized, stack>>

\* A name of the function itself, in a block around the use.
UseLocal(n) ==
    /\ Statement
    /\ \E b \in FindBindingFor(n, "Function") :
           fns' = Emits([op |-> "access", binding |-> b])
    /\ UNCHANGED <<scopes, active, realized, stack>>

\* A variable of the surrounding function: it becomes a capture, declared in
\* the scope of the use.
UseCaptured(n) ==
    /\ Statement
    /\ FindBindingFor(n, "Function") = {}
    /\ \E b \in FindBindingFor(n, "Closure") :
           /\ b.kind \in {"Variable", "Capture"}
           /\ LET c == NewBinding(FunctionScope(active), n, "Capture")
              IN  /\ scopes' = InsertNameIntoScope(active, c)
                  /\ fns' = [fns EXCEPT
                        ![Top.fn].captures = Append(@, b),
                        ![Top.fn].code =
                            Append(@, [op |-> "access", binding |-> c])]
    /\ UNCHANGED <<active, realized, stack>>

\* An argument of the surrounding function is used as it is, not captured.
UseOuterArgument(n) ==
    /\ Statement
    /\ FindBindingFor(n, "Function") = {}
    /\ \E b \in FindBindingFor(n, "Closure") :
           /\ b.kind = "Argument"
           /\ fns' = Emits([op |-> "access", binding |-> b])
    /\ UNCHANGED <<scopes, active, realized, stack>>

\* A closure: its scope is made at once, its body checked when the block
\* around it ends.
Closure(arguments) ==
    /\ Statement
    /\ Len(fns) < MaxFunctions
    /\ scopes' = Append(scopes,
                FunctionInstanceScope(Len(scopes) + 1, active, arguments))
    /\ fns' = Append(Emits([op |-> "closure", fn |-> Len(fns) + 1]),
                     NewFunction(Len(scopes) + 1))
    /\ realized' = Append(realized, Len(fns) + 1)
    /\ UNCHANGED <<active, stack>>

\* if ... { : a block with a scope of its own.
If ==
    /\ Statement
    /\ scopes' = Append(scopes, [type |-> "BlockScope", parent |-> active,
                                 next |-> 0, bindings |-> <<>>])
    /\ active' = Len(scopes) + 1
    /\ stack' = Append(stack, [fn |-> Top.fn, back |-> active,
                               ended |-> FALSE, bodies |-> <<>>])
    /\ UNCHANGED <<realized, fns>>

\* The statements of a block are checked: it takes the bodies waiting by now,
\* and again those that came up while it checked them.
TakeBodies ==
    /\ stack # <<>>
    /\ Checking \/ (Top.bodies = <<>> /\ realized # <<>>)
    /\ stack' = [stack EXCEPT ![Len(stack)].ended = TRUE,
                              ![Len(stack)].bodies = realized]
    /\ realized' = <<>>
    /\ UNCHANGED <<scopes, active, fns, statements>>

\* It checks the next of them in the scope of its function.
CheckBody ==
    /\ stack # <<>> /\ Top.ended /\ Top.bodies # <<>>
    /\ LET f == Head(Top.bodies)
       IN  /\ stack' = Append([stack EXCEPT ![Len(stack)].bodies = Tail(@)],
                              [fn |-> f, back |-> active, ended |-> FALSE,
                               bodies |-> <<>>])
           /\ active' = fns[f].scope
    /\ UNCHANGED <<scopes, realized, fns, statements>>

\* No body is left: the scope around the block is active again.
LeaveBlock ==
    /\ stack # <<>> /\ Top.ended /\ Top.bodies = <<>> /\ realized = <<>>
    /\ active' = Top.back
    /\ stack' = Front(stack)
    /\ UNCHANGED <<scopes, realized, fns, statements>>

\* The body of the main function is about to be checked.
Init ==
    /\ \E arguments \in MainArguments :
           scopes = << [type |-> "RootScope", parent |-> ROOT, next |-> 0,
                        bindings |-> <<>>],
                       FunctionInstanceScope(2, ROOT, arguments) >>
    /\ fns = <<NewFunction(2)>>
    /\ stack = <<[fn |-> 1, back |-> ROOT, ended |-> FALSE, bodies |-> <<>>]>>
    /\ active = 2
    /\ realized = <<>>
    /\ statements = 0

Next ==
    \/ \E n \in Name : \/ Let(n) \/ UseLocal(n) \/ UseCaptured(n)
                       \/ UseOuterArgument(n)
    \/ \E arguments \in ClosureArguments : Closure(arguments)
    \/ If \/ TakeBodies \/ CheckBody \/ LeaveBlock

Spec == Init /\ [][Next]_vars

----------------------------------------------------------------------------
(* The code generator.                                                     *)

OfKind(f, kind) ==
    LET bs == scopes[fns[f].scope].bindings
        kept[i \in 0..Len(bs)] ==
            IF i = 0 THEN <<>>
            ELSE IF bs[i].kind = kind THEN Append(kept[i - 1], bs[i])
            ELSE kept[i - 1]
    IN  kept[Len(bs)]

\* MUTANT of Parameters: in the order of the scope.
ParametersAsDeclared(f) ==
    SelectSeq(scopes[fns[f].scope].bindings, LAMBDA b : b.kind # "Variable")

\* Build: captures first, as OP_BIND places them, then arguments.
Parameters(f) == OfKind(f, "Capture") \o OfKind(f, "Argument")

\* The bindings the code of f reads or writes, in order: a closure expression
\* pushes what the closure captures.
Accesses(f) ==
    LET code == fns[f].code
        upTo[i \in 0..Len(code)] ==
            IF i = 0 THEN <<>>
            ELSE upTo[i - 1] \o (IF code[i].op = "access" THEN <<code[i].binding>>
                                 ELSE fns[code[i].fn].captures)
    IN  upTo[Len(code)]

\* What Build comes across, in order.
Order(f) == Parameters(f) \o Accesses(f)

\* The keys of symbol_to_local_idx_ behind the first k of them.
Met(order, k) == {order[j].idx : j \in 1..k}

\* symbol_to_local_idx_ numbers an index when it is met for the first time.
Numbered(order, idx) ==
    LET first == CHOOSE i \in 1..Len(order) :
                    order[i].idx = idx /\ idx \notin Met(order, i - 1)
    IN  Cardinality(Met(order, first - 1))

\* The slot the k-th of them is addressed by: on the first use of a variable,
\* the index of the binding instead of its number.
GetIdFor(order, k) ==
    LET idx == order[k].idx
    IN  IF idx \in Met(order, k - 1) THEN Numbered(order, idx) ELSE idx

\* Every access with the slot it is emitted with.
Build(f) ==
    LET order == Order(f)
        count == Len(Parameters(f))
    IN  [k \in 1..(Len(order) - count) |->
            [binding |-> order[count + k], slot |-> GetIdFor(order, count + k)]]

\* MUTANT of LocalCount: the number of parameters.
LocalCountOfParameters(f) == Len(Parameters(f))

LocalCount(f) == Cardinality(Met(Order(f), Len(Order(f))))

----------------------------------------------------------------------------
(* What holds of the code.                                                 *)

Analysed == stack = <<>>
Declared(f) == {b \in UNION {Bindings(s) : s \in 1..Len(scopes)} :
                    b.fn = fns[f].scope}

\* Where the VM puts the parameters of a call: the values bound by the closure
\* expression in the order it pushed them, then the arguments.
Place(f, b) ==
    Cardinality({c \in Declared(f) :
        \/ c.kind = b.kind /\ c.idx < b.idx
        \/ c.kind = "Capture" /\ b.kind = "Argument"})

\* The shapes the numbering does not get right.
UsesOuterArgument(f) == \E b \in ToSet(Accesses(f)) : b.fn # fns[f].scope
CapturesInInnerBlock(f) ==
    Len(OfKind(f, "Capture")) # Len(fns[f].captures)
CapturesAfterVariable(f) ==
    \E b, c \in Declared(f) :
        b.kind = "Variable" /\ c.kind = "Capture" /\ b.idx < c.idx
CapturedBeforeStored(f) ==
    \E i, j \in 1..Len(Accesses(f)) :
        /\ i < j
        /\ Accesses(f)[i].kind = "Variable" /\ Accesses(f)[j].kind = "Variable"
        /\ Accesses(f)[j].idx < Accesses(f)[i].idx
        /\ \A k \in 1..i : Accesses(f)[k] # Accesses(f)[j]

Irregular(f) == \/ UsesOuterArgument(f) \/ CapturesInInnerBlock(f)
                \/ CapturesAfterVariable(f) \/ CapturedBeforeStored(f)

\* In every function but those, a capture and an argument are read from where
\* the call puts them, two uses address one slot exactly if they mean the same
\* binding, and the closure binds as many values as the function expects in
\* front of its arguments.
SlotsRight ==
    Analysed => \A f \in 1..Len(fns) :
        LET code == ToSet(Build(f))
        IN  ~Irregular(f) =>
            /\ \A a \in code : a.binding.kind # "Variable" =>
                                    a.slot = Place(f, a.binding)
            /\ \A a, b \in code : (a.slot = b.slot) <=> (a.binding = b.binding)
            /\ Len(fns[f].captures) = Len(OfKind(f, "Capture"))

\* vm.c:438 and 583 assert that the slot of an access lies inside the frame,
\* whose size is the number of slots Build gave out.  It does in every function
\* that leaves the arguments of others alone, in whatever order it captures and
\* declares.
OwnInsideFrame ==
    Analysed => \A f \in 1..Len(fns) :
        ~UsesOuterArgument(f) =>
            \A a \in ToSet(Build(f)) : a.slot < LocalCount(f)

\* What a closure captures belongs to the function whose code pushes it.
CapturesOwned ==
    \A g \in 1..Len(fns) : \A i \in 1..Len(fns[g].code) :
        LET op == fns[g].code[i]
        IN  op.op = "closure" =>
                \A b \in ToSet(fns[op.fn].captures) : b.fn = fns[g].scope

=============================================================================
