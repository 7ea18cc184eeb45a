# NibLang: a verification project in TLA+

NibLang is a small statically typed language: a compiler in C++ (`compiler/`)
turns a program and the standard library into one bytecode image, and a virtual
machine in C (`src/`) runs it.  Neither has threads.  What makes them hard is
elsewhere: promises that callbacks settle in any order, references counted by
hand across native and bytecode functions, a dispatch table packed so tightly
that rows overlap, and a compiler whose phases hand each other tables of indices
that must agree to the last slot.

This directory models those parts in TLA+, checks the models with TLC and proves
the most important properties for every size of the system with TLAPS.  Paths
below are relative to the repository; `PROJECT.json` maps every definition to the
lines it translates.

## 1. Inventory

### The virtual machine (`src/`)

**Promises and job queue** (`promise.c`).  State: per promise `state`, `value`
and the `then_list`; one FIFO queue of jobs.  Operations: `Promise.new`, `then`,
`fulfill`, `reject`, and `run_promise_jobs`, which calls back into the
interpreter.  A callback that returns a promise makes `promise_chain` register
two bound builtins as handlers on it.  Hard: every callback may call every
operation on every promise, so the lists and the queue change under the loop
that serves them.  Correct means: a promise settles once, every reaction runs
exactly once with its source's outcome, and none is lost.

**Interpreter** (`vm.c`).  State: the linked frames (locals, program counter,
try handlers), one shared operand stack of 256 values, the pending exception.
Operations: the opcodes, `vm_invoke`, `vm_call_function` for natives that call
back.  Hard: exceptions that unwind frames but not the operand stack, natives
whose arguments still lie on the stack, closures that keep their bound arguments
in a buffer shared by all calls.  Correct means: every function leaves exactly one
value, every jump target sees one stack height, no slot outside a frame is used.

**Reference counting** (`vm.c`, used by everything).  State: a count per object,
the list of allocations.  Ownership moves by convention: a call consumes its
arguments, a native returns an owned result.  Correct means: a count never is less
than the references that exist (no use after free), and equals them when the
program ends (no leak).

**Map, Array, String, numbers** (`map.c`, `array.c`, `strings.c`).  Sequential
data structures: 13 buckets of lists, doubling arrays, 32-bit integers that turn
into floats on overflow.

**Loader** (`init_vm`).  Reads the sections `ProgramBuilder` wrote: counts in the
header and the sections themselves must agree.

### The compiler (`compiler/`)

**Import graph and symbol worklist** (`main.cc`).  A depth-first search numbers and
orders the files; after checking, a worklist starting at `main` decides which functions get
into the image.  Correct means: a file is analysed after those it imports, an error names
the file it is in, and the image holds what main needs and nothing else.

**Tokenizer, parser** (`parser/`).  One pass each, no state that outlives them but
the tree and the collected errors.  Hard: recovery, where every loop of the parser goes on
after an error.  Correct means: the tree is the one the source spells, parsing ends, and
nothing is dropped without an error.

**Scopes and symbols** (`scope_manager.cc`, `symbol_binder.cc`).  A tree of scopes,
an index counter per function, captures declared while a closure body is checked,
and the functions that implement each interface method.  Correct means: every use of a
variable, argument or capture addresses the slot the VM put it in.

**Types** (`type_context.cc`, `type_registry.cc`, `type_resolver.cc`).  Interned types,
union and intersection, the subset relation, unification of template arguments.  Correct
means: normalising a type keeps its values, a subset is one, and arguments inferred for a
call fit all its parameters.

**Semantic analysis** (`semantic_analyzer.cc`, `expression_checker.cc`).  Types of
expressions, which calls are virtual, what closures capture, and narrowing: what
a condition says about nilable variables in each branch.  Correct means: a variable
is never used as non-nil where an execution can find Nil in it.

**Code generation and linking** (`codegen/`).  `ByteCodeGenerator` numbers local
slots and lists the symbols a body calls, `BuildDispatchTable` packs the methods
of all structs into one array, `ProgramBuilder` numbers functions and
`Assembler::Build` patches the numbers into the code.  Correct means: whatever the
checker accepted links, and every call runs the function it names.

### How they interact

`main.cc` drives the compiler phase by phase: files, symbols, objects, image.  The
image is the only thing the VM sees.  In the VM, `main.c` runs the program's
`main` and then `run_promise_jobs` until no job is left; jobs call bytecode through
`vm_call_function`, bytecode calls natives through `vm_invoke`, and the natives of
`promise.c` append to the queue the loop is reading.  There is no persistence, no
network and no parallelism: crash recovery and message loss do not exist here.

## 2. Plan

Most important first.  Each module gets its invariants checked by TLC and, where
it says so, proved.

| # | Modules | Subject | State |
|---|---------|---------|-------|
| 1 | `PromiseContract`, `PromiseJobs`, `PromiseJobsProofs` | promises and job queue, refinement of the contract of `then` | checked; proved, liveness aside |
| 2 | `VirtualDispatch`, `Linking`, `LinkingProofs` | dispatch table, worklist, linking | checked and proved |
| 3 | `RefCounts`, `Interpreter`, `InterpreterProofs` | heap, frames, operand stack, exceptions, closures, arrays | checked and proved |
| 4 | `Narrowing`, `NarrowingProofs` | flow-sensitive narrowing against the executions of the same body | checked; soundness proved |
| 5 | `Slots`, `Emission`, `CodegenProofs` | scopes, captures and slots; stack effect and labels of the code | checked and proved |
| 6 | `TypeAlgebra`, `TypeBuilding`, `Inference`, `TypeProofs` | union, intersection, subset against sets of values; template arguments | checked; proved, inference aside |
| 7 | `Parser`, `ParserProofs` | precedence and recovery | checked; recovery proved |
| 8 | `Imports`, `ProgramImage`, `Map`, `DataProofs` | import order, image layout, hash map | checked and proved |

What is left to prove is that inferred template arguments fit and that a tree is parsed back from
its source: TLC checks both against a reference on bounded inputs. To model next: reference counts
of promises (`PromiseRefs` on `RefCounts`, refining `PromiseJobs`) and the binding of generic
interfaces.

## 3. What is modelled

### Promises: `PromiseJobs`, `PromiseContract`

`PromiseJobs` is `promise.c` with the loop of `main.c`.

| Model | Code |
|-------|------|
| `state`, `value`, `thenList` | fields of `Promise`; `thenList` is newest first, as `promise_then` prepends |
| `queue` | `job_queue_head` ... `job_queue_tail` |
| `phase` | `vm_run`, then the loop of `main.c`, then its end |
| `running` | the job whose callback `vm_call_function` is executing |
| `Alloc`, `Then`, `Resolve` | `vm_promise_alloc`, `vm_promise_then`, `vm_promise_fulfill`/`_reject`, called by `main()` or by the running callback in any order |
| `RunForward` | a job without a function: the outcome of its source is the result |
| `RunSettle` | a job whose function is one of the two builtins `promise_chain` binds; it cannot be interrupted, so it is one step |
| `CallbackStarts`, `CallbackReturns`, `CallbackThrows` | a job with a function of the program: between start and end it may do everything program code may do |

`promise_then`, `promise_resolve` and `promise_chain` are operators that the actions
share, as the C functions are.  The promise `promise_chain` throws away is the
constant `Ignored`: nothing refers to it, so settling it changes nothing.
`src` in a job is a history field; it lets a property speak of the promise
that made the job.

`PromiseContract` says what `promise.h` promises without lists or queue: a set of
reactions, each the duty to settle one promise after another has settled.
`ImplementsContract` is the refinement: every entry in a `thenList`, every queued job
and the running one is a reaction.  The contract contains the step `GiveUp`,
because the code has it (see findings).  `KeepsContract` is the same without the fairness: that
part of the refinement is proved.

Abstractions: values are one plain value and the promises; callbacks do not
nest (only the job loop starts one); exceptions come from natives, the case
`run_promise_jobs` handles (an uncaught exception in a bytecode callback leaves the
operand stack without a result, see section 4); reference counts are not part of it,
so a promise once allocated stays.

### The interpreter and its heap: `RefCounts`, `Interpreter`

`RefCounts` is the reference-counted heap as operators on a heap value: `AdoptAll`
(`rc_increment`), `ReleaseAll` (`rc_decrement`), `Place` (allocation), `Destroy` (the
deleters).  In C a deleter runs inside `rc_decrement` and recurses; here the object whose
count reached zero is `dying`, `RunDeleter` is one deleter, and no instruction runs while
one is due.  `Interpreter` is `run_frame` over that heap.

| Model | Code |
|-------|------|
| `stack` | `vm->stack.values[0 .. sp)` |
| `frames`, `frame` | the chain from `current_frame`; the local `frame` of `run_frame`, which is read before `handle_exception` runs |
| `locals`, `tries` of a frame | `locals[]`, the length of `try_catch_handlers` |
| `base` of a frame | history: what lay on the stack when it was entered |
| `exception`, `unhandled` | the fields of `vm_t` |
| `PushConst` ... `Throw` | one action per opcode, or per group of opcodes with the same effect on references |
| `CallNative(f)`, `Outcomes` | a native function: its results and exceptions as a set |
| `DynamicCall(f)` | `OP_DYNAMIC_CALL` with `vm_invoke_closure` |
| `Unwind`, `Catch` | one level of the recursion of `handle_exception` |
| `Finish` | the end of `vm_run` and the release of its result in `main` |

The program is arbitrary: each step takes any instruction that finds operands of the right
type among those its own function pushed, which is what the compiler emits.  So the
program counter, jump targets and numbers are abstracted, and `OP_JUMP`, `OP_INC` and
`OP_DEBUG`, which change nothing else, are no steps.  `OP_CALL_VIRTUAL` calls as `OP_CALL`
does once `VirtualDispatch` has found the function.  Which function a closure invokes is
chosen at the call.  A frame that was freed is not executed further in the model: its first
word is the allocator's by then, and what it makes the VM do is not defined.

`Lost(o)` is an object's count minus its owners.  `LosesOnlyThere` names every place where
the code gives up a reference without subtracting it: exceptions (thrown by natives,
caught, or leaving arguments of `array_set` behind), truth tests on references, and
`String.valueOf`; `CountsCover` says that nothing is ever subtracted too often.

### Dispatch table and linking: `VirtualDispatch`, `Linking`

`VirtualDispatch` is `BuildDispatchTable` with the lookup of `OP_CALL_VIRTUAL`.
Columns and rows are sorted and numbered as the code does (`Col`, `ObjectId`, as
numbers of predecessors in a total order, which is what the index in a sorted vector is);
`ShiftRow` is one failed attempt of the `while (!fits)` loop and `PlaceRow`
the writing of a row.  `table` holds exactly the slots that are not `EMPTY_SLOT`.
`Dispatch` is the function `OP_CALL_VIRTUAL` runs, or nothing where an assertion
stops the VM.

`Linking` extends it with what comes before and after: the worklist of `main.cc`
(`SkipProcessed`, `ProcessExtern`, `ProcessMethod`, `GenerateBody`), the numbering
in `GenerateImage` (`NumberFunctions`, `UnableToLink`), the table (`BuildTable`) and the
patching by `Assembler::Build` (`Assemble`, `NeverLinked`).  A body is a set of
symbols it calls or constructs, chosen when it is generated.

Abstractions: the worklist is a set where the code has a stack with duplicates, so
the model allows every order; a function symbol stands for its index; each interface
has one method and a struct implements it once (two instances of one generic
interface on a struct are a known hazard outside the model); implementations are functions
with a body (an `extern` one is no case of the model); `LOG(FATAL)` is the phase `fatal`.

### Narrowing: `Narrowing`

A function body is chosen statement by statement in the order in which `SemanticAnalyzer::Check`
walks it, and the model keeps both sides: what the analyzer knows, and what executions can do.

| Model | Code |
|-------|------|
| `known` of a block | the `NarrowedBindings` of `Check(Block)`; `Unknown` where a variable has none |
| `ends` of a block | `FlowResult::Status::Terminate` |
| `loops` | the chain of `LoopContext` with `break_bindings` |
| `run` | no code: pairs of the store on entering the loop body and the store here, at a break, at a continue, and the stores that lead to a Nil used as a number |
| `Compared`, `Logical` | true and false bindings of `==`, `!=` with Nil, and of `&&`, `\|\|` |
| `Assign`, `Use`, `Test`, `If` .. `EndIf`, `While` .. `EndWhile`, `Break`, `Continue`, `Return` | one action per statement, and per end of a block |

A type of a variable is the set of its values, for which `TypeBuilding` checks union and
intersection.  A statement the checker rejects ends the compilation and is no step.  `doubts`
names the four ways in which the analyzer comes to know what is not so, each of them needed:
- an assignment of another type to a narrowed variable (`stale`): what was known is intersected
  with the new type (`expression_checker.cc:219`), or is left as it was when the assignment
  is an argument of a call or an operand, whose bindings the checker drops (`:170`, `:595`);
- a condition as a statement (`test`);
- the false branch of `||` (`or`);
- a loop that is taken to be entered always (`skipped`).

A property under a doubt says nothing, so what the code does wrong in these four ways is described here
and not checked; `narrowing_or` is the exception.  `Assign` stands for an assignment as a statement
of its own and inside one; assignments inside the condition of an `if` or a `while` are left out.

### Slots and code: `Slots`, `Emission`

`Slots` follows a name from its declaration to the operand of an instruction: scopes and index
counters of `ScopeManager` (`scopes`, `FindBindingFor`, `InsertNameIntoScope`), the resolution of
identifiers with the capture of outer variables (`UseLocal`, `UseCaptured`, `UseOuterArgument`), the
queue of function bodies that are checked when a block ends (`TakeBodies`, `CheckBody`), and
`ByteCodeGenerator::Build` and `GetIdFor`: `Order` is what `Build` comes across, parameters before
uses, and `Numbered` the number an index gets when it is met for the first time, which its first use
as a variable does not take. The program is chosen while it is analysed; the generator is a function
of the result. `Irregular` names the shapes for which the numbering goes wrong: a closure that uses
an argument of the function around it, a capture first used in an inner block, a capture behind a
variable, and a variable captured before it is stored. A program can have them; `SlotsRight` says
that no other goes wrong, `OwnInsideFrame` that of these only the first leaves its frame.

`Emission` is `EmitExpression`, `EmitCall` and `EmitBlock` as an expansion of forms into steps:
`tasks` holds the steps still to emit, a form is chosen for an expression when its turn comes, and
each instruction emitted moves `height`, what the operand stack has above the frame. Labels remember
every height they are reached with. `Expr` carries what the code passes down: access mode, the label
of the enclosing optional chain, and which forms the checker accepts in that place. `??` and an
assignment through `?.` leave the paths uneven (`Uneven`); a call of a closure inside an optional
chain loses the chain's label and hits a CHECK (`MissingContext`). Prefix `++` and `--` and the
postfix operators, at which the generator stops with `LOG(FATAL)` (`bytecode_generator.cc:356`,
`:367`), are left out. The steps `Leaves` emit nothing: they remember what the code's comment at
`bytecode_generator.cc:76` promises.

### Types: `TypeAlgebra`, `TypeBuilding`, `Inference`

`TypeAlgebra` has the operators of `type_context.cc` on type terms: interning makes equal terms
equal ids, so a term stands for its id. `TypeBuilding` is a program that declares types from types
(`A | B`, `A & B`, `A?`, `alias`), next to the set of values each declaration means; `coarse`
remembers that an intersection met `any` or an alias, which the code takes apart wrongly. What a
type is made of is a set, so that terms can be as deep as one likes: `Type` is the set of those that
are nested at most `3 * MaxDepth + 1` deep, which is what normalising the written ones, `MaxDepth`
deep, can lead to. A declaration whose result is deeper than that is no step. `GetIntersectionOf` is
a recursive function of what is left to distribute: the types that are no unions, the positions that
are open and the types there. `Inference` is the loop over the arguments of a generic call with
`TypeResolver::Resolve` and its bindings, which also stay when an argument is rejected half way. The
resolver has no occurs check: once bindings are cyclic (`Cyclic`) the compiler does not come back
from `Rewrite`, and the model ends there.

### Parser: `Parser`

A pushdown machine: each parse function that was called is a frame on `stack` with what is left of
it to do, and `ret` is what the last one gave. A step looks at the current token as the function
does; `Sync` is `SynchronizeOnError`. Token kinds stand for tokens, one kind for those that are
treated alike (`-`, `+`; `break`, `continue`). Trees are built when an expression is parsed back
from its source (`goal`, printed by the constant `Source`); for other inputs success and failure are
all that matters. `silent` is history: what was skipped or given up before any error was reported.

### Import order, image, map: `Imports`, `ProgramImage`, `Map`

`Imports` is the recursion of `dfs` in `CalculateImportsFor` with its calls as a stack, over
paths that lead to files or to none, and the analysis that follows.  `ProgramImage` writes and
reads an image section by section: contents are identities, sizes are numbers, cut to
`Width` where the code stores a `uint16_t`.  A reader that loses its place reads garbage
(`ReadGarbage`): what follows is rejected or undefined.  `Map` is `map.c` with the references
it is handed and releases; a key has a content, which several objects may share, and the hash
is computed from it as in the code.  Keys `hash` aborts on (`bool`, Nil, Unit) are left out.

## 4. Runs

| Run | Question | Bounds |
|-----|----------|--------|
| `promise_jobs` | is a reaction ever lost, doubled or run with the wrong outcome? | 3 promises, 1 plain value, all of them passed to `fulfill`/`reject` |
| `promise_contract` | do lists and queue implement the contract, liveness included? | 3 promises, plain values passed |
| `virtual_dispatch` | is a virtual call exact at every stage of the table? | 3 methods, 4 structs, every implements-relation |
| `linking` | does tree shaking keep what is needed, and does what links run? | 2 methods, 2 structs, 5 functions, 2 externs |
| `interpreter` | can a reference dangle, and where are references lost? | 2 objects and a literal, 4 slots of stack and locals together, up to 3 frames of 1 local, 1 open try block, 1 element per array or closure, programs followed up to their first lost reference |
| `interpreter_resume` | does execution go on in a frame that exists? (it need not) | as `interpreter` |
| `narrowing` | is Nil ever used as a number, does a body end where it is said to? | 2 variables, 4 statements and logical operators |
| `narrowing_or` | is what is known when `\|\|` is false the opposite? (it is not) | 2 variables, 3 statements and operators |
| `types` | do normalised types keep their values, do inferred arguments fit? | 2 structs, 2 interfaces, 5 declarations, `MaxDepth` 6; 2 placeholders, 2 arguments of 7 by 12 types |
| `parser` | does the parser read what was written, end, and report? | expressions of 2 operators; 2 free tokens behind each of some 60 openings |
| `codegen` | does every name get its slot, every path its stack height? | 2 names, 3 functions, 5 statements; bodies of 7 forms, 1 argument |
| `data` | import order, image and map | 5 paths, 3 files, 2 imports each; 2 functions, 4 constants, a 16-bit field of 2 bits; 7 keys, 2 buckets, 4 calls of `set` |

`types`, `codegen` and `data` each hold two or three machines that share nothing.  In them a
behaviour is one of the machines, from one initial state of the others (`MCNext`), so that their
states add up and do not multiply.

Why they are enough.  Three promises are the fewest that have a source, a derived
promise and a third one to be returned by the callback and settled meanwhile; a
step of `promise.c` never touches more than these three.  A second plain value
would be told apart by nothing in the code.  Three promises also bound the program:
each `then` uses one.  With 3 methods and 4 structs rows have holes, overlap,
have equal lengths and are shifted several times, and two methods tie for a column.
In `linking` main may refer to any two symbols and each implementation to any one,
so calls reach implementations through main, through each other, in cycles and not at
all.  In `interpreter` two objects make cycles, shared elements and a container of the object
being stored; three operands are what `array_set` takes, and every native function and
instruction occurs.  Past a lost reference counts are only greater than they need be.

Four statements of `narrowing` are a loop with a break under a condition and a use behind it, the
longest chain of what one statement hands the next; a second variable is there for `&&` and `||` and
for copies. In `types` five declarations build an intersection of unions of optionals and name
another type to compare it with; a depth of six holds all that five declarations build, so
`MaxDepth` cuts nothing. In `parser` an operand of an operand is where precedence and associativity
show, and two tokens behind an opening lead every parse function through each of its error paths
once. In `codegen` three functions are a closure in a closure, so that a capture is captured again,
and seven forms nest a short circuit in an optional chain in an argument. In `data` two of the five
paths are one file and one is none, with diamonds and cycles; a field of two bits overflows in every
way a field of sixteen does; two buckets hold keys of every type. Every mutant of the code that
`PROJECT.json` lists is caught within these bounds.

Symmetry (promises and plain values in `promise_jobs`, addresses in the `interpreter`
runs, variables in the `narrowing` runs) is used where no formula names an element; the
runs with liveness use none.

Deadlock is checked in the runs of promises, dispatch and linking: `Exited`, `Built` and
`Stopped` say where the system may stop.  It is not in the others: a program ends at a bound
or wherever it likes, and there is nothing to do behind the end of an analysis.

### Fairness

`FairSpec` of `PromiseJobs` has weak fairness on `RunJob` (the loop of `main.c` keeps
taking jobs), on `CallbackEnds` and on `MainReturns` (program code terminates; a
callback that loops for ever starves the queue in the code as well).  No fairness is
assumed of what the program chooses to call.  `VirtualDispatch`, `Linking` and `Parser` are
sequential loops of one process: weak fairness on their next step.

### Findings

* `interpreter_resume`: `run_frame` takes the next instruction from the frame it read before
  the exception was handled (`vm.c:319`), freed if the catch block is a caller's.  The
  compiler emits no try block yet; `Assembler` and `vm_test.cc` do.
* `narrowing_or`: the false bindings of `||` start from what holds when its left side is
  *true* (`expression_checker.cc:300`), against the comment above them.

The models contain, as steps or as conditions of their properties, what else the code does
differently from what one would expect of it:

* Promises: a callback returning the promise its own `then` returned leaves it pending for ever
  (`promise.c:161`, `GiveUp`, the TODO there admits it); a rejection whose value is a promise loses
  its state when forwarded (`promise.c:210` against the comment at 204).
* Linking: a struct with `implements` that is constructed but never called through an
  interface, and a call through an interface nobody implements, make the compiler die with
  "was never linked" (`expression_checker.cc:663`, `assembler.cc:275`).
* Interpreter: after an uncaught `throw` statement `vm_run` pops an empty stack (`vm.c:816`), and so does
  `vm_call_function` (`vm.c:931`) for a callback that throws.  The places that lose references are
  those of `LosesOnlyThere`.
* Narrowing: the four doubts above.  A `continue` outside of a loop is not rejected.
* Slots and code: the shapes of `Irregular` and `Uneven`, and the CHECK at
  `bytecode_generator.cc:393` for a call of a closure or `.of(T)` inside an optional chain.
* Parser: a list of types never ends at an unexpected token (`Box[1]`, `InTypeList`); `a[b[0]]` loses
  its second bracket and `x as T & y` its second operand (`Misread`); a `}` on the outermost level ends
  the program silently, and a type that is not understood is dropped without an error
  (`silent`).
* Types: `any & A` and an intersection with an alias are `never`, `I & J` is not accepted as `I`; there is no
  occurs check; `Box[A]` is taken for `Box[A?]`.  The branches of a Nil check rejoin to the values
  of the declared type, but `(A?)?` comes back as `A?` and `never?` as Nil, since `GetUnionOf` opens a
  wrapped optional and drops `never` (`type_context.cc:209`): `BranchesRejoin` says exactly this.
* Data: two spellings of one path are analysed twice, a missing import counts as an empty file;
  an image whose last constant is the empty string is rejected; float keys of one bucket
  are equal, strings are equal up to a NUL; `Map.get` gives Nil for a type that excludes
  it (`types.nib:45`).

Outside of the models: an overflowing subtraction or multiplication is promoted to the sum of its operands
(`vm.c:920`), `Promise.all` of no promises is never settled (`types.nib:69`), the value given
to a settled promise is not released (`promise.c:129`).

## 5. What is proved

All theorems hold for every value of the constants that satisfies the named
assumptions.  Those of `PromiseJobs` say that plain values, promises and the
thrown-away promise are different things, and that `NoJob` is no job; those of `RefCounts` and
`Interpreter` that objects are finitely many and Unit is none of them, that literals are objects, that
the sizes are natural numbers and that main has a frame; those of the compiler that symbol ids are
distinct numbers and that methods and structs are finitely many; those of `Imports` that
every path leads to a file or to none; that of `Emission` that its two bounds are natural numbers;
that of `Slots` that the arguments of a function have distinct names, which the checker requires;
that of `TypeAlgebra` that a built-in kind, a struct and an interface are different things and that
types may be nested at all.
Those of `Map` say that the content of a key is one its type can have and that there is a bucket,
those of `ProgramImage` that sizes are natural numbers, and those of headers and functions positive.

**`PromiseJobsProofs`**: `TypeOK`, `NoStrandedReaction`, `JobsCarryOutcome`, `SettleOnce`,
`OneDuty`, `GivesUpOnlySelfLinks`, and the refinement `KeepsContract`.
The inductive invariant is the conjunction of these invariants with what they need of
the entries: an entry made by `then` has a derived promise, one made by `promise_chain` has
two bound closures, and a settled promise has a value.  The argument: only `PromiseThen` and
`PromiseResolve` touch a list or make a job, each of them is a lemma (what it does to
lists, jobs and outcomes), and every action is one of them behind a guard.
`JobsCarryOutcome` needs `SettleOnce`'s reason (a settled promise is left alone) to stay
true of jobs already queued.

`OneDuty` has an invariant of its own, `DutyInv`.  What is owed is owed in a list, in the queue or by
the job in hand; these three owe different promises, each of them none twice, and owe allocated ones
only, so that what `then` allocates is owed nowhere yet.  Resolving a promise moves the duties
of its list to the queue, taking a job moves one from the queue into the hand, and linking moves
that one into another list: nowhere is one doubled.  For the refinement, the reactions of the
contract are the union of what lists, queue and hand owe; every action moves duties among them (a
stutter), or is one step of the contract.  The same lemmas give `GivesUpOnlySelfLinks`: a
duty in hand is settled or linked, and only the early return of `promise_chain` does neither.

**`InterpreterProofs`**: `TypeOK`, `CountsCover`, `NoDangling`, `LosesOnlyThere`.
Its first part are the lemmas on the heap of `RefCounts`: how often a value occurs in a sequence, what the objects hold
together, and what `AdoptAll`, `ReleaseAll`, `Place`, `Destroy` and a new content do to it.  Their
measure is `Spare(heap, o)`: the count of o less the references that objects hold to it.
The inductive invariant `IInv` is the well-kept heap (`HeapOK`), the typed machine (`Machine`) and
`CountsCover`: what is spare of an object covers the references from stack, frames, literals and the pending
exception.  A native function *repays*: what is spare after it is at least what was spare before,
less the arguments it consumed, plus its result and its exception; without an exception it is exactly
that.  There is one lemma per native and one per instruction; `Ledger` turns the account of a step
into `CountsCover` and into the objects it lost, which is `LosesOnlyThere`.  `NoDangling` follows: who
is referred to has a count above zero, and a well-kept heap frees nobody with one.

**`LinkingProofs`**: `DispatchTypeOK`, `DispatchExact` and `FirstFit` of `VirtualDispatch`; `TypeOK`,
`TreeShaken`, `VirtualCallsReach` and `StopsOnlyOnUnlinkable` of `Linking`.  The numbers
`Col` and `ObjectId` are cardinalities of sets of predecessors; the first lemmas show that
such numbers are different for different elements of a strict total order.  The
inductive invariant of the table says that a slot owned by a row is `shift + Col(m)` for a method
of that row and that the slots of a placed row are all its own: rows never
overwrite each other because `Fits` looked at every slot first.  Below the current
shift every attempt has met a row placed earlier, which gives `FirstFit`.
The worklist invariant: whatever a processed symbol needs is processed or still to do,
and every symbol seen is in every closed set that contains `main`; with an empty
worklist that makes the processed symbols the least closed set.  `VirtualCallsReach` follows from
the invariant of the table, as `BuildTable` is `BuildStep`.

**`DataProofs`, import graph**: `ErrorsFindTheirFile`, `ImportedFirst`.  Numbers are given when a file is opened, entries are
listed when it is left, so at any moment the two disagree; the inductive invariant (`Numbered`) says that
the numbers below `nextId` are those of the files listed and of the calls under way, and that
listed and open files together are `nextId` many.  With no call left the list has them all.
For the order (`OrderInv`): a visited path is under way or listed, and once; each call was
reached from the one below it; what a call has gone through is visited, and whatever a listed file
imports is listed before it or was under way when the file was listed, and so leads back to
it.  `Reach` is the least set closed under imports, so that the invariant bounds it from both sides.

**`CodegenProofs`, emission**: `StackBalanced`, `PathsAgree`, `LabelsPlaced`.  The invariant speaks of the code still to come.  Each label
is placed, or waits at exactly one of the steps still to emit.  And while no uneven form was chosen
there is a height for every label and one before and after every step to come, the next one starting where one
ended: an expression adds what its mode asks for and the label of its chain is one above it, a block
begins and ends at zero with the labels of its loop at zero, a jump comes with the height of its label.
Choosing a form replaces one step by several that fit in its place, with heights for its new labels:
one lemma for each group of forms (`ValuesMove`, `MembersMove`, `CallsMove`, `LogicForm`, `ChainForm`,
`AccessMoves`, `StatementForms`).  Emitting a step goes from the height before it to the one after
it.  This is what TLC cannot say: bodies of any size, calls of any number of arguments.

**`NarrowingProofs`**: `NilNeverUsed`, `EndsMeansEnds`.  The module has no assumption on its
constants: the theorems hold for any set of variables, and for bodies of any size.  `NilNeverUsed` speaks
of the body as a whole, so the inductive invariant says, while no doubt was met, what is known of
each execution on its way (`Sound`): it agrees with the bindings at the statement it has
reached, with `after` if it went into the other branch or waits for a loop, with
`break_bindings` if it broke out, and with the loop's initial bindings if it goes round again.  All
this is said of executions that entered the innermost loop body in agreement with what was known before that loop,
because a body is analysed once for all its rounds.  It needs two more parts: `Nested`, by
which a block never knows less than the block around it (so that joining flows, with the
bindings from before they parted as base, loses nothing and invents nothing), and `Ending`, by which
a branch that is taken to end has no execution left (so that its bindings may be dropped).  There is one
lemma per action; `HeadsSat`, for the end of a loop, is the induction over the rounds.

**`CodegenProofs`, slots**: `CapturesOwned`, `OwnInsideFrame`, `SlotsRight`.  The invariant of the analysis
(`AnalysisInv`): scopes form a tree whose nodes come behind their parents (`IsTree`); the bindings of a
function have the indices 0 up to its counter, each its own, arguments first, and those of one scope
are in the order of their indices (`BindInv`); code accesses what is declared, every variable and
capture is accessed by its function, and a closure has as many captures as bindings for
them, all taken from the function it is declared in (`FnInv`); the block being checked lies in the
function it emits for (`StackOK`).  `CapturesOwned` is read off `FnInv`.  For the frame: a function that leaves
the arguments of others alone accesses no binding but its own, and each of those is met sooner or
later, so that the indices met are 0 up to the counter: a number given is below how many there
are, and so is an index.  For `SlotsRight` (`InOrder`): parameters come first and in the order of their
indices within each kind, so that the number of a parameter is its `Place`; and when a variable
is stored for the first time all bindings with a lower index have been met and none with a higher
one, so that its number *is* its index, and the first use agrees with the others.

**`DataProofs`**: `OwnsItsNodes` and `GetsLatest` of `Map`, `ReadsBack` of `ProgramImage`.  The places of the
chains that hold an object are a finite set, and `Insert` and `Replace` move one element in or out of
it; `free_map` releases as many references as there are places.  For what is found
(`LatestInv`): every node lies in the bucket of its key, and as long as no two keys in use were
confused there is one node for each content, with the value set last.  A reader has gone through
a number of whole sections (`Progress`), and what it has loaded is a function of that number: as
no size was cut, the next section starts where it is.  The readers end at the last section
because it is not empty; they have then as many functions and constants as the header says.

What a recursive *function* of a model computes (`StringHash`, `Total`, `Accesses`, `FunctionScope`,
`FindBindingFor`, `Denotes`, `IsTypeSubsetOf`, `GetIntersectionOf`) is proved as well. The induction
is over a set of numbers instead of a predicate (`SetInduction`, from the well-foundedness of < on
the naturals), and `Iterates` shows that the function such a definition chooses exists, as
`Recursion` does where the recursion goes down a rank.

**`TypeProofs`**: `MeaningKept`, `SubsetSound`, `BranchesRejoin`, for any structs, interfaces and
implementations and for types of any depth.  The invariant (`MadeRight`): the two types at hand
are well-made and, unless `coarse`, denote what was meant.  Well-made is what the normal form promises of
every part of a type (`Regular`): an optional does not wrap Nil, a union has two members or more, none of
them Nil or `never` and none left out by `FlattenSubtypesUnion`, and an intersection has no member that should have
been distributed.  Each type has a `Rank`, and three lemmas carry the weight.  `UnionIs`: what is left out of
a union is covered by what stays.  `MeetMeans`: an intersection of unions denotes the union of what is
picked, by induction on the rank of the unions still open (`PickLower`), and flattening loses no common
value, as of two types without parts one accepts the other, or they are disjoint, or both are
interfaces.  `SubsetMeans` goes down the optionals of the supertype.  `BranchesRejoin` is shown for every
optional, by cases on what it wraps (`Rejoins`): its values by `UnionIs`, its identity from the normal form.
That types have no error among their parts is part of the normal form; a program with an error is not compiled.

**`ParserProofs`**: `GivesUpAloud`.  The invariant (`LoudOrFine`): something was reported, skipped or given
up, or everything is fine, which is what the property leaves out.  Then the last frame gave something, no
frame on the stack is one of those that wait for the end of a recovery, and a frame that holds a tree for
later (the left side of a suffix) holds one.  Nothing takes back what was reported (`Heard`); from a fine state
every parse function either pushes frames that are fine again (`Goes0` .. `Goes5`, `GoesOn`) or reports.
There is one lemma for each parse function, with a step for each place it is at; no assumption is made on
tokens, openings or the length of the source.

**Model-checked only**: `ArgumentsFit` of `Inference`, whose operators are declared RECURSIVE, which the
prover cannot use, as they need not end (there is no occurs check); `ParsesBack`, an induction over trees;
the fairness
in `ImplementsContract`; and all liveness (`TableGetsBuilt`, `CompilationEnds`, `EndsOrHangs`), which the
prover does not reach: it has no rules for ENABLED or fairness.

## 6. What is not modelled

The components marked `not_modelled` in `PROJECT.json`: the tokenizer, one pass over
characters; printers, error texts, logging and the tests, which compute text; the standard library,
which is a program.  Of the components marked `partly`: the characters of strings, numbers and
program counters of the interpreter, reference counts of promises, the bytes of instructions, the
lookup of members and the typing of operators, the instantiation of templates, and the declaration
of members by the symbol binder.  `PROJECT.json` lists the hazards there with the reason.

## 7. Running

`tlc -config PromiseJobs.cfg MCPromiseJobs` and so on, one line per entry of `runs` in
`PROJECT.json`; `tlapm PromiseJobsProofs.tla` for the proofs.  Definitions commented as
mutants are plausible bugs, each of which makes one of the properties fail when it
replaces the definition after it.
