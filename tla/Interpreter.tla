---------------------------- MODULE Interpreter -----------------------------
(***************************************************************************)
(* The interpreter of src/src/vm.c: the operand stack, the frames, the      *)
(* exceptions and who owns each reference, under any bytecode that keeps    *)
(* the discipline of the compiler: an instruction finds its operands, of    *)
(* the right type, among those its own function pushed.  The program        *)
(* counter and every value that is not a reference are abstracted: a jump   *)
(* goes anywhere, so each step takes any instruction.                       *)
(***************************************************************************)
EXTENDS RefCounts

CONSTANTS
  Literal,      \* the string constants of the program, in vm->constants
  NumLocals,    \* locals of every function
  MaxSlots,     \* bound: operands on the stack and locals of all frames
  MaxFrames,    \* bound: nested calls
  MaxTries,     \* bound: open "try" blocks
  MaxContents,  \* bound: elements of an array, arguments bound by a closure
  MaxLost       \* bound: a program is followed until it has lost more
                \* references to one object than this

ASSUME LiteralsAreObjects == Literal \subseteq Object
ASSUME SizesAreNaturals   ==
  {NumLocals, MaxSlots, MaxFrames, MaxTries, MaxContents, MaxLost} \subseteq Nat
ASSUME MainHasAFrame     == MaxFrames > 0

\* Native functions: of src/src/array.c, strings.c and main.c.
Native == {"array_new", "array_init", "array_get", "array_set", "array_push",
           "array_length", "equals", "substring", "value_of", "log"}

\* "array" also stands for objects.  Which function a closure invokes is not
\* recorded: a call picks any that takes the arguments.
Function == Native \cup {"bytecode"}
Kind     == {"free", "str", "array", "closure"}

VARIABLES
  heap,         \* see RefCounts
  stack,        \* vm->stack, bottom first
  frames,       \* the chain of vm_frame_t, current_frame last
  frame,        \* run_frame's local `frame`: how many frames there were when
                \* the loop last read current_frame
  exception,    \* vm->exception
  unhandled,    \* vm->unhandled_exception
  finished      \* vm_run has returned to main()

vars == <<heap, stack, frames, frame, exception, unhandled, finished>>

\* base: a history field, the operands the callers left below the frame's own.
NewFrame(args, base) ==
  [locals |-> [i \in 1..NumLocals |->
                 IF i <= Len(args) THEN args[i] ELSE Unit],
   tries  |-> 0,
   base   |-> base]

Init ==
  /\ heap = [cell  |-> [o \in Object |->
                          IF o \in Literal
                          THEN [kind |-> "str", count |-> 1, contents |-> <<>>]
                          ELSE NoCell],
             dying |-> {}]
  /\ stack = <<>>
  /\ frames = <<NewFrame(<<>>, 0)>>
  /\ frame = 1
  /\ exception = Unit
  /\ unhandled = FALSE
  /\ finished = FALSE

-----------------------------------------------------------------------------
(* Who refers to an object.                                                 *)

\* References to o that the running program can still use or give up.
Holders(o) ==
  Occurrences(o, stack)
  + Cardinality({l \in (DOMAIN frames) \X (1..NumLocals) :
                   frames[l[1]].locals[l[2]] = o})
  + HeldInside(heap, o)
  + Cardinality({c \in Literal : c = o})
  + (IF unhandled /\ exception = o THEN 1 ELSE 0)

\* References to o that nobody holds: they keep it alive for ever.
Lost(o) == heap.cell[o].count - Holders(o)

-----------------------------------------------------------------------------
(* What instructions and native functions are made of.                      *)

Current  == frames[Len(frames)]
Callers  == SubSeq(frames, 1, Len(frames) - 1)
Own      == Len(stack) - Current.base     \* operands of the current function
Top(n)   == SubSeq(stack, Len(stack) - n + 1, Len(stack))
Below(n) == SubSeq(stack, 1, Len(stack) - n)

Is(kind, h, v) == v \in Object /\ h.cell[v].kind = kind

\* n operands are replaced by v, whose reference the stack takes over.
Replace(n, v) ==
  /\ Len(stack) - n + NumLocals * Len(frames) < MaxSlots
  /\ stack' = Append(Below(n), v)

\* run_frame executes an instruction of the frame it looks at, which finds
\* its n operands.  The loop then reads current_frame again.
Executes(n) ==
  /\ Settled(heap) /\ ~ unhandled /\ ~ finished
  /\ frames # <<>> /\ frame = Len(frames)
  /\ n <= Own
  /\ UNCHANGED finished

\* The instruction only changes the heap and the stack.
Straight == UNCHANGED <<frames, frame, exception, unhandled>>

-----------------------------------------------------------------------------
(* Instructions that call nothing.                                          *)

\* push_stack: the value keeps its other owners, the stack becomes one more.
Push(v) == Executes(0) /\ Replace(0, v) /\ heap' = Adopt(heap, v) /\ Straight

PushScalar == Push(Unit)
PushConst  == \E o \in Literal : Push(o)
PushLocal  == \E i \in 1..NumLocals : Executes(0) /\ Push(Current.locals[i])
Dup        == Executes(1) /\ Push(stack[Len(stack)])

Del ==
  /\ Executes(1)
  /\ stack' = Below(1)
  /\ heap' = ReleaseAll(heap, Top(1))
  /\ Straight

StoreLocal ==
  \E i \in 1..NumLocals :
    /\ Executes(1)
    /\ frames' = [frames EXCEPT ![Len(frames)].locals[i] = stack[Len(stack)]]
    /\ stack' = Below(1)
    /\ heap' = Release(heap, Current.locals[i])
    /\ UNCHANGED <<frame, exception, unhandled>>

\* OP_ADD..OP_DIV, OP_MODULO, OP_BITWISE_AND and the comparisons.
Arithmetic ==
  /\ Executes(2) /\ Top(2) = <<Unit, Unit>>
  /\ Replace(2, Unit)
  /\ UNCHANGED heap /\ Straight

\* OP_JUMP_IF_TRUE, OP_JUMP_IF_FALSE.
JumpIf ==
  /\ Executes(1) /\ Top(1) = <<Unit>>
  /\ stack' = Below(1)
  /\ UNCHANGED heap /\ Straight

\* OP_NOT, OP_AND, OP_OR take any value and release none.
Truth ==
  \E n \in 1..2 :
    /\ Executes(n) /\ Replace(n, Unit)
    /\ UNCHANGED heap /\ Straight

IsNull ==
  /\ Executes(1) /\ Replace(1, Unit)
  /\ heap' = ReleaseAll(heap, Top(1))
  /\ Straight

Concat ==
  /\ Executes(2) /\ \A i \in 1..2 : Is("str", heap, Top(2)[i])
  /\ \E o \in Fresh(heap) :
       /\ Replace(2, o)
       /\ heap' = ReleaseAll(Place(heap, o, "str", <<>>), Top(2))
  /\ Straight

\* Mutant: the closure does not become an owner of what it binds.
BindWithoutAdopting ==
  \E n \in 0..NumLocals, o \in Fresh(heap) :
    /\ Executes(n) /\ n <= MaxContents
    /\ Replace(n, o)
    /\ heap' = ReleaseAll(Place(heap, o, "closure", Top(n)), Top(n))
    /\ Straight

\* bind_to_function copies the arguments and adopts the copies; OP_BIND then
\* releases the originals.
Bind ==
  \E n \in 0..NumLocals, o \in Fresh(heap) :
    /\ Executes(n) /\ n <= MaxContents
    /\ Replace(n, o)
    /\ heap' = ReleaseAll(AdoptAll(Place(heap, o, "closure", Top(n)), Top(n)), Top(n))
    /\ Straight

\* The operands move into the object.
NewObject ==
  \E n \in 0..MaxContents, o \in Fresh(heap) :
    /\ Executes(n)
    /\ Replace(n, o)
    /\ heap' = Place(heap, o, "array", Top(n))
    /\ Straight

-----------------------------------------------------------------------------
(* Native functions: what f(argv) may do to the heap h, the value it gives  *)
(* back and the exception it leaves in the VM (Unit: none).                 *)

Returned(h, v) == [heap |-> h, value |-> v, thrown |-> Unit]

\* vm_throw_exception of a string allocated for it: one reference for
\* vm->exception, and the one of the allocation that nobody gives up.
RangeError(h) ==
  {[heap |-> Adopt(Place(h, e, "str", <<>>), e), value |-> Unit, thrown |-> e] :
     e \in Fresh(h)}

NewArray(contents, h) ==
  {Returned(Place(h, o, "array", contents), o) : o \in Fresh(h)}

\* Mutant: the element is given out without an owner of its own.
ArrayGetBorrows(array, h) ==
  {Returned(Release(h, array), h.cell[array].contents[i]) :
     i \in DOMAIN h.cell[array].contents} \cup RangeError(Release(h, array))

ArrayGet(array, h) ==
  {LET v == h.cell[array].contents[i]
   IN  Returned(Release(Adopt(h, v), array), v) :
     i \in DOMAIN h.cell[array].contents} \cup RangeError(Release(h, array))

\* Mutant: the element that is replaced is forgotten.
ArraySetForgets(array, v, h) ==
  {Returned(Adopt(Release([h EXCEPT !.cell[array].contents[i] = v], array), v),
            v) :
     i \in DOMAIN h.cell[array].contents} \cup RangeError(Release(h, array))

\* In range, v moves into the array and is adopted once more as the result;
\* out of range it is not released.
ArraySet(array, v, h) ==
  {LET old == h.cell[array].contents[i]
   IN  Returned(Adopt(ReleaseAll([h EXCEPT !.cell[array].contents[i] = v],
                                 <<old, array>>), v), v) :
     i \in DOMAIN h.cell[array].contents} \cup RangeError(Release(h, array))

\* The "Out of memory" exception is left out: no build of the model meets it.
ArrayPush(array, v, h) ==
  IF Len(h.cell[array].contents) < MaxContents
  THEN {Returned(Release([h EXCEPT !.cell[array].contents = Append(@, v)],
                         array), Unit)}
  ELSE {}

Substring(s, h) ==
  LET g == Release(h, s)
  IN  {Returned(Place(g, o, "str", <<>>), o) : o \in Fresh(g)} \cup RangeError(g)

\* A string is given back as it is; any other argument is not released.
ValueOf(v, h) ==
  IF Is("str", h, v) THEN {Returned(h, v)}
  ELSE {Returned(Place(h, o, "str", <<>>), o) : o \in Fresh(h)}

Signature ==
  [array_get |-> <<"array", "scalar">>, array_set |-> <<"array", "scalar", "any">>,
   array_push |-> <<"array", "any">>, array_length |-> <<"array">>,
   substring |-> <<"str", "scalar", "scalar">>, equals |-> <<"str", "str">>,
   value_of |-> <<"any">>]

\* The assertions a native function starts with; the compiler's types ensure
\* them.  array_new, array_init and log take any number of arguments.
Accepts(f, argv, h) ==
  CASE f = "array_new" -> argv \in {<<>>, <<Unit>>}
    [] f \in {"array_init", "log"} -> Len(argv) <= MaxContents
    [] OTHER ->
         /\ Len(argv) = Len(Signature[f])
         /\ \A i \in DOMAIN argv :
              \/ Signature[f][i] = "any"
              \/ Signature[f][i] = "scalar" /\ argv[i] = Unit
              \/ Is(Signature[f][i], h, argv[i])

Outcomes(f, argv, h) ==
  CASE f = "array_new"  -> UNION {NewArray([i \in 1..n |-> Unit], h) :
                                    n \in IF argv = <<>> THEN {0}
                                          ELSE 0..MaxContents}
    [] f = "array_init" -> NewArray(argv, h)
    [] f = "array_get"  -> ArrayGet(argv[1], h)
    [] f = "array_set"  -> ArraySet(argv[1], argv[3], h)
    [] f = "array_push" -> ArrayPush(argv[1], argv[2], h)
    [] f = "substring"  -> Substring(argv[1], h)
    [] f = "value_of"   -> ValueOf(argv[1], h)
    [] f \in {"array_length", "equals", "log"} ->
         {Returned(ReleaseAll(h, argv), Unit)}

-----------------------------------------------------------------------------
(* Calls.                                                                   *)

\* vm_invoke of bytecode: the arguments, `operands` of them on the stack,
\* move into the locals of a new frame.
Enter(argv, operands) ==
  /\ Len(frames) < MaxFrames /\ Len(argv) <= NumLocals
  /\ Len(stack) - operands + NumLocals * (Len(frames) + 1) <= MaxSlots
  /\ frames' = Append(frames, NewFrame(argv, Len(stack) - operands))
  /\ frame' = Len(frames')
  /\ stack' = Below(operands)
  /\ UNCHANGED <<exception, unhandled>>

\* vm_invoke of native function f, and the release of `after` by the caller.
Invoke(f, argv, h, operands, after) ==
  /\ Accepts(f, argv, h)
  /\ \E out \in Outcomes(f, argv, h) :
       /\ Replace(operands, out.value)
       /\ heap' = ReleaseAll(out.heap, after)
       /\ IF out.thrown = Unit
          THEN UNCHANGED <<exception, unhandled>>
          ELSE exception' = out.thrown /\ unhandled' = TRUE
  /\ UNCHANGED <<frames, frame>>

\* OP_CALL and OP_CALL_VIRTUAL of a function in bytecode.
Call ==
  \E n \in 0..NumLocals : Executes(n) /\ Enter(Top(n), n) /\ UNCHANGED heap

CallNative(f) ==
  \E n \in 0..3 : Executes(n) /\ Invoke(f, Top(n), heap, n, <<>>)

\* OP_DYNAMIC_CALL, with vm_invoke_closure: the bound arguments come first
\* and are adopted for the callee, the closure is released after the call.
DynamicCall(f) ==
  \E n \in 0..3 :
    /\ Executes(n + 1)
    /\ Is("closure", heap, stack[Len(stack)])
    /\ LET fn    == stack[Len(stack)]
           bound == heap.cell[fn].contents
           argv  == bound \o SubSeq(Top(n + 1), 1, n)
           held  == AdoptAll(heap, bound)
       IN  IF f = "bytecode"
           THEN Enter(argv, n + 1) /\ heap' = Release(held, fn)
           ELSE Invoke(f, argv, held, n + 1, <<fn>>)

\* OP_RETURN: exit_current_frame; the result is on top of the stack.
Return ==
  /\ Executes(1)
  /\ heap' = ReleaseAll(heap, Current.locals)
  /\ frames' = Callers
  /\ frame' = Len(frames')
  /\ UNCHANGED <<stack, exception, unhandled>>

-----------------------------------------------------------------------------
(* Exceptions.                                                              *)

TryPush ==
  /\ Executes(0) /\ \A i \in DOMAIN frames : frames[i].tries < MaxTries
  /\ frames' = [frames EXCEPT ![Len(frames)].tries = @ + 1]
  /\ UNCHANGED <<heap, stack, frame, exception, unhandled>>

TryPop ==
  /\ Executes(0) /\ Current.tries > 0
  /\ frames' = [frames EXCEPT ![Len(frames)].tries = @ - 1]
  /\ UNCHANGED <<heap, stack, frame, exception, unhandled>>

Throw ==
  /\ Executes(1)
  /\ exception' = stack[Len(stack)]
  /\ unhandled' = TRUE
  /\ stack' = Below(1)
  /\ UNCHANGED <<heap, frames, frame>>

\* handle_exception, a frame without a "catch" block: exit_current_frame, and
\* on to its caller.  run_frame's `frame` stays what it was.
Unwind ==
  /\ Settled(heap) /\ unhandled /\ frames # <<>> /\ Current.tries = 0
  /\ heap' = ReleaseAll(heap, Current.locals)
  /\ frames' = Callers
  /\ UNCHANGED <<stack, frame, exception, unhandled, finished>>

\* handle_exception, a frame with one.  vm->exception keeps its reference;
\* nothing reads it any longer.
Catch ==
  /\ Settled(heap) /\ unhandled /\ frames # <<>> /\ Current.tries > 0
  /\ Replace(0, exception)
  /\ heap' = Adopt(heap, exception)
  /\ frames' = [frames EXCEPT ![Len(frames)].tries = @ - 1]
  /\ unhandled' = FALSE
  /\ exception' = Unit
  /\ UNCHANGED <<frame, finished>>

-----------------------------------------------------------------------------
\* A deleter that is due runs before anything else happens.
RunDeleter ==
  \E o \in heap.dying :
    /\ heap' = Destroy(heap, o)
    /\ UNCHANGED <<stack, frames, frame, exception, unhandled, finished>>

\* No frame is left: vm_run pops the result, main() releases it.
Finish ==
  /\ Settled(heap) /\ frames = <<>> /\ ~ finished /\ stack # <<>>
  /\ stack' = Below(1)
  /\ heap' = ReleaseAll(heap, Top(1))
  /\ finished' = TRUE
  /\ UNCHANGED <<frames, frame, exception, unhandled>>

Instruction ==
  \/ PushScalar \/ PushConst \/ PushLocal \/ Dup \/ Del \/ StoreLocal
  \/ Arithmetic \/ JumpIf \/ Truth \/ IsNull \/ Concat \/ Bind \/ NewObject
  \/ Call \/ Return
  \/ \E f \in Native : CallNative(f)
  \/ \E f \in Function : DynamicCall(f)
  \/ TryPush \/ TryPop \/ Throw

Followed == \A o \in Object : Lost(o) <= MaxLost

Next ==
  \/ Settled(heap) /\ ~ unhandled /\ Followed /\ Instruction
  \/ Unwind \/ Catch \/ RunDeleter \/ Finish

Spec == Init /\ [][Next]_vars

-----------------------------------------------------------------------------
(* Properties.                                                              *)

\* Type invariant: counts are positive exactly for live objects, and frames,
\* stack and exception keep to their domains.
TypeOK ==
  /\ heap \in [cell  : [Object -> [kind : Kind, count : Nat,
                                   contents : Seq(Value)]],
               dying : SUBSET Object]
  /\ \A o \in Object :
       heap.cell[o].count = 0 <=> (~ Live(heap, o) \/ o \in heap.dying)
  /\ stack \in Seq(Value)
  /\ frames \in Seq([locals : [1..NumLocals -> Value],
                     tries : 0..MaxTries, base : 0..MaxSlots])
  /\ frame \in 0..MaxFrames
  /\ exception \in Value
  /\ unhandled \in BOOLEAN /\ finished \in BOOLEAN

\* No reference dangles: whatever the stack, a local, an element, a bound
\* argument, the constant table or the pending exception refers to has not
\* been freed (rc_decrement, every deleter and every native function).
NoDangling == \A o \in Object : Holders(o) > 0 => Live(heap, o)

\* An object's count covers everybody who will decrement it: the assertion
\* `count > 0` of rc_decrement never fails, in whatever order owners give up.
CountsCover == \A o \in Object : Lost(o) >= 0

\* References are lost - the object leaks - in four places only: an exception
\* is thrown by a native function or caught, OP_AND / OP_OR / OP_NOT are given
\* a reference, String.valueOf is given one to something else than a string.
\* Every other instruction and native function hands on what it was given.
LosesOnlyThere ==
  [][\/ unhandled \/ unhandled'
     \/ \A o \in Object : Lost(o)' = Lost(o)
     \/ Truth \/ CallNative("value_of") \/ DynamicCall("value_of")]_vars

\* "there are no circumstances where it is safe to resume execution within"
\* a frame without a handler: run_frame goes on in a frame that still exists.
ResumesInLiveFrame == ~ unhandled => frame <= Len(frames)
=============================================================================
