------------------------------ MODULE Linking ------------------------------
(***************************************************************************)
(* From checked symbols to a linked program: compiler/main.cc collects the  *)
(* symbols main() needs, ProgramBuilder::GenerateImage gives each an index  *)
(* and builds the dispatch table (VirtualDispatch), Assembler::Build writes *)
(* the indices into the calls - or stops the compiler when one is missing.  *)
(*                                                                          *)
(* What a body refers to is the program's choice, made when the body is     *)
(* generated.  Symbols still to be processed are a set where the code has a *)
(* stack with duplicates: every order of taking them is allowed.  Each      *)
(* interface has one method.                                                *)
(***************************************************************************)
EXTENDS VirtualDispatch

CONSTANTS
  Extern,     \* symbols of the extern functions
  Provided,   \* those LinkExternalCallIdx finds an index for
  Main,       \* the function "main"
  Bodies      \* what the body of each function may refer to: sets of functions
              \* and methods (called) and structs (constructed)

ASSUME MainIsAFunction == Main \in Fn
ASSUME DistinctSymbols ==
  /\ Fn \cap Extern = {} /\ Fn \cap Method = {} /\ Fn \cap Struct = {}
  /\ Extern \cap Method = {} /\ Extern \cap Struct = {} /\ Method \cap Struct = {}
ASSUME BodiesReferToSymbols ==
  Bodies \in [Fn -> SUBSET SUBSET (Fn \cup Extern \cup Method \cup Struct)]
VARIABLES
  todo,        \* symbols_to_process
  processed,   \* processed_symbols
  body,        \* what the generated body of each function refers to
  phase        \* "discover", "table", then "linked" or "fatal"

vars == <<dispatchVars, todo, processed, body, phase>>

Callable == Fn \cup Extern \cup Method

\* function_objects and external_functions
Objects   == processed \cap Fn
Externals == processed \cap Extern

Init ==
  /\ \E implementors \in [Method -> SUBSET Struct] :
       implementations = Implementing(implementors)
  /\ methods = {}
  /\ linked = {}
  /\ EmptyTable
  /\ todo = {Main}
  /\ processed = {}
  /\ body = [f \in Fn |-> {}]
  /\ phase = "discover"

-----------------------------------------------------------------------------
(* The worklist of main.cc.                                                 *)

Take(symbol) ==
  /\ phase = "discover"
  /\ symbol \in todo
  /\ UNCHANGED <<implementations, linked, table, displacements, shift, phase>>

\* Mutant: the symbol is looked at, and taken off the stack behind the check.
SkipUnpopped(symbol) ==
  /\ Take(symbol)
  /\ symbol \in processed
  /\ UNCHANGED <<todo, methods, processed, body>>

SkipProcessed(symbol) ==
  /\ Take(symbol)
  /\ symbol \in processed
  /\ todo' = todo \ {symbol}
  /\ UNCHANGED <<methods, processed, body>>

ProcessExtern(symbol) ==
  /\ Take(symbol)
  /\ symbol \in Extern \ processed
  /\ processed' = processed \cup {symbol}
  /\ todo' = todo \ {symbol}
  /\ UNCHANGED <<methods, body>>

\* Mutants: the loop over the implementations ends after the first;
\* the method is recorded outside of that loop.
ProcessMethodOnce(m) ==
  /\ Take(m)
  /\ m \in Method \ processed
  /\ processed' = processed \cup {m}
  /\ todo' = (todo \ {m}) \cup
               {implementations[m][s] :
                  s \in {t \in Implementors(m) : \A u \in Implementors(m) : t <= u}}
  /\ methods' = methods \cup {k \in {m} : Implementors(k) # {}}
  /\ UNCHANGED body

ProcessMethodAlways(m) ==
  /\ Take(m)
  /\ m \in Method \ processed
  /\ processed' = processed \cup {m}
  /\ todo' = (todo \ {m}) \cup {implementations[m][s] : s \in Implementors(m)}
  /\ methods' = methods \cup {m}
  /\ UNCHANGED body

\* A call through an interface needs every implementation; virtual_objects
\* gets the method inside the loop over them.
ProcessMethod(m) ==
  /\ Take(m)
  /\ m \in Method \ processed
  /\ processed' = processed \cup {m}
  /\ todo' = (todo \ {m}) \cup {implementations[m][s] : s \in Implementors(m)}
  /\ methods' = methods \cup {k \in {m} : Implementors(k) # {}}
  /\ UNCHANGED body

\* Mutant: constructed structs are taken for called symbols.
GenerateBodyPushesAll(f, refersTo) ==
  /\ Take(f)
  /\ f \in Fn \ processed
  /\ refersTo \in Bodies[f]
  /\ processed' = processed \cup {f}
  /\ body' = [body EXCEPT ![f] = refersTo]
  /\ todo' = (todo \ {f}) \cup refersTo
  /\ UNCHANGED methods

\* ByteCodeGenerator::Build emits the body and lists what it calls; a
\* constructed struct is in the bytecode but in no list.
GenerateBody(f, refersTo) ==
  /\ Take(f)
  /\ f \in Fn \ processed
  /\ refersTo \in Bodies[f]
  /\ processed' = processed \cup {f}
  /\ body' = [body EXCEPT ![f] = refersTo]
  /\ todo' = (todo \ {f}) \cup (refersTo \cap Callable)
  /\ UNCHANGED methods

-----------------------------------------------------------------------------
(* GenerateImage.                                                           *)

Finish(outcome) ==
  /\ phase' = outcome
  /\ UNCHANGED <<implementations, methods, table, displacements, shift,
                 todo, processed, body>>

\* call_idx_remapping gets the functions and the external functions.
NumberFunctions ==
  /\ phase = "discover"
  /\ todo = {}
  /\ Externals \subseteq Provided
  /\ linked' = Objects \cup Externals
  /\ Finish("table")

UnableToLink ==
  /\ phase = "discover"
  /\ todo = {}
  /\ ~(Externals \subseteq Provided)
  /\ UNCHANGED linked
  /\ Finish("fatal")

BuildTable ==
  /\ phase = "table"
  /\ BuildStep
  /\ UNCHANGED <<todo, processed, body, phase>>

\* Assembler::Build of every object: a call needs an index, a constructed
\* struct an object id (expression_checker.cc makes the constructor of any
\* struct with an `implements` a ConstructorVirtual).
Patchable(f) ==
  /\ body[f] \cap Callable \subseteq linked \cup methods
  /\ body[f] \cap Struct \subseteq Rows

Assemble ==
  /\ phase = "table"
  /\ AllPlaced
  /\ \A f \in Objects : Patchable(f)
  /\ UNCHANGED linked
  /\ Finish("linked")

NeverLinked ==
  /\ phase = "table"
  /\ AllPlaced
  /\ \E f \in Objects : ~Patchable(f)
  /\ UNCHANGED linked
  /\ Finish("fatal")

Stopped == phase \in {"linked", "fatal"} /\ UNCHANGED vars

-----------------------------------------------------------------------------
ProcessSymbol ==
  \E symbol \in todo :
    \/ SkipProcessed(symbol)
    \/ ProcessExtern(symbol)
    \/ ProcessMethod(symbol)
    \/ \E refersTo \in UNION {Bodies[f] : f \in Fn} : GenerateBody(symbol, refersTo)

Compile ==
  \/ ProcessSymbol
  \/ NumberFunctions
  \/ UnableToLink
  \/ BuildTable
  \/ Assemble
  \/ NeverLinked

Next == Compile \/ Stopped

Spec == Init /\ [][Next]_vars

\* The compiler is one sequential program.
FairSpec == Spec /\ WF_vars(Compile)

-----------------------------------------------------------------------------
TypeOK ==
  /\ TableTypeOK
  /\ linked \subseteq Fn \cup Extern
  /\ todo \subseteq Callable
  /\ processed \subseteq Callable
  /\ body \in [Fn -> SUBSET (Callable \cup Struct)]
  /\ \A f \in Objects : body[f] \in Bodies[f]
  /\ phase \in {"discover", "table", "linked", "fatal"}

(***************************************************************************)
(* Tree shaking keeps exactly what main() needs: the symbols processed are  *)
(* the least set with main() that has, with a function, what its body calls *)
(* and, with an interface method, all of its implementations.               *)
(***************************************************************************)
Needs(symbol) ==
  IF symbol \in Fn THEN body[symbol] \cap Callable
  ELSE IF symbol \in Method
       THEN {implementations[symbol][s] : s \in Implementors(symbol)}
       ELSE {}

Closed(symbols) == Main \in symbols /\ \A x \in symbols : Needs(x) \subseteq symbols

TreeShaken ==
  phase # "discover" =>
    /\ Closed(processed)
    /\ \A symbols \in SUBSET processed : Closed(symbols) => symbols = processed

(***************************************************************************)
(* In a program that links, a virtual call on any object the program can    *)
(* construct runs the implementation of the object's struct, and the image  *)
(* contains that function.                                                  *)
(***************************************************************************)
Constructed == Struct \cap UNION {body[f] : f \in Objects}
CalledMethods == Method \cap UNION {body[f] : f \in Objects}

VirtualCallsReach ==
  phase = "linked" =>
    \A m \in CalledMethods : \A s \in Constructed \cap Implementors(m) :
      /\ Dispatch(ObjectId(s), Col(m)) = {implementations[m][s]}
      /\ implementations[m][s] \in Objects

(***************************************************************************)
(* The compiler stops on a checked program in three cases only: an extern   *)
(* function nobody provides, a call through an interface nothing            *)
(* implements, a constructed struct none of whose interface methods is      *)
(* called through its interface.                                            *)
(***************************************************************************)
HasUnlinkable ==
  \/ ~(Externals \subseteq Provided)
  \/ \E m \in CalledMethods : Implementors(m) = {}
  \/ \E s \in Constructed : \A m \in CalledMethods : s \notin Implementors(m)

StopsOnlyOnUnlinkable ==
  /\ phase = "fatal" => HasUnlinkable
  /\ phase = "linked" => ~HasUnlinkable

(***************************************************************************)
(* Compilation ends: no symbol is processed twice and every row finds room. *)
(***************************************************************************)
CompilationEnds == <>(phase \in {"linked", "fatal"})
=============================================================================
