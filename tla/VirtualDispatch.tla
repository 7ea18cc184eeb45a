-------------------------- MODULE VirtualDispatch --------------------------
(***************************************************************************)
(* The dispatch table of interface methods: BuildDispatchTable              *)
(* (compiler/codegen/virtual_dispatch.cc) packs one row per struct into a   *)
(* single array, each at the first shift where it meets only empty slots,   *)
(* and OP_CALL_VIRTUAL (src/vm.c) finds a method at the displacement of the *)
(* receiver plus the column of the method.  Rows overlap: only the owner    *)
(* kept in each slot tells a receiver's own method from a neighbour's.      *)
(*                                                                          *)
(* A function symbol stands for its index in the function table.            *)
(***************************************************************************)
EXTENDS Integers, FiniteSets

CONSTANTS
  Method,   \* symbol ids of the interface methods
  Struct,   \* symbol ids of the structs that implement interfaces
  Fn,       \* symbols of the functions with a body
  SymbolOf  \* the function a struct implements a method with

ASSUME SymbolIdsAreNumbers == Method \subseteq Nat /\ Struct \subseteq Nat
ASSUME SymbolOfEachMethod  == SymbolOf \in [Method \X Struct -> Fn]
ASSUME FinitelyManySymbols == IsFiniteSet(Method) /\ IsFiniteSet(Struct)

VARIABLES
  implementations,  \* FunctionSymbol.implementations of each interface method
  methods,          \* interface_functions: the methods to build a table for
  linked,           \* the functions that have an index (symbol_to_func_idx)
  table,            \* the slots in use: function and owner (an object id)
  displacements,    \* row_displacements of the rows placed so far
  shift             \* the shift tried for the row being placed

program == <<implementations, methods, linked>>
dispatchVars == <<implementations, methods, linked, table, displacements, shift>>

\* What BindStructSymbol records for the structs that implement each method.
Implementing(implementors) ==
  [m \in Method |-> [s \in implementors[m] |-> SymbolOf[<<m, s>>]]]

-----------------------------------------------------------------------------
(* Columns and rows.  Both are sorted, the fullest first, and numbered.     *)

Implementors(m) == DOMAIN implementations[m]

ColumnBefore(a, b) ==
  \/ Cardinality(Implementors(a)) > Cardinality(Implementors(b))
  \/ Cardinality(Implementors(a)) = Cardinality(Implementors(b)) /\ a < b

\* symbol_to_interface_id
Col(m) == Cardinality({k \in methods : ColumnBefore(k, m)})

\* The row of a struct: the methods it implements with a linked function.
Entries(s) ==
  {m \in methods : s \in Implementors(m) /\ implementations[m][s] \in linked}

Rows == {s \in Struct : Entries(s) # {}}

RowBefore(s, t) ==
  \/ Cardinality(Entries(s)) > Cardinality(Entries(t))
  \/ Cardinality(Entries(s)) = Cardinality(Entries(t)) /\ s < t

\* symbol_to_object_id
ObjectId(s) == Cardinality({t \in Rows : RowBefore(t, s)})

-----------------------------------------------------------------------------
(* Placing the rows.                                                        *)

Placed(s) == s \in Rows /\ ObjectId(s) \in DOMAIN displacements

\* s is the row of the outer loop's object_id.
Placing(s) ==
  /\ s \in Rows
  /\ ~Placed(s)
  /\ \A t \in Rows : RowBefore(t, s) => Placed(t)

AllPlaced == \A s \in Rows : Placed(s)

\* Mutant: one free slot is enough.
FitsSomewhere(s) == \E m \in Entries(s) : shift + Col(m) \notin DOMAIN table

Fits(s) == \A m \in Entries(s) : shift + Col(m) \notin DOMAIN table

\* Mutants: the shift counts down; the shift is not counted.
ShiftDown(s) ==
  /\ Placing(s)
  /\ ~Fits(s)
  /\ shift' = shift - 1
  /\ UNCHANGED <<implementations, methods, linked, table, displacements>>

ShiftForgotten(s) == Placing(s) /\ ~Fits(s) /\ UNCHANGED dispatchVars

\* `if (!fits) shift++`
ShiftRow(s) ==
  /\ Placing(s)
  /\ ~Fits(s)
  /\ shift' = shift + 1
  /\ UNCHANGED <<implementations, methods, linked, table, displacements>>

\* The slots of row s, written over what the table holds.
RowSlots(s) == {shift + Col(m) : m \in Entries(s)}
MethodAt(s, slot) == CHOOSE m \in Entries(s) : shift + Col(m) = slot

\* Mutant: the owner of a slot is given by the symbol of the struct.
WriteRowBySymbol(s) ==
  /\ displacements' =
       [o \in DOMAIN displacements \cup {ObjectId(s)} |->
          IF o = ObjectId(s) THEN shift ELSE displacements[o]]
  /\ table' =
       [slot \in DOMAIN table \cup RowSlots(s) |->
          IF slot \in RowSlots(s)
          THEN [fn |-> implementations[MethodAt(s, slot)][s], owner |-> s]
          ELSE table[slot]]

WriteRow(s) ==
  /\ displacements' =
       [o \in DOMAIN displacements \cup {ObjectId(s)} |->
          IF o = ObjectId(s) THEN shift ELSE displacements[o]]
  /\ table' =
       [slot \in DOMAIN table \cup RowSlots(s) |->
          IF slot \in RowSlots(s)
          THEN [fn |-> implementations[MethodAt(s, slot)][s], owner |-> ObjectId(s)]
          ELSE table[slot]]

\* Mutant: the next row is searched for from this row's shift on.
PlaceRowKeepsShift(s) ==
  /\ Placing(s)
  /\ Fits(s)
  /\ WriteRow(s)
  /\ UNCHANGED <<program, shift>>

PlaceRow(s) ==
  /\ Placing(s)
  /\ Fits(s)
  /\ WriteRow(s)
  /\ shift' = 0
  /\ UNCHANGED program

BuildStep == \E s \in Struct : ShiftRow(s) \/ PlaceRow(s)

EmptyTable ==
  /\ table = [slot \in {} |-> {}]
  /\ displacements = [o \in {} |-> 0]
  /\ shift = 0

(***************************************************************************)
(* The table alone: every implementation is linked, as it is when main.cc   *)
(* calls GenerateImage (module Linking), and every method has one.          *)
(***************************************************************************)
DispatchInit ==
  /\ \E implementors \in [Method -> SUBSET Struct] :
       implementations = Implementing(implementors)
  /\ methods = {m \in Method : Implementors(m) # {}}
  /\ linked = Fn
  /\ EmptyTable

Built == AllPlaced /\ UNCHANGED dispatchVars

DispatchNext == BuildStep \/ Built

DispatchSpec == DispatchInit /\ [][DispatchNext]_dispatchVars

\* BuildDispatchTable is a sequential loop.
DispatchFairSpec == DispatchSpec /\ WF_dispatchVars(BuildStep)

-----------------------------------------------------------------------------
(***************************************************************************)
(* OP_CALL_VIRTUAL on a receiver with this object id: the function it runs, *)
(* or nothing when one of its three assertions stops the VM.                *)
(***************************************************************************)
Dispatch(objectId, col) ==
  {table[slot].fn : slot \in
     {displacements[o] + col : o \in DOMAIN displacements \cap {objectId}}
       \cap {x \in DOMAIN table : table[x].owner = objectId}}

TableTypeOK ==
  /\ implementations = Implementing([m \in Method |-> Implementors(m)])
  /\ \A m \in Method : Implementors(m) \subseteq Struct
  /\ methods \subseteq Method
  /\ DOMAIN table \subseteq Nat
  /\ \A slot \in DOMAIN table : table[slot] \in [fn : Fn, owner : Nat]
  /\ DOMAIN displacements \subseteq Nat
  /\ \A o \in DOMAIN displacements : displacements[o] \in Nat
  /\ shift \in Nat

DispatchTypeOK == TableTypeOK /\ linked \subseteq Fn

(***************************************************************************)
(* A virtual call runs the receiver's own implementation of the method, and *)
(* a call of a method the receiver does not have is stopped by the owner    *)
(* check, whatever rows share its slots - from the moment the row is placed *)
(* on, so no later row disturbs it.                                         *)
(***************************************************************************)
DispatchExact ==
  \A s \in {t \in Struct : Placed(t)}, m \in methods :
    Dispatch(ObjectId(s), Col(m)) =
      {implementations[k][s] : k \in Entries(s) \cap {m}}

(***************************************************************************)
(* The table is compressed as far as first-fit goes: below the displacement *)
(* of a row, every shift meets a slot of a row placed earlier.              *)
(***************************************************************************)
FirstFit ==
  \A s \in {t \in Struct : Placed(t)} :
    \A k \in 0..(displacements[ObjectId(s)] - 1) :
      \E m \in Entries(s) :
        /\ k + Col(m) \in DOMAIN table
        /\ table[k + Col(m)].owner < ObjectId(s)

(***************************************************************************)
(* The search for a place (`while (!fits)` has no bound) always ends.       *)
(***************************************************************************)
TableGetsBuilt == <>AllPlaced
=============================================================================
