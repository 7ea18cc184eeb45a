--------------------------- MODULE LinkingProofs ---------------------------
(***************************************************************************)
(* For any program: tree shaking keeps exactly what main() needs, a linked  *)
(* program's virtual calls reach their methods, and the compiler stops in   *)
(* three cases only.  The invariant of the worklist is the usual one of a   *)
(* search (what is needed is processed or still to do, and every closed set *)
(* contains it).                                                            *)
(*                                                                         *)
(* The first part is about VirtualDispatch alone: dispatch is exact for any *)
(* number of methods and structs.  Its invariant says that the slots in use *)
(* are exactly the slots of the placed rows, each owned by its row; that a  *)
(* slot then belongs to one method of one struct needs columns and object   *)
(* ids to be different, which is the work of the two lemmas on ranks.       *)
(***************************************************************************)
EXTENDS Linking, FiniteSetTheorems, TLAPS

\* The constants and the recorded implementations are what they should be.
ProgramOK ==
  /\ methods \subseteq Method
  /\ \A m \in Method : Implementors(m) \subseteq Struct

(***************************************************************************)
(* Of two finite sets one of which strictly contains the other, the smaller *)
(* has fewer elements: a rank that counts predecessors grows.               *)
(***************************************************************************)
LEMMA RankGrows ==
  ASSUME NEW A, NEW B, IsFiniteSet(B), A \subseteq B, NEW a \in B, a \notin A
  PROVE  Cardinality(A) < Cardinality(B)
<1>1. /\ Cardinality(A) <= Cardinality(B)
      /\ Cardinality(A) = Cardinality(B) => A = B
      /\ IsFiniteSet(A)
  BY FS_Subset
<1>2. Cardinality(A) \in Nat /\ Cardinality(B) \in Nat
  BY <1>1, FS_CardinalityType
<1> QED BY <1>1, <1>2

(***************************************************************************)
(* Columns are numbers, and two methods have different ones: the order      *)
(* BuildDispatchTable sorts them in is total (equal sizes are told apart by *)
(* the symbol id).                                                          *)
(***************************************************************************)
LEMMA ColumnsDiffer ==
  ASSUME ProgramOK, NEW a \in methods, NEW b \in methods
  PROVE  Col(a) \in Nat /\ (Col(a) = Col(b) => a = b)
<1> DEFINE Size(m) == Cardinality(Implementors(m))
           Smaller(m) == {k \in methods : ColumnBefore(k, m)}
<1>1. \A m \in methods : m \in Nat /\ Size(m) \in Nat
  <2> SUFFICES ASSUME NEW m \in methods PROVE m \in Nat /\ Size(m) \in Nat
    OBVIOUS
  <2>1. m \in Method /\ Implementors(m) \subseteq Struct
    BY DEF ProgramOK
  <2>2. IsFiniteSet(Implementors(m))
    BY <2>1, FinitelyManySymbols, FS_Subset
  <2> QED BY <2>1, <2>2, FS_CardinalityType, SymbolIdsAreNumbers
<1>2. \A m \in methods : IsFiniteSet(Smaller(m))
  BY FinitelyManySymbols, FS_Subset DEF ProgramOK
<1>3. \A m \in methods : Col(m) = Cardinality(Smaller(m))
  BY DEF Col
<1>4. ASSUME NEW m \in methods, NEW n \in methods, ColumnBefore(m, n)
      PROVE  Col(m) < Col(n)
  <2> HIDE DEF Size
  <2>1. \A k, l \in methods : ColumnBefore(k, l) <=>
            \/ Size(k) > Size(l)
            \/ Size(k) = Size(l) /\ k < l
    BY DEF ColumnBefore, Size
  <2>2. Smaller(m) \subseteq Smaller(n)
    BY <1>1, <1>4, <2>1
  <2>3. m \in Smaller(n) /\ m \notin Smaller(m)
    BY <1>1, <1>4, <2>1
  <2> HIDE DEF Smaller
  <2> QED BY <1>2, <1>3, <2>2, <2>3, RankGrows
<1>5. Col(a) \in Nat /\ Col(b) \in Nat
  BY <1>2, <1>3, FS_CardinalityType
<1>6. a # b => ColumnBefore(a, b) \/ ColumnBefore(b, a)
  BY <1>1 DEF ColumnBefore
<1> QED BY <1>4, <1>5, <1>6

(***************************************************************************)
(* The same for the rows of the table and their object ids.                 *)
(***************************************************************************)
LEMMA ObjectIdsDiffer ==
  ASSUME ProgramOK, NEW a \in Rows, NEW b \in Rows
  PROVE  /\ ObjectId(a) \in Nat
         /\ ObjectId(a) = ObjectId(b) => a = b
         /\ RowBefore(a, b) => ObjectId(a) < ObjectId(b)
         /\ a # b => RowBefore(a, b) \/ RowBefore(b, a)
<1> DEFINE Size(s) == Cardinality(Entries(s))
           Smaller(s) == {t \in Rows : RowBefore(t, s)}
<1>1. \A s \in Rows : s \in Nat /\ Size(s) \in Nat
  <2> SUFFICES ASSUME NEW s \in Rows PROVE s \in Nat /\ Size(s) \in Nat
    OBVIOUS
  <2>1. s \in Struct /\ Entries(s) \subseteq Method
    BY DEF ProgramOK, Rows, Entries
  <2>2. IsFiniteSet(Entries(s))
    BY <2>1, FinitelyManySymbols, FS_Subset
  <2> QED BY <2>1, <2>2, FS_CardinalityType, SymbolIdsAreNumbers
<1>2. \A s \in Rows : IsFiniteSet(Smaller(s))
  <2>1. IsFiniteSet(Rows)
    BY FinitelyManySymbols, FS_Subset DEF Rows
  <2> QED BY <2>1, FS_Subset
<1>3. \A s \in Rows : ObjectId(s) = Cardinality(Smaller(s))
  BY DEF ObjectId
<1>4. ASSUME NEW s \in Rows, NEW t \in Rows, RowBefore(s, t)
      PROVE  ObjectId(s) < ObjectId(t)
  <2> HIDE DEF Size
  <2>1. \A r, u \in Rows : RowBefore(r, u) <=>
            \/ Size(r) > Size(u)
            \/ Size(r) = Size(u) /\ r < u
    BY DEF RowBefore, Size
  <2>2. Smaller(s) \subseteq Smaller(t)
    BY <1>1, <1>4, <2>1
  <2>3. s \in Smaller(t) /\ s \notin Smaller(s)
    BY <1>1, <1>4, <2>1
  <2> HIDE DEF Smaller
  <2> QED BY <1>2, <1>3, <2>2, <2>3, RankGrows
<1>5. ObjectId(a) \in Nat /\ ObjectId(b) \in Nat
  BY <1>2, <1>3, FS_CardinalityType
<1>6. a # b => RowBefore(a, b) \/ RowBefore(b, a)
  BY <1>1 DEF RowBefore
<1> QED BY <1>4, <1>5, <1>6

-----------------------------------------------------------------------------
SlotOf(s, m) == displacements[ObjectId(s)] + Col(m)

\* Every entry of a placed row is in its slot, under the row's object id, ...
EntriesAreIn ==
  \A s \in Struct : Placed(s) => \A m \in Entries(s) :
    /\ SlotOf(s, m) \in DOMAIN table
    /\ table[SlotOf(s, m)] = [fn |-> implementations[m][s], owner |-> ObjectId(s)]

\* ... and nothing else is in the table.
SlotsAreEntries ==
  \A slot \in DOMAIN table : \E s \in Struct : Placed(s) /\ \E m \in Entries(s) :
    slot = SlotOf(s, m) /\ table[slot].owner = ObjectId(s)

\* Displacements are those of rows, and rows are placed in order.
DisplacementsOfRows ==
  /\ \A o \in DOMAIN displacements :
       displacements[o] \in Nat /\ \E s \in Rows : o = ObjectId(s)
  /\ shift \in Nat

TableInv == EntriesAreIn /\ SlotsAreEntries /\ DisplacementsOfRows

(***************************************************************************)
(* The invariant of the table is enough: whose slot it is decides what a    *)
(* virtual call does.                                                       *)
(***************************************************************************)
LEMMA TableInvIsExact ==
  ASSUME ProgramOK, TableInv
  PROVE  DispatchExact
<1> SUFFICES ASSUME NEW s \in Struct, Placed(s), NEW m \in methods
             PROVE  Dispatch(ObjectId(s), Col(m)) =
                      {implementations[k][s] : k \in Entries(s) \cap {m}}
  BY DEF DispatchExact
<1> DEFINE slot == SlotOf(s, m)
<1>1. ObjectId(s) \in DOMAIN displacements /\ s \in Rows
  BY DEF Placed
<1>2. Dispatch(ObjectId(s), Col(m)) =
        {table[x].fn : x \in {slot} \cap {y \in DOMAIN table : table[y].owner = ObjectId(s)}}
  BY <1>1 DEF Dispatch, SlotOf
<1>3. CASE m \in Entries(s)
  <2>1. /\ slot \in DOMAIN table
        /\ table[slot] = [fn |-> implementations[m][s], owner |-> ObjectId(s)]
    BY <1>3 DEF TableInv, EntriesAreIn
  <2>2. Entries(s) \cap {m} = {m}
    BY <1>3
  <2> HIDE DEF slot
  <2>3. {slot} \cap {y \in DOMAIN table : table[y].owner = ObjectId(s)} = {slot}
    BY <2>1
  <2>4. Dispatch(ObjectId(s), Col(m)) = {implementations[m][s]}
    BY <1>2, <2>1, <2>3
  <2> QED BY <2>2, <2>4
<1>4. CASE m \notin Entries(s)
  <2>1. ASSUME slot \in DOMAIN table, table[slot].owner = ObjectId(s)
        PROVE  FALSE
    <3>1. PICK t \in Struct : Placed(t) /\ \E k \in Entries(t) :
             slot = SlotOf(t, k) /\ table[slot].owner = ObjectId(t)
      BY <2>1 DEF TableInv, SlotsAreEntries
    <3>2. PICK k \in Entries(t) :
             slot = SlotOf(t, k) /\ table[slot].owner = ObjectId(t)
      BY <3>1
    <3>3. t = s
      BY <1>1, <2>1, <3>1, <3>2, ObjectIdsDiffer DEF Placed
    <3>4. k \in methods
      BY <3>2 DEF Entries
    <3>5. Col(k) = Col(m)
      <4>1. displacements[ObjectId(s)] \in Nat
        BY <1>1 DEF TableInv, DisplacementsOfRows
      <4>2. Col(k) \in Nat /\ Col(m) \in Nat
        BY <3>4, ColumnsDiffer
      <4> QED BY <3>2, <3>3, <4>1, <4>2 DEF SlotOf
    <3> QED BY <1>4, <3>2, <3>3, <3>4, <3>5, ColumnsDiffer
  <2>2. Dispatch(ObjectId(s), Col(m)) = {}
    BY <1>2, <2>1
  <2>3. Entries(s) \cap {m} = {}
    BY <1>4
  <2> QED BY <2>2, <2>3
<1> QED BY <1>3, <1>4

-----------------------------------------------------------------------------
(***************************************************************************)
(* Placing rows changes neither the columns nor the rows nor their ids.     *)
(***************************************************************************)
LEMMA SameProgram ==
  ASSUME UNCHANGED program
  PROVE  /\ ProgramOK' = ProgramOK
         /\ Rows' = Rows
         /\ \A s : Entries(s)' = Entries(s) /\ ObjectId(s)' = ObjectId(s)
         /\ \A m : Col(m)' = Col(m)
         /\ \A s, t : RowBefore(s, t)' = RowBefore(s, t)
<1>1. /\ implementations' = implementations /\ methods' = methods /\ linked' = linked
  BY DEF program
<1>2. \A m : Implementors(m)' = Implementors(m)
  BY <1>1 DEF Implementors
<1>3. \A s : Entries(s)' = Entries(s)
  BY <1>1, <1>2 DEF Entries
<1>4. \A s, t : RowBefore(s, t)' = RowBefore(s, t)
  BY <1>3 DEF RowBefore
<1>5. Rows' = Rows
  BY <1>3 DEF Rows
<1>6. \A s : ObjectId(s)' = ObjectId(s)
  BY <1>4, <1>5 DEF ObjectId
<1>7. \A a, b : ColumnBefore(a, b)' = ColumnBefore(a, b)
  BY <1>2 DEF ColumnBefore
<1>8. \A m : Col(m)' = Col(m)
  BY <1>1, <1>7 DEF Col
<1>9. ProgramOK' = ProgramOK
  BY <1>1, <1>2 DEF ProgramOK
<1> QED BY <1>3, <1>4, <1>5, <1>6, <1>8, <1>9

(***************************************************************************)
(* Trying the next shift leaves table and displacements alone.              *)
(***************************************************************************)
LEMMA ShiftKeepsTable ==
  ASSUME TableInv, NEW s \in Struct, ShiftRow(s)
  PROVE  TableInv'
<1>1. /\ UNCHANGED <<implementations, program, table, displacements>>
      /\ shift' = shift + 1
  BY DEF ShiftRow, program
<1>2. \A t : Placed(t)' = Placed(t)
  BY <1>1, SameProgram DEF Placed
<1>3. \A t, m : SlotOf(t, m)' = SlotOf(t, m)
  BY <1>1, SameProgram DEF SlotOf
<1> QED
  BY <1>1, <1>2, <1>3, SameProgram
  DEF TableInv, EntriesAreIn, SlotsAreEntries, DisplacementsOfRows

(***************************************************************************)
(* What placing a row does: the row is placed at the shift found, its slots *)
(* were empty and hold its entries, nothing else changes.                   *)
(***************************************************************************)
LEMMA PlaceRowStep ==
  ASSUME ProgramOK, TableInv, NEW s \in Struct, PlaceRow(s)
  PROVE  /\ \A t \in Struct : Placed(t)' <=> Placed(t) \/ t = s
         /\ DOMAIN displacements' = DOMAIN displacements \cup {ObjectId(s)}
         /\ displacements'[ObjectId(s)] = shift
         /\ \A t \in Struct : Placed(t) =>
              displacements'[ObjectId(t)] = displacements[ObjectId(t)]
         /\ DOMAIN table' = DOMAIN table \cup RowSlots(s)
         /\ \A slot \in DOMAIN table : table'[slot] = table[slot]
         /\ \A m \in Entries(s) : table'[shift + Col(m)] =
              [fn |-> implementations[m][s], owner |-> ObjectId(s)]
<1>1. /\ UNCHANGED <<implementations, program>>
      /\ s \in Rows /\ ~Placed(s) /\ Fits(s)
      /\ ObjectId(s) \notin DOMAIN displacements
  BY DEF PlaceRow, Placing, program, Placed
<1>2. /\ DOMAIN displacements' = DOMAIN displacements \cup {ObjectId(s)}
      /\ displacements'[ObjectId(s)] = shift
      /\ \A o \in DOMAIN displacements : displacements'[o] = displacements[o]
  BY <1>1 DEF PlaceRow, WriteRow
<1>3. \A t \in Struct : Placed(t)' <=> Placed(t) \/ t = s
  <2> SUFFICES ASSUME NEW t \in Struct PROVE Placed(t)' <=> Placed(t) \/ t = s
    OBVIOUS
  <2>1. Placed(t)' <=> t \in Rows /\ ObjectId(t) \in DOMAIN displacements'
    BY <1>1, SameProgram DEF Placed
  <2>2. t \in Rows => (ObjectId(t) = ObjectId(s) <=> t = s)
    BY <1>1, ObjectIdsDiffer
  <2> QED BY <1>1, <1>2, <2>1, <2>2 DEF Placed
<1>4. RowSlots(s) \cap DOMAIN table = {}
  BY <1>1 DEF Fits, RowSlots
<1>5. /\ DOMAIN table' = DOMAIN table \cup RowSlots(s)
      /\ \A slot \in DOMAIN table : table'[slot] = table[slot]
  BY <1>4 DEF PlaceRow, WriteRow
<1>6. ASSUME NEW m \in Entries(s)
      PROVE  table'[shift + Col(m)] =
               [fn |-> implementations[m][s], owner |-> ObjectId(s)]
  <2> DEFINE x == shift + Col(m)
  <2>1. x \in RowSlots(s)
    BY DEF RowSlots
  <2>2. table'[x] =
          [fn |-> implementations[MethodAt(s, x)][s], owner |-> ObjectId(s)]
    BY <2>1 DEF PlaceRow, WriteRow
  <2>3. MethodAt(s, x) \in Entries(s) /\ shift + Col(MethodAt(s, x)) = x
    BY DEF MethodAt
  <2>4. shift \in Nat /\ m \in methods /\ MethodAt(s, x) \in methods
    BY <2>3 DEF TableInv, DisplacementsOfRows, Entries
  <2>5. Col(m) \in Nat /\ Col(MethodAt(s, x)) \in Nat
    BY <2>4, ColumnsDiffer
  <2>6. Col(MethodAt(s, x)) = Col(m)
    BY <2>3, <2>4, <2>5
  <2>7. MethodAt(s, x) = m
    BY <2>4, <2>6, ColumnsDiffer
  <2> QED BY <2>2, <2>7
<1> QED BY <1>2, <1>3, <1>5, <1>6 DEF Placed

(***************************************************************************)
(* Placing a row keeps the table exact.                                     *)
(***************************************************************************)
LEMMA PlaceKeepsTable ==
  ASSUME ProgramOK, TableInv, NEW s \in Struct, PlaceRow(s)
  PROVE  TableInv'
<1>0. /\ UNCHANGED <<implementations, program>>
      /\ s \in Rows /\ shift' = 0
      /\ shift \in Nat
  BY DEF PlaceRow, Placing, program, TableInv, DisplacementsOfRows
<1>p. /\ \A t \in Struct : Placed(t)' <=> Placed(t) \/ t = s
      /\ DOMAIN displacements' = DOMAIN displacements \cup {ObjectId(s)}
      /\ displacements'[ObjectId(s)] = shift
      /\ \A t \in Struct : Placed(t) =>
           displacements'[ObjectId(t)] = displacements[ObjectId(t)]
  BY PlaceRowStep
<1>t. /\ DOMAIN table' = DOMAIN table \cup RowSlots(s)
      /\ \A slot \in DOMAIN table : table'[slot] = table[slot]
      /\ \A m \in Entries(s) : table'[shift + Col(m)] =
           [fn |-> implementations[m][s], owner |-> ObjectId(s)]
  BY PlaceRowStep
<1>1. \A m : SlotOf(s, m)' = shift + Col(m)
  BY <1>0, <1>p, <1>t, SameProgram DEF SlotOf
<1>2. \A t \in Struct : Placed(t) => \A m : SlotOf(t, m)' = SlotOf(t, m)
  BY <1>0, <1>p, <1>t, SameProgram DEF SlotOf
<1>3. EntriesAreIn'
  <2> SUFFICES ASSUME NEW t \in Struct, Placed(t)', NEW m \in Entries(t)
               PROVE  /\ SlotOf(t, m)' \in DOMAIN table'
                      /\ table'[SlotOf(t, m)'] =
                           [fn |-> implementations[m][t], owner |-> ObjectId(t)]
    BY <1>0, SameProgram DEF EntriesAreIn
  <2>1. CASE t = s
    BY <2>1, <1>1, <1>p, <1>t DEF RowSlots
  <2>2. CASE Placed(t)
    BY <2>2, <1>2, <1>p, <1>t DEF TableInv, EntriesAreIn
  <2> QED BY <2>1, <2>2, <1>p, <1>t
<1>4. SlotsAreEntries'
  <2> SUFFICES ASSUME NEW x \in DOMAIN table'
               PROVE  \E t \in Struct : Placed(t)' /\ \E m \in Entries(t) :
                        x = SlotOf(t, m)' /\ table'[x].owner = ObjectId(t)
    BY <1>0, SameProgram DEF SlotsAreEntries
  <2>1. CASE x \in DOMAIN table
    <3>1. PICK t \in Struct : Placed(t) /\ \E m \in Entries(t) :
             x = SlotOf(t, m) /\ table[x].owner = ObjectId(t)
      BY <2>1 DEF TableInv, SlotsAreEntries
    <3> QED BY <2>1, <3>1, <1>2, <1>p, <1>t
  <2>2. CASE x \in RowSlots(s)
    <3>1. PICK m \in Entries(s) : x = shift + Col(m)
      BY <2>2 DEF RowSlots
    <3>2. table'[x] = [fn |-> implementations[m][s], owner |-> ObjectId(s)]
      BY <3>1, <1>t
    <3>3. table'[x].owner = ObjectId(s)
      BY <3>2
    <3> QED BY <3>1, <3>3, <1>1, <1>p
  <2> QED BY <2>1, <2>2, <1>p, <1>t
<1>5. DisplacementsOfRows'
  <2> SUFFICES ASSUME NEW o \in DOMAIN displacements'
               PROVE  displacements'[o] \in Nat /\ \E t \in Rows : o = ObjectId(t)
    BY <1>0, SameProgram DEF DisplacementsOfRows
  <2>1. CASE o = ObjectId(s)
    BY <2>1, <1>0, <1>p, <1>t
  <2>2. CASE o \in DOMAIN displacements
    <3>1. PICK t \in Rows : o = ObjectId(t)
      BY <2>2 DEF TableInv, DisplacementsOfRows
    <3>2. Placed(t) /\ t \in Struct
      BY <2>2, <3>1 DEF Placed, Rows
    <3> QED BY <2>2, <3>1, <3>2, <1>p, <1>t DEF TableInv, DisplacementsOfRows
  <2> QED BY <2>1, <2>2, <1>p, <1>t
<1> QED BY <1>3, <1>4, <1>5 DEF TableInv

-----------------------------------------------------------------------------
(***************************************************************************)
(* First fit needs to know what the search of the current row has seen and  *)
(* that rows are placed in the order of their object ids.                   *)
(***************************************************************************)
RowsInOrder ==
  \A s, t \in Rows : Placed(t) /\ RowBefore(s, t) => Placed(s)

Conflicts(s, k) ==
  \E m \in Entries(s) :
    k + Col(m) \in DOMAIN table /\ table[k + Col(m)].owner < ObjectId(s)

ShiftsTried ==
  \A s \in Struct : Placing(s) => \A k \in 0..(shift - 1) : Conflicts(s, k)

SearchInv == RowsInOrder /\ ShiftsTried /\ FirstFit

(***************************************************************************)
(* The owner of any slot comes before the row being placed.                 *)
(***************************************************************************)
LEMMA OwnersComeFirst ==
  ASSUME ProgramOK, TableInv, RowsInOrder,
         NEW s \in Struct, Placing(s), NEW slot \in DOMAIN table
  PROVE  table[slot].owner < ObjectId(s)
<1>1. PICK t \in Struct : Placed(t) /\ table[slot].owner = ObjectId(t)
  BY DEF TableInv, SlotsAreEntries
<1>2. s \in Rows /\ t \in Rows /\ ~RowBefore(s, t) /\ s # t
  BY <1>1 DEF Placing, Placed, RowsInOrder
<1> QED BY <1>1, <1>2, ObjectIdsDiffer

(***************************************************************************)
(* A shift that does not fit is added to those seen to conflict.            *)
(***************************************************************************)
LEMMA ShiftKeepsSearch ==
  ASSUME ProgramOK, TableInv, SearchInv, NEW s \in Struct, ShiftRow(s)
  PROVE  SearchInv'
<1>1. /\ UNCHANGED <<implementations, program, table, displacements>>
      /\ shift' = shift + 1
      /\ Placing(s) /\ ~Fits(s) /\ shift \in Nat
  BY DEF ShiftRow, program, TableInv, DisplacementsOfRows
<1>2. \A t : Placed(t)' = Placed(t)
  BY <1>1, SameProgram DEF Placed
<1>3. \A t : Placing(t)' = Placing(t)
  BY <1>1, <1>2, SameProgram DEF Placing
<1>4. \A t, k : Conflicts(t, k)' = Conflicts(t, k)
  BY <1>1, SameProgram DEF Conflicts
<1>5. RowsInOrder' /\ FirstFit'
  BY <1>1, <1>2, SameProgram DEF SearchInv, RowsInOrder, FirstFit
<1>6. Conflicts(s, shift)
  BY <1>1, OwnersComeFirst DEF Fits, Conflicts, SearchInv
<1>7. ASSUME NEW t \in Struct, Placing(t) PROVE t = s
  BY <1>1, <1>7, ObjectIdsDiffer DEF Placing
<1>8. ShiftsTried'
  <2> SUFFICES ASSUME NEW t \in Struct, Placing(t), NEW k \in 0..shift
               PROVE  Conflicts(t, k)
    BY <1>1, <1>3, <1>4 DEF ShiftsTried
  <2>1. t = s
    BY <1>7
  <2>2. CASE k = shift
    BY <2>1, <2>2, <1>6
  <2>3. CASE k \in 0..(shift - 1)
    BY <2>3 DEF SearchInv, ShiftsTried
  <2> QED BY <1>1, <2>2, <2>3
<1> QED BY <1>5, <1>8 DEF SearchInv

(***************************************************************************)
(* A row placed at the first shift without conflict is first-fit, and the   *)
(* rows before it stay so.                                                  *)
(***************************************************************************)
LEMMA PlaceKeepsSearch ==
  ASSUME ProgramOK, TableInv, SearchInv, NEW s \in Struct, PlaceRow(s)
  PROVE  SearchInv'
<1>0. /\ UNCHANGED <<implementations, program>>
      /\ Placing(s) /\ s \in Rows /\ shift' = 0 /\ shift \in Nat
  BY DEF PlaceRow, Placing, program, TableInv, DisplacementsOfRows
<1>p. /\ \A t \in Struct : Placed(t)' <=> Placed(t) \/ t = s
      /\ displacements'[ObjectId(s)] = shift
      /\ \A t \in Struct : Placed(t) =>
           displacements'[ObjectId(t)] = displacements[ObjectId(t)]
  BY PlaceRowStep
<1>t. /\ DOMAIN table \subseteq DOMAIN table'
      /\ \A slot \in DOMAIN table : table'[slot] = table[slot]
  BY PlaceRowStep
<1>1. RowsInOrder'
  <2> SUFFICES ASSUME NEW r \in Rows, NEW t \in Rows, Placed(t)', RowBefore(r, t)
               PROVE  Placed(r)'
    BY <1>0, SameProgram DEF RowsInOrder
  <2>1. r \in Struct /\ t \in Struct
    BY DEF Rows
  <2> QED BY <1>0, <1>p, <2>1 DEF SearchInv, RowsInOrder, Placing
<1>2. ShiftsTried'
  BY <1>0 DEF ShiftsTried
<1>3. FirstFit'
  <2> SUFFICES ASSUME NEW t \in Struct, Placed(t)',
                      NEW k \in 0..(displacements'[ObjectId(t)] - 1)
               PROVE  \E m \in Entries(t) :
                        /\ k + Col(m) \in DOMAIN table'
                        /\ table'[k + Col(m)].owner < ObjectId(t)
    BY <1>0, SameProgram DEF FirstFit
  <2>1. PICK m \in Entries(t) :
          k + Col(m) \in DOMAIN table /\ table[k + Col(m)].owner < ObjectId(t)
    <3>1. CASE t = s
      BY <3>1, <1>0, <1>p DEF SearchInv, ShiftsTried, Conflicts
    <3>2. CASE Placed(t)
      BY <3>2, <1>p DEF SearchInv, FirstFit
    <3> QED BY <3>1, <3>2, <1>p
  <2> QED BY <2>1, <1>t
<1> QED BY <1>1, <1>2, <1>3 DEF SearchInv

-----------------------------------------------------------------------------
(***************************************************************************)
(* Types: the functions in the table are the implementations recorded.      *)
(***************************************************************************)
LEMMA TypesAreKept ==
  ASSUME TableTypeOK, TableInv, NEW s \in Struct, ShiftRow(s) \/ PlaceRow(s)
  PROVE  TableTypeOK' /\ ProgramOK
<1>1. UNCHANGED <<implementations, program>> /\ shift \in Nat
  BY DEF ShiftRow, PlaceRow, program, TableTypeOK
<1>2. ProgramOK /\ ProgramOK'
  BY <1>1, SameProgram DEF TableTypeOK, ProgramOK
<1>3. /\ implementations' = Implementing([m \in Method |-> Implementors(m)'])
      /\ \A m \in Method : Implementors(m)' \subseteq Struct
      /\ methods' \subseteq Method
  BY <1>1 DEF TableTypeOK, Implementors, program
<1>4. CASE ShiftRow(s)
  BY <1>1, <1>2, <1>3, <1>4 DEF ShiftRow, TableTypeOK, Implementing
<1>5. CASE PlaceRow(s)
  <2>1. s \in Rows /\ shift' = 0
    BY <1>5 DEF PlaceRow, Placing
  <2>2. ObjectId(s) \in Nat
    BY <1>2, <2>1, ObjectIdsDiffer
  <2>3. \A m \in Entries(s) : Col(m) \in Nat /\ implementations[m][s] \in Fn
    <3> SUFFICES ASSUME NEW m \in Entries(s)
                 PROVE  Col(m) \in Nat /\ implementations[m][s] \in Fn
      OBVIOUS
    <3>1. m \in methods /\ m \in Method /\ s \in Implementors(m)
      BY <1>2 DEF Entries, ProgramOK
    <3>2. implementations[m] = [t \in Implementors(m) |-> SymbolOf[<<m, t>>]]
      BY <3>1 DEF TableTypeOK, Implementing
    <3>3. implementations[m][s] = SymbolOf[<<m, s>>]
      BY <3>1, <3>2
    <3> QED BY <1>2, <3>1, <3>3, ColumnsDiffer, SymbolOfEachMethod
  <2>4. DOMAIN table' = DOMAIN table \cup RowSlots(s)
    BY <1>5 DEF PlaceRow, WriteRow
  <2>5. DOMAIN table' \subseteq Nat
    BY <1>1, <2>3, <2>4 DEF TableTypeOK, RowSlots
  <2>6. ASSUME NEW slot \in DOMAIN table' PROVE table'[slot] \in [fn : Fn, owner : Nat]
    <3>1. CASE slot \in RowSlots(s)
      <4>1. MethodAt(s, slot) \in Entries(s)
        BY <3>1 DEF MethodAt, RowSlots
      <4>2. table'[slot] =
              [fn |-> implementations[MethodAt(s, slot)][s], owner |-> ObjectId(s)]
        BY <1>5, <3>1 DEF PlaceRow, WriteRow
      <4> QED BY <2>2, <2>3, <4>1, <4>2
    <3>2. CASE slot \notin RowSlots(s)
      <4>1. slot \in DOMAIN table /\ table'[slot] = table[slot]
        BY <1>5, <2>4, <3>2 DEF PlaceRow, WriteRow
      <4> QED BY <4>1 DEF TableTypeOK
    <3> QED BY <3>1, <3>2
  <2>7. /\ DOMAIN displacements' \subseteq Nat
        /\ \A o \in DOMAIN displacements' : displacements'[o] \in Nat
    BY <1>1, <1>5, <2>2 DEF PlaceRow, WriteRow, TableTypeOK
  <2> QED BY <1>2, <1>3, <2>1, <2>5, <2>6, <2>7 DEF TableTypeOK, Implementing
<1> QED BY <1>2, <1>4, <1>5

(***************************************************************************)
(* An empty table is exact.                                                 *)
(***************************************************************************)
LEMMA EmptyTableInv ==
  ASSUME EmptyTable PROVE TableInv /\ SearchInv
<1>1. DOMAIN table = {} /\ DOMAIN displacements = {} /\ shift = 0
  BY DEF EmptyTable
<1>2. \A s : ~Placed(s)
  BY <1>1 DEF Placed
<1>3. EntriesAreIn /\ SlotsAreEntries /\ DisplacementsOfRows
  BY <1>1, <1>2 DEF EntriesAreIn, SlotsAreEntries, DisplacementsOfRows
<1>4. RowsInOrder /\ ShiftsTried /\ FirstFit
  BY <1>1, <1>2 DEF RowsInOrder, ShiftsTried, FirstFit
<1> QED BY <1>3, <1>4 DEF TableInv, SearchInv

DispatchInv == TableTypeOK /\ TableInv /\ SearchInv

(***************************************************************************)
(* One step of BuildDispatchTable keeps all of it.                          *)
(***************************************************************************)
LEMMA BuildStepKeeps ==
  ASSUME DispatchInv, BuildStep
  PROVE  DispatchInv'
<1>1. PICK s \in Struct : ShiftRow(s) \/ PlaceRow(s)
  BY DEF BuildStep
<1>2. TableTypeOK' /\ ProgramOK
  BY <1>1, TypesAreKept DEF DispatchInv
<1>3. CASE ShiftRow(s)
  BY <1>2, <1>3, ShiftKeepsTable, ShiftKeepsSearch DEF DispatchInv
<1>4. CASE PlaceRow(s)
  BY <1>2, <1>4, PlaceKeepsTable, PlaceKeepsSearch DEF DispatchInv
<1> QED BY <1>1, <1>3, <1>4

(***************************************************************************)
(* The invariant depends on the variables of the table alone.               *)
(***************************************************************************)
LEMMA DispatchStutters ==
  ASSUME DispatchInv, UNCHANGED dispatchVars
  PROVE  DispatchInv'
<1>1. /\ UNCHANGED <<implementations, program, table, displacements, shift, methods, linked>>
  BY DEF dispatchVars, program
<1>2. \A t : Placed(t)' = Placed(t)
  BY <1>1, SameProgram DEF Placed
<1>3. \A t, m : SlotOf(t, m)' = SlotOf(t, m)
  BY <1>1, SameProgram DEF SlotOf
<1>4. TableInv'
  BY <1>1, <1>2, <1>3, SameProgram
  DEF DispatchInv, TableInv, EntriesAreIn, SlotsAreEntries, DisplacementsOfRows
<1>5. \A t, k : Conflicts(t, k)' = Conflicts(t, k)
  BY <1>1, SameProgram DEF Conflicts
<1>6. \A t : Placing(t)' = Placing(t)
  BY <1>1, <1>2, SameProgram DEF Placing
<1>7. RowsInOrder' /\ FirstFit'
  BY <1>1, <1>2, SameProgram DEF DispatchInv, SearchInv, RowsInOrder, FirstFit
<1>8. ShiftsTried'
  BY <1>1, <1>5, <1>6 DEF DispatchInv, SearchInv, ShiftsTried
<1>9. TableTypeOK'
  BY <1>1 DEF DispatchInv, TableTypeOK, Implementors
<1> QED BY <1>4, <1>7, <1>8, <1>9 DEF DispatchInv, SearchInv

-----------------------------------------------------------------------------
(***************************************************************************)
(* The invariant holds throughout the building of a table.                  *)
(***************************************************************************)
THEOREM Invariance == DispatchSpec => [](DispatchInv /\ linked \subseteq Fn)
<1>1. DispatchInit => DispatchInv /\ linked \subseteq Fn
  <2> SUFFICES ASSUME DispatchInit PROVE DispatchInv /\ linked \subseteq Fn
    OBVIOUS
  <2>1. PICK implementors \in [Method -> SUBSET Struct] :
          implementations = Implementing(implementors)
    BY DEF DispatchInit
  <2>2. \A m \in Method : Implementors(m) = implementors[m]
    BY <2>1 DEF Implementing, Implementors
  <2>3. implementations = Implementing([m \in Method |-> Implementors(m)])
    BY <2>1, <2>2 DEF Implementing
  <2>4. TableTypeOK
    BY <2>1, <2>2, <2>3 DEF DispatchInit, TableTypeOK, EmptyTable
  <2> QED BY <2>4, EmptyTableInv DEF DispatchInit, DispatchInv
<1>2. DispatchInv /\ linked \subseteq Fn /\ [DispatchNext]_dispatchVars
        => DispatchInv' /\ (linked \subseteq Fn)'
  <2> SUFFICES ASSUME DispatchInv, linked \subseteq Fn, [DispatchNext]_dispatchVars
               PROVE  DispatchInv' /\ (linked \subseteq Fn)'
    OBVIOUS
  <2>1. CASE BuildStep
    <3>1. linked' = linked
      BY <2>1 DEF BuildStep, ShiftRow, PlaceRow, program
    <3> QED BY <2>1, <3>1, BuildStepKeeps
  <2>2. CASE UNCHANGED dispatchVars
    <3>1. linked' = linked
      BY <2>2 DEF dispatchVars
    <3> QED BY <2>2, <3>1, DispatchStutters
  <2> QED BY <2>1, <2>2 DEF DispatchNext, Built
<1> QED BY <1>1, <1>2, PTL DEF DispatchSpec

(***************************************************************************)
(* The table, its displacements and what they are computed from keep their  *)
(* types while rows are placed.                                             *)
(***************************************************************************)
THEOREM DispatchTypesHold == DispatchSpec => []DispatchTypeOK
<1>1. DispatchInv /\ linked \subseteq Fn => DispatchTypeOK
  BY DEF DispatchInv, DispatchTypeOK
<1> QED BY <1>1, Invariance, PTL

(***************************************************************************)
(* For any set of interfaces and structs, a virtual call runs the method of *)
(* its receiver, and the owner check stops it when there is none.           *)
(***************************************************************************)
THEOREM DispatchIsExact == DispatchSpec => []DispatchExact
<1>1. DispatchInv => DispatchExact
  BY TableInvIsExact DEF DispatchInv, TableTypeOK, ProgramOK
<1> QED BY <1>1, Invariance, PTL

(***************************************************************************)
(* For any set of interfaces and structs, no row could have been placed at  *)
(* a smaller displacement when it was placed.                               *)
(***************************************************************************)
THEOREM RowsFitFirst == DispatchSpec => []FirstFit
<1>1. DispatchInv => FirstFit
  BY DEF DispatchInv, SearchInv
<1> QED BY <1>1, Invariance, PTL

-----------------------------------------------------------------------------
(* The worklist and the linker.                                              *)

Reached == processed \cup todo

Worklist ==
  /\ todo \subseteq Callable /\ processed \subseteq Callable
  /\ body \in [Fn -> SUBSET (Callable \cup Struct)]
  /\ \A f \in Objects : body[f] \in Bodies[f]
  /\ \A f \in Fn \ processed : body[f] = {}
  /\ methods = {m \in processed \cap Method : Implementors(m) # {}}

Search ==
  /\ Main \in Reached
  /\ \A x \in processed : Needs(x) \subseteq Reached
  /\ \A symbols : Closed(symbols) => Reached \subseteq symbols
  /\ Reached \cap Method \subseteq CalledMethods

Phases ==
  /\ phase \in {"discover", "table", "linked", "fatal"}
  /\ linked \subseteq Fn \cup Extern
  /\ phase = "discover" => EmptyTable
  /\ phase # "discover" => todo = {}
  /\ phase \in {"table", "linked"} =>
       linked = Objects \cup Externals /\ Externals \subseteq Provided
  /\ phase = "linked" => AllPlaced /\ \A f \in Objects : Patchable(f)
  /\ phase = "fatal" => HasUnlinkable

LinkInv == DispatchInv /\ Worklist /\ Search /\ Phases

(***************************************************************************)
(* Until the table is built, its invariant only speaks of the types: any    *)
(* step that leaves it empty keeps it.                                      *)
(***************************************************************************)
LEMMA EmptyTableKept ==
  ASSUME TableTypeOK, EmptyTable, methods' \subseteq Method,
         UNCHANGED <<implementations, table, displacements, shift>>
  PROVE  DispatchInv' /\ EmptyTable'
<1>1. EmptyTable'
  BY DEF EmptyTable
<1>2. TableInv' /\ SearchInv'
  <2>1. DOMAIN table' = {} /\ DOMAIN displacements' = {} /\ shift' = 0
    BY DEF EmptyTable
  <2>2. \A s : ~Placed(s)'
    BY <2>1 DEF Placed
  <2>3. EntriesAreIn' /\ SlotsAreEntries' /\ DisplacementsOfRows'
    BY <2>1, <2>2 DEF EntriesAreIn, SlotsAreEntries, DisplacementsOfRows
  <2>4. RowsInOrder' /\ ShiftsTried' /\ FirstFit'
    BY <2>1, <2>2 DEF RowsInOrder, ShiftsTried, FirstFit
  <2> QED BY <2>3, <2>4 DEF TableInv, SearchInv
<1>3. /\ implementations' = Implementing([m \in Method |-> Implementors(m)'])
      /\ \A m \in Method : Implementors(m)' \subseteq Struct
  BY DEF TableTypeOK, Implementors
<1>4. TableTypeOK'
  BY <1>3 DEF TableTypeOK, Implementing
<1> QED BY <1>4, <1>1, <1>2, <1>3 DEF DispatchInv

(***************************************************************************)
(* Initially only main() is to be processed.                                *)
(***************************************************************************)
LEMMA InitLinkInv == Init => LinkInv
<1> SUFFICES ASSUME Init PROVE LinkInv
  OBVIOUS
<1>1. PICK implementors \in [Method -> SUBSET Struct] :
        implementations = Implementing(implementors)
  BY DEF Init
<1>2. \A m \in Method : Implementors(m) = implementors[m]
  BY <1>1 DEF Implementing, Implementors
<1>3. TableTypeOK
  BY <1>1, <1>2 DEF Init, TableTypeOK, EmptyTable, Implementing
<1>4. DispatchInv
  BY <1>3, EmptyTableInv DEF Init, DispatchInv
<1>5. Worklist
  BY MainIsAFunction DEF Init, Worklist, Callable, Objects
<1>6. Search
  BY MainIsAFunction, DistinctSymbols DEF Init, Search, Reached, Closed
<1>7. Phases
  BY DEF Init, Phases
<1> QED BY <1>4, <1>5, <1>6, <1>7 DEF LinkInv

(***************************************************************************)
(* Taking a symbol that was processed before.                               *)
(***************************************************************************)
LEMMA SkipKeeps ==
  ASSUME LinkInv, NEW x, SkipProcessed(x)
  PROVE  LinkInv'
<1>1. /\ UNCHANGED <<implementations, linked, table, displacements, shift, phase,
                     methods, processed, body>>
      /\ todo' = todo \ {x} /\ x \in processed /\ phase = "discover"
  BY DEF SkipProcessed, Take
<1>2. Reached' = Reached
  BY <1>1 DEF Reached
<1>3. DispatchInv' /\ EmptyTable'
  BY <1>1, EmptyTableKept DEF LinkInv, DispatchInv, TableTypeOK, Phases
<1>4. Worklist'
  BY <1>1 DEF LinkInv, Worklist, Objects, Implementors
<1>5. \A y : Needs(y)' = Needs(y)
  BY <1>1 DEF Needs, Implementors
<1>6. CalledMethods' = CalledMethods
  BY <1>1 DEF CalledMethods, Objects
<1>7. Search'
  BY <1>1, <1>2, <1>5, <1>6 DEF LinkInv, Search, Closed
<1>8. Phases'
  BY <1>1, <1>3 DEF LinkInv, Phases
<1> QED BY <1>3, <1>4, <1>7, <1>8 DEF LinkInv

(***************************************************************************)
(* An extern function needs nothing.                                        *)
(***************************************************************************)
LEMMA ExternKeeps ==
  ASSUME LinkInv, NEW x, ProcessExtern(x)
  PROVE  LinkInv'
<1>1. /\ UNCHANGED <<implementations, linked, table, displacements, shift, phase,
                     methods, body>>
      /\ todo' = todo \ {x} /\ processed' = processed \cup {x}
      /\ x \in todo /\ x \in Extern /\ phase = "discover"
  BY DEF ProcessExtern, Take
<1>2. Reached' = Reached /\ x \notin Fn /\ x \notin Method
  BY <1>1, DistinctSymbols DEF Reached
<1>3. DispatchInv' /\ EmptyTable'
  BY <1>1, EmptyTableKept DEF LinkInv, DispatchInv, TableTypeOK, Phases
<1>4. Objects' = Objects
  BY <1>1, <1>2 DEF Objects
<1>5. Worklist'
  BY <1>1, <1>2, <1>4 DEF LinkInv, Worklist, Implementors, Callable
<1>6. (\A y : Needs(y)' = Needs(y)) /\ Needs(x) = {}
  BY <1>1, <1>2 DEF Needs, Implementors
<1>7. CalledMethods' = CalledMethods
  BY <1>1, <1>4 DEF CalledMethods
<1>8. Search'
  BY <1>1, <1>2, <1>6, <1>7 DEF LinkInv, Search, Closed
<1>9. Phases'
  BY <1>1, <1>3 DEF LinkInv, Phases
<1> QED BY <1>3, <1>5, <1>8, <1>9 DEF LinkInv

(***************************************************************************)
(* An interface method needs all of its implementations.                    *)
(***************************************************************************)
LEMMA MethodKeeps ==
  ASSUME LinkInv, NEW x, ProcessMethod(x)
  PROVE  LinkInv'
<1>1. /\ UNCHANGED <<implementations, linked, table, displacements, shift, phase, body>>
      /\ todo' = (todo \ {x}) \cup {implementations[x][s] : s \in Implementors(x)}
      /\ processed' = processed \cup {x}
      /\ methods' = methods \cup {k \in {x} : Implementors(k) # {}}
      /\ x \in todo /\ x \in Method /\ phase = "discover"
  BY DEF ProcessMethod, Take
<1>2. x \notin Fn /\ x \notin Extern /\ Method \cap Fn = {}
  BY <1>1, DistinctSymbols
<1>3. DispatchInv' /\ EmptyTable'
  BY <1>1, EmptyTableKept DEF LinkInv, DispatchInv, TableTypeOK, Phases
<1>4. Objects' = Objects
  BY <1>1, <1>2 DEF Objects
<1>5. Needs(x) = {implementations[x][s] : s \in Implementors(x)}
  BY <1>1, <1>2 DEF Needs
<1>6. Needs(x) \subseteq Fn
  <2> SUFFICES ASSUME NEW s \in Implementors(x) PROVE implementations[x][s] \in Fn
    BY <1>5
  <2>1. implementations[x] = [t \in Implementors(x) |-> SymbolOf[<<x, t>>]]
    BY <1>1 DEF LinkInv, DispatchInv, TableTypeOK, Implementing
  <2>2. s \in Struct
    BY <1>1 DEF LinkInv, DispatchInv, TableTypeOK
  <2> QED BY <1>1, <2>1, <2>2, SymbolOfEachMethod
<1>7. Worklist'
  BY <1>1, <1>2, <1>4, <1>5, <1>6 DEF LinkInv, Worklist, Implementors, Callable
<1>8. \A y : Needs(y)' = Needs(y)
  BY <1>1 DEF Needs, Implementors
<1>9. CalledMethods' = CalledMethods
  BY <1>1, <1>4 DEF CalledMethods
<1>10. Reached' = Reached \cup Needs(x) /\ x \in Reached
  BY <1>1, <1>5 DEF Reached
<1>11. \A symbols : Closed(symbols)' = Closed(symbols)
  BY <1>8 DEF Closed
<1>12. Search'
  BY <1>1, <1>2, <1>6, <1>8, <1>9, <1>10, <1>11 DEF LinkInv, Search, Closed
<1>13. Phases'
  BY <1>1, <1>3 DEF LinkInv, Phases
<1> QED BY <1>3, <1>7, <1>12, <1>13 DEF LinkInv

(***************************************************************************)
(* A function needs what its body, known from now on, calls.                *)
(***************************************************************************)
LEMMA BodyKeeps ==
  ASSUME LinkInv, NEW f, NEW refersTo, GenerateBody(f, refersTo)
  PROVE  LinkInv'
<1>1. /\ UNCHANGED <<implementations, linked, table, displacements, shift, phase, methods>>
      /\ todo' = (todo \ {f}) \cup (refersTo \cap Callable)
      /\ processed' = processed \cup {f}
      /\ body' = [body EXCEPT ![f] = refersTo]
      /\ f \in todo /\ f \in Fn /\ f \notin processed /\ phase = "discover"
      /\ refersTo \in Bodies[f]
  BY DEF GenerateBody, Take
<1>2. f \notin Method /\ f \notin Extern /\ refersTo \subseteq Callable \cup Struct
  BY <1>1, DistinctSymbols, BodiesReferToSymbols DEF Callable
<1>3. DispatchInv' /\ EmptyTable'
  BY <1>1, EmptyTableKept DEF LinkInv, DispatchInv, TableTypeOK, Phases
<1>4. Objects' = Objects \cup {f}
  BY <1>1 DEF Objects
<1>5. body'[f] = refersTo /\ \A g \in Fn : g # f => body'[g] = body[g]
  BY <1>1 DEF LinkInv, Worklist
<1>6. Worklist'
  <2>1. todo' \subseteq Callable /\ processed' \subseteq Callable
    BY <1>1 DEF LinkInv, Worklist, Callable
  <2>2. body' \in [Fn -> SUBSET (Callable \cup Struct)]
    BY <1>1, <1>2 DEF LinkInv, Worklist
  <2>3. \A g \in Objects' : body'[g] \in Bodies[g]
    BY <1>1, <1>4, <1>5 DEF LinkInv, Worklist, Objects
  <2>4. \A g \in Fn \ processed' : body'[g] = {}
    BY <1>1, <1>5 DEF LinkInv, Worklist
  <2>5. methods' = {m \in processed' \cap Method : Implementors(m)' # {}}
    BY <1>1, <1>2 DEF LinkInv, Worklist, Implementors
  <2> QED BY <2>1, <2>2, <2>3, <2>4, <2>5 DEF Worklist
<1>7. /\ Needs(f) = {} /\ Needs(f)' = refersTo \cap Callable
      /\ \A y : y # f => Needs(y)' = Needs(y)
  <2>1. Needs(f) = {}
    BY <1>1 DEF LinkInv, Worklist, Needs
  <2>2. Needs(f)' = refersTo \cap Callable
    BY <1>1, <1>5 DEF Needs
  <2>3. \A y : y # f => Needs(y)' = Needs(y)
    BY <1>1, <1>5 DEF Needs, Implementors
  <2> QED BY <2>1, <2>2, <2>3
<1>8. Reached' = Reached \cup (refersTo \cap Callable) /\ f \in Reached
  BY <1>1 DEF Reached
<1>9. \A symbols : Closed(symbols)' => Closed(symbols) /\ Needs(f)' \subseteq symbols
  <2> SUFFICES ASSUME NEW symbols, Closed(symbols)'
               PROVE  Closed(symbols) /\ Needs(f)' \subseteq symbols
    OBVIOUS
  <2>1. Main \in symbols /\ \A y \in symbols : Needs(y)' \subseteq symbols
    BY DEF Closed
  <2>2. Closed(symbols)
    BY <1>7, <2>1 DEF Closed
  <2>3. f \in symbols
    BY <1>8, <2>2 DEF LinkInv, Search
  <2> QED BY <2>1, <2>2, <2>3
<1>10. CalledMethods' = CalledMethods \cup (refersTo \cap Method)
  <2>1. \A g \in Objects : body'[g] = body[g]
    BY <1>1, <1>5 DEF Objects
  <2> QED BY <1>4, <1>5, <2>1 DEF CalledMethods
<1>11. Search'
  <2>1. Main \in Reached'
    BY <1>8 DEF LinkInv, Search
  <2>2. \A y \in processed' : Needs(y)' \subseteq Reached'
    BY <1>1, <1>7, <1>8 DEF LinkInv, Search
  <2>3. \A symbols : Closed(symbols)' => Reached' \subseteq symbols
    BY <1>7, <1>8, <1>9 DEF LinkInv, Search
  <2>4. Reached' \cap Method \subseteq CalledMethods'
    BY <1>8, <1>10 DEF LinkInv, Search
  <2> QED BY <2>1, <2>2, <2>3, <2>4 DEF Search
<1>12. Phases'
  BY <1>1, <1>3 DEF LinkInv, Phases
<1> QED BY <1>3, <1>6, <1>11, <1>12 DEF LinkInv

-----------------------------------------------------------------------------
(***************************************************************************)
(* When all is processed, the methods of the table are the methods called.  *)
(***************************************************************************)
LEMMA CalledAreProcessed ==
  ASSUME LinkInv, todo = {}
  PROVE  /\ CalledMethods = processed \cap Method
         /\ \A f \in Objects : body[f] \cap Callable \subseteq processed
<1>1. Reached = processed
  BY DEF Reached
<1>2. \A f \in Objects : Needs(f) = body[f] \cap Callable
  BY DEF Objects, Needs
<1>3. \A f \in Objects : body[f] \cap Callable \subseteq processed
  BY <1>1, <1>2 DEF LinkInv, Search, Objects
<1> QED BY <1>1, <1>3 DEF LinkInv, Search, CalledMethods, Callable

(***************************************************************************)
(* The functions get their indices; the table is still empty.               *)
(***************************************************************************)
LEMMA NumberKeeps ==
  ASSUME LinkInv, NumberFunctions \/ UnableToLink
  PROVE  LinkInv'
<1>1. /\ UNCHANGED <<implementations, methods, table, displacements, shift, todo,
                     processed, body>>
      /\ phase = "discover" /\ todo = {}
  BY DEF NumberFunctions, UnableToLink, Finish
<1>2. DispatchInv' /\ EmptyTable'
  BY <1>1, EmptyTableKept DEF LinkInv, DispatchInv, TableTypeOK, Phases
<1>3. Worklist'
  BY <1>1 DEF LinkInv, Worklist, Objects, Implementors
<1>4. Search'
  BY <1>1 DEF LinkInv, Search, Reached, Closed, Needs, Implementors, CalledMethods, Objects
<1>5. Objects' = Objects /\ Externals' = Externals
  BY <1>1 DEF Objects, Externals
<1>6. CASE NumberFunctions
  <2>1. phase' = "table" /\ linked' = Objects \cup Externals /\ Externals \subseteq Provided
    BY <1>6 DEF NumberFunctions, Finish
  <2>2. Phases'
    BY <1>1, <1>5, <2>1 DEF Phases, Objects, Externals
  <2> QED BY <1>2, <1>3, <1>4, <2>2 DEF LinkInv
<1>7. CASE UnableToLink
  <2>1. phase' = "fatal" /\ linked' = linked /\ ~(Externals \subseteq Provided)
    BY <1>7 DEF UnableToLink, Finish
  <2>2. Phases'
    BY <1>1, <1>5, <2>1 DEF LinkInv, Phases, HasUnlinkable
  <2> QED BY <1>2, <1>3, <1>4, <2>2 DEF LinkInv
<1> QED BY <1>6, <1>7

(***************************************************************************)
(* Building the table concerns the table alone.                             *)
(***************************************************************************)
LEMMA BuildKeeps ==
  ASSUME LinkInv, BuildTable
  PROVE  LinkInv'
<1>1. /\ UNCHANGED <<implementations, methods, linked, todo, processed, body, phase>>
      /\ phase = "table" /\ BuildStep
  BY DEF BuildTable, BuildStep, ShiftRow, PlaceRow, program
<1>2. DispatchInv'
  BY <1>1, BuildStepKeeps DEF LinkInv
<1>3. Worklist'
  BY <1>1 DEF LinkInv, Worklist, Objects, Implementors
<1>4. Search'
  BY <1>1 DEF LinkInv, Search, Reached, Closed, Needs, Implementors, CalledMethods, Objects
<1>5. Phases'
  BY <1>1 DEF LinkInv, Phases, Objects, Externals
<1> QED BY <1>2, <1>3, <1>4, <1>5 DEF LinkInv

(***************************************************************************)
(* What Assembler::Build finds when it patches the bodies.  A body that     *)
(* cannot be patched has an interface without implementation or a struct    *)
(* without row to blame.                                                    *)
(***************************************************************************)
LEMMA UnpatchableIsUnlinkable ==
  ASSUME LinkInv, phase = "table", NEW f \in Objects, ~Patchable(f)
  PROVE  HasUnlinkable
<1>1. todo = {} /\ linked = Objects \cup Externals
  BY DEF LinkInv, Phases
<1>2. CASE ~(body[f] \cap Callable \subseteq linked \cup methods)
  <2>1. PICK x \in body[f] \cap Callable : x \notin linked /\ x \notin methods
    BY <1>2
  <2>2. x \in processed /\ x \in Method
    BY <1>1, <2>1, CalledAreProcessed DEF Callable, Objects, Externals
  <2>3. x \in CalledMethods /\ Implementors(x) = {}
    BY <1>1, <2>1, <2>2, CalledAreProcessed DEF LinkInv, Worklist
  <2> QED BY <2>3 DEF HasUnlinkable
<1>3. CASE ~(body[f] \cap Struct \subseteq Rows)
  <2>1. PICK s \in body[f] \cap Struct : s \notin Rows
    BY <1>3
  <2>2. s \in Constructed
    BY <2>1 DEF Constructed
  <2>3. ASSUME NEW m \in CalledMethods, s \in Implementors(m) PROVE FALSE
    <3>1. m \in processed /\ m \in Method /\ m \in methods
      BY <1>1, <2>3, CalledAreProcessed DEF LinkInv, Worklist
    <3>2. implementations[m][s] \in processed
      BY <1>1, <2>3, <3>1, DistinctSymbols DEF LinkInv, Search, Reached, Needs
    <3>3. implementations[m] = [t \in Implementors(m) |-> SymbolOf[<<m, t>>]]
      BY <3>1 DEF LinkInv, DispatchInv, TableTypeOK, Implementing
    <3>4. implementations[m][s] \in Fn
      BY <2>1, <2>3, <3>1, <3>3, SymbolOfEachMethod
    <3>5. m \in Entries(s)
      BY <1>1, <2>3, <3>1, <3>2, <3>4 DEF Entries, Objects
    <3> QED BY <2>1, <3>5 DEF Rows
  <2> QED BY <2>2, <2>3 DEF HasUnlinkable
<1> QED BY <1>2, <1>3 DEF Patchable

(***************************************************************************)
(* The compiler stops, with a program or without.                           *)
(***************************************************************************)
LEMMA AssembleKeeps ==
  ASSUME LinkInv, Assemble \/ NeverLinked
  PROVE  LinkInv'
<1>1. /\ UNCHANGED <<implementations, methods, linked, table, displacements, shift, todo,
                     processed, body>>
      /\ phase = "table" /\ AllPlaced
  BY DEF Assemble, NeverLinked, Finish
<1>2. DispatchInv'
  BY <1>1, DispatchStutters DEF LinkInv, dispatchVars
<1>3. Worklist'
  BY <1>1 DEF LinkInv, Worklist, Objects, Implementors
<1>4. Search'
  BY <1>1 DEF LinkInv, Search, Reached, Closed, Needs, Implementors, CalledMethods, Objects
<1>5. /\ Objects' = Objects /\ Externals' = Externals /\ Rows' = Rows
      /\ \A s : Placed(s)' = Placed(s)
  BY <1>1, SameProgram DEF Objects, Externals, Placed, program
<1>6. CASE Assemble
  <2>1. phase' = "linked" /\ \A f \in Objects : Patchable(f)
    BY <1>6 DEF Assemble, Finish
  <2>2. AllPlaced' /\ \A f \in Objects' : Patchable(f)'
    BY <1>1, <1>5, <2>1 DEF AllPlaced, Patchable
  <2>3. Phases'
    BY <1>1, <1>5, <2>1, <2>2 DEF LinkInv, Phases
  <2> QED BY <1>2, <1>3, <1>4, <2>3 DEF LinkInv
<1>7. CASE NeverLinked
  <2>1. phase' = "fatal" /\ HasUnlinkable
    BY <1>1, <1>7, UnpatchableIsUnlinkable DEF NeverLinked, Finish
  <2>2. HasUnlinkable'
    BY <1>1, <1>5, <2>1
    DEF HasUnlinkable, CalledMethods, Constructed, Implementors
  <2>3. Phases'
    BY <1>1, <2>1, <2>2 DEF LinkInv, Phases
  <2> QED BY <1>2, <1>3, <1>4, <2>3 DEF LinkInv
<1> QED BY <1>6, <1>7

-----------------------------------------------------------------------------
(***************************************************************************)
(* The invariant holds while any program is compiled.                       *)
(***************************************************************************)
THEOREM LinkInvariance == Spec => []LinkInv
<1>1. LinkInv /\ [Next]_vars => LinkInv'
  <2> SUFFICES ASSUME LinkInv, [Next]_vars PROVE LinkInv'
    OBVIOUS
  <2>1. CASE ProcessSymbol
    BY <2>1, SkipKeeps, ExternKeeps, MethodKeeps, BodyKeeps DEF ProcessSymbol
  <2>2. CASE NumberFunctions \/ UnableToLink
    BY <2>2, NumberKeeps
  <2>3. CASE BuildTable
    BY <2>3, BuildKeeps
  <2>4. CASE Assemble \/ NeverLinked
    BY <2>4, AssembleKeeps
  <2>5. CASE UNCHANGED vars
    <3>1. UNCHANGED <<dispatchVars, implementations, methods, linked, table, displacements,
                      shift, program, todo, processed, body, phase>>
      BY <2>5 DEF vars, dispatchVars, program
    <3>2. DispatchInv'
      BY <3>1, DispatchStutters DEF LinkInv
    <3>3. Worklist'
      BY <3>1 DEF LinkInv, Worklist, Objects, Implementors
    <3>4. Search'
      BY <3>1 DEF LinkInv, Search, Reached, Closed, Needs, Implementors,
                  CalledMethods, Objects
    <3>5. /\ Rows' = Rows
          /\ \A s : Placed(s)' = Placed(s)
      BY <3>1, SameProgram DEF Placed
    <3>6. Phases'
      BY <3>1, <3>5
      DEF LinkInv, Phases, EmptyTable, AllPlaced, Patchable, Objects, Externals,
          HasUnlinkable, CalledMethods, Constructed, Implementors
    <3> QED BY <3>2, <3>3, <3>4, <3>6 DEF LinkInv
  <2> QED BY <2>1, <2>2, <2>3, <2>4, <2>5 DEF Next, Compile, Stopped
<1> QED BY <1>1, InitLinkInv, PTL DEF Spec

(***************************************************************************)
(* The state of the compiler keeps its types.                               *)
(***************************************************************************)
THEOREM LinkTypesHold == Spec => []TypeOK
<1>1. LinkInv => TypeOK
  BY DEF LinkInv, DispatchInv, Worklist, Phases, TypeOK
<1> QED BY <1>1, LinkInvariance, PTL

(***************************************************************************)
(* The image of any program holds what main() needs, all of it and nothing  *)
(* else.                                                                    *)
(***************************************************************************)
THEOREM ShakenTree == Spec => []TreeShaken
<1>1. LinkInv => TreeShaken
  <2> SUFFICES ASSUME LinkInv, phase # "discover" PROVE
        /\ Closed(processed)
        /\ \A symbols \in SUBSET processed : Closed(symbols) => symbols = processed
    BY DEF TreeShaken
  <2>1. Reached = processed
    BY DEF LinkInv, Phases, Reached
  <2> QED BY <2>1 DEF LinkInv, Search, Closed
<1> QED BY <1>1, LinkInvariance, PTL

(***************************************************************************)
(* In any program that links, every virtual call on an object it can        *)
(* construct runs the object's own method.                                  *)
(***************************************************************************)
THEOREM CallsReach == Spec => []VirtualCallsReach
<1>1. LinkInv => VirtualCallsReach
  <2> SUFFICES ASSUME LinkInv, phase = "linked",
                      NEW m \in CalledMethods, NEW s \in Constructed, s \in Implementors(m)
               PROVE  /\ Dispatch(ObjectId(s), Col(m)) = {implementations[m][s]}
                      /\ implementations[m][s] \in Objects
    BY DEF VirtualCallsReach
  <2>1. todo = {} /\ linked = Objects \cup Externals /\ AllPlaced
    BY DEF LinkInv, Phases
  <2>2. m \in processed /\ m \in Method /\ m \in methods /\ s \in Struct
    BY <2>1, CalledAreProcessed DEF LinkInv, Worklist, Constructed
  <2>3. implementations[m] = [t \in Implementors(m) |-> SymbolOf[<<m, t>>]]
    BY <2>2 DEF LinkInv, DispatchInv, TableTypeOK, Implementing
  <2>4. implementations[m][s] \in Fn
    BY <2>2, <2>3, SymbolOfEachMethod
  <2>5. implementations[m][s] \in Objects
    BY <2>1, <2>2, <2>4, DistinctSymbols DEF LinkInv, Search, Reached, Needs, Objects
  <2>6. m \in Entries(s) /\ Placed(s)
    BY <2>1, <2>2, <2>5 DEF Entries, Rows, AllPlaced
  <2>7. DispatchExact
    BY TableInvIsExact DEF LinkInv, DispatchInv, TableTypeOK, ProgramOK
  <2>8. Dispatch(ObjectId(s), Col(m)) = {implementations[k][s] : k \in Entries(s) \cap {m}}
    BY <2>2, <2>6, <2>7 DEF DispatchExact
  <2>9. Entries(s) \cap {m} = {m}
    BY <2>6
  <2> QED BY <2>5, <2>8, <2>9
<1> QED BY <1>1, LinkInvariance, PTL

(***************************************************************************)
(* No other program is refused than those with something that cannot be     *)
(* linked, and none of these is accepted.                                   *)
(***************************************************************************)
THEOREM StopsExactly == Spec => []StopsOnlyOnUnlinkable
<1>1. LinkInv => StopsOnlyOnUnlinkable
  <2> SUFFICES ASSUME LinkInv, phase = "linked" PROVE ~HasUnlinkable
    BY DEF LinkInv, Phases, StopsOnlyOnUnlinkable
  <2>1. /\ todo = {} /\ linked = Objects \cup Externals /\ Externals \subseteq Provided
        /\ \A f \in Objects : Patchable(f)
    BY DEF LinkInv, Phases
  <2>2. CalledMethods \subseteq methods
    BY <2>1, DistinctSymbols DEF CalledMethods, Patchable, Callable, Objects, Externals
  <2>3. \A m \in CalledMethods : Implementors(m) # {}
    BY <2>2 DEF LinkInv, Worklist
  <2>4. ASSUME NEW s \in Constructed PROVE \E m \in CalledMethods : s \in Implementors(m)
    <3>1. s \in Rows
      BY <2>1 DEF Constructed, Patchable
    <3>2. PICK m \in methods : s \in Implementors(m)
      BY <3>1 DEF Rows, Entries
    <3>3. m \in CalledMethods
      BY <2>1, CalledAreProcessed DEF LinkInv, Worklist
    <3> QED BY <3>2, <3>3
  <2> QED BY <2>1, <2>3, <2>4 DEF HasUnlinkable
<1> QED BY <1>1, LinkInvariance, PTL
=============================================================================
