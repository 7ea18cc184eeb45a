----------------------------- MODULE RefCounts ------------------------------
(***************************************************************************)
(* The reference-counted heap of the VM (ref_count_t in src/src/types.h,    *)
(* rc_increment and rc_decrement in src/src/vm.c) as operators on a heap    *)
(* value, so that a native function of the VM is an operator too.           *)
(*                                                                          *)
(* rc_decrement runs the deleter of an object whose count reaches zero, and *)
(* the deleter decrements what the object holds, and so on.  Here such an   *)
(* object is first only marked `dying`, and Destroy runs its deleter: the   *)
(* nesting becomes a worklist, and nothing else may run until it is empty.  *)
(***************************************************************************)
EXTENDS Integers, Sequences, FiniteSets

CONSTANTS
  Object,      \* addresses of the heap; a freed one may be allocated again
  Unit         \* any value that is not a reference: Unit, Nil, a number...

ASSUME UnitIsNotAnObject == Unit \notin Object
ASSUME MemoryIsFinite    == IsFiniteSet(Object)

Value == Object \cup {Unit}

(***************************************************************************)
(* A heap h: h.cell[o] is the object at o, h.dying the objects whose        *)
(* deleter has still to run.  `contents` is what the deleter releases: the  *)
(* elements of an array or object, the bound arguments of a closure.        *)
(***************************************************************************)
NoCell == [kind |-> "free", count |-> 0, contents |-> <<>>]

\* How often v occurs in the sequence s.
Occurrences(v, s) == Cardinality({i \in DOMAIN s : s[i] = v})

Live(h, o) == h.cell[o].kind # "free"
Fresh(h)   == {o \in Object : ~ Live(h, o)}
Settled(h) == h.dying = {}

\* A new object of count 1: vm_gc_allocate or calloc, then vm_adopt_ref.
Place(h, o, kind, contents) ==
  [h EXCEPT !.cell[o] = [kind |-> kind, count |-> 1, contents |-> contents]]

\* vm_adopt_ref / rc_increment, and rc_decrement / vm_free_ref, of every
\* value of the sequence vs.
AdoptAll(h, vs) ==
  [h EXCEPT !.cell = [o \in Object |->
     [h.cell[o] EXCEPT !.count = @ + Occurrences(o, vs)]]]

ReleaseAll(h, vs) ==
  LET left(o) == h.cell[o].count - Occurrences(o, vs)
  IN  [cell  |-> [o \in Object |-> [h.cell[o] EXCEPT !.count = left(o)]],
       dying |-> h.dying \cup {o \in Object : Occurrences(o, vs) > 0
                                             /\ left(o) = 0}]

Adopt(h, v)   == AdoptAll(h, <<v>>)
Release(h, v) == ReleaseAll(h, <<v>>)

\* Mutant: the deleter releases what o holds and leaves o allocated.
DestroyKeepsCell(h, o) ==
  ReleaseAll([h EXCEPT !.dying = @ \ {o}], h.cell[o].contents)

\* The deleter of o, called by rc_decrement.
Destroy(h, o) ==
  ReleaseAll([h EXCEPT !.dying = @ \ {o}, !.cell[o] = NoCell],
             h.cell[o].contents)

\* References to o that objects hold.
HeldInside(h, o) ==
  LET slots(c) == {<<c, i>> : i \in {j \in DOMAIN h.cell[c].contents :
                                    h.cell[c].contents[j] = o}}
  IN  Cardinality(UNION {slots(c) : c \in Object})
=============================================================================
