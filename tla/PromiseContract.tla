-------------------------- MODULE PromiseContract ---------------------------
(***************************************************************************)
(* What promises promise (src/src/promise.h:16-45), whatever the lists and *)
(* the queue that implement it look like.                                   *)
(*                                                                          *)
(* A reaction <<s, t, kind>> is the duty to settle t once s is settled.     *)
(* Every then() creates one of kind "then"; a callback that returns another *)
(* promise turns it into one of kind "link", which gives t the outcome of   *)
(* the promise returned.                                                    *)
(***************************************************************************)
CONSTANTS Promise,   \* the promises a program may allocate
          Value      \* what a promise may be settled with

VARIABLES
  outcome,           \* [Promise -> Outcome]: the life of each promise
  reactions          \* the duties not yet discharged

cvars == <<outcome, reactions>>

Side       == {"fulfilled", "rejected"}
Unborn     == <<"unborn">>
Pending    == <<"pending">>
Settlement == Side \X Value

Settled(p) == outcome[p] \in Settlement

ContractInit ==
  /\ outcome = [p \in Promise |-> Unborn]
  /\ reactions = {}

\* A promise comes into being.
Create(p) ==
  /\ outcome[p] = Unborn
  /\ outcome' = [outcome EXCEPT ![p] = Pending]
  /\ UNCHANGED reactions

\* s.then(...) hands out a fresh promise t.
Register(s, t) ==
  /\ outcome[s] # Unborn
  /\ outcome[t] = Unborn
  /\ outcome' = [outcome EXCEPT ![t] = Pending]
  /\ reactions' = reactions \cup {<<s, t, "then">>}

\* The program itself fulfils or rejects a pending promise.
Settle(p, o) ==
  /\ outcome[p] = Pending
  /\ outcome' = [outcome EXCEPT ![p] = o]
  /\ UNCHANGED reactions

\* A duty is discharged by settling t, unless the program already has.
Discharge(r, o) ==
  /\ reactions' = reactions \ {r}
  /\ outcome' = [outcome EXCEPT ![r[2]] = IF @ = Pending THEN o ELSE @]

\* ... or by passing it on to the promise q that the callback returned.
Relink(r, q) ==
  /\ outcome[q] # Unborn
  /\ q # r[2]
  /\ reactions' = (reactions \ {r}) \cup {<<q, r[2], "link">>}
  /\ UNCHANGED outcome

\* ... or is given up: the callback returned the very promise to be settled.
GiveUp(r) ==
  /\ reactions' = reactions \ {r}
  /\ UNCHANGED outcome

FireThen(s, t) ==
  LET r == <<s, t, "then">>
  IN  /\ r \in reactions
      /\ Settled(s)
      /\ \/ \E o \in Settlement : Discharge(r, o)
         \/ \E q \in Promise : Relink(r, q)
         \/ GiveUp(r)

FireLink(s, t) ==
  LET r == <<s, t, "link">>
  IN  /\ r \in reactions
      /\ Settled(s)
      /\ Discharge(r, outcome[s])

Fire(s, t) == FireThen(s, t) \/ FireLink(s, t)

ContractNext ==
  \/ \E p \in Promise : Create(p)
  \/ \E s, t \in Promise : Register(s, t)
  \/ \E p \in Promise, o \in Settlement : Settle(p, o)
  \/ \E s, t \in Promise : Fire(s, t)

\* A settled promise does not keep its reactions waiting for ever.
ContractFairness == \A s, t \in Promise : WF_cvars(Fire(s, t))

ContractSpec == ContractInit /\ [][ContractNext]_cvars /\ ContractFairness
=============================================================================
