----------------------------- MODULE MCCodegen ------------------------------
(* The slots of a program's variables and the stack of a function's code.   *)
(* The two share nothing: a behaviour is one of them, from the first state  *)
(* of the other.                                                            *)
EXTENDS Slots, Emission

CONSTANTS n1, n2

Names == {n1, n2}
Main == {<<n1>>, <<n1, n2>>}
Inner == {<<>>, <<n1>>, <<n2>>}

MCInit == Init /\ EmissionInit

MCNext ==
  \/ Next /\ forms = 0 /\ tasks = <<Block(NoLoop)>> /\ UNCHANGED emissionVars
  \/ /\ statements = 0 /\ Checking /\ scopes[2].next = 1
     /\ EmissionNext /\ UNCHANGED vars

MCSpec == MCInit /\ [][MCNext]_<<vars, emissionVars>>
=============================================================================
