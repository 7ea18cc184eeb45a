------------------------------ MODULE MCTypes -------------------------------
(* Types built from two structs and two interfaces, and calls of generic    *)
(* functions.  The two share the algebra of types and nothing else: a       *)
(* behaviour is one of them, from the first state of the other.             *)
EXTENDS TypeBuilding, Inference

\* The kinds the two machines use.
MCKind == BuiltIn \cup Struct \cup Interface \cup Placeholder
            \cup {"Box", "fn", "takes", "gives", "unbound"}

MCInit == Init /\ InferenceInit

MCNext ==
  \/ Next /\ resolved = {} /\ UNCHANGED inferenceVars
  \/ /\ steps = 0 /\ left = AnyType /\ right = AnyType /\ implements = NoInterfaces
     /\ InferenceNext /\ UNCHANGED vars

MCSpec == MCInit /\ [][MCNext]_<<vars, inferenceVars>>
=============================================================================
