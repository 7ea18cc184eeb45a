------------------------------- MODULE MCData --------------------------------
(* The order of the imports, the program image and the hash map.  The three *)
(* share nothing: a behaviour is one of them, from one first state of the   *)
(* others.                                                                  *)
EXTENDS Imports, ProgramImage, Map

CONSTANTS v

\* Two paths of one file, and a path of none.
Resolved == [p \in Path |-> CASE p = "main" -> "main"
                              [] p \in {"a", "./a"} -> "a"
                              [] p = "b" -> "b"
                              [] OTHER -> NoFile]

\* A small function with a long name, one whose code is longer than a uint16_t
\* says, and one with more locals than it says.
Objects == {[name |-> 2, code |-> 1, arguments |-> 1, locals |-> 2],
            [name |-> 0, code |-> 5, arguments |-> 0, locals |-> 3],
            [name |-> 0, code |-> 3, arguments |-> 0, locals |-> 4]}

KeyOf(object, type, content) ==
    [object |-> object, type |-> type, content |-> content]

\* Two objects of one string, two strings that agree up to a 0, an int and
\* two floats; with two buckets some of them collide.
Keys == {KeyOf(1, "string", <<1>>), KeyOf(2, "string", <<1>>),
         KeyOf(3, "string", <<1, 2>>), KeyOf(4, "string", <<1, 0>>),
         KeyOf(5, "int", <<3>>), KeyOf(6, "float", <<6>>),
         KeyOf(7, "float", <<10>>)}

\* A value of no key, and a key as a value.
Values == {v, KeyOf(1, "string", <<1>>)}

NoImports == imports = [f \in File |-> <<>>] /\ Len(calls) = 1

MCInit == ImportsInit /\ ImageInit /\ MapInit

MCNext ==
    \/ /\ ImportsNext
       /\ objects = <<>> /\ stage = "objects" /\ sets = 0
       /\ UNCHANGED <<imageVars, mapVars>>
    \/ NoImports /\ sets = 0 /\ ImageNext /\ UNCHANGED <<importVars, mapVars>>
    \/ /\ NoImports /\ objects = <<>> /\ stage = "objects"
       /\ MapNext
       /\ UNCHANGED <<importVars, imageVars>>

MCSpec == MCInit /\ [][MCNext]_<<importVars, imageVars, mapVars>>
=============================================================================
