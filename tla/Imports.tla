------------------------------- MODULE Imports -------------------------------
(***************************************************************************)
(* The import graph: CalculateImportsFor (main.cc) visits the paths a      *)
(* program imports depth first, numbers the files as it opens them and     *)
(* lists them as it leaves them; main analyses them in the order listed,   *)
(* and errors name a file by its number.                                   *)
(***************************************************************************)
EXTENDS Integers, Sequences, FiniteSets, SequencesExt

CONSTANTS
    Path,            \* paths as import statements write them
    Root,            \* the path on the command line
    File,            \* files on disk
    Resolve,         \* OpenFileWithFallback: the file a path leads to
    NoFile,          \* ... or none
    MaxImports       \* bound: import statements of a file

ASSUME PathAssumption ==
    /\ Root \in Path
    /\ NoFile \notin File
    /\ Resolve \in [Path -> File \cup {NoFile}]

VARIABLES
    imports,     \* the import statements of each file
    visited,     \* the paths visited
    calls,       \* the calls of dfs under way: [path, id, rest]
    nextId,      \* file_id of the next file
    result,      \* the files listed: [path, id]
    analysed     \* how many of them main has analysed

importVars == <<imports, visited, calls, nextId, result, analysed>>

\* A file that cannot be opened is taken for an empty one.
ImportsOf(path) == IF Resolve[path] = NoFile THEN <<>> ELSE imports[Resolve[path]]

Top == Last(calls)

\* The file on top goes on behind its next import statement.
Advanced == Append(Front(calls), [Top EXCEPT !.rest = Tail(@)])

\* MUTANT of Opened: files are numbered by their place in the result.
OpenedByPlace(path) == [path |-> path, id |-> Len(result), rest |-> ImportsOf(path)]

\* CollectImportsFor.
Opened(path) == [path |-> path, id |-> nextId, rest |-> ImportsOf(path)]

\* The next import of the file on top has been visited under this path.
Skip ==
    /\ calls # <<>> /\ Top.rest # <<>>
    /\ Head(Top.rest) \in visited
    /\ calls' = Advanced
    /\ UNCHANGED <<imports, visited, nextId, result, analysed>>

Visit ==
    /\ calls # <<>> /\ Top.rest # <<>>
    /\ LET path == Head(Top.rest)
       IN  /\ path \notin visited
           /\ visited' = visited \cup {path}
           /\ calls' = Append(Advanced, Opened(path))
    /\ nextId' = nextId + 1
    /\ UNCHANGED <<imports, result, analysed>>

\* MUTANT of Leave: a file is listed in front of those it imports.
LeaveInFront ==
    /\ calls # <<>> /\ Top.rest = <<>>
    /\ result' = <<[path |-> Top.path, id |-> Top.id]>> \o result
    /\ calls' = Front(calls)
    /\ UNCHANGED <<imports, visited, nextId, analysed>>

Leave ==
    /\ calls # <<>> /\ Top.rest = <<>>
    /\ result' = Append(result, [path |-> Top.path, id |-> Top.id])
    /\ calls' = Front(calls)
    /\ UNCHANGED <<imports, visited, nextId, analysed>>

\* main checks the files one after the other, all into one global scope.
Analyse ==
    /\ calls = <<>>
    /\ analysed < Len(result)
    /\ analysed' = analysed + 1
    /\ UNCHANGED <<imports, visited, calls, nextId, result>>

ImportsInit ==
    /\ imports \in [File -> UNION {[1..n -> Path] : n \in 0..MaxImports}]
    /\ visited = {Root}
    /\ calls = <<[path |-> Root, id |-> 0, rest |-> ImportsOf(Root)]>>
    /\ nextId = 1
    /\ result = <<>>
    /\ analysed = 0

ImportsNext == Skip \/ Visit \/ Leave \/ Analyse

ImportsSpec == ImportsInit /\ [][ImportsNext]_importVars

----------------------------------------------------------------------------
(* What holds of the order.                                                *)

Closed(paths) == \A p \in paths : ToSet(ImportsOf(p)) \subseteq paths

\* The paths a path leads to by import statements: those in every closed set
\* it is in.
Reach(path) ==
    {p \in Path : \A paths \in SUBSET Path :
                    path \in paths /\ Closed(paths) => p \in paths}

\* When a file is analysed, every path it imports has been, so that the names
\* declared there are known - except a path that leads back to the file.  When
\* all are, those are exactly the paths the program leads to, each once.
ImportedFirst ==
    /\ \A i \in 1..analysed : \A path \in ToSet(ImportsOf(result[i].path)) :
        \/ \E j \in 1..(i - 1) : result[j].path = path
        \/ result[i].path \in Reach(path)
    /\ calls = <<>> =>
        /\ {entry.path : entry \in ToSet(result)} = Reach(Root)
        /\ Cardinality(Reach(Root)) = Len(result)

\* PrintAllErrors makes a table with one place for each file and looks the file
\* of an error up by the number its tokens carry: every number has its file.
ErrorsFindTheirFile ==
    calls = <<>> =>
        {entry.id : entry \in ToSet(result)} = 0..(Len(result) - 1)

=============================================================================
