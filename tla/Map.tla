--------------------------------- MODULE Map ---------------------------------
(***************************************************************************)
(* The hash map of the runtime (map.c): buckets of chained nodes, and the  *)
(* references the map owns to its keys and values.                         *)
(*                                                                         *)
(* A key is an object with a type and a content; two objects may have the  *)
(* same content.  The content is a sequence: the characters of a string, 0 *)
(* among them, the number of an int or the id of a map, the value of a     *)
(* float in halves.                                                        *)
(***************************************************************************)
EXTENDS Integers, Sequences, FiniteSets

CONSTANTS
    Key,             \* keys: [object, type, content]
    Value,           \* values; a key may be one of them
    Missing,         \* what a lookup without a result yields: Nil
    BucketCount,     \* bucket_count (13 in vm_map_alloc)
    MaxSets          \* bound: calls of vm_map_set

ASSUME KeyAssumption ==
    /\ \A k \in Key : k.type \in {"int", "float", "string", "map"}
    /\ \A k, l \in Key : k.object = l.object => k = l
    /\ \A k \in Key : k.content \in Seq(Int)
    /\ \A k \in Key : k.type # "string" => k.content # <<>>
    /\ BucketCount \in Nat \ {0}

VARIABLES
    buckets,     \* chains of nodes [key, value], the youngest first
    count,       \* element_count
    refs,        \* references handed to the map and not released: ghost
    latest,      \* the value last set for a content: ghost
    sets         \* calls of vm_map_set so far (bounded)

mapVars == <<buckets, count, refs, latest, sets>>

Content(key) == <<key.type, key.content>>

----------------------------------------------------------------------------
(* Hashing and comparing.                                                  *)

\* The hash of a string takes all of its characters.
StringHash(text) ==
    LET hash[i \in 0..Len(text)] ==
            IF i = 0 THEN 7 ELSE hash[i - 1] * 31 + text[i]
    IN  hash[Len(text)]

\* Floats are truncated.
Hash(key) ==
    CASE key.type \in {"int", "map"} -> Head(key.content)
      [] key.type = "float" -> Head(key.content) \div 2
      [] key.type = "string" -> StringHash(key.content)

Bucket(key) == Hash(key) % BucketCount

\* A string up to its first 0, as strcmp sees it.
CString(text) ==
    LET zeros == {i \in 1..Len(text) : text[i] = 0}
    IN  IF zeros = {} THEN text
        ELSE SubSeq(text, 1, (CHOOSE i \in zeros : \A j \in zeros : i <= j) - 1)

\* MUTANT of Compare: a string is compared by its first character.
CompareFirst(k, l) ==
    /\ k.type = l.type
    /\ CASE k.type = "float" -> TRUE
         [] k.type = "string" -> SubSeq(k.content, 1, 1) = SubSeq(l.content, 1, 1)
         [] OTHER -> k.content = l.content

\* compare() = 0.  Floats are not told apart.
Compare(k, l) ==
    /\ k.type = l.type
    /\ CASE k.type = "float" -> TRUE
         [] k.type = "string" -> CString(k.content) = CString(l.content)
         [] OTHER -> k.content = l.content

\* The first node of the key's chain with an equal key, 0 if there is none.
MapGet(key) ==
    LET chain == buckets[Bucket(key)]
        equal == {i \in 1..Len(chain) : Compare(key, chain[i].key)}
    IN  IF equal = {} THEN 0
        ELSE CHOOSE i \in equal : \A j \in equal : i <= j

----------------------------------------------------------------------------
(* The calls.                                                              *)

\* The places of the chains that hold x as a key, and as a value.
KeyPlaces(x) ==
    {n \in (0..(BucketCount - 1)) \X (1..count) :
        n[2] <= Len(buckets[n[1]]) /\ buckets[n[1]][n[2]].key = x}
ValuePlaces(x) ==
    {n \in (0..(BucketCount - 1)) \X (1..count) :
        n[2] <= Len(buckets[n[1]]) /\ buckets[n[1]][n[2]].value = x}

One(x, y) == IF x = y THEN 1 ELSE 0

\* The references of x when the map is handed key and value.
Handed(x, key, value) == refs[x] + One(x, key) + One(x, value)

\* MUTANT of Replace: the second object of the key is not released.
ReplaceLeaksKey(key, value) ==
    LET b == Bucket(key)
        i == MapGet(key)
    IN  /\ i # 0
        /\ buckets' = [buckets EXCEPT ![b][i].value = value]
        /\ refs' = [x \in Key \cup Value |->
                        Handed(x, key, value) - One(x, buckets[b][i].value)]
        /\ UNCHANGED count

\* A found key keeps its node and its key object; the old value is released.
Replace(key, value) ==
    LET b == Bucket(key)
        i == MapGet(key)
    IN  /\ i # 0
        /\ buckets' = [buckets EXCEPT ![b][i].value = value]
        /\ refs' = [x \in Key \cup Value |->
                        Handed(x, key, value)
                            - One(x, key) - One(x, buckets[b][i].value)]
        /\ UNCHANGED count

\* A new key becomes the head of its chain.
Insert(key, value) ==
    LET b == Bucket(key)
    IN  /\ MapGet(key) = 0
        /\ buckets' = [buckets EXCEPT
                ![b] = <<[key |-> key, value |-> value]>> \o @]
        /\ refs' = [x \in Key \cup Value |-> Handed(x, key, value)]
        /\ count' = count + 1

\* vm_map_set.  What was last set is known by content.
MapSet(key, value) ==
    /\ sets < MaxSets
    /\ Replace(key, value) \/ Insert(key, value)
    /\ latest' = [c \in DOMAIN latest \cup {Content(key)} |->
                    IF c = Content(key) THEN value ELSE latest[c]]
    /\ sets' = sets + 1

\* What vm_map_get returns.
Lookup(key) ==
    LET i == MapGet(key)
    IN  IF i = 0 THEN Missing ELSE buckets[Bucket(key)][i].value

\* free_map: every node gives up its key and its value.
FreeMap ==
    /\ refs' = [x \in Key \cup Value |->
            refs[x] - Cardinality(KeyPlaces(x)) - Cardinality(ValuePlaces(x))]
    /\ buckets' = [b \in 0..(BucketCount - 1) |-> <<>>]
    /\ count' = 0
    /\ latest' = <<>>
    /\ UNCHANGED sets

MapInit ==
    /\ buckets = [b \in 0..(BucketCount - 1) |-> <<>>]
    /\ count = 0
    /\ refs = [x \in Key \cup Value |-> 0]
    /\ latest = <<>>
    /\ sets = 0

MapNext ==
    \/ \E key \in Key, value \in Value : MapSet(key, value)
    \/ FreeMap

MapSpec == MapInit /\ [][MapNext]_mapVars

----------------------------------------------------------------------------
(* What holds of a map.                                                    *)

\* Two keys the map cannot tell apart though their contents differ: floats of
\* one bucket, or strings of one bucket that agree up to a 0.
Confused(k, l) ==
    /\ k.type = l.type /\ k.content # l.content
    /\ Bucket(k) = Bucket(l)
    /\ \/ k.type = "float"
       \/ k.type = "string" /\ CString(k.content) = CString(l.content)

UsedContents == DOMAIN latest
Used == {k \in Key : Content(k) \in UsedContents}

\* As long as no two of the keys in use are confused, a lookup with any object
\* of a content yields what was last set for that content, and nothing for a
\* content never set unless it is confused with one that was; each content has
\* one node.
GetsLatest ==
    (\A k, l \in Used : ~Confused(k, l)) =>
        /\ \A k \in Used : Lookup(k) = latest[Content(k)]
        /\ \A k \in Key \ Used :
                (\A l \in Used : ~Confused(k, l)) => Lookup(k) = Missing
        /\ count = Cardinality(UsedContents)

\* The map owns one reference to the key and one to the value of every node,
\* and no other: whatever it was handed in addition has been released.
OwnsItsNodes ==
    \A x \in Key \cup Value :
        refs[x] = Cardinality(KeyPlaces(x)) + Cardinality(ValuePlaces(x))

=============================================================================
