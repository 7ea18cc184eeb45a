---------------------------- MODULE ProgramImage ----------------------------
(***************************************************************************)
(* The program image: ProgramBuilder::GenerateImage writes a header and one*)
(* section after the other, init_vm and ProgramBuilder::DumpImage read them*)
(* back.  Contents are the identities of what was written; sizes are kept, *)
(* because most of them are written into 16 bits.                          *)
(***************************************************************************)
EXTENDS Integers, Sequences, FiniteSets, SequencesExt

CONSTANTS
    Object,          \* function objects: [name, code, arguments, locals]
    Constant,        \* lengths a string constant may have
    MaxRows,         \* bound: row displacements
    MaxSlots,        \* bound: slots of the dispatch table
    MaxObjects,      \* bound: function objects
    MaxConstants,    \* bound: string constants
    SectionHeader,   \* sizeof(vm_section_t)
    VirtualHeader,   \* sizeof(vm_prog_virtual_t)
    Width            \* 2^16: how many values a uint16_t has

ASSUME SizesAssumption ==
    /\ SectionHeader \in Nat \ {0} /\ VirtualHeader \in Nat \ {0}
    /\ Width \in Nat \ {0}
    /\ MaxRows \in Nat /\ MaxSlots \in Nat
    /\ Object \subseteq [name : Nat, code : Nat \ {0}, arguments : Nat,
                         locals : Nat]
    /\ Constant \subseteq Nat

VARIABLES
    objects,     \* the function objects in the order of the image
    constants,   \* the string constants by their id
    sections,    \* the sections written so far
    stage,       \* what GenerateImage does next, or who reads the image
    offset,      \* where the reader is
    loaded       \* what it has read

imageVars == <<objects, constants, sections, stage, offset, loaded>>

Uint16(n) == n % Width
Total(lengths) ==
    LET sum[i \in 0..Len(lengths)] ==
            IF i = 0 THEN 0 ELSE sum[i - 1] + lengths[i]
    IN  sum[Len(lengths)]

----------------------------------------------------------------------------
(* GenerateImage.                                                          *)

\* Names with their terminating \0, one after the other.
DebugOffset(i) == Total([j \in 1..(i - 1) |-> objects[j].name + 1])
DebugSize == DebugOffset(Len(objects) + 1)

DebugSection ==
    [type |-> "DEBUG", length |-> DebugSize, size |-> Uint16(DebugSize),
     content |-> "names"]

VirtualSection(rows, slots) ==
    LET length == VirtualHeader + rows + 2 * slots
    IN  [type |-> "VIRTUAL", length |-> length, size |-> Uint16(length),
         content |-> "table"]

\* MUTANT of FunctionSection: the size of a function is cut as well.
FunctionSectionCut(i) ==
    [type |-> "FUNCTION", length |-> objects[i].code,
     size |-> Uint16(objects[i].code), content |-> i,
     fn |-> [arguments |-> Uint16(objects[i].arguments),
             locals |-> Uint16(objects[i].locals),
             name |-> Uint16(DebugOffset(i))]]

FunctionSection(i) ==
    [type |-> "FUNCTION", length |-> objects[i].code, size |-> objects[i].code,
     content |-> i,
     fn |-> [arguments |-> Uint16(objects[i].arguments),
             locals |-> Uint16(objects[i].locals),
             name |-> Uint16(DebugOffset(i))]]

ConstantSection(i, length) ==
    [type |-> "CONST_STR", length |-> length, size |-> Uint16(length),
     content |-> i]

\* The objects come sorted by name.
AddObject(object) ==
    /\ stage = "objects"
    /\ Len(objects) < MaxObjects
    /\ objects' = Append(objects, object)
    /\ UNCHANGED <<constants, sections, stage, offset, loaded>>

\* Without a main function there are no objects.
WriteDebug ==
    /\ stage = "objects"
    /\ sections' = <<DebugSection>>
    /\ stage' = "virtual"
    /\ UNCHANGED <<objects, constants, offset, loaded>>

WriteVirtualAndFunctions(rows, slots) ==
    /\ stage = "virtual"
    /\ sections' = Append(sections, VirtualSection(rows, slots))
                      \o [i \in 1..Len(objects) |-> FunctionSection(i)]
    /\ stage' = "constants"
    /\ UNCHANGED <<objects, constants, offset, loaded>>

WriteConstant(length) ==
    /\ stage = "constants"
    /\ Len(constants) < MaxConstants
    /\ constants' = Append(constants, length)
    /\ sections' = Append(sections,
                          ConstantSection(Len(constants) + 1, length))
    /\ UNCHANGED <<objects, stage, offset, loaded>>

\* The header goes in front; the image is loaded, or dumped.
WriteHeader(reader) ==
    /\ stage = "constants"
    /\ stage' = reader
    /\ UNCHANGED <<objects, constants, sections, offset, loaded>>

Header == [functions |-> Uint16(Len(objects)),
           constants |-> Uint16(Len(constants)),
           bytecode |-> Total([i \in 1..Len(objects) |-> objects[i].code]),
           debug |-> DebugSize]

----------------------------------------------------------------------------
(* The readers.  Offsets count from the end of the header.                 *)

Start(i) ==
    Total([j \in 1..(i - 1) |-> SectionHeader + sections[j].length])
Size == Start(Len(sections) + 1)

\* What a reader takes over of a section: as much of its content as the size
\* says.  DumpImage goes by the counts in the virtual section instead.
Taken(section) ==
    [content |-> section.content,
     size |-> IF stage = "DumpImage" /\ section.type = "VIRTUAL"
              THEN section.length ELSE section.size]

\* Storing a section; init_vm has room for as many functions and constants as
\* the header counts.
Fits(section) ==
    stage = "init_vm" =>
        CASE section.type = "FUNCTION" ->
                /\ Len(loaded.functions) < Header.functions
                /\ loaded.bytecode + section.size <= Header.bytecode
          [] section.type = "CONST_STR" ->
                Len(loaded.constants) < Header.constants
          [] section.type = "DEBUG" -> section.size <= Header.debug
          [] OTHER -> TRUE

Stored(section) ==
    CASE section.type = "FUNCTION" ->
            [loaded EXCEPT
                !.functions = Append(@, [content |-> section.content,
                                         size |-> section.size,
                                         fn |-> section.fn]),
                !.bytecode = @ + section.size]
      [] section.type = "CONST_STR" ->
            [loaded EXCEPT !.constants = Append(@, Taken(section))]
      [] section.type = "DEBUG" -> [loaded EXCEPT !.debug = Taken(section)]
      [] section.type = "VIRTUAL" -> [loaded EXCEPT !.virtual = Taken(section)]

Reading == stage \in {"init_vm", "DumpImage"}

MoreToRead == offset + SectionHeader < Size

Outcome(result) ==
    /\ stage' = result
    /\ UNCHANGED <<objects, constants, sections, offset, loaded>>

ReadSection ==
    /\ Reading /\ MoreToRead
    /\ \E i \in 1..Len(sections) :
           /\ Start(i) = offset
           /\ IF Fits(sections[i])
              THEN /\ loaded' = Stored(sections[i])
                   /\ offset' = offset + SectionHeader + sections[i].size
                   /\ UNCHANGED <<objects, constants, sections, stage>>
              ELSE Outcome("undefined")

\* In the middle of a section, any bytes are taken for a header: only there can
\* a section reach past the end of the image.
ReadGarbage ==
    /\ Reading /\ MoreToRead
    /\ \A i \in 1..Len(sections) : Start(i) # offset
    /\ Outcome("undefined")

\* init_vm checks that nothing it counted is missing; DumpImage does not.
EndOfImage ==
    /\ Reading /\ ~MoreToRead
    /\ Outcome(IF \/ stage = "DumpImage"
                  \/ /\ Len(loaded.constants) = Header.constants
                     /\ Len(loaded.functions) = Header.functions
               THEN "read" ELSE "rejected")

ImageInit ==
    /\ objects = <<>> /\ constants = <<>> /\ sections = <<>>
    /\ stage = "objects"
    /\ offset = 0
    /\ loaded = [functions |-> <<>>, constants |-> <<>>, bytecode |-> 0,
                 debug |-> <<>>, virtual |-> <<>>]

ImageNext ==
    \/ \E object \in Object : AddObject(object)
    \/ WriteDebug
    \/ \E rows \in 0..MaxRows, slots \in 0..MaxSlots :
           WriteVirtualAndFunctions(rows, slots)
    \/ \E length \in Constant : WriteConstant(length)
    \/ \E reader \in {"init_vm", "DumpImage"} : WriteHeader(reader)
    \/ ReadSection \/ ReadGarbage \/ EndOfImage

ImageSpec == ImageInit /\ [][ImageNext]_imageVars

----------------------------------------------------------------------------
(* What holds of an image.                                                 *)

\* A value the image has no room for.
TooLarge ==
    \/ Len(objects) >= Width \/ Len(constants) >= Width
    \/ \E i \in 1..Len(objects) : \/ objects[i].arguments >= Width
                                  \/ objects[i].locals >= Width
                                  \/ DebugOffset(i) >= Width
    \/ \E s \in ToSet(sections) : s.type # "FUNCTION" /\ s.length >= Width

EndsEmpty == sections # <<>> /\ Last(sections).length = 0

\* An image whose numbers all fit and whose last section is not empty is read,
\* and what is read is what was written: every function with its code, frame
\* and name, every constant under its id, the names and the dispatch table.
ReadsBack ==
    ~TooLarge /\ ~EndsEmpty =>
        /\ stage \notin {"rejected", "undefined"}
        /\ stage = "read" =>
            /\ loaded.functions = [i \in 1..Len(objects) |->
                    [content |-> i, size |-> objects[i].code,
                     fn |-> [arguments |-> objects[i].arguments,
                             locals |-> objects[i].locals,
                             name |-> DebugOffset(i)]]]
            /\ loaded.constants = [i \in 1..Len(constants) |->
                    [content |-> i, size |-> constants[i]]]
            /\ loaded.debug = [content |-> "names", size |-> DebugSize]
            /\ loaded.virtual.size = sections[2].length

=============================================================================
