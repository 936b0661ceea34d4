------------------------------- MODULE MappedFile -------------------------------
(***************************************************************************)
(* The expandable mapped file (ExpandableMappedFile.cpp, MappedFile*.cxx). *)
(* It is opened for reading, when only the main mapping is used, or for    *)
(* writing, when any thread may ask for an offset beyond it: the thread    *)
(* then makes the file larger and maps the new part, under a mutex that it *)
(* takes only if it has found no mapping.  Sizing or mapping may fail.     *)
(* Sizes are those of the code with the length of a segment scaled down.   *)
(*                                                                         *)
(* The owner clears, closes or opens the file while no thread uses it, and *)
(* after clear() or close() it opens it with a new object.                 *)
(***************************************************************************)
EXTENDS Segments, Sequences

CONSTANTS
  Threads, Nobody,
  InitialSizes,     \* of the file
  MaxCalls,         \* at most this many calls of translate() are begun
  MaxOpens

MappedAssumption == InitialSizes \subseteq Nat /\ Nobody \notin Threads

Offsets == 0 .. MappingOffset(SegmentLength, SlotCount) + SegmentLength - 1

VARIABLES
  windows,          \* whether the platform is Windows
  fileSize,
  mode,             \* "closed", "read" or "write"
  mainMappingSize,
  extendedMappings, \* by slot: a mapping, or 0
  mappings,         \* all that were made for this object: [offset, size]
  mutex, doing,     \* by thread: the step of its call
  answer,           \* by thread: the last address, [mapping, into, asked]
  sized,            \* the number of the mapping that setSize() was last called for
  calls, opens

vars == <<windows, fileSize, mode, mainMappingSize, extendedMappings, mappings, mutex, doing, answer, sized, calls, opens>>
file == <<windows, mode, mainMappingSize, opens>>

Idle == [step |-> "idle", offset |-> 0]
NoAnswer == [mapping |-> 0, into |-> 0, asked |-> 0]
Slot(ofs) == MappingNumber(mainMappingSize, ofs)

Init ==
  /\ windows \in BOOLEAN /\ fileSize \in InitialSizes
  /\ mode = "closed" /\ mainMappingSize = 0
  /\ extendedMappings = [n \in 1 .. SlotCount |-> 0] /\ mappings = <<>>
  /\ mutex = Nobody /\ doing = [t \in Threads |-> Idle]
  /\ answer = [t \in Threads |-> NoAnswer]
  /\ sized = 0 /\ calls = 0 /\ opens = 0

\* map() of a part of the file; on Windows this makes the file long enough.
Map(offset, size) ==
  /\ mappings' = Append(mappings, [offset |-> offset, size |-> size])
  /\ fileSize' = IF windows /\ offset + size > fileSize THEN offset + size ELSE fileSize

\* Elsewhere setSize() comes first.
Resize(size) == fileSize' = IF windows THEN fileSize ELSE size

-----------------------------------------------------------------------------
(* open(): mapping 1 of the object is the main mapping.                    *)

Opened(m, main) ==
  /\ mode = "closed" /\ opens < MaxOpens /\ opens' = opens + 1
  /\ mode' = m /\ mainMappingSize' = main
  /\ mappings' = <<[offset |-> 0, size |-> main]>>
  /\ extendedMappings' = [n \in 1 .. SlotCount |-> 0]
  /\ answer' = [t \in Threads |-> NoAnswer]
  /\ sized' = 0
  /\ UNCHANGED <<windows, mutex, doing, calls>>

OpenToRead == fileSize > 0 /\ Opened("read", fileSize) /\ UNCHANGED fileSize
OpenToWrite == Opened("write", MainMappingSize(fileSize)) /\ fileSize' = MainMappingSize(fileSize)

-----------------------------------------------------------------------------
(* translate()                                                             *)

Answer(t, ofs, m) ==
  /\ answer' = [answer EXCEPT ![t] = [mapping |-> m, into |-> IntoMapping(mainMappingSize, ofs), asked |-> ofs]]
  /\ doing' = [doing EXCEPT ![t] = Idle]
Found(ofs) == IF Slot(ofs) = 0 THEN 1 ELSE extendedMappings[Slot(ofs)]

Translate(t, ofs) ==
  /\ mode # "closed" /\ doing[t] = Idle
  /\ mode = "read" => ofs < mainMappingSize
  /\ Slot(ofs) <= SlotCount
  /\ calls < MaxCalls /\ calls' = calls + 1
  /\ IF Found(ofs) # 0 THEN Answer(t, ofs, Found(ofs))
     ELSE doing' = [doing EXCEPT ![t] = [step |-> "lock", offset |-> ofs]] /\ UNCHANGED answer
  /\ UNCHANGED <<file, fileSize, extendedMappings, mappings, mutex, sized>>

\* createExtendedMapping() looks again once it has the mutex.
\* Wrong: it does not.
NeedsMapNoRecheck(ofs) == TRUE
NeedsMap(ofs) == Found(ofs) = 0

Lock(t) ==
  /\ doing[t].step = "lock" /\ mutex = Nobody
  /\ mutex' = t /\ doing' = [doing EXCEPT ![t].step = IF NeedsMap(doing[t].offset) THEN "size" ELSE "found"]
  /\ UNCHANGED <<file, fileSize, extendedMappings, mappings, answer, sized, calls>>

Unlock(t) ==
  /\ doing[t].step = "found"
  /\ Answer(t, doing[t].offset, Found(doing[t].offset)) /\ mutex' = Nobody
  /\ UNCHANGED <<file, fileSize, extendedMappings, mappings, sized, calls>>

\* Wrong: the file is made as long as the mapping.
NeededSizeOfMapping(n) == MappingSize(mainMappingSize, n)
NeededSize(n) == MappingOffset(mainMappingSize, n) + MappingSize(mainMappingSize, n)

SetSize(t) ==
  /\ doing[t].step = "size" /\ doing' = [doing EXCEPT ![t].step = "map"]
  /\ \E n \in {Slot(doing[t].offset)} : Resize(NeededSize(n)) /\ sized' = n
  /\ UNCHANGED <<file, extendedMappings, mappings, mutex, answer, calls>>

CreateExtendedMapping(t) ==
  /\ doing[t].step = "map"
  /\ \E ofs \in {doing[t].offset} : \E n \in {Slot(ofs)} :
       /\ Map(MappingOffset(mainMappingSize, n), MappingSize(mainMappingSize, n))
       /\ extendedMappings' = [extendedMappings EXCEPT ![n] = Len(mappings')]
       /\ Answer(t, ofs, Len(mappings'))
  /\ mutex' = Nobody
  /\ UNCHANGED <<file, sized, calls>>

\* setSize() or map() throws, and the mutex is given back.
Fail(t) ==
  /\ doing[t].step \in {"size", "map"}
  /\ doing' = [doing EXCEPT ![t] = Idle] /\ mutex' = Nobody
  /\ UNCHANGED <<file, fileSize, extendedMappings, mappings, answer, sized, calls>>

-----------------------------------------------------------------------------
(* clear() also unmaps, and cuts the file; close() leaves it as it is.     *)

Unused == \A t \in Threads : doing[t] = Idle

Closed == /\ mode # "closed" /\ Unused /\ mode' = "closed"
          /\ answer' = [t \in Threads |-> NoAnswer] /\ mappings' = <<>>
          /\ extendedMappings' = [n \in 1 .. SlotCount |-> 0] /\ mainMappingSize' = 0
          /\ UNCHANGED <<windows, mutex, doing, sized, calls, opens>>
Close == Closed /\ UNCHANGED fileSize
Clear == mode = "write" /\ Closed /\ fileSize' = 0

Next ==
  \/ OpenToRead \/ OpenToWrite \/ Close \/ Clear
  \/ \E t \in Threads :
       \/ \E ofs \in Offsets : Translate(t, ofs)
       \/ Lock(t) \/ Unlock(t) \/ SetSize(t) \/ CreateExtendedMapping(t) \/ Fail(t)

Spec == Init /\ [][Next]_vars

-----------------------------------------------------------------------------
(* Correctness.                                                            *)

\* The address that translate() returns is that of the offset it was asked for
\* (ExpandableMappedFile.cpp, lines 49-75).
TranslatedRight ==
  \A t \in Threads : answer[t].mapping # 0 =>
    \E m \in {mappings[answer[t].mapping]} :
       answer[t].into < m.size /\ m.offset + answer[t].into = answer[t].asked

\* No part of the file is mapped twice, whoever asks for it at the same time
\* (createExtendedMapping, ExpandableMappedFile.cpp, lines 78-107).
MappedOnce ==
  \A i, j \in DOMAIN mappings : i < j =>
     \/ mappings[i].offset + mappings[i].size <= mappings[j].offset
     \/ mappings[j].offset + mappings[j].size <= mappings[i].offset

\* On Windows what is mapped is in the file.  Elsewhere the size is set for every
\* part that is mapped, to just what this part needs: the parts above the one it
\* was last set for are cut off, and no others; they are still used
\* (ExpandableMappedFile.cpp, lines 93-104).
InFile(m) == m.offset + m.size <= fileSize
MappedInFile ==
  \A i \in DOMAIN mappings :
    InFile(mappings[i]) <=> windows \/ mappings[i].offset <= MappingOffset(mainMappingSize, sized)

\* What a user of the file expects, and gets only on Windows or if the parts are
\* asked for in the order of their offsets.
NeverCut == \A i \in DOMAIN mappings : InFile(mappings[i])

================================================================================
