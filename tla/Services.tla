------------------------------- MODULE Services --------------------------------
(***************************************************************************)
(* The parts of the library that threads, processes or the system share:   *)
(* files, the progress display, mapped files, pile files, the registry of  *)
(* stores and the output buffers; and the memory that everything is made   *)
(* of, arenas and small vectors.  As in Structures, each behaviour is one  *)
(* of a single part, the subject, and the variables of the others keep a   *)
(* value without meaning.                                                  *)
(***************************************************************************)
EXTENDS Naturals, Sequences, FiniteSets

CONSTANTS Subjects     \* "files", "console", "mapped", "piles", "registry", "buffers", "arenas", "vectors"

CONSTANTS
  Procs, Slots, MaxSize, Platforms, Menus, NoFileOpen, NoCall,
  Main, Workers, Percentages, Tasks, Verbosities, MaxTimers, ConsoleCalls, Nothing,
  Mappers, Nobody, InitialSizes, MapCalls, MaxOpens, MapSegment, SlotCount,
  Piles, PageShift, HeaderSize, PileLengths, Preallocations, MaxPages, PileCalls,
  Increment, MaxWastefulCycles, PileSegment,
  StoreThreads, Files, Tips, MaxStores,
  Kinds, Capacity, Lengths, Slack, BufferCalls,
  ChunkSize, Growths, Sizes, Alignments, ChunkHeader, SimpleArenas, ItemsPerChunk, ArenaCalls,
  Vectors, Elements, Raw, Default, InlineCapacity, MaxElements, VectorCalls

VARIABLES
  subject,
  platform, menu, name, disk, handles, locks, believed, call, result, shared,
  terminal, verbosity, consoleState, currentPercentage, currentTask,
  thread, timers, status, shuttingDown, message, late, overlapped,
  windows, fileSize, mode, mainMappingSize, extendedMappings, mappings, mutex, answer, sized, opens,
  pageSize, pageCount, chunks, appended, block, loading, loaded, crossed,
  file, life, refcount, registry, held, dying, revived, erased, looking,
  kind, writer, memory, capacity, position, ownPosition, pending, step, given, out, untaken, torn, thrown,
  chunkSizes, freed, growth, arena, simple, objects, bag,
  vectors, heap, expected, spoiled,
  calls, doing, index     \* of more than one part

Handles  == INSTANCE FileHandles WITH Closed <- NoFileOpen, Idle <- NoCall
Console  == INSTANCE ConsoleProgress WITH MaxCalls <- ConsoleCalls
Mapped   == INSTANCE MappedFile WITH Threads <- Mappers, MaxCalls <- MapCalls, SegmentLength <- MapSegment
Pile     == INSTANCE PileFile WITH Lengths <- PileLengths, MaxCalls <- PileCalls, SegmentLength <- PileSegment
Registry == INSTANCE StoreRegistry WITH Threads <- StoreThreads
Buffer   == INSTANCE OutputBuffer WITH MaxCalls <- BufferCalls
Memory   == INSTANCE Arenas WITH HeaderSize <- ChunkHeader, MaxCalls <- ArenaCalls
Cells    == INSTANCE SmallVectors WITH MaxSize <- MaxElements, MaxCalls <- VectorCalls

ASSUME ServicesAssumption ==
  /\ Handles!FilesAssumption /\ Console!ConsoleAssumption /\ Mapped!SegmentAssumption /\ Mapped!MappedAssumption
  /\ Pile!SegmentAssumption /\ Pile!PileAssumption /\ Registry!StoresAssumption /\ Buffer!BufferAssumption
  /\ Memory!ArenasAssumption /\ Cells!SmallVectorsAssumption

filesVars    == <<platform, menu, name, disk, handles, locks, believed, call, result, shared>>
consoleVars  == <<terminal, verbosity, consoleState, currentPercentage, currentTask,
                  thread, timers, status, shuttingDown, message, late, overlapped>>
mappedVars   == <<windows, fileSize, mode, mainMappingSize, extendedMappings, mappings, mutex, answer, sized, opens>>
pilesVars    == <<pageSize, pageCount, chunks, appended, block, loading, loaded, crossed>>
registryVars == <<file, life, refcount, registry, held, dying, revived, erased, looking>>
buffersVars  == <<kind, writer, memory, capacity, position, ownPosition, pending, step, given, out, untaken, torn, thrown>>
arenasVars   == <<chunkSizes, freed, growth, arena, simple, objects, bag>>
vectorsVars  == <<vectors, heap, expected, spoiled>>
memoryVars   == <<arenasVars, vectorsVars>>
vars == <<subject, filesVars, consoleVars, mappedVars, pilesVars, registryVars, buffersVars, memoryVars, calls, doing, index>>

NoFiles    == /\ platform = 0 /\ menu = 0 /\ name = 0 /\ disk = 0 /\ handles = 0 /\ locks = 0
              /\ believed = 0 /\ call = 0 /\ result = 0 /\ shared = 0
NoConsole  == /\ terminal = 0 /\ verbosity = 0 /\ consoleState = 0 /\ currentPercentage = 0 /\ currentTask = 0
              /\ thread = 0 /\ timers = 0 /\ status = 0 /\ shuttingDown = 0 /\ message = 0 /\ late = 0 /\ overlapped = 0
NoMapping  == /\ windows = 0 /\ fileSize = 0 /\ mode = 0 /\ mainMappingSize = 0 /\ extendedMappings = 0
              /\ mappings = 0 /\ mutex = 0 /\ answer = 0 /\ sized = 0 /\ opens = 0
NoPile     == /\ pageSize = 0 /\ pageCount = 0 /\ chunks = 0 /\ appended = 0
              /\ block = 0 /\ loading = 0 /\ loaded = 0 /\ crossed = 0
NoRegistry == /\ file = 0 /\ life = 0 /\ refcount = 0 /\ registry = 0 /\ held = 0
              /\ dying = 0 /\ revived = 0 /\ erased = 0 /\ looking = 0
NoBuffer   == /\ kind = 0 /\ writer = 0 /\ memory = 0 /\ capacity = 0 /\ position = 0 /\ ownPosition = 0
              /\ pending = 0 /\ step = 0 /\ given = 0 /\ out = 0 /\ untaken = 0 /\ torn = 0 /\ thrown = 0
NoArenas   == /\ chunkSizes = 0 /\ freed = 0 /\ growth = 0 /\ arena = 0
              /\ simple = 0 /\ objects = 0 /\ bag = 0
NoVectors  == vectors = 0 /\ heap = 0 /\ expected = 0 /\ spoiled = 0

Init ==
  /\ subject \in Subjects
  /\ IF subject = "files"    THEN Handles!Init  ELSE NoFiles
  /\ IF subject = "console"  THEN Console!Init  ELSE NoConsole
  /\ IF subject = "mapped"   THEN Mapped!Init   ELSE NoMapping
  /\ IF subject = "piles"    THEN Pile!Init     ELSE NoPile
  /\ IF subject = "registry" THEN Registry!Init ELSE NoRegistry
  /\ IF subject = "buffers"  THEN Buffer!Init   ELSE NoBuffer
  /\ IF subject = "arenas"   THEN Memory!Init   ELSE NoArenas
  /\ IF subject = "vectors"  THEN Cells!Init    ELSE NoVectors
  /\ IF subject = "registry" THEN calls = 0 ELSE TRUE
  /\ IF subject \in {"console", "mapped"} THEN TRUE ELSE doing = 0
  /\ IF subject \in {"piles", "registry"} THEN TRUE ELSE index = 0

HandlesStep ==
  /\ subject = "files" /\ Handles!Next
  /\ UNCHANGED <<subject, consoleVars, mappedVars, pilesVars, registryVars, buffersVars, memoryVars, doing, index>>
ConsoleStep ==
  /\ subject = "console" /\ Console!Next
  /\ UNCHANGED <<subject, filesVars, mappedVars, pilesVars, registryVars, buffersVars, memoryVars, index>>
MappedStep ==
  /\ subject = "mapped" /\ Mapped!Next
  /\ UNCHANGED <<subject, filesVars, consoleVars, pilesVars, registryVars, buffersVars, memoryVars, index>>
PileStep ==
  /\ subject = "piles" /\ Pile!Next
  /\ UNCHANGED <<subject, filesVars, consoleVars, mappedVars, registryVars, buffersVars, memoryVars, doing>>
RegistryStep ==
  /\ subject = "registry" /\ Registry!Next
  /\ UNCHANGED <<subject, filesVars, consoleVars, mappedVars, pilesVars, buffersVars, memoryVars, calls, doing>>
BufferStep ==
  /\ subject = "buffers" /\ Buffer!Next
  /\ UNCHANGED <<subject, filesVars, consoleVars, mappedVars, pilesVars, registryVars, memoryVars, doing, index>>
MemoryStep ==
  /\ subject = "arenas" /\ Memory!Next
  /\ UNCHANGED <<subject, filesVars, consoleVars, mappedVars, pilesVars, registryVars, buffersVars, vectorsVars, doing, index>>
CellsStep ==
  /\ subject = "vectors" /\ Cells!Next
  /\ UNCHANGED <<subject, filesVars, consoleVars, mappedVars, pilesVars, registryVars, buffersVars, arenasVars, doing, index>>

Next == HandlesStep \/ ConsoleStep \/ MappedStep \/ PileStep \/ RegistryStep \/ BufferStep
        \/ MemoryStep \/ CellsStep

Spec == Init /\ [][Next]_vars

-----------------------------------------------------------------------------
(* Menus for file handles: what the calls of a behaviour are made with.    *)

Flag(r, w, c, n, t) == [read |-> r, write |-> w, create |-> c, new |-> n, trunc |-> t]
ReadWrite == Flag(TRUE, TRUE, TRUE, FALSE, FALSE)
ReadOnly == Flag(TRUE, FALSE, FALSE, FALSE, FALSE)
AllModes ==
  {Flag(TRUE, TRUE, c, n, t) : c, n, t \in BOOLEAN}
    \union {ReadOnly, Flag(FALSE, TRUE, TRUE, FALSE, TRUE), Flag(FALSE, FALSE, FALSE, FALSE, TRUE)}

Transfer(op, all, at, ofs, len) == [op |-> op, all |-> all, at |-> at, ofs |-> ofs, len |-> len]
SomeTransfers ==
  {Transfer("read", TRUE, TRUE, 0, 3), Transfer("read", TRUE, FALSE, 0, 2), Transfer("read", FALSE, TRUE, 1, 2),
   Transfer("write", TRUE, TRUE, 0, 3), Transfer("write", TRUE, FALSE, 0, 2)}

Menu(slots, cs, modes, transfers, regions, sizes, removes) ==
  [slots |-> slots, calls |-> cs, modes |-> modes, transfers |-> transfers, regions |-> regions,
   sizes |-> sizes, removes |-> removes]

\* Opening in every mode; transfers that race; locks.
MCMenus ==
  {Menu(<<{1}, {1}>>, <<2, 2>>, AllModes, {Transfer("write", TRUE, TRUE, 0, 1)}, {}, {}, TRUE),
   Menu(<<{1}, {1}>>, <<3, 2>>, {ReadWrite}, SomeTransfers, {}, {0, 2}, FALSE),
   Menu(<<{1, 2}, {1}>>, <<4, 2>>, {ReadWrite, ReadOnly}, {}, {{1}, {1, 2}}, {}, FALSE)}

-----------------------------------------------------------------------------
(* What is checked of each part: its properties, stated in its own module. *)

\* Transfers move the bytes they say, modes mean the same on both systems, and
\* locks exclude (FileHandle_posix.inl, FileHandle_win.inl).
FilesRight == subject = "files" => Handles!TransferExact /\ Handles!OpenedAsAsked /\ Handles!LocksExclude

\* The status line is current, and progress is printed at most once after the
\* display has stopped (Console.cpp, ConsoleWriter.cpp).
ConsoleRight == subject = "console" => Console!StatusCurrent /\ Console!LateOnce

\* Offsets are translated to their own addresses, in parts that are mapped once;
\* just those above the part that the size was last set for are cut off
\* (ExpandableMappedFile.cpp).
MappedRight == subject = "mapped" => Mapped!TranslatedRight /\ Mapped!MappedOnce /\ Mapped!MappedInFile

\* A pile fits what is read of it, and chunks have pages of their own (PileFile.cpp).
PileRight == subject = "piles" => Pile!ReadFits /\ Pile!ChunksDisjoint

\* References are counted; just the stores revived by openSingle() are destroyed
\* while they are held, just those that another's destructor erased are in use and
\* not registered; and an index that is published is complete (FeatureStore.cpp,
\* ReverseTileIndex.cpp).
RegistryRight ==
  subject = "registry" => /\ Registry!Counted /\ Registry!HeldIsOpen /\ Registry!OneStore
                          /\ Registry!Registered /\ Registry!IndexComplete

\* A buffer hands on what is written to it, all of it and in order, and there is
\* always room for a byte; which buffers lose what the system does not take, and
\* which may write it twice (Buffer.h, Buffer.cpp, BufferWriter.h, FileBuffer2.h,
\* FileBuffer3.h).
BufferRight == subject = "buffers" => Buffer!InOrder /\ Buffer!RoomLeft /\ Buffer!AllOut /\ Buffer!OnceOnly

\* Objects and elements have places of their own, and memory an owner (Arena.h,
\* SimpleArena.h, ArenaBag.h, SmallVector.h).
MemoryOwned ==
  /\ subject = "arenas" => Memory!ObjectsApart /\ Memory!ChunksOwned /\ Memory!ItemsApart
  /\ subject = "vectors" => Cells!VectorsHold /\ Cells!BuffersOwned

\* The percentage goes back only at start() (Console.cpp); a pile is read back as
\* it was appended (PileFile.cpp); an index is published once while a store lives
\* (ReverseTileIndex.cpp).
StepsRight ==
  [][/\ subject = "console"  => Console!Forward
     /\ subject = "piles"    => Pile!ReadBack
     /\ subject = "registry" => Registry!IndexKept]_vars

\* These do not hold: see the README, section 6.  A mapping is never cut off, a pile
\* is loaded from its own pages, who has a store has an open one, a file has one
\* store, and all that is written is taken.
NeverCut == subject = "mapped" => Mapped!NeverCut
LoadedWhole == subject = "piles" => Pile!LoadedWhole
HeldAlwaysOpen == subject = "registry" => Registry!HeldAlwaysOpen
AlwaysOneStore == subject = "registry" => Registry!AlwaysOneStore
AllTaken == subject = "buffers" => Buffer!AllTaken
================================================================================
