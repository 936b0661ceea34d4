-------------------------------- MODULE Arenas --------------------------------
(***************************************************************************)
(* Arena, SimpleArena and ArenaBag.  An arena cuts objects from the chunk  *)
(* that it has, takes a new chunk from the heap when that has no room, and *)
(* gives all its chunks back at once.                                      *)
(*                                                                         *)
(* A chunk has an address for each unit of its size, and a header of       *)
(* HeaderSize units before them, which links it to the arena's next chunk: *)
(* of the list, it matters which chunks it has and which is the newest.    *)
(***************************************************************************)
EXTENDS Naturals, Sequences, FiniteSets

CONSTANTS
  ChunkSize,        \* of the first chunk of an Arena, and of all of a SimpleArena
  Growths,          \* by how much an Arena's chunks grow: nextSize_ \div growth
  Sizes, Alignments,
  HeaderSize,
  SimpleArenas,
  ItemsPerChunk,    \* of an ArenaBag
  MaxCalls

None == 0

\* No type has a stricter alignment than the pointer in a chunk's header, which
\* allocChunk() relies on (Arena.cpp, line 66).
ArenasAssumption ==
  /\ ChunkSize \in Nat \ {0} /\ HeaderSize \in Nat \ {0} /\ ItemsPerChunk \in Nat \ {0}
  /\ Growths \subseteq Nat \ {0} /\ Sizes \subseteq Nat \ {0} /\ "arena" \notin SimpleArenas
  /\ 1 \in Alignments /\ \A align \in Alignments : align \in Nat \ {0} /\ HeaderSize % align = 0

VARIABLES
  chunkSizes,       \* of the chunks that were taken from the heap, by number
  freed,            \* how often each was given back
  growth,
  arena,            \* [own: its chunks; current, p, end, nextSize; last: the object that
                    \* was allocated last and may be trimmed, or None]
  simple,           \* each SimpleArena: [own, current, p, end]
  objects,          \* [owner, chunk, from, size, align] of those alive, by the call that made them
  bag,              \* [nodes: the objects that hold its items; count: of its items]
  calls

vars == <<chunkSizes, freed, growth, arena, simple, objects, bag, calls>>

NewArena == [own |-> {}, current |-> None, p |-> 0, end |-> 0, nextSize |-> ChunkSize, last |-> None]
NewSimple == [own |-> {}, current |-> None, p |-> HeaderSize + ChunkSize, end |-> HeaderSize + ChunkSize]
NewBag == [nodes |-> <<>>, count |-> 0]

Init ==
  /\ chunkSizes = <<>> /\ freed = <<>> /\ growth \in Growths
  /\ arena = NewArena /\ simple = [s \in SimpleArenas |-> NewSimple]
  /\ objects = [i \in {} |-> None] /\ bag = NewBag /\ calls = 0

-----------------------------------------------------------------------------
(* The heap.                                                               *)

NewChunk == Len(chunkSizes) + 1
ChunkTaken(size) == chunkSizes' = Append(chunkSizes, size) /\ freed' = Append(freed, 0)
Freed(own) == [c \in DOMAIN freed |-> IF c \in own THEN freed[c] + 1 ELSE freed[c]]

\* The object that this call makes of the place after p.
Object(owner, chunk, p, size, align) ==
  [i \in DOMAIN objects \union {calls + 1} |->
     IF i = calls + 1 THEN [owner |-> owner, chunk |-> chunk, from |-> p, size |-> size, align |-> align] ELSE objects[i]]

Without(gone) == [i \in DOMAIN objects \ gone |-> objects[i]]

-----------------------------------------------------------------------------
(* Arena.                                                                  *)

Aligned(p, align) == ((p + align - 1) \div align) * align
\* Wrong: the place is aligned after it was compared with the end.
RoomUnaligned(size, align) == arena.p + size <= arena.end
Room(size, align) == Aligned(arena.p, align) + size <= arena.end

\* allocChunk(): an object that is larger than the next chunk gets one of its own.
Whale(size) == size > arena.nextSize
GrossSize(size) == HeaderSize + (IF Whale(size) THEN size ELSE arena.nextSize)
NextSize(size) == IF Whale(size) THEN arena.nextSize ELSE arena.nextSize + arena.nextSize \div growth

Alloc(size, align, last) ==
  \/ /\ Room(size, align)
     /\ arena' = [arena EXCEPT !.p = Aligned(@, align) + size, !.last = last]
     /\ objects' = Object("arena", arena.current, Aligned(arena.p, align), size, align)
     /\ UNCHANGED <<chunkSizes, freed>>
  \/ /\ ~Room(size, align)
     /\ arena' = [own |-> arena.own \union {NewChunk}, current |-> NewChunk, p |-> HeaderSize + size,
                  end |-> GrossSize(size), nextSize |-> NextSize(size), last |-> last]
     /\ objects' = Object("arena", NewChunk, HeaderSize, size, align)
     /\ ChunkTaken(GrossSize(size))

AllocObject ==
  /\ \E size \in Sizes, align \in Alignments : Alloc(size, align, calls + 1)
  /\ UNCHANGED <<growth, simple, bag>>

\* Wrong: the bytes are counted from the object's start.
TrimmedFromStart(by) == objects[arena.last].from + by
Trimmed(by) == arena.p - by

\* Only the object that was allocated last may be trimmed or freed: the caller
\* has to see to it.
ReduceLastAlloc ==
  /\ arena.last # None
  /\ \E by \in 1 .. objects[arena.last].size - 1 :
       /\ arena' = [arena EXCEPT !.p = Trimmed(by)]
       /\ objects' = [objects EXCEPT ![arena.last].size = @ - by]
  /\ UNCHANGED <<chunkSizes, freed, growth, simple, bag>>

FreeLastAlloc ==
  /\ arena.last # None
  /\ arena' = [arena EXCEPT !.p = objects[arena.last].from, !.last = None]
  /\ objects' = Without({arena.last})
  /\ UNCHANGED <<chunkSizes, freed, growth, simple, bag>>

ObjectsOf(owner) == {i \in DOMAIN objects : objects[i].owner = owner}

Clear ==
  /\ freed' = Freed(arena.own) /\ arena' = NewArena
  /\ objects' = Without(ObjectsOf("arena")) /\ bag' = NewBag
  /\ UNCHANGED <<chunkSizes, growth, simple>>

-----------------------------------------------------------------------------
(* ArenaBag: chunks of items, each an object of the arena.                 *)

\* Wrong: a chunk takes one item more than it has room for.
NeedsNodeLate(count) == count % (ItemsPerChunk + 1) = 0
NeedsNode(count) == count % ItemsPerChunk = 0

AddItem ==
  /\ \/ /\ NeedsNode(bag.count)
        /\ Alloc(1 + ItemsPerChunk, 1, None)
        /\ bag' = [nodes |-> Append(bag.nodes, calls + 1), count |-> bag.count + 1]
     \/ /\ ~NeedsNode(bag.count)
        /\ bag' = [bag EXCEPT !.count = @ + 1]
        /\ UNCHANGED <<chunkSizes, freed, arena, objects>>
  /\ UNCHANGED <<growth, simple>>

\* Where an item is, and where the iterator looks for it: after the link to the
\* bag's next chunk.
ItemNode(i) == bag.nodes[((i - 1) \div ItemsPerChunk) + 1]
ItemAddress(i) == <<objects[ItemNode(i)].chunk, objects[ItemNode(i)].from + 1 + ((i - 1) % ItemsPerChunk)>>

-----------------------------------------------------------------------------
(* SimpleArena.                                                            *)

\* The size of a chunk is told by end, as is that of the first before it is taken.
AllocSimple(s) ==
  /\ \E size \in {n \in Sizes : n <= ChunkSize} :
       \/ /\ simple[s].p + size <= simple[s].end
          /\ simple' = [simple EXCEPT ![s].p = @ + size]
          /\ objects' = Object(s, simple[s].current, simple[s].p, size, 1)
          /\ UNCHANGED <<chunkSizes, freed>>
       \/ /\ simple[s].p + size > simple[s].end
          /\ simple' = [simple EXCEPT ![s] = [own |-> @.own \union {NewChunk}, current |-> NewChunk,
                                              p |-> HeaderSize + size, end |-> @.end]]
          /\ objects' = Object(s, NewChunk, HeaderSize, size, 1)
          /\ ChunkTaken(simple[s].end)
  /\ UNCHANGED <<growth, arena, bag>>

\* Wrong: the other arena goes on with its chunks.
LeftOfShared(a) == a
LeftOf(a) == NewSimple

\* The arena that is assigned to gives its chunks back, with all that is in them.
MoveSimple(s, t) ==
  /\ s # t
  /\ simple' = [simple EXCEPT ![s] = simple[t], ![t] = LeftOf(simple[t])]
  /\ freed' = Freed(simple[s].own)
  /\ objects' = [i \in DOMAIN objects \ ObjectsOf(s) |->
                   IF objects[i].owner = t THEN [objects[i] EXCEPT !.owner = s] ELSE objects[i]]
  /\ UNCHANGED <<chunkSizes, growth, arena, bag>>

Next ==
  /\ calls < MaxCalls /\ calls' = calls + 1
  /\ \/ AllocObject \/ ReduceLastAlloc \/ FreeLastAlloc \/ Clear \/ AddItem
     \/ \E s \in SimpleArenas : AllocSimple(s)
     \/ \E s, t \in SimpleArenas : MoveSimple(s, t)

Spec == Init /\ [][Next]_vars

-----------------------------------------------------------------------------
(* Correctness.                                                            *)

\* Objects are aligned and within a chunk that is alive and belongs to their
\* arena, after its header, and no two overlap (Arena.h, lines 87-184, Arena.cpp,
\* lines 64-92, SimpleArena.h, lines 49-90).
OwnedBy(owner) == IF owner = "arena" THEN arena.own ELSE simple[owner].own
ObjectsApart ==
  /\ \A i \in DOMAIN objects : \E o \in {objects[i]} :
       /\ o.from >= HeaderSize /\ o.from + o.size <= chunkSizes[o.chunk] /\ o.from % o.align = 0
       /\ freed[o.chunk] = 0 /\ o.chunk \in OwnedBy(o.owner)
  /\ \A i, j \in DOMAIN objects : i # j /\ objects[i].chunk = objects[j].chunk =>
       objects[i].from + objects[i].size <= objects[j].from \/ objects[j].from + objects[j].size <= objects[i].from

\* A chunk is given back once, or is one arena's.
ChunksOwned ==
  \A c \in DOMAIN chunkSizes :
    freed[c] + Cardinality({s \in SimpleArenas : c \in simple[s].own}) + (IF c \in arena.own THEN 1 ELSE 0) = 1

\* Each item of a bag has a place of its own, within an object of the arena
\* (ArenaBag.h, lines 35-97).
ItemsApart ==
  /\ \A i \in 1 .. bag.count : /\ (i - 1) \div ItemsPerChunk < Len(bag.nodes) /\ ItemNode(i) \in ObjectsOf("arena")
                               /\ ItemAddress(i)[2] < objects[ItemNode(i)].from + objects[ItemNode(i)].size
  /\ \A i, j \in 1 .. bag.count : i # j => ItemAddress(i) # ItemAddress(j)
================================================================================
