-------------------------------- MODULE PileFile --------------------------------
(***************************************************************************)
(* The file of piles (PileFile.cpp) that lies in an expandable mapped file *)
(* and the block that a pile is loaded into (ReusableBlock.h).  A pile is  *)
(* a list of chunks, each a run of pages with a header.  The header says   *)
(* how much fits into the chunk and, in one field, how much is left or     *)
(* where the next chunk is.  A pile can be given its first chunk before    *)
(* anything is appended; that chunk gets its header when it is used.       *)
(*                                                                         *)
(* A page holds PageSize bytes, of which a chunk's header takes HeaderSize *)
(* of its first page.  The bytes of an appended datum are told apart.      *)
(*                                                                         *)
(* A chunk is written and read as one piece of memory.  Nothing in the     *)
(* code sees to it that a chunk lies in one mapping of the file: what is   *)
(* written beyond the one it begins in may be lost.                        *)
(***************************************************************************)
EXTENDS Segments, Sequences

CONSTANTS
  Piles, PageShift, HeaderSize,
  Lengths,          \* of what is appended
  Preallocations,   \* numbers of pages
  MaxPages, MaxCalls,
  Increment, MaxWastefulCycles

PageSize == Power[PageShift]
PileAssumption ==
  /\ PageShift \in Nat /\ HeaderSize \in Nat /\ HeaderSize < PageShift /\ PageSize <= SegmentLength
  /\ Lengths \subseteq Nat /\ Preallocations \subseteq Nat \ {0}
  /\ Increment \in Nat \ {0} /\ MaxWastefulCycles \in Nat \ {0}

VARIABLES
  pageSize,         \* pageSize_ of the object
  pageCount,
  index,            \* by pile: [firstPage, lastPage, totalPayloadSize]
  chunks,           \* by first page: [payloadSize, rest, data]
  appended,         \* by pile: the bytes given to append()
  block,            \* [capacity, size, cycles]
  loading,          \* the call of load() in progress: [pile, page, left, data]
  loaded,           \* what the last one has read
  crossed,          \* the places of this that were beyond the mapping their chunk begins in
  calls

vars == <<pageSize, pageCount, index, chunks, appended, block, loading, loaded, crossed, calls>>

NoPile == 0
Free == [firstPage |-> 0, lastPage |-> 0, totalPayloadSize |-> 0]
Idle == [pile |-> NoPile, page |-> 0, left |-> 0, data |-> <<>>]
IndexPages == 1

\* create() of the file; the first pages hold the index.
Init ==
  /\ pageSize = PageSize /\ pageCount = IndexPages
  /\ index = [p \in Piles |-> Free]
  /\ chunks = [p \in {} |-> 0]
  /\ appended = [p \in Piles |-> <<>>]
  /\ block = [capacity |-> 0, size |-> 0, cycles |-> MaxWastefulCycles]
  /\ loading = Idle /\ loaded = Idle /\ crossed = {} /\ calls = 0

Call == loading = Idle /\ calls < MaxCalls /\ calls' = calls + 1

\* The size of the file is not limited, but in the model.
Fits(pages) == pageCount + pages <= MaxPages

\* preallocate()
Preallocate(p, pages) ==
  /\ Call /\ index[p] = Free /\ Fits(pages)
  /\ index' = [index EXCEPT ![p] = [firstPage |-> pageCount, lastPage |-> 0,
                                    totalPayloadSize |-> pages * PageSize - HeaderSize]]
  /\ pageCount' = pageCount + pages
  /\ UNCHANGED <<pageSize, chunks, appended, block, loading, loaded, crossed>>

-----------------------------------------------------------------------------
(* append()                                                                *)

\* allocChunk(): its pages, and what it can hold.
\* Wrong: no room is made for the header.
PagesForBare(len) == (len + pageSize - 1) \div pageSize
PagesFor(len) == (len + pageSize - HeaderSize - 1) \div (pageSize - HeaderSize)
ChunkOf(pages, data) == [payloadSize |-> pages * PageSize - HeaderSize, data |-> data,
                         rest |-> pages * PageSize - HeaderSize - Len(data)]

\* A chunk is written at its page.
Put(cs, page, c) == [a \in DOMAIN cs \union {page} |-> IF a = page THEN c ELSE cs[a]]

\* The chunk that the pile ends with, as append() finds it.
LastChunk(p) ==
  IF index[p].lastPage = 0 THEN [payloadSize |-> index[p].totalPayloadSize, rest |-> index[p].totalPayloadSize, data |-> <<>>]
  ELSE chunks[index[p].lastPage]
LastPage(p) == IF index[p].lastPage = 0 THEN index[p].firstPage ELSE index[p].lastPage
\* Wrong: the payload of the chunk that was set aside is left in the total.
TotalWithReserve(p) == index[p].totalPayloadSize
Total(p) == IF index[p].lastPage = 0 THEN 0 ELSE index[p].totalPayloadSize

Bytes(len) == [i \in 1 .. len |-> <<calls, i>>]
\* What is left of them when n have been written.
\* Wrong: the first ones are written again.
RemainingFromStart(len, n) == SubSeq(Bytes(len), 1, len - n)
Remaining(len, n) == SubSeq(Bytes(len), n + 1, len)

\* The first chunk of a pile.
AppendFirst(p, len) ==
  /\ Call /\ index[p].firstPage = 0 /\ len > 0 /\ Fits(PagesFor(len))
  /\ chunks' = Put(chunks, pageCount, ChunkOf(PagesFor(len), Bytes(len)))
  /\ index' = [index EXCEPT ![p] = [firstPage |-> pageCount, lastPage |-> pageCount, totalPayloadSize |-> len]]
  /\ pageCount' = pageCount + PagesFor(len)
  /\ appended' = [appended EXCEPT ![p] = @ \o Bytes(len)]
  /\ UNCHANGED <<pageSize, block, loading, loaded, crossed>>

\* The rest of the last chunk is enough, or it is filled and another is linked.
AppendMore(p, len) ==
  /\ Call /\ index[p].firstPage # 0
  /\ \E c \in {LastChunk(p)}, last \in {LastPage(p)} :
     \E n \in {IF len < c.rest THEN len ELSE c.rest} :
     \E filled \in {[c EXCEPT !.rest = @ - n, !.data = @ \o SubSeq(Bytes(len), 1, n)]} :
       IF n = len
       THEN /\ chunks' = Put(chunks, last, filled)
            /\ index' = [index EXCEPT ![p].lastPage = last, ![p].totalPayloadSize = Total(p) + len]
            /\ pageCount' = pageCount
       ELSE /\ Fits(PagesFor(len - n))
            /\ chunks' = Put(Put(chunks, last, [filled EXCEPT !.rest = pageCount]),
                             pageCount, ChunkOf(PagesFor(len - n), Remaining(len, n)))
            /\ index' = [index EXCEPT ![p].lastPage = pageCount, ![p].totalPayloadSize = Total(p) + len]
            /\ pageCount' = pageCount + PagesFor(len - n)
  /\ appended' = [appended EXCEPT ![p] = @ \o Bytes(len)]
  /\ UNCHANGED <<pageSize, block, loading, loaded, crossed>>

-----------------------------------------------------------------------------
(* load(), one chunk a step, and the block.                                *)

\* reset() of the block.  Sizes are unsigned: too small a capacity looks
\* wasteful, too, but is replaced anyway.
Cycles(size) == IF size > block.capacity \/ block.capacity - size >= Increment THEN block.cycles - 1 ELSE block.cycles
\* Wrong: a block of the new size is thought to do until it wastes too much.
ResetLate(size) == [block EXCEPT !.size = size, !.cycles = Cycles(size)]
Reset(size) ==
  IF size > block.capacity \/ Cycles(size) = 0
  THEN [size |-> size, cycles |-> MaxWastefulCycles, capacity |-> ((size + Increment - 1) \div Increment) * Increment]
  ELSE [block EXCEPT !.size = size, !.cycles = Cycles(size)]

Load(p) ==
  /\ Call
  /\ IF index[p].lastPage = 0
     THEN /\ block' = Reset(0) /\ loading' = Idle
          /\ loaded' = [pile |-> p, page |-> 0, left |-> 0, data |-> <<>>]
     ELSE /\ block' = Reset(index[p].totalPayloadSize) /\ loaded' = loaded
          /\ loading' = [pile |-> p, page |-> index[p].firstPage, left |-> index[p].totalPayloadSize, data |-> <<>>]
  /\ crossed' = {}
  /\ UNCHANGED <<pageSize, pageCount, index, chunks, appended>>

\* The bytes of a chunk beyond the mapping it begins in (ExpandableMappedFile.h,
\* lines 24-26), and what is read of a chunk: memory that is not of the mapping may
\* still have what was written there, or anything.  That the program ends instead,
\* or what else it has damaged, is not modelled.
Strange == <<0, 0>>
MappingOf(ofs) == MappingNumber(MainMappingSize(IndexPages * PageSize), ofs)
Beyond(page, data) ==
  {i \in 1 .. Len(data) : MappingOf(page * PageSize + HeaderSize + i - 1) # MappingOf(page * PageSize)}
Content(page, data, damaged) ==
  [i \in 1 .. Len(data) |-> IF damaged /\ i \in Beyond(page, data) THEN Strange ELSE data[i]]

LoadChunk ==
  /\ loading # Idle
  /\ \E c \in {chunks[loading.page]}, damaged \in BOOLEAN :
     \E data \in {loading.data \o Content(loading.page, c.data, damaged)} :
       /\ IF loading.page = index[loading.pile].lastPage
          THEN /\ loaded' = [loading EXCEPT !.page = 0, !.left = @ - (c.payloadSize - c.rest), !.data = data]
               /\ loading' = Idle
          ELSE /\ loading' = [loading EXCEPT !.page = c.rest, !.left = @ - c.payloadSize, !.data = data]
               /\ loaded' = loaded
       /\ crossed' = crossed \union {Len(loading.data) + i : i \in Beyond(loading.page, c.data)}
  /\ UNCHANGED <<pageSize, pageCount, index, chunks, appended, block, calls>>

\* openExisting() takes the shift for the size of a page (PileFile.cpp, line 24):
\* chunks allocated from then on are larger than they need be.
OpenExisting ==
  /\ Call /\ pageSize' = PageShift
  /\ UNCHANGED <<pageCount, index, chunks, appended, block, loading, loaded, crossed>>

Next ==
  \/ \E p \in Piles :
       \/ \E pages \in Preallocations : Preallocate(p, pages)
       \/ \E len \in Lengths : AppendFirst(p, len) \/ AppendMore(p, len)
       \/ Load(p)
  \/ LoadChunk \/ OpenExisting

Spec == Init /\ [][Next]_vars

-----------------------------------------------------------------------------
(* Correctness.                                                            *)

\* A pile is read back as what was appended to it, all of it and in order,
\* whatever was appended to other piles in between; only a byte of a chunk that lies
\* beyond the mapping in which the chunk begins may be another one (PileFile.cpp,
\* lines 79-99, 180-222).
ReadBack ==
  loaded' # loaded =>
    \E whole \in {appended[loaded'.pile]} :
      /\ Len(loaded'.data) = Len(whole)
      /\ \A i \in 1 .. Len(whole) : loaded'.data[i] = whole[i] \/ (i \in crossed' /\ loaded'.data[i] = Strange)

\* What a user of piles expects, and does not get where a chunk crosses the end of
\* a mapping: nothing else is read than what was appended.
LoadedWhole == loading = Idle /\ loaded # Idle => \A i \in 1 .. Len(loaded.data) : loaded.data[i] # Strange

\* While it is read, what is left agrees with the chunks, as load() asserts, and
\* the block can take it (PileFile.cpp, lines 180-206).
ReadFits ==
  loading # Idle =>
    /\ \E c \in {chunks[loading.page]} :
         IF loading.page = index[loading.pile].lastPage
         THEN loading.left = c.payloadSize - c.rest
         ELSE loading.left > c.payloadSize
    /\ Len(loading.data) + loading.left = block.size /\ block.size <= block.capacity

\* Chunks, and chunks set aside, take up pages of their own, and what was not
\* yet read is never more than what the chunk can hold (allocChunk, preallocate).
PagesOf(c) == (c.payloadSize + HeaderSize) \div PageSize
Run(page, pages) == page .. page + pages - 1
Reserved == {p \in Piles : index[p].firstPage # 0 /\ index[p].lastPage = 0}
ChunksDisjoint ==
  /\ \A a, b \in DOMAIN chunks : a # b => Run(a, PagesOf(chunks[a])) \intersect Run(b, PagesOf(chunks[b])) = {}
  /\ \A a \in DOMAIN chunks : Run(a, PagesOf(chunks[a])) \subseteq IndexPages .. pageCount - 1
  /\ \A a \in DOMAIN chunks : Len(chunks[a].data) <= chunks[a].payloadSize
  /\ \A p \in Reserved : Run(index[p].firstPage, (index[p].totalPayloadSize + HeaderSize) \div PageSize)
                            \intersect DOMAIN chunks = {}

================================================================================
