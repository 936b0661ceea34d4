-------------------------- MODULE FreeStoreTransaction --------------------------
(***************************************************************************)
(* Transactions on a feature store, as far as the page allocator and the   *)
(* header are concerned: begin, adding and freeing tiles, commits (final   *)
(* and intermediate), end, and a crash between any two steps.              *)
(*                                                                         *)
(* The store survives a crash through its header.  A commit writes new     *)
(* blobs into free pages, syncs, writes the header, and syncs again; the   *)
(* pages the durable header leads to must therefore stay untouched until   *)
(* the next header is durable.  The free ranges are kept in a blob, the    *)
(* free-range index (FRI): begin() reads it and stages its pages to be     *)
(* freed, a final commit writes a new one.                                 *)
(*                                                                         *)
(* Contents of pages are abstracted to which pages have been written; the  *)
(* header is written as a whole (FreeStoreJournal.tla models torn writes). *)
(***************************************************************************)
EXTENDS FreeRanges

CONSTANTS BlobSizes,     \* sizes of tiles, in pages
          MetaPages,     \* pages of the header and the metadata section
          IndexPages,    \* pages of the tile index
          SlotsPerPage,  \* 8-byte slots in a page: capacity of the FRI
          MaxPages,      \* bound: no page of the file has a number this large
          MaxEdits       \* bound: tiles added or freed between two commits

ASSUME BlobSizesAssumption == BlobSizes \subseteq 1 .. SegmentPages
ASSUME IndexPagesAssumption == IndexPages \in 1 .. SegmentPages
ASSUME BoundsAssumption ==
  /\ MetaPages \in Nat \ {0} /\ SlotsPerPage \in Nat \ {0}
  /\ MaxPages \in Nat /\ MaxEdits \in Nat

Pages(r) == r.start .. End(r) - 1
PagesOf(runs) == UNION {Pages(r) : r \in runs}
MetaRun == [start |-> 0, size |-> MetaPages]

\* header_.freeRangeIndex: 0, INVALID_FREE_RANGE_INDEX, or the page of a blob;
\* ranges and slots are what that blob holds.
Zero    == [kind |-> "zero"]
Invalid == [kind |-> "invalid"]
Index(run, ranges, slots) ==
  [kind |-> "blob", run |-> run, ranges |-> ranges, slots |-> slots]

\* A header that has never been written: the store is still to be created.
\* "final" is history, not a field of the file: whether a final commit wrote it.
Blank == [totalPages |-> 0, freeRanges |-> 0, freeRangeIndex |-> Zero,
          tileIndex |-> {}, tiles |-> {}, final |-> FALSE]

VARIABLES
  disk,        \* the header that is durable
  cached,      \* the header in the file; a crash may lose it while it differs
  phase,       \* how far the transaction is; "closed": no transaction;
               \* "misread": begin() took data that is no index for one;
               \* "damaged": the header may lead to overwritten pages
  isFinal,     \* the parameter of the commit under way (or of the last one)
  edits,       \* tiles added or freed since the last commit
  space,       \* page and range counts of header_, and the two trees
  staged,      \* stagedFreeRanges_
  tiles,       \* the blobs the tile index in memory leads to
  tileIndex,   \* the tile index blob of header_: none or one
  fri,         \* header_.freeRangeIndex
  blobWrites,  \* pages addBlob has written since disk became durable
  friWrites,   \* pages writeFreeRangeIndex has written since then
  unsynced     \* pages written since the last sync

memory == <<isFinal, edits, space, staged, tiles, tileIndex, fri>>
vars == <<disk, cached, phase, memory, blobWrites, friWrites, unsynced>>

\* The runs that the header h leads to.
Reach(h) ==
  (IF h = Blank THEN {} ELSE {MetaRun}) \cup h.tiles \cup h.tileIndex \cup
  (IF h.freeRangeIndex.kind = "blob" THEN {h.freeRangeIndex.run} ELSE {})

Init ==
  /\ disk = Blank
  /\ cached = Blank
  /\ phase = "closed"
  /\ isFinal = FALSE
  /\ edits = 0
  /\ space = FreshSpace(MetaPages)
  /\ staged = {}
  /\ tiles = {}
  /\ tileIndex = {}
  /\ fri = Zero
  /\ blobWrites = {}
  /\ friWrites = {}
  /\ unsynced = {}

-----------------------------------------------------------------------------
(* begin() *)

\* Wrong: the index's own pages are free at once.
ReadFreeRangeIndexFreed(h) ==
  IF h.freeRanges = 0
  THEN [ranges |-> {}, staged |-> {}, fri |-> h.freeRangeIndex]
  ELSE [ranges |-> h.freeRangeIndex.ranges \cup {h.freeRangeIndex.run},
        staged |-> {h.freeRangeIndex.run},
        fri    |-> Invalid]

\* The trees and the staged runs that readFreeRangeIndex leaves behind: it
\* returns at once when the header counts no free range.
ReadFreeRangeIndex(h) ==
  IF h.freeRanges = 0
  THEN [ranges |-> {}, staged |-> {}, fri |-> h.freeRangeIndex]
  ELSE [ranges |-> h.freeRangeIndex.ranges,
        staged |-> {h.freeRangeIndex.run},
        fri    |-> Invalid]

\* What the header counts is what its index holds.
Readable(h) ==
  \/ h.freeRanges = 0
  \/ /\ h.freeRangeIndex.kind = "blob"
     /\ Cardinality(h.freeRangeIndex.ranges) = h.freeRanges

BeginCreated ==
  /\ phase = "closed"
  /\ cached = Blank
  /\ phase' = "open"
  /\ space' = FreshSpace(MetaPages)
  /\ staged' = {} /\ tiles' = {} /\ tileIndex' = {} /\ fri' = Zero
  /\ edits' = 0 /\ isFinal' = FALSE
  /\ UNCHANGED <<disk, cached, blobWrites, friWrites, unsynced>>

Begin ==
  LET read == ReadFreeRangeIndex(cached)
  IN  /\ phase = "closed"
      /\ cached # Blank
      /\ Readable(cached)
      /\ phase' = "open"
      /\ space' = [totalPages  |-> cached.totalPages,
                   freeRanges  |-> cached.freeRanges,
                   freeByStart |-> read.ranges,
                   freeBySize  |-> read.ranges]
      /\ staged' = read.staged
      /\ fri' = read.fri
      /\ tiles' = cached.tiles
      /\ tileIndex' = cached.tileIndex
      /\ edits' = 0 /\ isFinal' = FALSE
      /\ UNCHANGED <<disk, cached, blobWrites, friWrites, unsynced>>

\* Page 0xffffffff is not one of the file: reading it throws.
BeginThrows ==
  /\ phase = "closed"
  /\ ~ Readable(cached)
  /\ cached.freeRangeIndex.kind = "invalid"
  /\ UNCHANGED vars

\* An index that is 0, or one of an earlier state of the store, is read all the
\* same: page 0 of the file, or slots that are zero.  The assertions at 506, 526
\* and 527 stop a debug build, but not for every count (one range: 506 only asks
\* that the upper half of commitId is not 0) and no build with NDEBUG.
BeginMisreads ==
  /\ phase = "closed"
  /\ ~ Readable(cached)
  /\ cached.freeRangeIndex.kind # "invalid"
  /\ phase' = "misread"
  /\ UNCHANGED <<disk, cached, memory, blobWrites, friWrites, unsynced>>

\* Such a transaction has made-up runs in its trees and the index's page, 0, on
\* its list of pages to free.  It dies before it writes anything, or what it
\* allocates and frees is in use and the file is lost.
MisreadGoesOn ==
  /\ phase = "misread"
  /\ phase' \in {"closed", "damaged"}
  /\ UNCHANGED <<disk, cached, memory, blobWrites, friWrites, unsynced>>

-----------------------------------------------------------------------------
(* Edits *)

\* addBlob: allocates pages and writes them at once.
NewBlob(n) == [start |-> AllocPages(space, n).first, size |-> n]

AddBlob(n) ==
  /\ End(NewBlob(n)) =< MaxPages
  /\ space' = AllocPages(space, n).space
  /\ blobWrites' = blobWrites \cup Pages(NewBlob(n))
  /\ unsynced' = unsynced \cup Pages(NewBlob(n))

PutTile(n) ==
  /\ phase = "open"
  /\ edits < MaxEdits
  /\ AddBlob(n)
  /\ tiles' = tiles \cup {NewBlob(n)}
  /\ edits' = edits + 1
  /\ UNCHANGED <<disk, cached, phase, isFinal, staged, tileIndex, fri, friWrites>>

\* Wrong: the pages are free at once.
FreeTileAtOnce(tile) ==
  /\ phase = "open"
  /\ edits < MaxEdits
  /\ space' = PerformFreePages(space, tile)
  /\ tiles' = tiles \ {tile}
  /\ edits' = edits + 1
  /\ UNCHANGED <<disk, cached, phase, isFinal, staged, tileIndex, fri,
                 blobWrites, friWrites, unsynced>>

\* freePages for a tile: its pages stay allocated until the commit.
FreeTile(tile) ==
  /\ phase = "open"
  /\ edits < MaxEdits
  /\ staged' = staged \cup {tile}
  /\ tiles' = tiles \ {tile}
  /\ edits' = edits + 1
  /\ UNCHANGED <<disk, cached, phase, isFinal, space, tileIndex, fri,
                 blobWrites, friWrites, unsynced>>

-----------------------------------------------------------------------------
(* commit(isFinal), step by step *)

\* Wrong: the old tile index is not given back.
CommitIndexKept(final) ==
  /\ phase = "open"
  /\ isFinal => final
  /\ AddBlob(IndexPages)
  /\ tileIndex' = tileIndex \cup {NewBlob(IndexPages)}
  /\ isFinal' = final
  /\ phase' = "freeing"
  /\ UNCHANGED <<disk, cached, edits, staged, tiles, fri, friWrites>>

\* FeatureStore::Transaction::commit: a new tile index replaces the old one.
\* An intermediate commit does not follow a final one.
Commit(final) ==
  /\ phase = "open"
  /\ isFinal => final
  /\ AddBlob(IndexPages)
  /\ tileIndex' = {NewBlob(IndexPages)}
  /\ staged' = staged \cup tileIndex
  /\ isFinal' = final
  /\ phase' = "freeing"
  /\ UNCHANGED <<disk, cached, edits, tiles, fri, friWrites>>

CommitFree(run) ==
  /\ phase = "freeing"
  /\ space' = PerformFreePages(space, run)
  /\ staged' = staged \ {run}
  /\ UNCHANGED <<disk, cached, phase, isFinal, edits, tiles, tileIndex, fri,
                 blobWrites, friWrites, unsynced>>

\* Wrong: no slot for a range that the allocation adds.
SlotCountTooSmall(freeRanges) == freeRanges + 1

\* One slot for the blob's size, one more because allocating the blob may
\* itself add a free range.
SlotCount(freeRanges) == freeRanges + 2

pagesForSlots(slots) == (slots + SlotsPerPage - 1) \div SlotsPerPage

\* allocPages asserts that what it is asked for fits into a segment
\* (FreeStore_Transaction.cpp:104).  A free-range index outgrows a segment at
\* 134 million free ranges; the model ends there.
FitsSegment(n) == n =< SegmentPages

\* Wrong: the ranges are written as they were before the allocation.
WriteFreeRangeIndexTooEarly ==
  LET slots == SlotCount(space.freeRanges)
      n     == pagesForSlots(slots)
      alloc == AllocPages(space, n)
      run   == [start |-> alloc.first, size |-> n]
  IN  IF space.freeRanges = 0
      THEN /\ fri' = Zero
           /\ UNCHANGED <<space, friWrites, unsynced>>
      ELSE /\ FitsSegment(n) /\ End(run) =< MaxPages
           /\ space' = alloc.space
           /\ fri' = Index(run, space.freeByStart, slots)
           /\ friWrites' = friWrites \cup Pages(run)
           /\ unsynced' = unsynced \cup Pages(run)

WriteFreeRangeIndex ==
  LET slots == SlotCount(space.freeRanges)
      n     == pagesForSlots(slots)
      alloc == AllocPages(space, n)
      run   == [start |-> alloc.first, size |-> n]
  IN  IF space.freeRanges = 0
      THEN /\ fri' = Zero
           /\ UNCHANGED <<space, friWrites, unsynced>>
      ELSE /\ FitsSegment(n) /\ End(run) =< MaxPages
           /\ space' = alloc.space
           /\ fri' = Index(run, alloc.space.freeByStart, slots)
           /\ friWrites' = friWrites \cup Pages(run)
           /\ unsynced' = unsynced \cup Pages(run)

CommitIndex ==
  /\ phase = "freeing"
  /\ staged = {}
  /\ IF isFinal THEN WriteFreeRangeIndex
     ELSE UNCHANGED <<fri, space, friWrites, unsynced>>
  /\ phase' = "written"
  /\ UNCHANGED <<disk, cached, isFinal, edits, staged, tiles, tileIndex, blobWrites>>

\* Wrong: no sync before the header is written.
CommitSyncSkipped ==
  /\ phase = "written"
  /\ phase' = "synced"
  /\ UNCHANGED <<disk, cached, memory, blobWrites, friWrites, unsynced>>

CommitSync ==
  /\ phase = "written"
  /\ unsynced' = {}
  /\ phase' = "synced"
  /\ UNCHANGED <<disk, cached, memory, blobWrites, friWrites>>

CommitHeader ==
  /\ phase = "synced"
  /\ cached' = [totalPages |-> space.totalPages, freeRanges |-> space.freeRanges,
                freeRangeIndex |-> fri, tileIndex |-> tileIndex, tiles |-> tiles,
                final |-> isFinal]
  /\ phase' = "headerWritten"
  /\ UNCHANGED <<disk, memory, blobWrites, friWrites, unsynced>>

\* The transaction stays open: commit may be called again.
CommitDone ==
  /\ phase = "headerWritten"
  /\ disk' = cached
  /\ blobWrites' = {} /\ friWrites' = {} /\ unsynced' = {}
  /\ edits' = 0
  /\ phase' = "open"
  /\ UNCHANGED <<cached, isFinal, space, staged, tiles, tileIndex, fri>>

-----------------------------------------------------------------------------
\* What a closed store keeps in memory is of no interest.
Forget(nextPhase) ==
  /\ phase' = nextPhase
  /\ isFinal' = FALSE /\ edits' = 0
  /\ space' = FreshSpace(MetaPages)
  /\ staged' = {} /\ tiles' = {} /\ tileIndex' = {} /\ fri' = Zero
  /\ blobWrites' = {} /\ friWrites' = {} /\ unsynced' = {}

\* end(): the caller has made a final commit; what it did since is dropped.
EndTransaction ==
  /\ phase = "open"
  /\ isFinal
  /\ Forget("closed")
  /\ UNCHANGED <<disk, cached>>

\* Pages the durable header leads to that have been written since.
Overwritten == (blobWrites \cup friWrites) \cap PagesOf(Reach(disk))

\* The machine or the process dies: the file has the durable header, or the
\* one being written if that got through.
Crash ==
  /\ phase \notin {"closed", "misread", "damaged"}
  /\ \E newHeader \in {FALSE, phase = "headerWritten"} :
       LET h == IF newHeader THEN cached ELSE disk
       IN  /\ disk' = h
           /\ cached' = h
           /\ Forget(IF ~ newHeader /\ Overwritten # {} THEN "damaged" ELSE "closed")

\* Nothing is said about what happens to a damaged store.
Damaged == phase = "damaged" /\ UNCHANGED vars

Next ==
  \/ BeginCreated \/ Begin \/ BeginThrows \/ BeginMisreads \/ MisreadGoesOn
  \/ \E n \in BlobSizes : PutTile(n)
  \/ \E tile \in tiles : FreeTile(tile)
  \/ \E final \in BOOLEAN : Commit(final)
  \/ \E run \in staged : CommitFree(run)
  \/ CommitIndex \/ CommitSync \/ CommitHeader \/ CommitDone
  \/ EndTransaction
  \/ Crash
  \/ Damaged

Spec == Init /\ [][Next]_vars

-----------------------------------------------------------------------------
RunsInUse ==
  {MetaRun} \cup tiles \cup tileIndex \cup staged \cup
  (IF fri.kind = "blob" THEN {fri.run} ELSE {})

TypeOK ==
  /\ disk.freeRanges \in Nat /\ cached.freeRanges \in Nat
  /\ phase \in {"closed", "open", "freeing", "written", "synced",
                "headerWritten", "misread", "damaged"}
  /\ isFinal \in BOOLEAN
  /\ edits \in 0 .. MaxEdits
  /\ space \in Space
  /\ staged \subseteq Run /\ tiles \subseteq Run /\ tileIndex \subseteq Run
  /\ Cardinality(tileIndex) =< 1
  /\ fri.kind \in {"zero", "invalid", "blob"}
  /\ blobWrites \cup friWrites \cup unsynced \subseteq 0 .. MaxPages

\* Across commits, crashes and reopening: in a transaction no two of the
\* metadata, the tiles, the tile index, the free-range index, the staged and
\* the free runs share a page.  Not so in one that has misread its index:
\* OnlyIntermediateMisread says which these are.
RunsDisjoint ==
  phase \notin {"closed", "misread", "damaged"} =>
    /\ RunsInUse \cap space.freeByStart = {}
    /\ \A r, s \in RunsInUse \cup space.freeByStart : r # s => ~ Overlap(r, s)

\* A blob never lands on pages the durable header leads to, whatever has been
\* freed in the transaction: a crash finds every tile of the last commit.
BlobsPreserved == blobWrites \cap PagesOf(Reach(disk)) = {}

\* Before a header can reach the file, everything it leads to is durable.
DurableBeforeHeader ==
  phase = "headerWritten" => unsynced \cap PagesOf(Reach(cached)) = {}

\* The free-range index has room for all ranges, though allocating its blob
\* may add one (assert in FreeStore_Transaction.cpp:413 and the comment above).
IndexFits ==
  fri.kind = "blob" => Cardinality(fri.ranges) + 1 =< fri.slots

\* An index that holds what the header counts lists no page that the header
\* leads to, and none at or beyond the end of the file: nothing in use is ever
\* handed out again.
IndexAgreesWithHeader ==
  \A h \in {disk, cached} :
    Readable(h) /\ h.freeRangeIndex.kind = "blob" =>
      \A r \in h.freeRangeIndex.ranges :
        /\ End(r) < h.totalPages
        /\ \A s \in Reach(h) : ~ Overlap(r, s)

\* A header that a final commit wrote has the index for the ranges it counts.
\* begin() takes other data for free ranges only where the last commit that got
\* through was an intermediate one (a final commit was to follow).
OnlyIntermediateMisread ==
  /\ \A h \in {disk, cached} : h.final => Readable(h)
  /\ phase = "misread" => ~ disk.final

\* What a crash at any step of a commit leaves is a store: nothing in it is
\* shared, overwritten, or led to before it is durable, as long as begin()
\* finds an index, which it does after a final commit.
CommitsSafe ==
  /\ RunsDisjoint /\ BlobsPreserved /\ DurableBeforeHeader
  /\ OnlyIntermediateMisread

\* The free-range index that a commit writes fits its pages, and every header
\* either has an index of what is free besides what it leads to, or is one of
\* an intermediate commit, which begin() refuses or misreads.
IndexSound == IndexFits /\ IndexAgreesWithHeader /\ OnlyIntermediateMisread

-----------------------------------------------------------------------------
(* What the code's comments say and the code does not do *)

\* The free-range index of the durable header is not overwritten "within the
\* first commit cycle" (FreeStore_Transaction.cpp:517-520).
OldIndexKept ==
  disk.freeRangeIndex.kind = "blob" =>
    (blobWrites \cup friWrites) \cap Pages(disk.freeRangeIndex.run) = {}

\* readFreeRangeIndex "reads the FRI" (FreeStore_Transaction.cpp:483): a closed
\* store that counts free ranges has an index to read.
IndexReadable ==
  phase = "closed" /\ cached.freeRanges > 0 => cached.freeRangeIndex.kind = "blob"

\* readFreeRangeIndex asserts that it found as many ranges as the header counts
\* (FreeStore_Transaction.cpp:526): no header has a free-range index of an
\* earlier state of the store.
IndexUpToDate ==
  cached.freeRangeIndex.kind = "blob" =>
    Cardinality(cached.freeRangeIndex.ranges) = cached.freeRanges

\* readFreeRangeIndex "frees the blob in which it is stored" (same line).
BeginFreesIndex ==
  [][Begin /\ cached.freeRangeIndex.kind = "blob"
       => staged' = {cached.freeRangeIndex.run}]_vars
=============================================================================
