---------------------- MODULE FreeStoreTransactionProofs ----------------------
(***************************************************************************)
(* Transactions are safe for every store: every segment size, all sizes of *)
(* blobs, of the metadata and of the tile index, and every capacity of an  *)
(* index page.                                                             *)
(*                                                                         *)
(* The properties speak of what is in use.  They are kept because of three *)
(* things they do not say, which the invariant adds:                       *)
(*   - each run in use has one owner: it is the metadata, a tile, the tile *)
(*     index, staged or the free-range index, never two of these, so that  *)
(*     a turn of the commit loop frees nothing that is still in use;       *)
(*   - the same holds of a header in the file, and the free ranges a later *)
(*     begin() reads make a sound space with what the header leads to;     *)
(*   - while edits are made, what the durable header leads to is in use.   *)
(***************************************************************************)
EXTENDS FreeStoreTransaction, FiniteSetTheorems, TLAPS

-----------------------------------------------------------------------------
(* The two operations on a space *)

\* What is proved of the operations of the page allocator, which the
\* transaction has in common with it.
Allocator == INSTANCE FreeSpaceProofs WITH live <- {}, committing <- FALSE

\* The transaction's constants are constants of the allocator.
LEMMA AllocatorAssumptions ==
  /\ Allocator!SegmentPagesAssumption /\ Allocator!BlobSizesAssumption
  /\ Allocator!MetaPagesAssumption /\ Allocator!MaxPagesAssumption
BY SegmentPagesAssumption, BlobSizesAssumption, BoundsAssumption
   DEF Allocator!SegmentPagesAssumption, Allocator!BlobSizesAssumption,
       Allocator!MetaPagesAssumption, Allocator!MaxPagesAssumption

\* Runs and spaces are the same.
LEMMA SameRuns ==
  /\ Allocator!Run = Run /\ Allocator!Space = Space
  /\ \A r : Allocator!End(r) = End(r)
  /\ \A r : Allocator!InOneSegment(r) <=> InOneSegment(r)
  /\ \A r, s : Allocator!Overlap(r, s) <=> Overlap(r, s)
  /\ \A runs, p : Allocator!Covered(runs, p) <=> Covered(runs, p)
BY DEF Allocator!Run, Run, Allocator!Space, Space, Allocator!End, End, Allocator!InOneSegment, InOneSegment,
       Allocator!isFirstPageOfSegment, isFirstPageOfSegment, Allocator!Overlap, Overlap, Allocator!Covered, Covered

\* A space is sound for the transaction when it is for the allocator.
LEMMA SameSound ==
  ASSUME NEW sp, NEW U
  PROVE  Allocator!Sound(sp, U) <=> Sound(sp, U)
BY SameRuns DEF Allocator!Sound, Sound, Allocator!Layout, Layout, Allocator!Apart, Apart,
                Allocator!Fills, Fills, Allocator!Shape, Shape,
                Allocator!isFirstPageOfSegment, isFirstPageOfSegment,
                Allocator!IsFiniteSet, IsFiniteSet, Allocator!Cardinality, Cardinality

\* allocPages of the transaction is that of the allocator.
LEMMA SameAlloc ==
  ASSUME NEW sp, NEW n
  PROVE  Allocator!AllocPages(sp, n) = AllocPages(sp, n)
BY DEF Allocator!AllocPages, AllocPages, Allocator!Fitting, Fitting, Allocator!AllocFitting, AllocFitting,
       Allocator!BestFit, BestFit, Allocator!SizeOrder, SizeOrder, Allocator!AllocVirgin, AllocVirgin,
       Allocator!Remaining, Remaining, Allocator!End, End

\* performFreePages of the transaction is that of the allocator.
LEMMA SameFree ==
  ASSUME NEW sp, NEW blob
  PROVE  Allocator!PerformFreePages(sp, blob) = PerformFreePages(sp, blob)
BY DEF Allocator!PerformFreePages, PerformFreePages, Allocator!FreeAtEnd, FreeAtEnd, Allocator!FreeInside, FreeInside,
       Allocator!LastKept, LastKept, Allocator!Covered, Covered, Allocator!RightNeighbor, RightNeighbor,
       Allocator!LeftNeighbor, LeftNeighbor, Allocator!Merge, Merge, Allocator!isFirstPageOfSegment, isFirstPageOfSegment,
       Allocator!End, End, Allocator!Cardinality, Cardinality

\* allocPages gives out pages of one segment that nobody uses.
LEMMA AllocSound ==
  ASSUME NEW sp, NEW U, Sound(sp, U), NEW n \in 1 .. SegmentPages,
         NEW alloc, alloc = AllocPages(sp, n),
         NEW blob, blob = [start |-> alloc.first, size |-> n]
  PROVE  /\ Sound(alloc.space, U \cup {blob})
         /\ blob \in Run /\ blob \notin U
         /\ InOneSegment(blob)
         /\ \A r \in U : ~ Overlap(r, blob)
<1>1. Allocator!Sound(sp, U) /\ alloc = Allocator!AllocPages(sp, n)
  BY SameSound, SameAlloc
<1>2. /\ Allocator!Sound(alloc.space, U \cup {blob})
      /\ blob \in Allocator!Run /\ blob \notin U
      /\ Allocator!InOneSegment(blob)
      /\ \A r \in U : ~ Allocator!Overlap(r, blob)
  BY <1>1, AllocatorAssumptions, Allocator!AllocSound
<1>3. Sound(alloc.space, U \cup {blob})
  BY <1>2, SameSound
<1>. QED BY <1>2, <1>3, SameRuns

\* performFreePages turns a run in use into free space and nothing else.
LEMMA FreeSound ==
  ASSUME NEW sp, NEW U, Sound(sp, U), NEW blob \in U, InOneSegment(blob),
         NEW meta \in U, meta.start = 0, meta # blob
  PROVE  Sound(PerformFreePages(sp, blob), U \ {blob})
<1>1. Allocator!Sound(sp, U) /\ Allocator!InOneSegment(blob)
  BY SameSound, SameRuns
<1>2. Allocator!Sound(Allocator!PerformFreePages(sp, blob), U \ {blob})
  BY <1>1, AllocatorAssumptions, Allocator!FreeSound
<1>. QED BY <1>2, SameFree, SameSound

-----------------------------------------------------------------------------
(* Spaces that may hold leaked runs *)

\* The space sp is sound for the runs U and, it may be, some that nobody leads
\* to any more: a second final commit forgets the pages of the first's index.
Held(sp, U) == \E L : Sound(sp, U \cup L)

\* What is held for some runs is held for fewer of them.
LEMMA HeldLess ==
  ASSUME NEW sp, NEW U, Held(sp, U), NEW V, V \subseteq U
  PROVE  Held(sp, V)
<1>1. PICK L : Sound(sp, U \cup L)
  BY DEF Held
<1>2. U \cup L = V \cup (U \cup L)
  OBVIOUS
<1>3. Sound(sp, V \cup (U \cup L))
  BY <1>1, <1>2, Zenon
<1>. QED BY <1>3 DEF Held

\* What a space that is held says of its runs.
LEMMA HeldFacts ==
  ASSUME NEW sp, NEW U, Held(sp, U)
  PROVE  /\ sp \in Space /\ U \subseteq Run
         /\ sp.totalPages \in Nat \ {0} /\ sp.freeRanges \in Nat
         /\ sp.freeByStart \subseteq Run /\ sp.freeBySize = sp.freeByStart
         /\ IsFiniteSet(sp.freeByStart)
         /\ sp.freeRanges = Cardinality(sp.freeByStart)
         /\ U \cap sp.freeByStart = {}
         /\ Apart(U \cup sp.freeByStart)
         /\ \A r \in sp.freeByStart : End(r) < sp.totalPages
<1>1. PICK L : Sound(sp, U \cup L)
  BY DEF Held
<1>2. /\ sp \in Space /\ sp.freeBySize = sp.freeByStart
      /\ IsFiniteSet(sp.freeByStart)
      /\ sp.freeRanges = Cardinality(sp.freeByStart)
      /\ Layout(sp.freeByStart, U \cup L, sp.totalPages)
  BY <1>1 DEF Sound
<1>3. /\ sp.freeByStart \subseteq Run /\ U \cup L \subseteq Run
      /\ (U \cup L) \cap sp.freeByStart = {}
      /\ sp.totalPages \in Nat \ {0}
      /\ Apart((U \cup L) \cup sp.freeByStart)
      /\ Shape(sp.freeByStart, sp.totalPages)
  BY <1>2 DEF Layout
<1>4. sp.freeRanges \in Nat
  BY <1>2, FS_CardinalityType
<1>5. Apart(U \cup sp.freeByStart)
  BY <1>3 DEF Apart
<1>6. \A r \in sp.freeByStart : End(r) < sp.totalPages
  BY <1>3 DEF Shape
<1>. QED BY <1>2, <1>3, <1>4, <1>5, <1>6

\* Allocating pages in such a space.
LEMMA HeldAlloc ==
  ASSUME NEW sp, NEW U, Held(sp, U), NEW n \in 1 .. SegmentPages,
         NEW alloc, alloc = AllocPages(sp, n),
         NEW blob, blob = [start |-> alloc.first, size |-> n]
  PROVE  /\ Held(alloc.space, U \cup {blob})
         /\ blob \in Run /\ blob \notin U
         /\ InOneSegment(blob)
         /\ \A r \in U : ~ Overlap(r, blob)
<1>1. PICK L : Sound(sp, U \cup L)
  BY DEF Held
<1>2. /\ Sound(alloc.space, (U \cup L) \cup {blob})
      /\ blob \in Run /\ blob \notin U \cup L
      /\ InOneSegment(blob)
      /\ \A r \in U \cup L : ~ Overlap(r, blob)
  BY <1>1, AllocSound
<1>3. (U \cup L) \cup {blob} = (U \cup {blob}) \cup L
  OBVIOUS
<1>4. Sound(alloc.space, (U \cup {blob}) \cup L)
  BY <1>2, <1>3, Zenon
<1>. QED BY <1>2, <1>4 DEF Held

\* Freeing one of its runs.
LEMMA HeldFree ==
  ASSUME NEW sp, NEW U, Held(sp, U), NEW blob \in U, InOneSegment(blob),
         NEW meta \in U, meta.start = 0, meta # blob
  PROVE  Held(PerformFreePages(sp, blob), U \ {blob})
<1>1. PICK L : Sound(sp, U \cup L)
  BY DEF Held
<1>2. Sound(PerformFreePages(sp, blob), (U \cup L) \ {blob})
  BY <1>1, FreeSound
<1>3. (U \cup L) \ {blob} = (U \ {blob}) \cup (L \ {blob})
  OBVIOUS
<1>4. Sound(PerformFreePages(sp, blob), (U \ {blob}) \cup (L \ {blob}))
  BY <1>2, <1>3, Zenon
<1>. QED BY <1>4 DEF Held

\* Allocating adds at most one free run: the end of a segment that is skipped.
LEMMA AllocRanges ==
  ASSUME NEW sp, sp.freeRanges \in Int, NEW n, sp \in Space
  PROVE  AllocPages(sp, n).space.freeRanges =< sp.freeRanges + 1
<1>1. CASE Fitting(sp, n) # {}
  <2>. DEFINE fit == BestFit(sp, n)
  <2>1. AllocPages(sp, n).space.freeRanges =
          IF fit.size = n THEN sp.freeRanges - 1 ELSE sp.freeRanges
    BY <1>1 DEF AllocPages, AllocFitting, Space
  <2>. HIDE DEF fit
  <2>. QED BY <2>1
<1>2. CASE Fitting(sp, n) = {}
  BY <1>2 DEF AllocPages, AllocVirgin, Space
<1>. QED BY <1>1, <1>2

-----------------------------------------------------------------------------
(* The invariant of what a transaction has in memory, as a fact about values *)

IndexRun(i) == IF i.kind = "blob" THEN {i.run} ELSE {}

\* All runs that the tiles ts, the tile index ti, the staged runs st and the
\* free-range index i are made of.
Owned(ts, ti, st, i) == {MetaRun} \cup ts \cup ti \cup st \cup IndexRun(i)

\* Each of them has one owner.
OneOwner(ts, ti, st, i) ==
  /\ MetaRun \notin ts \cup ti \cup st \cup IndexRun(i)
  /\ ts \cap ti = {} /\ ts \cap st = {} /\ ts \cap IndexRun(i) = {}
  /\ ti \cap st = {} /\ ti \cap IndexRun(i) = {}
  /\ st \cap IndexRun(i) = {}

Placed(runs) == \A r \in runs : InOneSegment(r)

AtMostOne(S) == \A r, s \in S : r = s

IndexOK(i) ==
  /\ i.kind \in {"zero", "invalid", "blob"}
  /\ i.kind = "blob" => /\ Cardinality(i.ranges) \in Nat /\ i.slots \in Nat
                        /\ Cardinality(i.ranges) + 1 =< i.slots

\* A transaction that has not made a final commit has no index of its own; one
\* it has taken over from the header counts no free range.
MemoryOK(sp, ts, ti, st, i, final) ==
  /\ Held(sp, Owned(ts, ti, st, i))
  /\ OneOwner(ts, ti, st, i)
  /\ Placed(ts \cup ti \cup st \cup IndexRun(i))
  /\ AtMostOne(ti)
  /\ IndexOK(i)
  /\ i.kind = "blob" => final \/ i.ranges = {}

StoredSpace(h) ==
  [totalPages  |-> h.totalPages,
   freeRanges  |-> h.freeRanges,
   freeByStart |-> ReadFreeRangeIndex(h).ranges,
   freeBySize  |-> ReadFreeRangeIndex(h).ranges]

\* A header in the file: as one owner each has what it leads to, and what the
\* next begin() will take for free is a sound space beside it.
HeaderOK(h) ==
  \/ h = Blank
  \/ /\ h.totalPages \in Nat \ {0} /\ h.freeRanges \in Nat
     /\ OneOwner(h.tiles, h.tileIndex, {}, h.freeRangeIndex)
     /\ Placed(h.tiles \cup h.tileIndex \cup IndexRun(h.freeRangeIndex))
     /\ AtMostOne(h.tileIndex)
     /\ IndexOK(h.freeRangeIndex)
     /\ h.freeRanges = 0 /\ h.freeRangeIndex.kind = "blob"
          => h.freeRangeIndex.ranges = {}
     /\ Readable(h) => Held(StoredSpace(h), Reach(h))
     /\ h.final => Readable(h)

\* The metadata pages at the start of the store are a run of pages.
LEMMA MetaRunType == MetaRun \in Run /\ MetaRun.start = 0 /\ End(MetaRun) = MetaPages
  BY BoundsAssumption DEF MetaRun, Run, End

\* A new store, and what a closed store is taken to have in memory.
LEMMA FreshOK == MemoryOK(FreshSpace(MetaPages), {}, {}, {}, Zero, FALSE)
<1>. DEFINE sp == FreshSpace(MetaPages)
<1>1. MetaPages \in Nat \ {0}
  BY BoundsAssumption
<1>2. Layout({}, {MetaRun}, MetaPages)
  <2>1. Apart({MetaRun} \cup {})
    BY DEF Apart
  <2>2. Fills({MetaRun} \cup {}, MetaPages)
    <3>1. \A r \in {MetaRun} \cup {} : End(r) =< MetaPages
      BY MetaRunType, <1>1
    <3>2. \A p \in 0 .. MetaPages - 1 : Covered({MetaRun} \cup {}, p)
      BY MetaRunType, <1>1 DEF Covered
    <3>. QED BY <3>1, <3>2 DEF Fills
  <2>3. Shape({}, MetaPages)
    BY DEF Shape
  <2>. QED BY <2>1, <2>2, <2>3, MetaRunType, <1>1 DEF Layout
<1>3. Sound(sp, {MetaRun})
  <2>1. /\ sp.totalPages = MetaPages /\ sp.freeRanges = 0
        /\ sp.freeByStart = {} /\ sp.freeBySize = {}
        /\ sp \in Space
    BY <1>1 DEF FreshSpace, Space
  <2>2. IsFiniteSet({}) /\ Cardinality({}) = 0
    BY FS_EmptySet
  <2>. HIDE DEF sp
  <2>. QED BY <2>1, <2>2, <1>2 DEF Sound
<1>4. Owned({}, {}, {}, Zero) = {MetaRun} /\ IndexRun(Zero) = {}
  BY DEF Owned, IndexRun, Zero
<1>5. Held(sp, Owned({}, {}, {}, Zero))
  <2>1. Owned({}, {}, {}, Zero) \cup {} = {MetaRun}
    BY <1>4
  <2>2. Sound(sp, Owned({}, {}, {}, Zero) \cup {})
    BY <1>3, <2>1, Zenon
  <2>. QED BY <2>2 DEF Held
<1>6. OneOwner({}, {}, {}, Zero) /\ Placed({} \cup {} \cup {} \cup IndexRun(Zero))
  BY <1>4 DEF OneOwner, Placed
<1>7. AtMostOne({}) /\ IndexOK(Zero) /\ Zero.kind # "blob"
  BY DEF AtMostOne, IndexOK, Zero
<1>. QED BY <1>5, <1>6, <1>7 DEF MemoryOK

\* A new tile lands where nothing is, and is one more run with one owner.
LEMMA TileAdded ==
  ASSUME NEW sp, NEW ts, NEW ti, NEW st, NEW i, NEW final,
         MemoryOK(sp, ts, ti, st, i, final),
         NEW n \in 1 .. SegmentPages,
         NEW alloc, alloc = AllocPages(sp, n),
         NEW blob, blob = [start |-> alloc.first, size |-> n]
  PROVE  /\ MemoryOK(alloc.space, ts \cup {blob}, ti, st, i, final)
         /\ blob \in Run
         /\ \A r \in Owned(ts, ti, st, i) : ~ Overlap(r, blob)
<1>. DEFINE U == Owned(ts, ti, st, i)
<1>1. Held(sp, U)
  BY DEF MemoryOK
<1>. HIDE DEF U
<1>2. /\ Held(alloc.space, U \cup {blob})
      /\ blob \in Run /\ blob \notin U /\ InOneSegment(blob)
      /\ \A r \in U : ~ Overlap(r, blob)
  BY <1>1, HeldAlloc
<1>3. Owned(ts \cup {blob}, ti, st, i) = U \cup {blob}
  BY DEF Owned, U
<1>4. Held(alloc.space, Owned(ts \cup {blob}, ti, st, i))
  BY <1>2, <1>3, Zenon
<1>5. OneOwner(ts \cup {blob}, ti, st, i)
  BY <1>2 DEF MemoryOK, OneOwner, U, Owned
<1>6. Placed((ts \cup {blob}) \cup ti \cup st \cup IndexRun(i))
  BY <1>2 DEF MemoryOK, Placed
<1>. QED BY <1>2, <1>4, <1>5, <1>6 DEF MemoryOK, U

\* A tile that is freed becomes a staged run.
LEMMA TileStaged ==
  ASSUME NEW sp, NEW ts, NEW ti, NEW st, NEW i, NEW final,
         MemoryOK(sp, ts, ti, st, i, final), NEW tile \in ts
  PROVE  /\ MemoryOK(sp, ts \ {tile}, ti, st \cup {tile}, i, final)
         /\ Owned(ts \ {tile}, ti, st \cup {tile}, i) = Owned(ts, ti, st, i)
<1>1. Owned(ts \ {tile}, ti, st \cup {tile}, i) = Owned(ts, ti, st, i)
  BY DEF Owned
<1>2. Held(sp, Owned(ts \ {tile}, ti, st \cup {tile}, i))
  BY <1>1, Zenon DEF MemoryOK
<1>3. OneOwner(ts \ {tile}, ti, st \cup {tile}, i)
  BY DEF MemoryOK, OneOwner
<1>4. Placed((ts \ {tile}) \cup ti \cup (st \cup {tile}) \cup IndexRun(i))
  BY DEF MemoryOK, Placed
<1>. QED BY <1>1, <1>2, <1>3, <1>4 DEF MemoryOK

\* A commit puts a new tile index in the place of the old one, which is staged.
LEMMA TileIndexReplaced ==
  ASSUME NEW sp, NEW ts, NEW ti, NEW st, NEW i, NEW final,
         MemoryOK(sp, ts, ti, st, i, final),
         NEW n \in 1 .. SegmentPages,
         NEW alloc, alloc = AllocPages(sp, n),
         NEW blob, blob = [start |-> alloc.first, size |-> n]
  PROVE  /\ MemoryOK(alloc.space, ts, {blob}, st \cup ti, i, final)
         /\ blob \in Run
         /\ \A r \in Owned(ts, ti, st, i) : ~ Overlap(r, blob)
<1>. DEFINE U == Owned(ts, ti, st, i)
<1>1. Held(sp, U)
  BY DEF MemoryOK
<1>. HIDE DEF U
<1>2. /\ Held(alloc.space, U \cup {blob})
      /\ blob \in Run /\ blob \notin U /\ InOneSegment(blob)
      /\ \A r \in U : ~ Overlap(r, blob)
  BY <1>1, HeldAlloc
<1>3. Owned(ts, {blob}, st \cup ti, i) = U \cup {blob}
  BY DEF Owned, U
<1>4. Held(alloc.space, Owned(ts, {blob}, st \cup ti, i))
  BY <1>2, <1>3, Zenon
<1>5. OneOwner(ts, {blob}, st \cup ti, i)
  BY <1>2 DEF MemoryOK, OneOwner, U, Owned
<1>6. Placed(ts \cup {blob} \cup (st \cup ti) \cup IndexRun(i))
  BY <1>2 DEF MemoryOK, Placed
<1>7. AtMostOne({blob})
  BY DEF AtMostOne
<1>. QED BY <1>2, <1>4, <1>5, <1>6, <1>7 DEF MemoryOK, U

\* What is asked of a commit that is not final is asked of a final one.
LEMMA FinalAllowed ==
  ASSUME NEW sp, NEW ts, NEW ti, NEW st, NEW i, MemoryOK(sp, ts, ti, st, i, FALSE)
  PROVE  MemoryOK(sp, ts, ti, st, i, TRUE)
  BY DEF MemoryOK

\* A turn of the commit loop frees a run that only the list has.
LEMMA StagedFreed ==
  ASSUME NEW sp, NEW ts, NEW ti, NEW st, NEW i, NEW final,
         MemoryOK(sp, ts, ti, st, i, final), NEW run \in st
  PROVE  MemoryOK(PerformFreePages(sp, run), ts, ti, st \ {run}, i, final)
<1>. DEFINE U == Owned(ts, ti, st, i)
<1>1. Held(sp, U) /\ OneOwner(ts, ti, st, i)
  BY DEF MemoryOK
<1>2. run \in U /\ MetaRun \in U /\ MetaRun # run
  BY <1>1 DEF Owned, OneOwner
<1>3. InOneSegment(run)
  BY DEF MemoryOK, Placed
<1>4. Owned(ts, ti, st \ {run}, i) = U \ {run}
  BY <1>1, <1>2 DEF Owned, OneOwner
<1>. HIDE DEF U
<1>5. Held(PerformFreePages(sp, run), U \ {run})
  BY <1>1, <1>2, <1>3, MetaRunType, HeldFree
<1>6. Held(PerformFreePages(sp, run), Owned(ts, ti, st \ {run}, i))
  BY <1>4, <1>5, Zenon
<1>7. OneOwner(ts, ti, st \ {run}, i)
  BY <1>1 DEF OneOwner
<1>8. Placed(ts \cup ti \cup (st \ {run}) \cup IndexRun(i))
  BY DEF MemoryOK, Placed
<1>. QED BY <1>6, <1>7, <1>8 DEF MemoryOK

\* writeFreeRangeIndex drops the old index, if there is one, and puts one in
\* its place that has a slot for every free range and one to spare.
LEMMA IndexWritten ==
  ASSUME NEW sp, NEW ts, NEW ti, NEW i, NEW final,
         MemoryOK(sp, ts, ti, {}, i, final),
         NEW n \in 1 .. SegmentPages,
         NEW alloc, alloc = AllocPages(sp, n),
         NEW run, run = [start |-> alloc.first, size |-> n],
         NEW slots, slots = SlotCount(sp.freeRanges),
         NEW index, index = Index(run, alloc.space.freeByStart, slots)
  PROVE  MemoryOK(alloc.space, ts, ti, {}, index, TRUE) /\ run \in Run
<1>. DEFINE U == Owned(ts, ti, {}, i)
<1>1. Held(sp, U) /\ OneOwner(ts, ti, {}, i)
  BY DEF MemoryOK
<1>. HIDE DEF U
<1>2. /\ Held(alloc.space, U \cup {run})
      /\ run \in Run /\ run \notin U /\ InOneSegment(run)
  BY <1>1, HeldAlloc
<1>3. index.kind = "blob" /\ index.run = run /\ index.slots = slots
      /\ index.ranges = alloc.space.freeByStart
  BY DEF Index
<1>4. IndexRun(index) = {run}
  BY <1>3 DEF IndexRun
<1>5. Owned(ts, ti, {}, index) \subseteq U \cup {run}
  BY <1>4 DEF Owned, U
<1>6. Held(alloc.space, Owned(ts, ti, {}, index))
  BY <1>2, <1>5, HeldLess
<1>7. OneOwner(ts, ti, {}, index)
  BY <1>1, <1>2, <1>4 DEF OneOwner, U, Owned
<1>8. Placed(ts \cup ti \cup {} \cup IndexRun(index))
  BY <1>2, <1>4 DEF MemoryOK, Placed
<1>9. IndexOK(index)
  <2>1. sp \in Space /\ sp.freeRanges \in Nat
    BY <1>1, HeldFacts
  <2>2. /\ alloc.space.freeRanges \in Nat
        /\ alloc.space.freeRanges = Cardinality(alloc.space.freeByStart)
    BY <1>2, HeldFacts
  <2>3. alloc.space.freeRanges =< sp.freeRanges + 1
    BY <2>1, AllocRanges
  <2>4. slots = sp.freeRanges + 2
    BY DEF SlotCount
  <2>5. Cardinality(index.ranges) = alloc.space.freeRanges
    BY <1>3, <2>2
  <2>. HIDE DEF U
  <2>6. Cardinality(index.ranges) \in Nat /\ Cardinality(index.ranges) + 1 =< slots
    BY <2>1, <2>2, <2>3, <2>4, <2>5
  <2>7. slots \in Nat
    BY <2>1, <2>4
  <2>. QED BY <1>3, <2>6, <2>7 DEF IndexOK
<1>. QED BY <1>2, <1>6, <1>7, <1>8, <1>9 DEF MemoryOK

\* Without a free range there is no index to write.
LEMMA IndexDropped ==
  ASSUME NEW sp, NEW ts, NEW ti, NEW i, NEW final,
         MemoryOK(sp, ts, ti, {}, i, final)
  PROVE  MemoryOK(sp, ts, ti, {}, Zero, final)
<1>1. IndexRun(Zero) = {} /\ IndexOK(Zero) /\ Zero.kind # "blob"
  BY DEF IndexRun, IndexOK, Zero
<1>2. Owned(ts, ti, {}, Zero) \subseteq Owned(ts, ti, {}, i)
  BY <1>1 DEF Owned
<1>3. Held(sp, Owned(ts, ti, {}, Zero))
  BY <1>2, HeldLess DEF MemoryOK
<1>4. OneOwner(ts, ti, {}, Zero) /\ Placed(ts \cup ti \cup {} \cup IndexRun(Zero))
  BY <1>1 DEF MemoryOK, OneOwner, Placed
<1>. QED BY <1>1, <1>3, <1>4 DEF MemoryOK

\* After a final commit the index holds what is free; there is none when
\* nothing is.
FinalIndex(sp, i) ==
  \/ i = Zero /\ sp.freeRanges = 0
  \/ i.kind = "blob" /\ i.ranges = sp.freeByStart

\* A header with no free range, or one whose index holds them, stores the space
\* it was made from.
LEMMA SpaceStored ==
  ASSUME NEW sp, NEW U, Held(sp, U), NEW h,
         h.totalPages = sp.totalPages, h.freeRanges = sp.freeRanges,
         \/ h.freeRanges = 0
         \/ h.freeRangeIndex.ranges = sp.freeByStart
  PROVE  StoredSpace(h) = sp
<1>1. /\ sp \in Space /\ sp.freeBySize = sp.freeByStart
      /\ IsFiniteSet(sp.freeByStart)
      /\ sp.freeRanges = Cardinality(sp.freeByStart)
  BY HeldFacts
<1>2. h.freeRanges = 0 => sp.freeByStart = {}
  BY <1>1, FS_EmptySet
<1>3. ReadFreeRangeIndex(h).ranges = sp.freeByStart
  BY <1>2 DEF ReadFreeRangeIndex
<1>4. sp = [totalPages  |-> sp.totalPages,
            freeRanges  |-> sp.freeRanges,
            freeByStart |-> sp.freeByStart,
            freeBySize  |-> sp.freeBySize]
  BY <1>1 DEF Space
<1>. QED BY <1>1, <1>3, <1>4 DEF StoredSpace

\* The header of a commit leads to what the transaction has in use.
LEMMA HeaderMade ==
  ASSUME NEW sp, NEW ts, NEW ti, NEW i, NEW final,
         MemoryOK(sp, ts, ti, {}, i, final), final => FinalIndex(sp, i),
         NEW h, h = [totalPages |-> sp.totalPages, freeRanges |-> sp.freeRanges,
                     freeRangeIndex |-> i, tileIndex |-> ti, tiles |-> ts,
                     final |-> final]
  PROVE  HeaderOK(h) /\ Reach(h) = Owned(ts, ti, {}, i)
<1>. DEFINE U == Owned(ts, ti, {}, i)
<1>1. Held(sp, U)
  BY DEF MemoryOK
<1>2. /\ sp.totalPages \in Nat \ {0} /\ sp.freeRanges \in Nat
      /\ IsFiniteSet(sp.freeByStart)
      /\ sp.freeRanges = Cardinality(sp.freeByStart)
  <2>. HIDE DEF U
  <2>. QED BY <1>1, HeldFacts
<1>3. /\ h.totalPages = sp.totalPages /\ h.freeRanges = sp.freeRanges
      /\ h.freeRangeIndex = i /\ h.tileIndex = ti /\ h.tiles = ts
      /\ h.final = final
  OBVIOUS
<1>. HIDE DEF U
<1>4. h # Blank
  BY <1>2, <1>3 DEF Blank
<1>5. Reach(h) = U
  BY <1>3, <1>4 DEF Reach, U, Owned, IndexRun
<1>6. sp.freeRanges = 0 => sp.freeByStart = {}
  BY <1>2, FS_EmptySet
<1>7. h.freeRanges = 0 /\ i.kind = "blob" => i.ranges = {}
  BY <1>3, <1>6 DEF MemoryOK, FinalIndex, Zero
<1>8. ASSUME Readable(h) PROVE Held(StoredSpace(h), Reach(h))
  <2>1. h.freeRanges = 0 \/ h.freeRangeIndex.ranges = sp.freeByStart
    <3>1. CASE i.kind = "blob" /\ i.ranges = {}
      <4>1. Cardinality(i.ranges) = 0
        BY <3>1, FS_EmptySet
      <4>. QED BY <4>1, <1>3, <1>8, <3>1 DEF Readable
    <3>2. CASE i.kind = "blob" /\ i.ranges # {}
      BY <1>3, <3>2 DEF MemoryOK, FinalIndex, Zero
    <3>3. CASE i.kind # "blob"
      BY <1>3, <1>8, <3>3 DEF Readable
    <3>. QED BY <3>1, <3>2, <3>3
  <2>2. StoredSpace(h) = sp
    BY <1>1, <1>3, <2>1, SpaceStored
  <2>. QED BY <1>1, <1>5, <2>2, Zenon
<1>9. /\ OneOwner(h.tiles, h.tileIndex, {}, h.freeRangeIndex)
      /\ Placed(h.tiles \cup h.tileIndex \cup IndexRun(h.freeRangeIndex))
      /\ AtMostOne(h.tileIndex) /\ IndexOK(h.freeRangeIndex)
  BY <1>3 DEF MemoryOK, Placed
<1>10. h.final => Readable(h)
  BY <1>2, <1>3 DEF FinalIndex, Readable
<1>. QED BY <1>2, <1>3, <1>5, <1>7, <1>8, <1>9, <1>10 DEF HeaderOK, U

\* begin() takes over what the header leads to: its index becomes a staged run,
\* and the ranges it lists are what is free.
LEMMA HeaderRead ==
  ASSUME NEW h, HeaderOK(h), h # Blank, Readable(h),
         NEW read, read = ReadFreeRangeIndex(h)
  PROVE  /\ MemoryOK(StoredSpace(h), h.tiles, h.tileIndex, read.staged, read.fri, FALSE)
         /\ Reach(h) = Owned(h.tiles, h.tileIndex, read.staged, read.fri)
<1>. DEFINE ts == h.tiles
            ti == h.tileIndex
            i  == h.freeRangeIndex
<1>1. /\ OneOwner(ts, ti, {}, i) /\ AtMostOne(ti) /\ IndexOK(i)
      /\ Placed(ts \cup ti \cup IndexRun(i))
      /\ h.freeRanges = 0 /\ i.kind = "blob" => i.ranges = {}
      /\ Held(StoredSpace(h), Reach(h))
  BY DEF HeaderOK
<1>2. Reach(h) = {MetaRun} \cup ts \cup ti \cup IndexRun(i)
  BY DEF Reach, IndexRun
<1>. HIDE DEF ts, ti, i
<1>3. CASE h.freeRanges = 0
  <2>1. read.staged = {} /\ read.fri = i
    BY <1>3 DEF ReadFreeRangeIndex, i
  <2>2. Reach(h) = Owned(ts, ti, {}, i)
    BY <1>2 DEF Owned
  <2>3. Held(StoredSpace(h), Owned(ts, ti, {}, i))
    BY <1>1, <2>2, Zenon
  <2>4. MemoryOK(StoredSpace(h), ts, ti, {}, i, FALSE)
    BY <1>1, <1>3, <2>3 DEF MemoryOK, Placed
  <2>. QED BY <2>1, <2>2, <2>4 DEF ts, ti
<1>4. CASE h.freeRanges # 0
  <2>1. read.staged = {i.run} /\ read.fri = Invalid
    BY <1>4 DEF ReadFreeRangeIndex, i
  <2>2. IndexRun(i) = {i.run} /\ IndexRun(Invalid) = {}
    BY <1>4 DEF Readable, IndexRun, i, Invalid
  <2>3. Reach(h) = Owned(ts, ti, {i.run}, Invalid)
    BY <1>2, <2>2 DEF Owned
  <2>4. Held(StoredSpace(h), Owned(ts, ti, {i.run}, Invalid))
    BY <1>1, <2>3, Zenon
  <2>5. OneOwner(ts, ti, {i.run}, Invalid)
    BY <1>1, <2>2 DEF OneOwner
  <2>6. Placed(ts \cup ti \cup {i.run} \cup IndexRun(Invalid))
    BY <1>1, <2>2 DEF Placed
  <2>7. IndexOK(Invalid) /\ Invalid.kind # "blob"
    BY DEF IndexOK, Invalid
  <2>8. MemoryOK(StoredSpace(h), ts, ti, {i.run}, Invalid, FALSE)
    BY <1>1, <2>4, <2>5, <2>6, <2>7 DEF MemoryOK
  <2>. QED BY <2>1, <2>3, <2>8 DEF ts, ti
<1>. QED BY <1>3, <1>4

-----------------------------------------------------------------------------
(* The invariant of the specification *)

Phases == {"closed", "open", "freeing", "written", "synced", "headerWritten",
           "misread", "damaged"}

MemoryHeader ==
  [totalPages |-> space.totalPages, freeRanges |-> space.freeRanges,
   freeRangeIndex |-> fri, tileIndex |-> tileIndex, tiles |-> tiles,
   final |-> isFinal]

BoundsOK ==
  /\ phase \in Phases
  /\ isFinal \in BOOLEAN
  /\ edits \in 0 .. MaxEdits
  /\ blobWrites \subseteq 0 .. MaxPages
  /\ friWrites \subseteq 0 .. MaxPages
  /\ unsynced \subseteq 0 .. MaxPages

\* What each step of a commit may rely on.
PhaseOK ==
  /\ phase # "headerWritten" => disk = cached
  /\ phase = "headerWritten" => cached = MemoryHeader
  /\ phase \in {"written", "synced", "headerWritten"} =>
       staged = {} /\ (isFinal => FinalIndex(space, fri))
  /\ phase \in {"synced", "headerWritten"} => unsynced = {}
  /\ phase = "misread" => ~ disk.final

\* While edits are made, what the durable header leads to is in use.
DurableInUse ==
  phase = "open" => Reach(disk) \subseteq Owned(tiles, tileIndex, staged, fri)

IInv ==
  /\ BoundsOK
  /\ MemoryOK(space, tiles, tileIndex, staged, fri, isFinal)
  /\ HeaderOK(disk)
  /\ HeaderOK(cached)
  /\ PhaseOK
  /\ DurableInUse
  /\ BlobsPreserved

\* A transaction starts with no edit.
LEMMA NoEdit == 0 \in 0 .. MaxEdits
  BY BoundsAssumption

\* A store that is still to be created satisfies the invariant.
LEMMA InitInv == Init => IInv
<1>. SUFFICES ASSUME Init PROVE IInv
  OBVIOUS
<1>1. MemoryOK(space, tiles, tileIndex, staged, fri, isFinal)
  BY FreshOK DEF Init
<1>2. HeaderOK(disk) /\ HeaderOK(cached)
  BY DEF Init, HeaderOK
<1>3. BoundsOK
  BY NoEdit DEF Init, BoundsOK, Phases
<1>4. PhaseOK /\ DurableInUse /\ BlobsPreserved
  BY DEF Init, PhaseOK, DurableInUse, BlobsPreserved
<1>. QED BY <1>1, <1>2, <1>3, <1>4 DEF IInv

\* The pages of a run of the file have numbers below its end.
LEMMA PagesBound ==
  ASSUME NEW r \in Run, End(r) =< MaxPages
  PROVE  Pages(r) \subseteq 0 .. MaxPages
  BY BoundsAssumption DEF Pages, Run, End

\* Runs that do not overlap have no page in common.
LEMMA PagesApart ==
  ASSUME NEW runs, runs \subseteq Run, NEW blob \in Run,
         \A r \in runs : ~ Overlap(r, blob)
  PROVE  Pages(blob) \cap PagesOf(runs) = {}
<1>. SUFFICES ASSUME NEW r \in runs, NEW p, p \in Pages(blob), p \in Pages(r)
              PROVE  FALSE
  BY DEF PagesOf
<1>1. r \in Run /\ ~ Overlap(r, blob)
  OBVIOUS
<1>2. /\ r.start \in Nat /\ r.size \in Nat /\ blob.start \in Nat /\ blob.size \in Nat
  BY <1>1 DEF Run
<1>3. p \in r.start .. End(r) - 1 /\ p \in blob.start .. End(blob) - 1
  BY DEF Pages
<1>. QED BY <1>1, <1>2, <1>3 DEF Overlap, End

\* What the transaction owns are runs.
LEMMA OwnedRuns ==
  ASSUME NEW sp, NEW ts, NEW ti, NEW st, NEW i, NEW final,
         MemoryOK(sp, ts, ti, st, i, final)
  PROVE  Owned(ts, ti, st, i) \subseteq Run
  BY HeldFacts DEF MemoryOK

\* A blob that is added while edits are made lands on no page of the durable
\* header.
LEMMA BlobLands ==
  ASSUME IInv, phase = "open", NEW blob \in Run,
         \A r \in Owned(tiles, tileIndex, staged, fri) : ~ Overlap(r, blob)
  PROVE  (blobWrites \cup Pages(blob)) \cap PagesOf(Reach(disk)) = {}
<1>1. Reach(disk) \subseteq Owned(tiles, tileIndex, staged, fri)
  BY DEF IInv, DurableInUse
<1>2. Reach(disk) \subseteq Run
  BY <1>1, OwnedRuns DEF IInv
<1>3. \A r \in Reach(disk) : ~ Overlap(r, blob)
  BY <1>1
<1>4. Pages(blob) \cap PagesOf(Reach(disk)) = {}
  BY <1>2, <1>3, PagesApart
<1>5. blobWrites \cap PagesOf(Reach(disk)) = {}
  BY DEF IInv, BlobsPreserved
<1>. QED BY <1>4, <1>5

\* begin() for a new store.
LEMMA BeginCreatedInv == IInv /\ BeginCreated => IInv'
<1>. SUFFICES ASSUME IInv, BeginCreated PROVE IInv'
  OBVIOUS
<1>. USE DEF BeginCreated
<1>1. MemoryOK(space', tiles', tileIndex', staged', fri', isFinal')
  BY FreshOK
<1>2. HeaderOK(disk') /\ HeaderOK(cached')
  BY DEF IInv
<1>3. disk = Blank /\ disk' = Blank
  BY DEF IInv, PhaseOK
<1>4. BoundsOK'
  BY NoEdit DEF IInv, BoundsOK, Phases
<1>5. PhaseOK'
  BY DEF IInv, PhaseOK
<1>6. DurableInUse'
  BY <1>3 DEF DurableInUse, Reach, Blank, Zero
<1>7. BlobsPreserved'
  BY DEF IInv, BlobsPreserved
<1>. QED BY <1>1, <1>2, <1>4, <1>5, <1>6, <1>7 DEF IInv

\* begin() for a store that has been committed.
LEMMA BeginInv == IInv /\ Begin => IInv'
<1>. SUFFICES ASSUME IInv, Begin PROVE IInv'
  OBVIOUS
<1>. DEFINE read == ReadFreeRangeIndex(cached)
<1>1. /\ phase = "closed" /\ cached # Blank /\ Readable(cached) /\ phase' = "open"
      /\ space' = StoredSpace(cached)
      /\ staged' = read.staged /\ fri' = read.fri
      /\ tiles' = cached.tiles /\ tileIndex' = cached.tileIndex
      /\ edits' = 0 /\ isFinal' = FALSE
      /\ UNCHANGED <<disk, cached, blobWrites, friWrites, unsynced>>
  BY DEF Begin, StoredSpace
<1>2. HeaderOK(cached) /\ disk = cached
  BY <1>1 DEF IInv, PhaseOK
<1>3. /\ MemoryOK(StoredSpace(cached), cached.tiles, cached.tileIndex,
                  read.staged, read.fri, FALSE)
      /\ Reach(cached) = Owned(cached.tiles, cached.tileIndex, read.staged, read.fri)
  BY <1>1, <1>2, HeaderRead
<1>. HIDE DEF read
<1>4. MemoryOK(space', tiles', tileIndex', staged', fri', isFinal')
  BY <1>1, <1>3
<1>5. HeaderOK(disk') /\ HeaderOK(cached')
  BY <1>1 DEF IInv
<1>6. BoundsOK'
  BY <1>1, NoEdit DEF IInv, BoundsOK, Phases
<1>7. PhaseOK'
  BY <1>1, <1>2 DEF PhaseOK
<1>8. DurableInUse'
  <2>1. Reach(disk') = Owned(tiles', tileIndex', staged', fri')
    BY <1>1, <1>2, <1>3
  <2>. QED BY <2>1 DEF DurableInUse
<1>9. BlobsPreserved'
  BY <1>1 DEF IInv, BlobsPreserved
<1>. QED BY <1>4, <1>5, <1>6, <1>7, <1>8, <1>9 DEF IInv

\* One more edit is within the bound.
LEMMA EditCounted ==
  ASSUME edits \in 0 .. MaxEdits, edits < MaxEdits
  PROVE  edits + 1 \in 0 .. MaxEdits
  BY BoundsAssumption

\* A tile is put.
LEMMA PutTileInv == ASSUME IInv, NEW n \in BlobSizes, PutTile(n) PROVE IInv'
<1>. DEFINE alloc == AllocPages(space, n)
            blob  == NewBlob(n)
<1>1. /\ phase = "open" /\ edits < MaxEdits /\ End(blob) =< MaxPages
      /\ space' = alloc.space /\ tiles' = tiles \cup {blob}
      /\ blobWrites' = blobWrites \cup Pages(blob)
      /\ unsynced' = unsynced \cup Pages(blob)
      /\ edits' = edits + 1
      /\ UNCHANGED <<disk, cached, phase, isFinal, staged, tileIndex, fri, friWrites>>
  BY DEF PutTile, AddBlob
<1>2. blob = [start |-> alloc.first, size |-> n] /\ n \in 1 .. SegmentPages
  BY BlobSizesAssumption DEF NewBlob
<1>. HIDE DEF blob
<1>3. MemoryOK(space, tiles, tileIndex, staged, fri, isFinal)
  BY DEF IInv
<1>4. /\ MemoryOK(alloc.space, tiles \cup {blob}, tileIndex, staged, fri, isFinal)
      /\ blob \in Run
      /\ \A r \in Owned(tiles, tileIndex, staged, fri) : ~ Overlap(r, blob)
  BY <1>2, <1>3, TileAdded
<1>. HIDE DEF alloc
<1>5. MemoryOK(space', tiles', tileIndex', staged', fri', isFinal')
  BY <1>1, <1>4
<1>6. HeaderOK(disk') /\ HeaderOK(cached')
  BY <1>1 DEF IInv
<1>7. BoundsOK'
  <2>1. Pages(blob) \subseteq 0 .. MaxPages
    BY <1>1, <1>4, PagesBound
  <2>2. edits' \in 0 .. MaxEdits
    BY <1>1, EditCounted DEF IInv, BoundsOK
  <2>. QED BY <1>1, <2>1, <2>2, Zenon DEF IInv, BoundsOK
<1>8. PhaseOK'
  BY <1>1 DEF IInv, PhaseOK
<1>9. DurableInUse'
  <2>1. Reach(disk) \subseteq Owned(tiles, tileIndex, staged, fri)
    BY <1>1 DEF IInv, DurableInUse
  <2>2. Owned(tiles, tileIndex, staged, fri)
          \subseteq Owned(tiles \cup {blob}, tileIndex, staged, fri)
    BY DEF Owned
  <2>3. Reach(disk) \subseteq Owned(tiles \cup {blob}, tileIndex, staged, fri)
    BY <2>1, <2>2
  <2>4. Reach(disk') \subseteq Owned(tiles', tileIndex', staged', fri')
    BY <1>1, <2>3
  <2>. QED BY <2>4 DEF DurableInUse
<1>10. BlobsPreserved'
  <2>1. (blobWrites \cup Pages(blob)) \cap PagesOf(Reach(disk)) = {}
    BY <1>1, <1>4, BlobLands
  <2>. QED BY <1>1, <2>1 DEF BlobsPreserved
<1>. QED BY <1>5, <1>6, <1>7, <1>8, <1>9, <1>10 DEF IInv

\* A tile is freed.
LEMMA FreeTileInv == ASSUME IInv, NEW tile \in tiles, FreeTile(tile) PROVE IInv'
<1>1. /\ phase = "open" /\ edits < MaxEdits
      /\ staged' = staged \cup {tile} /\ tiles' = tiles \ {tile}
      /\ edits' = edits + 1
      /\ UNCHANGED <<disk, cached, phase, isFinal, space, tileIndex, fri,
                     blobWrites, friWrites, unsynced>>
  BY DEF FreeTile
<1>2. MemoryOK(space, tiles, tileIndex, staged, fri, isFinal)
  BY DEF IInv
<1>3. /\ MemoryOK(space, tiles \ {tile}, tileIndex, staged \cup {tile}, fri, isFinal)
      /\ Owned(tiles \ {tile}, tileIndex, staged \cup {tile}, fri)
           = Owned(tiles, tileIndex, staged, fri)
  BY <1>2, TileStaged
<1>4. MemoryOK(space', tiles', tileIndex', staged', fri', isFinal')
  BY <1>1, <1>3
<1>5. HeaderOK(disk') /\ HeaderOK(cached')
  BY <1>1 DEF IInv
<1>6. BoundsOK'
  <2>1. edits' \in 0 .. MaxEdits
    BY <1>1, EditCounted DEF IInv, BoundsOK
  <2>. QED BY <1>1, <2>1, Zenon DEF IInv, BoundsOK
<1>7. PhaseOK'
  BY <1>1 DEF IInv, PhaseOK
<1>8. DurableInUse'
  <2>1. Reach(disk) \subseteq Owned(tiles, tileIndex, staged, fri)
    BY <1>1 DEF IInv, DurableInUse
  <2>2. Reach(disk') \subseteq Owned(tiles', tileIndex', staged', fri')
    BY <1>1, <1>3, <2>1
  <2>. QED BY <2>2 DEF DurableInUse
<1>9. BlobsPreserved'
  BY <1>1 DEF IInv, BlobsPreserved
<1>. QED BY <1>4, <1>5, <1>6, <1>7, <1>8, <1>9 DEF IInv

\* A commit begins: the new tile index lands on no page of the durable header,
\* though it is the durable header's own index that it replaces.
LEMMA CommitInv == ASSUME IInv, NEW final \in BOOLEAN, Commit(final) PROVE IInv'
<1>. DEFINE alloc == AllocPages(space, IndexPages)
            blob  == NewBlob(IndexPages)
<1>1. /\ phase = "open" /\ (isFinal => final) /\ End(blob) =< MaxPages
      /\ space' = alloc.space /\ tileIndex' = {blob}
      /\ blobWrites' = blobWrites \cup Pages(blob)
      /\ unsynced' = unsynced \cup Pages(blob)
      /\ staged' = staged \cup tileIndex
      /\ isFinal' = final /\ phase' = "freeing"
      /\ UNCHANGED <<disk, cached, edits, tiles, fri, friWrites>>
  BY DEF Commit, AddBlob
<1>2. blob = [start |-> alloc.first, size |-> IndexPages]
  BY DEF NewBlob
<1>. HIDE DEF blob
<1>3. MemoryOK(space, tiles, tileIndex, staged, fri, isFinal)
  BY DEF IInv
<1>4. /\ MemoryOK(alloc.space, tiles, {blob}, staged \cup tileIndex, fri, final)
      /\ blob \in Run
      /\ \A r \in Owned(tiles, tileIndex, staged, fri) : ~ Overlap(r, blob)
  <2>1. IndexPages \in 1 .. SegmentPages
    BY IndexPagesAssumption
  <2>2. /\ MemoryOK(alloc.space, tiles, {blob}, staged \cup tileIndex, fri, isFinal)
        /\ blob \in Run
        /\ \A r \in Owned(tiles, tileIndex, staged, fri) : ~ Overlap(r, blob)
    BY <1>2, <1>3, <2>1, TileIndexReplaced
  <2>. HIDE DEF alloc
  <2>3. CASE isFinal = final
    BY <2>2, <2>3
  <2>4. CASE isFinal # final
    <3>1. isFinal = FALSE /\ final = TRUE
      BY <1>1, <2>4 DEF IInv, BoundsOK
    <3>2. MemoryOK(alloc.space, tiles, {blob}, staged \cup tileIndex, fri, FALSE)
      BY <2>2, <3>1
    <3>3. MemoryOK(alloc.space, tiles, {blob}, staged \cup tileIndex, fri, TRUE)
      BY <3>2, FinalAllowed
    <3>. QED BY <2>2, <3>1, <3>3
  <2>. QED BY <2>3, <2>4
<1>. HIDE DEF alloc
<1>5. MemoryOK(space', tiles', tileIndex', staged', fri', isFinal')
  BY <1>1, <1>4
<1>6. HeaderOK(disk') /\ HeaderOK(cached')
  BY <1>1 DEF IInv
<1>7. BoundsOK'
  <2>1. Pages(blob) \subseteq 0 .. MaxPages
    BY <1>1, <1>4, PagesBound
  <2>2. phase' \in Phases
    BY <1>1 DEF Phases
  <2>. QED BY <1>1, <2>1, <2>2, Zenon DEF IInv, BoundsOK
<1>8. PhaseOK'
  BY <1>1 DEF IInv, PhaseOK
<1>9. DurableInUse'
  BY <1>1 DEF DurableInUse
<1>10. BlobsPreserved'
  <2>1. (blobWrites \cup Pages(blob)) \cap PagesOf(Reach(disk)) = {}
    BY <1>1, <1>4, BlobLands
  <2>. QED BY <1>1, <2>1 DEF BlobsPreserved
<1>. QED BY <1>5, <1>6, <1>7, <1>8, <1>9, <1>10 DEF IInv

\* A staged run is freed.
LEMMA CommitFreeInv == ASSUME IInv, NEW run \in staged, CommitFree(run) PROVE IInv'
<1>1. /\ phase = "freeing" /\ space' = PerformFreePages(space, run)
      /\ staged' = staged \ {run}
      /\ UNCHANGED <<disk, cached, phase, isFinal, edits, tiles, tileIndex, fri,
                     blobWrites, friWrites, unsynced>>
  BY DEF CommitFree
<1>2. MemoryOK(space, tiles, tileIndex, staged, fri, isFinal)
  BY DEF IInv
<1>3. MemoryOK(PerformFreePages(space, run), tiles, tileIndex, staged \ {run},
               fri, isFinal)
  BY <1>2, StagedFreed
<1>4. MemoryOK(space', tiles', tileIndex', staged', fri', isFinal')
  BY <1>1, <1>3
<1>5. HeaderOK(disk') /\ HeaderOK(cached')
  BY <1>1 DEF IInv
<1>6. BoundsOK'
  BY <1>1, Zenon DEF IInv, BoundsOK
<1>7. PhaseOK' /\ DurableInUse'
  BY <1>1 DEF IInv, PhaseOK, DurableInUse
<1>8. BlobsPreserved'
  BY <1>1 DEF IInv, BlobsPreserved
<1>. QED BY <1>4, <1>5, <1>6, <1>7, <1>8 DEF IInv

\* The number of pages that slots need is positive.
LEMMA SlotPages ==
  ASSUME NEW slots \in Nat \ {0}
  PROVE  pagesForSlots(slots) \in Nat \ {0}
<1>. DEFINE d == SlotsPerPage
            s == slots - 1
<1>1. d \in Nat \ {0} /\ s \in Nat /\ slots + SlotsPerPage - 1 = s + d
  BY BoundsAssumption
<1>. HIDE DEF d, s
<1>2. (s + d) \div d \in Nat \ {0}
  BY <1>1
<1>. QED BY <1>1, <1>2 DEF pagesForSlots, d

\* A final commit writes the free-range index, another one leaves it.
LEMMA CommitIndexInv == IInv /\ CommitIndex => IInv'
<1>. SUFFICES ASSUME IInv, CommitIndex PROVE IInv'
  OBVIOUS
<1>1. /\ phase = "freeing" /\ staged = {} /\ phase' = "written"
      /\ UNCHANGED <<disk, cached, isFinal, edits, staged, tiles, tileIndex, blobWrites>>
  BY DEF CommitIndex
<1>2. MemoryOK(space, tiles, tileIndex, {}, fri, isFinal) /\ isFinal \in BOOLEAN
  BY <1>1 DEF IInv, BoundsOK
<1>3. /\ MemoryOK(space', tiles, tileIndex, {}, fri', isFinal)
      /\ isFinal => FinalIndex(space', fri')
      /\ friWrites' \subseteq 0 .. MaxPages /\ unsynced' \subseteq 0 .. MaxPages
  <2>1. CASE ~ isFinal
    <3>1. UNCHANGED <<fri, space, friWrites, unsynced>>
      BY <2>1 DEF CommitIndex
    <3>. QED BY <1>2, <2>1, <3>1 DEF IInv, BoundsOK
  <2>2. CASE isFinal /\ space.freeRanges = 0
    <3>1. fri' = Zero /\ UNCHANGED <<space, friWrites, unsynced>>
      BY <2>2 DEF CommitIndex, WriteFreeRangeIndex
    <3>2. MemoryOK(space, tiles, tileIndex, {}, Zero, isFinal)
      BY <1>2, IndexDropped
    <3>3. FinalIndex(space, Zero)
      BY <2>2 DEF FinalIndex
    <3>. QED BY <3>1, <3>2, <3>3 DEF IInv, BoundsOK
  <2>3. CASE isFinal /\ space.freeRanges # 0
    <3>. DEFINE slots == SlotCount(space.freeRanges)
                n     == pagesForSlots(slots)
                alloc == AllocPages(space, n)
                run   == [start |-> alloc.first, size |-> n]
                index == Index(run, alloc.space.freeByStart, slots)
    <3>1. /\ n =< SegmentPages /\ End(run) =< MaxPages
          /\ space' = alloc.space /\ fri' = index
          /\ friWrites' = friWrites \cup Pages(run)
          /\ unsynced' = unsynced \cup Pages(run)
      BY <2>3 DEF CommitIndex, WriteFreeRangeIndex, FitsSegment
    <3>2. n \in 1 .. SegmentPages
      <4>1. space.freeRanges \in Nat
        BY <1>2, HeldFacts DEF MemoryOK
      <4>2. slots \in Nat \ {0}
        BY <4>1 DEF SlotCount
      <4>. HIDE DEF slots
      <4>3. n \in Nat \ {0}
        BY <4>2, SlotPages
      <4>. HIDE DEF n
      <4>. QED BY <3>1, <4>3, SegmentPagesAssumption
    <3>3. MemoryOK(alloc.space, tiles, tileIndex, {}, index, TRUE) /\ run \in Run
      <4>. HIDE DEF n
      <4>. QED BY <1>2, <3>2, IndexWritten
    <3>4. FinalIndex(alloc.space, index)
      BY DEF FinalIndex, Index
    <3>5. Pages(run) \subseteq 0 .. MaxPages
      <4>. HIDE DEF run
      <4>. QED BY <3>1, <3>3, PagesBound
    <3>. HIDE DEF index, alloc, run
    <3>6. MemoryOK(space', tiles, tileIndex, {}, fri', TRUE)
      BY <3>1, <3>3
    <3>7. isFinal = TRUE
      BY <2>3, <1>2
    <3>8. MemoryOK(space', tiles, tileIndex, {}, fri', isFinal)
      BY <3>6, <3>7, Zenon
    <3>. QED BY <3>1, <3>4, <3>5, <3>8 DEF IInv, BoundsOK
  <2>. QED BY <2>1, <2>2, <2>3
<1>4. MemoryOK(space', tiles', tileIndex', staged', fri', isFinal')
  BY <1>1, <1>3
<1>5. HeaderOK(disk') /\ HeaderOK(cached')
  BY <1>1 DEF IInv
<1>6. BoundsOK'
  <2>1. phase' \in Phases
    BY <1>1 DEF Phases
  <2>. QED BY <1>1, <1>3, <2>1, Zenon DEF IInv, BoundsOK
<1>7. PhaseOK' /\ DurableInUse'
  BY <1>1, <1>3 DEF IInv, PhaseOK, DurableInUse
<1>8. BlobsPreserved'
  BY <1>1 DEF IInv, BlobsPreserved
<1>. QED BY <1>4, <1>5, <1>6, <1>7, <1>8 DEF IInv

\* The sync before the header is written.
LEMMA CommitSyncInv == IInv /\ CommitSync => IInv'
<1>. SUFFICES ASSUME IInv, CommitSync PROVE IInv'
  OBVIOUS
<1>1. /\ phase = "written" /\ unsynced' = {} /\ phase' = "synced"
      /\ UNCHANGED <<disk, cached, memory, blobWrites, friWrites>>
  BY DEF CommitSync
<1>2. MemoryOK(space', tiles', tileIndex', staged', fri', isFinal')
  BY <1>1 DEF IInv, memory
<1>3. HeaderOK(disk') /\ HeaderOK(cached')
  BY <1>1 DEF IInv
<1>4. BoundsOK'
  <2>1. phase' \in Phases
    BY <1>1 DEF Phases
  <2>. QED BY <1>1, <2>1 DEF IInv, BoundsOK, memory
<1>5. PhaseOK' /\ DurableInUse'
  BY <1>1 DEF IInv, PhaseOK, DurableInUse, memory
<1>6. BlobsPreserved'
  BY <1>1 DEF IInv, BlobsPreserved
<1>. QED BY <1>2, <1>3, <1>4, <1>5, <1>6 DEF IInv

\* The header is written, but a crash may still lose it.
LEMMA CommitHeaderInv == IInv /\ CommitHeader => IInv'
<1>. SUFFICES ASSUME IInv, CommitHeader PROVE IInv'
  OBVIOUS
<1>1. /\ phase = "synced" /\ cached' = MemoryHeader /\ phase' = "headerWritten"
      /\ UNCHANGED <<disk, memory, blobWrites, friWrites, unsynced>>
  BY DEF CommitHeader, MemoryHeader
<1>2. /\ MemoryOK(space, tiles, tileIndex, {}, fri, isFinal)
      /\ isFinal => FinalIndex(space, fri)
  BY <1>1 DEF IInv, PhaseOK
<1>3. HeaderOK(MemoryHeader)
  BY <1>2, HeaderMade DEF MemoryHeader
<1>4. MemoryOK(space', tiles', tileIndex', staged', fri', isFinal')
  BY <1>1 DEF IInv, memory
<1>5. HeaderOK(disk') /\ HeaderOK(cached')
  BY <1>1, <1>3 DEF IInv
<1>6. BoundsOK'
  <2>1. phase' \in Phases
    BY <1>1 DEF Phases
  <2>. QED BY <1>1, <2>1 DEF IInv, BoundsOK, memory
<1>7. PhaseOK' /\ DurableInUse'
  BY <1>1 DEF IInv, PhaseOK, DurableInUse, memory, MemoryHeader
<1>8. BlobsPreserved'
  BY <1>1 DEF IInv, BlobsPreserved
<1>. QED BY <1>4, <1>5, <1>6, <1>7, <1>8 DEF IInv

\* The header is durable: all of what it leads to is in use.
LEMMA CommitDoneInv == IInv /\ CommitDone => IInv'
<1>. SUFFICES ASSUME IInv, CommitDone PROVE IInv'
  OBVIOUS
<1>1. /\ phase = "headerWritten" /\ disk' = cached /\ phase' = "open"
      /\ blobWrites' = {} /\ friWrites' = {} /\ unsynced' = {} /\ edits' = 0
      /\ UNCHANGED <<cached, isFinal, space, staged, tiles, tileIndex, fri>>
  BY DEF CommitDone
<1>2. /\ MemoryOK(space, tiles, tileIndex, {}, fri, isFinal)
      /\ isFinal => FinalIndex(space, fri)
      /\ cached = MemoryHeader /\ staged = {}
  BY <1>1 DEF IInv, PhaseOK
<1>3. Reach(MemoryHeader) = Owned(tiles, tileIndex, {}, fri)
  BY <1>2, HeaderMade DEF MemoryHeader
<1>4. MemoryOK(space', tiles', tileIndex', staged', fri', isFinal')
  BY <1>1 DEF IInv
<1>5. HeaderOK(disk') /\ HeaderOK(cached')
  BY <1>1 DEF IInv
<1>6. BoundsOK'
  <2>1. phase' \in Phases /\ edits' \in 0 .. MaxEdits
    BY <1>1, NoEdit DEF Phases
  <2>. QED BY <1>1, <2>1 DEF IInv, BoundsOK
<1>7. PhaseOK'
  BY <1>1 DEF PhaseOK
<1>8. DurableInUse'
  <2>1. Reach(disk') = Owned(tiles', tileIndex', staged', fri')
    BY <1>1, <1>2, <1>3
  <2>. QED BY <2>1 DEF DurableInUse
<1>9. BlobsPreserved'
  BY <1>1 DEF BlobsPreserved
<1>. QED BY <1>4, <1>5, <1>6, <1>7, <1>8, <1>9 DEF IInv

\* A store is closed, by end() or a crash, with a sound header.
LEMMA ForgetInv ==
  ASSUME IInv, NEW nextPhase \in {"closed", "damaged"}, Forget(nextPhase),
         disk' = cached', HeaderOK(disk')
  PROVE  IInv'
<1>1. /\ phase' = nextPhase /\ isFinal' = FALSE /\ edits' = 0
      /\ space' = FreshSpace(MetaPages)
      /\ staged' = {} /\ tiles' = {} /\ tileIndex' = {} /\ fri' = Zero
      /\ blobWrites' = {} /\ friWrites' = {} /\ unsynced' = {}
  BY DEF Forget
<1>2. MemoryOK(space', tiles', tileIndex', staged', fri', isFinal')
  BY <1>1, FreshOK
<1>3. HeaderOK(cached')
  OBVIOUS
<1>4. BoundsOK'
  <2>1. phase' \in Phases /\ edits' \in 0 .. MaxEdits
    BY <1>1, NoEdit DEF Phases
  <2>. QED BY <1>1, <2>1 DEF IInv, BoundsOK
<1>5. PhaseOK' /\ DurableInUse'
  BY <1>1 DEF PhaseOK, DurableInUse
<1>6. BlobsPreserved'
  BY <1>1 DEF BlobsPreserved
<1>. QED BY <1>2, <1>3, <1>4, <1>5, <1>6 DEF IInv

\* end() closes the store.
LEMMA EndInv == IInv /\ EndTransaction => IInv'
<1>. SUFFICES ASSUME IInv, EndTransaction PROVE IInv'
  OBVIOUS
<1>1. phase = "open" /\ Forget("closed") /\ UNCHANGED <<disk, cached>>
  BY DEF EndTransaction
<1>2. disk' = cached' /\ HeaderOK(disk')
  BY <1>1 DEF IInv, PhaseOK
<1>. QED BY <1>1, <1>2, ForgetInv

\* A crash leaves the durable header or the one that was being written.
LEMMA CrashInv == IInv /\ Crash => IInv'
<1>. SUFFICES ASSUME IInv, Crash PROVE IInv'
  OBVIOUS
<1>1. PICK newHeader \in {FALSE, phase = "headerWritten"} :
        LET h == IF newHeader THEN cached ELSE disk
        IN  /\ disk' = h
            /\ cached' = h
            /\ Forget(IF ~ newHeader /\ Overwritten # {} THEN "damaged" ELSE "closed")
  BY DEF Crash
<1>2. disk' = cached' /\ (disk' = cached \/ disk' = disk)
  BY <1>1
<1>3. HeaderOK(disk')
  BY <1>2 DEF IInv
<1>4. Forget("closed") \/ Forget("damaged")
  BY <1>1
<1>. QED BY <1>2, <1>3, <1>4, ForgetInv

\* begin() misreads only a header that no final commit wrote.
LEMMA BeginMisreadsInv == IInv /\ BeginMisreads => IInv'
<1>. SUFFICES ASSUME IInv, BeginMisreads PROVE IInv'
  OBVIOUS
<1>1. /\ phase = "closed" /\ ~ Readable(cached) /\ phase' = "misread"
      /\ UNCHANGED <<disk, cached, memory, blobWrites, friWrites, unsynced>>
  BY DEF BeginMisreads
<1>2. ~ disk.final
  <2>1. cached # Blank => ~ cached.final
    BY <1>1 DEF IInv, HeaderOK
  <2>2. ~ cached.final
    BY <2>1 DEF Blank
  <2>. QED BY <1>1, <2>2 DEF IInv, PhaseOK
<1>3. /\ MemoryOK(space', tiles', tileIndex', staged', fri', isFinal')
      /\ HeaderOK(disk') /\ HeaderOK(cached')
  BY <1>1 DEF IInv, memory
<1>4. BoundsOK' /\ DurableInUse' /\ BlobsPreserved'
  BY <1>1 DEF IInv, BoundsOK, Phases, DurableInUse, BlobsPreserved, memory
<1>5. PhaseOK'
  BY <1>1, <1>2 DEF IInv, PhaseOK
<1>. QED BY <1>3, <1>4, <1>5 DEF IInv

\* A transaction that has misread its index ends as one that has written
\* nothing or with a file of which nothing is said.
LEMMA MisreadGoesOnInv == IInv /\ MisreadGoesOn => IInv'
<1>. SUFFICES ASSUME IInv, MisreadGoesOn PROVE IInv'
  OBVIOUS
<1>1. /\ phase = "misread" /\ phase' \in {"closed", "damaged"}
      /\ UNCHANGED <<disk, cached, memory, blobWrites, friWrites, unsynced>>
  BY DEF MisreadGoesOn
<1>2. /\ MemoryOK(space', tiles', tileIndex', staged', fri', isFinal')
      /\ HeaderOK(disk') /\ HeaderOK(cached')
  BY <1>1 DEF IInv, memory
<1>3. BoundsOK' /\ DurableInUse' /\ BlobsPreserved'
  BY <1>1 DEF IInv, BoundsOK, Phases, DurableInUse, BlobsPreserved, memory
<1>4. PhaseOK'
  BY <1>1 DEF IInv, PhaseOK
<1>. QED BY <1>2, <1>3, <1>4 DEF IInv

\* Every step keeps the invariant.
LEMMA NextInv == IInv /\ [Next]_vars => IInv'
<1>. SUFFICES ASSUME IInv, [Next]_vars PROVE IInv'
  OBVIOUS
<1>1. CASE UNCHANGED vars
  <2>1. /\ MemoryOK(space', tiles', tileIndex', staged', fri', isFinal')
        /\ HeaderOK(disk') /\ HeaderOK(cached')
    BY <1>1 DEF IInv, vars, memory
  <2>2. BoundsOK' /\ PhaseOK' /\ DurableInUse' /\ BlobsPreserved'
    BY <1>1 DEF IInv, vars, memory, BoundsOK, PhaseOK, MemoryHeader, DurableInUse,
                BlobsPreserved
  <2>. QED BY <2>1, <2>2 DEF IInv
<1>2. CASE BeginThrows
  BY <1>1, <1>2 DEF BeginThrows
<1>3. CASE Damaged
  BY <1>1, <1>3 DEF Damaged
<1>. QED BY <1>1, <1>2, <1>3, BeginCreatedInv, BeginInv, PutTileInv, FreeTileInv,
            CommitInv, CommitFreeInv, CommitIndexInv, CommitSyncInv, CommitHeaderInv,
            CommitDoneInv, EndInv, CrashInv, BeginMisreadsInv, MisreadGoesOnInv
         DEF Next

\* The invariant holds of every sequence of transactions, commits and crashes.
THEOREM Invariance == Spec => []IInv
  BY InitInv, NextInv, PTL DEF Spec

-----------------------------------------------------------------------------
(* What the runs check follows from the invariant *)

\* A set with at most one element has cardinality 0 or 1.
LEMMA AtMostOneCardinality ==
  ASSUME NEW S, AtMostOne(S)
  PROVE  Cardinality(S) =< 1
<1>1. CASE S = {}
  BY <1>1, FS_EmptySet
<1>2. CASE S # {}
  <2>1. PICK x : x \in S
    BY <1>2
  <2>2. S = {x}
    BY <2>1 DEF AtMostOne
  <2>3. Cardinality({x}) = 1
    BY FS_Singleton
  <2>. QED BY <2>2, <2>3
<1>. QED BY <1>1, <1>2

\* The types of the headers, of memory and of the pages written, and one tile
\* index at most.
THEOREM TypeCorrect == Spec => []TypeOK
<1>1. IInv => TypeOK
  <2>. SUFFICES ASSUME IInv PROVE TypeOK
    OBVIOUS
  <2>1. disk.freeRanges \in Nat /\ cached.freeRanges \in Nat
    BY DEF IInv, HeaderOK, Blank
  <2>2. /\ space \in Space
        /\ Owned(tiles, tileIndex, staged, fri) \subseteq Run
    BY HeldFacts DEF IInv, MemoryOK
  <2>3. staged \subseteq Run /\ tiles \subseteq Run /\ tileIndex \subseteq Run
    BY <2>2 DEF Owned
  <2>4. Cardinality(tileIndex) =< 1
    BY AtMostOneCardinality DEF IInv, MemoryOK
  <2>5. fri.kind \in {"zero", "invalid", "blob"}
    BY DEF IInv, MemoryOK, IndexOK
  <2>6. blobWrites \cup friWrites \cup unsynced \subseteq 0 .. MaxPages
    BY DEF IInv, BoundsOK
  <2>7. phase \in Phases /\ isFinal \in BOOLEAN /\ edits \in 0 .. MaxEdits
    BY DEF IInv, BoundsOK
  <2>. QED BY <2>1, <2>2, <2>3, <2>4, <2>5, <2>6, <2>7 DEF TypeOK, Phases
<1>. QED BY <1>1, Invariance, PTL

\* A final commit leaves a header that begin() can read.
LEMMA FinalReadable ==
  ASSUME IInv
  PROVE  OnlyIntermediateMisread
<1>1. ASSUME NEW h, HeaderOK(h), h.final PROVE Readable(h)
  <2>1. h # Blank
    BY <1>1 DEF Blank
  <2>. QED BY <1>1, <2>1 DEF HeaderOK
<1>. QED BY <1>1 DEF IInv, PhaseOK, OnlyIntermediateMisread

\* No crash at any step of any commit finds pages that are shared, overwritten
\* by addBlob, or led to before they are durable, as long as begin() does not
\* take other data for the free-range index; it does so only where the last
\* commit that got through was an intermediate one.
THEOREM CommitsAlwaysSafe == Spec => []CommitsSafe
<1>1. IInv => CommitsSafe
  <2>. SUFFICES ASSUME IInv PROVE CommitsSafe
    OBVIOUS
  <2>1. RunsInUse = Owned(tiles, tileIndex, staged, fri)
    BY DEF RunsInUse, Owned, IndexRun
  <2>2. /\ Owned(tiles, tileIndex, staged, fri) \cap space.freeByStart = {}
        /\ Apart(Owned(tiles, tileIndex, staged, fri) \cup space.freeByStart)
    BY HeldFacts DEF IInv, MemoryOK
  <2>3. RunsDisjoint
    BY <2>1, <2>2 DEF RunsDisjoint, Apart
  <2>4. BlobsPreserved
    BY DEF IInv
  <2>5. DurableBeforeHeader
    BY DEF IInv, PhaseOK, DurableBeforeHeader
  <2>6. OnlyIntermediateMisread
    BY FinalReadable
  <2>. QED BY <2>3, <2>4, <2>5, <2>6 DEF CommitsSafe
<1>. QED BY <1>1, Invariance, PTL

\* The free-range index always has room for what is free, and reading it back
\* frees no page that the header leads to and none at the end of the file.  A
\* header whose index cannot be read so is one of an intermediate commit.
THEOREM IndexAlwaysSound == Spec => []IndexSound
<1>1. ASSUME NEW h, HeaderOK(h), Readable(h), h.freeRangeIndex.kind = "blob",
             NEW r \in h.freeRangeIndex.ranges
      PROVE  /\ End(r) < h.totalPages
             /\ \A s \in Reach(h) : ~ Overlap(r, s)
  <2>1. h # Blank
    BY <1>1 DEF Blank, Zero
  <2>2. h.freeRanges # 0 /\ Held(StoredSpace(h), Reach(h))
    BY <1>1, <2>1 DEF HeaderOK
  <2>. DEFINE sp == StoredSpace(h)
  <2>3. r \in sp.freeByStart /\ sp.totalPages = h.totalPages
    BY <1>1, <2>2 DEF StoredSpace, ReadFreeRangeIndex
  <2>. HIDE DEF sp
  <2>4. /\ Reach(h) \cap sp.freeByStart = {}
        /\ Apart(Reach(h) \cup sp.freeByStart)
        /\ End(r) < sp.totalPages
    BY <2>2, <2>3, HeldFacts DEF sp
  <2>5. ASSUME NEW s \in Reach(h) PROVE ~ Overlap(r, s)
    BY <2>3, <2>4 DEF Apart
  <2>. QED BY <2>3, <2>4, <2>5
<1>2. IInv => IndexSound
  <2>. SUFFICES ASSUME IInv PROVE IndexSound
    OBVIOUS
  <2>1. IndexFits
    BY DEF IInv, MemoryOK, IndexOK, IndexFits
  <2>2. IndexAgreesWithHeader
    BY <1>1 DEF IInv, IndexAgreesWithHeader
  <2>. QED BY <2>1, <2>2, FinalReadable DEF IndexSound
<1>. QED BY <1>2, Invariance, PTL
=============================================================================
