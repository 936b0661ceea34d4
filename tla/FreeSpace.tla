------------------------------- MODULE FreeSpace -------------------------------
(***************************************************************************)
(* The life of the pages of a store within one writer: blobs are allocated *)
(* (Transaction::addBlob, allocPages), handed back (freePages, which only  *)
(* puts them on the list stagedFreeRanges_) and really freed when the      *)
(* transaction commits.  The free-range index is, here, a blob like any    *)
(* other; FreeStoreTransaction.tla says where it is read and written.      *)
(***************************************************************************)
EXTENDS FreeRanges

CONSTANTS BlobSizes,    \* sizes of blobs, in pages
          MetaPages,    \* pages of the header and the metadata section
          MaxPages      \* bound: no page of the file has a number this large

ASSUME BlobSizesAssumption == BlobSizes \subseteq 1 .. SegmentPages
ASSUME MetaPagesAssumption == MetaPages \in Nat \ {0}
ASSUME MaxPagesAssumption == MaxPages \in Nat

VARIABLES
  space,      \* header_.totalPages, header_.freeRanges and the two trees
  live,       \* the blobs in use
  staged,     \* stagedFreeRanges_: blobs handed back, not yet freed
  committing  \* commit() is working through stagedFreeRanges_

vars == <<space, live, staged, committing>>

MetaRun == [start |-> 0, size |-> MetaPages]

Init ==
  /\ space = FreshSpace(MetaPages)
  /\ live = {}
  /\ staged = {}
  /\ committing = FALSE

\* allocPages, for a blob of n pages.
Alloc(n) ==
  LET alloc == AllocPages(space, n)
      blob  == [start |-> alloc.first, size |-> n]
  IN  /\ ~ committing
      /\ End(blob) =< MaxPages
      /\ space' = alloc.space
      /\ live' = live \cup {blob}
      /\ UNCHANGED <<staged, committing>>

\* freePages, called for a blob that is in use.
FreePages(blob) ==
  /\ ~ committing
  /\ staged' = staged \cup {blob}
  /\ live' = live \ {blob}
  /\ UNCHANGED <<space, committing>>

Commit ==
  /\ ~ committing
  /\ committing' = TRUE
  /\ UNCHANGED <<space, live, staged>>

\* Wrong: the list is not cleared.
CommitFreeListKept(blob) ==
  /\ committing
  /\ space' = PerformFreePages(space, blob)
  /\ UNCHANGED <<live, staged, committing>>

\* One turn of the loop at the start of commit().  The loop takes the list in
\* the order it was filled; nothing may depend on that order.
CommitFree(blob) ==
  /\ committing
  /\ space' = PerformFreePages(space, blob)
  /\ staged' = staged \ {blob}
  /\ UNCHANGED <<live, committing>>

CommitDone ==
  /\ committing
  /\ staged = {}
  /\ committing' = FALSE
  /\ UNCHANGED <<space, live, staged>>

Next ==
  \/ \E n \in BlobSizes : Alloc(n)
  \/ \E blob \in live : FreePages(blob)
  \/ Commit
  \/ \E blob \in staged : CommitFree(blob)
  \/ CommitDone

Spec == Init /\ [][Next]_vars

-----------------------------------------------------------------------------
InUse == {MetaRun} \cup live \cup staged
Runs == InUse \cup space.freeByStart

\* Types, and the agreement of the three records of what is free: the two trees
\* hold the same runs and the header counts them.  Every operation of the
\* transaction asserts it when it ends (FreeStore_Transaction.cpp:156-157).
TypeOK ==
  /\ space \in Space
  /\ live \subseteq Run
  /\ staged \subseteq Run
  /\ committing \in BOOLEAN
  /\ space.freeBySize = space.freeByStart
  /\ IsFiniteSet(space.freeByStart)
  /\ space.freeRanges = Cardinality(space.freeByStart)

\* Two different runs, in use, staged or free, never share a page: no blob is
\* given pages of another one, and nothing is freed that is still in use.
NoOverlap == \A r, s \in Runs : r # s => ~ Overlap(r, s)

\* A blob is in one list only: in use, staged to be freed, or free.
OneOwner ==
  /\ live \cap staged = {}
  /\ InUse \cap space.freeByStart = {}
  /\ MetaRun \notin live \cup staged

\* No page is lost: each page of the file is in a run that is in use, staged
\* or free, and no run lies beyond the end of the file.
NoLeak ==
  /\ \A p \in 0 .. space.totalPages - 1 : Covered(Runs, p)
  /\ \A r \in Runs : End(r) =< space.totalPages

\* Free space is not fragmented by freeing: two free runs touch only where a
\* segment starts, whatever the order in which their pages were freed.
Coalesced ==
  \A r, s \in space.freeByStart :
    End(r) = s.start => isFirstPageOfSegment(s.start)

\* The file never ends with free pages; allocPages relies on it when it
\* asserts firstPage + freePages < totalPages (FreeStore_Transaction.cpp:123).
NothingFreeAtEnd == \A r \in space.freeByStart : End(r) < space.totalPages

\* No blob and no free run crosses the start of a segment.
WithinSegments == \A r \in Runs \ {MetaRun} : InOneSegment(r)

\* What the transaction's bookkeeping keeps through every order of allocations,
\* frees and commits: each page has one owner, none is lost, and the free runs
\* are as long as they can be.
SpaceKept ==
  /\ NoOverlap
  /\ OneOwner
  /\ NoLeak
  /\ Coalesced
  /\ NothingFreeAtEnd
  /\ WithinSegments

\* The allocator does what PageAllocator.tla promises, staged blobs being in
\* use until the commit frees them.
PageAllocator == INSTANCE PageAllocator WITH used <- InUse
ImplementsPageAllocator == PageAllocator!Spec
=============================================================================
