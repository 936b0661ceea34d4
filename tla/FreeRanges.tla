------------------------------ MODULE FreeRanges ------------------------------
(***************************************************************************)
(* The free-space bookkeeping of a FreeStore transaction: the two trees    *)
(* freeByStart_ and freeBySize_, the page count and the range count kept   *)
(* in the header, and the two operations on them, allocPages and           *)
(* performFreePages.  A space is a record                                  *)
(*                                                                         *)
(*   totalPages   number of pages in the store file (header_.totalPages)   *)
(*   freeRanges   number of free ranges (header_.freeRanges)               *)
(*   freeByStart  the entries of freeByStart_: runs [start, size]          *)
(*   freeBySize   the keys of freeBySize_, the same runs ordered by size   *)
(*                                                                         *)
(* The low bit of a freeByStart_ entry (the "garbage flag") is only ever   *)
(* copied, never tested, and is left out.                                  *)
(***************************************************************************)
EXTENDS Integers, FiniteSets

CONSTANT SegmentPages   \* SEGMENT_LENGTH >> pageSizeShift_: no blob crosses a
                        \* multiple of it

ASSUME SegmentPagesAssumption == SegmentPages \in Nat \ {0}

\* A run of pages: one entry of a tree, or one blob.
Run == [start : Nat, size : Nat \ {0}]
End(r) == r.start + r.size
Overlap(r, s) == r.start < End(s) /\ s.start < End(r)

isFirstPageOfSegment(p) == p % SegmentPages = 0

InOneSegment(r) ==
  \A p \in r.start + 1 .. End(r) - 1 : ~ isFirstPageOfSegment(p)

Space == [totalPages : Nat \ {0}, freeRanges : Int,
          freeByStart : SUBSET Run, freeBySize : SUBSET Run]

\* A store whose metadata ends before page n, with nothing free.
FreshSpace(n) == [totalPages |-> n, freeRanges |-> 0,
                  freeByStart |-> {}, freeBySize |-> {}]

-----------------------------------------------------------------------------
(***************************************************************************)
(* allocPages: best fit (lower_bound on the size tree: the smallest run    *)
(* that is large enough, the lowest one among equals), else fresh pages at *)
(* the end of the file.                                                    *)
(***************************************************************************)
\* Wrong: a run one page too small is taken to fit.
FittingOffByOne(space, n) == {r \in space.freeBySize : r.size + 1 >= n}

Fitting(space, n) == {r \in space.freeBySize : r.size >= n}

SizeOrder(r, s) == r.size < s.size \/ (r.size = s.size /\ r.start =< s.start)

BestFit(space, n) ==
  CHOOSE r \in Fitting(space, n) : \A s \in Fitting(space, n) : SizeOrder(r, s)

\* Wrong: a perfect fit is not taken off the header's count.
AllocFittingCountKept(space, n) ==
  LET fit  == BestFit(space, n)
      rest == [start |-> fit.start + n, size |-> fit.size - n]
      keep == IF fit.size = n THEN {} ELSE {rest}
  IN  [first |-> fit.start,
       space |-> [space EXCEPT !.freeByStart = (@ \ {fit}) \cup keep,
                               !.freeBySize  = (@ \ {fit}) \cup keep]]

\* The first n pages of the best fit; what is left of it stays free.
AllocFitting(space, n) ==
  LET fit  == BestFit(space, n)
      rest == [start |-> fit.start + n, size |-> fit.size - n]
      keep == IF fit.size = n THEN {} ELSE {rest}
  IN  [first |-> fit.start,
       space |-> [space EXCEPT
                    !.freeRanges  = IF fit.size = n THEN @ - 1 ELSE @,
                    !.freeByStart = (@ \ {fit}) \cup keep,
                    !.freeBySize  = (@ \ {fit}) \cup keep]]

\* Wrong: one page more than the segment has.
RemainingOffByOne(space) == SegmentPages - (space.totalPages % SegmentPages) + 1

\* Pages between the end of the file and the end of its last segment.
Remaining(space) == SegmentPages - (space.totalPages % SegmentPages)

\* Wrong: the skipped end of a segment is forgotten.
AllocVirginTailLost(space, n) ==
  LET first == IF Remaining(space) < n THEN space.totalPages + Remaining(space)
               ELSE space.totalPages
  IN  [first |-> first, space |-> [space EXCEPT !.totalPages = first + n]]

\* A blob that does not fit into the last segment goes to a fresh one, and
\* the pages it skips become a free run.
AllocVirgin(space, n) ==
  LET tail == [start |-> space.totalPages, size |-> Remaining(space)]
      next == End(tail)
  IN  IF Remaining(space) < n
      THEN [first |-> next,
            space |-> [totalPages  |-> next + n,
                       freeRanges  |-> space.freeRanges + 1,
                       freeByStart |-> space.freeByStart \cup {tail},
                       freeBySize  |-> space.freeBySize \cup {tail}]]
      ELSE [first |-> space.totalPages,
            space |-> [space EXCEPT !.totalPages = @ + n]]

AllocPages(space, n) ==
  IF Fitting(space, n) # {} THEN AllocFitting(space, n) ELSE AllocVirgin(space, n)

-----------------------------------------------------------------------------
(***************************************************************************)
(* performFreePages.  At the end of the file the run is cut off, and with  *)
(* it every free run the file then ends with: the file ends after the last *)
(* page that is not free.  Elsewhere the run is merged with its right and  *)
(* its left free neighbour, unless a segment starts between them.          *)
(***************************************************************************)
Covered(runs, p) == \E r \in runs : r.start =< p /\ p < End(r)

LastKept(runs, end) ==
  CHOOSE p \in 0 .. end - 1 :
    /\ ~ Covered(runs, p)
    /\ \A q \in p + 1 .. end - 1 : Covered(runs, q)

\* Wrong: only the freed run is cut off.
FreeAtEndNoLoop(space, blob) == [space EXCEPT !.totalPages = blob.start]

FreeAtEnd(space, blob) ==
  LET total   == LastKept(space.freeByStart, blob.start) + 1
      trimmed == {r \in space.freeByStart : r.start >= total}
  IN  [totalPages  |-> total,
       freeRanges  |-> space.freeRanges - Cardinality(trimmed),
       freeByStart |-> space.freeByStart \ trimmed,
       freeBySize  |-> space.freeBySize \ trimmed]

\* Wrong: merging ignores segments, or the left side.
RightNeighborAnySegment(runs, r) == {s \in runs : s.start = End(r)}
NoLeftNeighbor(runs, r) == {}

\* The free run that is merged with r on its right or left; none is {}.
RightNeighbor(runs, r) ==
  {s \in runs : s.start = End(r) /\ ~ isFirstPageOfSegment(s.start)}
LeftNeighbor(runs, r) ==
  {s \in runs : End(s) = r.start /\ ~ isFirstPageOfSegment(r.start)}

Merge(r, right, left) ==
  LET first == IF left = {} THEN r.start ELSE (CHOOSE s \in left : TRUE).start
      end   == IF right = {} THEN End(r) ELSE End(CHOOSE s \in right : TRUE)
  IN  [start |-> first, size |-> end - first]

FreeInside(space, blob) ==
  LET right == RightNeighbor(space.freeByStart, blob)
      left  == LeftNeighbor(space.freeByStart, blob)
      whole == Merge(blob, right, left)
  IN  [space EXCEPT
         !.freeRanges  = @ - Cardinality(right) - Cardinality(left) + 1,
         !.freeByStart = (@ \ (right \cup left)) \cup {whole},
         !.freeBySize  = (@ \ (right \cup left)) \cup {whole}]

PerformFreePages(space, blob) ==
  IF End(blob) = space.totalPages
  THEN FreeAtEnd(space, blob)
  ELSE FreeInside(space, blob)

-----------------------------------------------------------------------------
(***************************************************************************)
(* What makes a space sound for a set of runs in use: the trees and the    *)
(* header's counts agree, no two runs share a page, every page of the file *)
(* is in one of them, and the free runs are as long as they can be.        *)
(***************************************************************************)

Apart(A) == \A r, s \in A : r # s => ~ Overlap(r, s)

Fills(A, total) ==
  /\ \A r \in A : End(r) =< total
  /\ \A p \in 0 .. total - 1 : Covered(A, p)

Shape(F, total) ==
  /\ \A r, s \in F : End(r) = s.start => isFirstPageOfSegment(s.start)
  /\ \A r \in F : End(r) < total
  /\ \A r \in F : InOneSegment(r)

\* The free runs F and the runs in use U of a file of total pages.
Layout(F, U, total) ==
  /\ F \subseteq Run /\ U \subseteq Run /\ U \cap F = {}
  /\ total \in Nat \ {0}
  /\ Apart(U \cup F)
  /\ Fills(U \cup F, total)
  /\ Shape(F, total)

Sound(sp, U) ==
  /\ sp \in Space
  /\ sp.freeBySize = sp.freeByStart
  /\ IsFiniteSet(sp.freeByStart)
  /\ sp.freeRanges = Cardinality(sp.freeByStart)
  /\ Layout(sp.freeByStart, U, sp.totalPages)
=============================================================================
