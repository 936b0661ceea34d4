----------------------------- MODULE PageAllocator -----------------------------
(***************************************************************************)
(* What the page allocator of a FreeStore promises its callers, whatever   *)
(* it does to find space: a blob gets a run of pages nobody else uses and  *)
(* that lies in one segment, keeps exactly that run for as long as it      *)
(* lives, and no page is ever given up that was not handed back.           *)
(***************************************************************************)
EXTENDS FreeRanges

CONSTANTS BlobSizes,    \* sizes of blobs, in pages
          MetaPages,    \* pages of the header and the metadata section
          MaxPages      \* bound: no page of the file has a number this large

\* The header page and the metadata are in use from the start and for ever.
MetaRun == [start |-> 0, size |-> MetaPages]

VARIABLE used     \* the runs in use: metadata and blobs

Init == used = {MetaRun}

Allocate(n) ==
  \E first \in 0 .. MaxPages :
    LET blob == [start |-> first, size |-> n]
    IN  /\ End(blob) =< MaxPages
        /\ InOneSegment(blob)
        /\ \A r \in used : ~ Overlap(r, blob)
        /\ used' = used \cup {blob}

Release(blob) ==
  /\ blob # MetaRun
  /\ used' = used \ {blob}

Next ==
  \/ \E n \in BlobSizes : Allocate(n)
  \/ \E blob \in used : Release(blob)

Spec == Init /\ [][Next]_used
=============================================================================
