-------------------------------- MODULE Segments --------------------------------
(***************************************************************************)
(* How an expandable mapped file is laid out (ExpandableMappedFile.cpp):   *)
(* the main mapping covers the size that the file had when it was opened,  *)
(* rounded up to segments if it is writable.  Mapping n > 0 comes after    *)
(* mapping n - 1, and mappings 1, 2, 3 ... have 1, 2, 4 ... segments.      *)
(***************************************************************************)
EXTENDS Naturals, FiniteSets

\* SEGMENT_LENGTH and EXTENDED_MAPPINGS_SLOT_COUNT.
CONSTANTS SegmentLength, SlotCount
SegmentAssumption == SegmentLength \in Nat \ {0} /\ SlotCount \in Nat

MainMappingSize(fileSize) ==
  LET least == IF fileSize < SegmentLength THEN SegmentLength ELSE fileSize
  IN  ((least + SegmentLength - 1) \div SegmentLength) * SegmentLength

\* 1 << n
Power[n \in Nat] == IF n = 0 THEN 1 ELSE 2 * Power[n - 1]

\* The index of the highest bit of i > 0, of those that a slot may have.
HighestBit(i) == Cardinality({b \in 1 .. SlotCount : Power[b] <= i})

\* mappingNumber()
MappingNumber(main, ofs) ==
  IF ofs < main THEN 0 ELSE HighestBit((ofs - main + SegmentLength) \div SegmentLength) + 1

MappingSize(main, n) == IF n = 0 THEN main ELSE SegmentLength * Power[n - 1]
MappingOffset(main, n) == IF n = 0 THEN 0 ELSE MappingSize(main, n) - SegmentLength + main

\* translate(): how far into its mapping an offset lies.
\* Wrong: the segments of the mappings before it are not subtracted.
IntoMappingOfFirst(main, ofs) == IF ofs < main THEN ofs ELSE ofs - main
IntoMapping(main, ofs) ==
  IF ofs < main THEN ofs
  ELSE (ofs - main) - MappingSize(main, MappingNumber(main, ofs)) + SegmentLength

================================================================================
