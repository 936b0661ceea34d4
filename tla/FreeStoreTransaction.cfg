SPECIFICATION Spec
CONSTANTS
  SegmentPages = 4
  BlobSizes = {1, 2}
  MetaPages = 1
  IndexPages = 1
  SlotsPerPage = 2
  MaxPages = 10
  MaxEdits = 1
INVARIANTS
  TypeOK
  CommitsSafe
  IndexSound
