SPECIFICATION Spec
CONSTANTS
  SegmentPages = 4
  BlobSizes = {1, 2, 3, 4}
  MetaPages = 2
  MaxPages = 10
INVARIANTS
  TypeOK
  SpaceKept
PROPERTY ImplementsPageAllocator
