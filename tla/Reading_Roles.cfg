SPECIFICATION Spec
CONSTANTS
  Subjects = {"members"}
  MaxCommonKey = 6
  CodeNo = 1
  CodeOf <- MCCodeOf
  Queries <- MCQueries
  Filters <- MCFilters
  SomeKeys <- MCSomeKeys
  StringCount = 8
  Hash <- MCHash
  TaggedFeatures <- MCTaggedFeatures
  NumberIn <- MCNumberIn
  NotANumber = 999
  Bits = 4
  Levels = {0, 1, 3}
  Trees <- MCTrees
  TileFeatures <- MCTileFeatures
  Requests <- MCRequests
  NoBox = NoBox
  Losses <- MCLosses
  n1 = n1  n2 = n2  n3 = n3  w1 = w1  w2 = w2  w3 = w3  r1 = r1  r2 = r2  r3 = r3
  NoFeature = NoFeature
  Fetching = Fetching
  NoRoles = NoRoles
  MemberFeatures <- MCMemberFeatures
  Kind <- MCKind
  TileOf <- MCTileOf
  Address <- MCAddress
  Tex <- MCTex
  Place <- MCPlace
  Areas <- MCAreas
  Placeholders <- MCPlaceholders
  TableOf <- MCTableOf
  Rings <- MCRings
  Jobs <- MCJobs
INVARIANT
  RolesOfMembers
