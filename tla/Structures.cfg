SPECIFICATION Spec
CONSTANTS
  Subjects = {"tree", "polygons", "filters", "output", "rows", "texts", "encodings"}
  TreeKeys <- MCTreeKeys
  MaxKeys = 5
  NoEntry = NoEntry
  Scripts <- MCScripts
  TreeCalls = 2
  Relations <- MCRelations
  Geometries <- MCGeometries
  Candidates <- MCCandidates
  Boxes <- MCBoxes
  IndexPoints <- MCIndexPoints
  Distances <- MCDistances
  MaxVertexCount = 3
  MaxCandidateLength = 3
  MaxItemsPerNode = 2
  EastEnd = 6
  Points <- MCPoints
  Null = "0"
  Worlds <- MCWorlds
  Tasks = {"wkt", "geojson", "geojsonl", "wktGeometry", "geojsonGeometry", "leaflet", "geometry", "collection", "centroid", "length", "segments", "points", "distance"}
  Guarded = {"geometry", "collection", "centroid", "length", "segments", "points", "distance"}
  RowKeys <- MCRowKeys
  CommonKeys <- MCCommonKeys
  Wildcards = {"addr:*", "*me"}
  Everything = ""
  Matching <- MCMatching
  SchemaTexts <- MCSchemaTexts
  Features <- MCFeatures
  Capacity = 6
  MaxRows = 2
  NameTokens <- MCNames
  Documents <- MCDocuments
  Values <- MCValues
  GroupSize = 4
  MaxMantissa = 199
  MaxScale = 3
  MinNumber <- MCMinNumber
  MaxNarrow = 55
  MaxWide = 155
  MaxWideScale = 1
  MaxPart = 7
  Jobs <- MCJobs
INVARIANTS
  TreeWellFormed
  PolygonsAssembled
  FiltersExact
  OutputReadable
  MembersGathered
  RowsRight
  TextsReadBack
PROPERTY
  TreeIsMap
CHECK_DEADLOCK FALSE
