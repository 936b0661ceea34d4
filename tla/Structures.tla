------------------------------ MODULE Structures -------------------------------
(***************************************************************************)
(* The parts of the library that one thread uses for itself: a map, the    *)
(* assembly of polygons, spatial filters, the writers and walkers of       *)
(* features, rows and texts.  They have nothing in common but that: each   *)
(* behaviour is one of a single part, the subject, and the variables of    *)
(* the others keep a value without meaning.                                *)
(***************************************************************************)
EXTENDS Naturals, Sequences, FiniteSets

CONSTANTS Subjects     \* "tree", "polygons", "filters", "output", "rows", "texts", "encodings"

CONSTANTS
  TreeKeys, MaxKeys, NoEntry, Scripts, TreeCalls,
  Relations,
  Geometries, Candidates, Boxes, IndexPoints, Distances,
  MaxVertexCount, MaxCandidateLength, MaxItemsPerNode, EastEnd,
  Points, Null, Worlds, Tasks, Guarded,
  RowKeys, CommonKeys, Wildcards, Everything, Matching, SchemaTexts, Features, Capacity, MaxRows,
  NameTokens, Documents, Values,
  GroupSize, MaxMantissa, MaxScale, MinNumber, MaxNarrow, MaxWide, MaxWideScale, MaxPart, Jobs

VARIABLES
  subject,
  root, nodes, call, path, at, taken, listed,
  ways, segments, order, place, seg, rings, outerRings, innerRings, holes,
  geometry, rest, chains, distance, tree, childStart, childEnd, answer,
  world, stack, out, gathered, areaSum, near,
  schema, feature, builder, row, tagsSize, step, rows,
  source, p, insideTag, atTagStart, error, events, level, quoted,
  job, encoded, cursor, passed, decoded,
  phase, turn, task, asked, todo, calls     \* of more than one part

Tree     == INSTANCE BTree WITH Keys <- TreeKeys, MaxCalls <- TreeCalls
Assembly == INSTANCE Polygons
Filters  == INSTANCE SpatialFilters WITH Points <- IndexPoints
Output   == INSTANCE FeatureOutput
Table    == INSTANCE FeatureRows WITH Keys <- RowKeys
Scanner  == INSTANCE Texts
Codes    == INSTANCE Encodings

ASSUME StructuresAssumption ==
  /\ Tree!BTreeAssumption /\ Output!OutputAssumption /\ Table!RowsAssumption /\ Scanner!TextsAssumption
  /\ Codes!EncodingsAssumption

treeVars     == <<root, nodes, call, path, at, taken, listed>>
polygonsVars == <<ways, segments, order, place, seg, rings, outerRings, innerRings, holes>>
filtersVars  == <<geometry, rest, chains, distance, tree, childStart, childEnd, answer>>
outputVars   == <<world, stack, out, gathered, areaSum, near>>
rowsVars     == <<schema, feature, builder, row, tagsSize, step, rows>>
textsVars    == <<source, p, insideTag, atTagStart, error, events, level, quoted>>
codesVars    == <<job, encoded, cursor, passed, decoded>>
sharedVars   == <<phase, turn, task, asked, todo, calls>>
vars == <<subject, treeVars, polygonsVars, filtersVars, outputVars, rowsVars, textsVars, codesVars, sharedVars>>

\* A tree that is not the subject is an empty one.
NoTree     == /\ root = 1 /\ nodes = [r \in {1} |-> [left |-> 0, entries |-> <<>>]]
              /\ call = Tree!None /\ path = <<>> /\ at = 0 /\ taken = NoEntry /\ listed = <<>>
NoPolygons == /\ ways = 0 /\ segments = 0 /\ order = 0 /\ place = 0 /\ seg = 0
              /\ rings = 0 /\ outerRings = 0 /\ innerRings = 0 /\ holes = 0
NoFilters  == /\ geometry = 0 /\ rest = 0 /\ chains = 0 /\ distance = 0
              /\ tree = 0 /\ childStart = 0 /\ childEnd = 0 /\ answer = 0
NoOutput   == world = 0 /\ stack = 0 /\ out = 0 /\ gathered = 0 /\ areaSum = 0 /\ near = 0
NoTable    == schema = 0 /\ feature = 0 /\ builder = 0 /\ row = 0 /\ tagsSize = 0 /\ step = 0 /\ rows = 0
NoText     == /\ source = 0 /\ p = 0 /\ insideTag = 0 /\ atTagStart = 0 /\ error = 0
              /\ events = 0 /\ level = 0 /\ quoted = 0
NoCodes    == job = 0 /\ encoded = 0 /\ cursor = 0 /\ passed = 0 /\ decoded = 0

Init ==
  /\ subject \in Subjects
  /\ IF subject = "tree"     THEN Tree!Init     ELSE NoTree
  /\ IF subject = "polygons" THEN Assembly!Init ELSE NoPolygons
  /\ IF subject = "filters"  THEN Filters!Init  ELSE NoFilters
  /\ IF subject = "output"   THEN Output!Init   ELSE NoOutput
  /\ IF subject = "rows"     THEN Table!Init    ELSE NoTable
  /\ IF subject = "texts"    THEN Scanner!Init  ELSE NoText
  /\ IF subject = "encodings" THEN Codes!Init ELSE NoCodes
  /\ IF subject \in {"polygons", "output", "texts", "encodings"} THEN TRUE ELSE phase = 0
  /\ IF subject \in {"polygons", "output"} THEN TRUE ELSE turn = 0
  /\ IF subject \in {"output", "texts"} THEN TRUE ELSE task = 0
  /\ IF subject \in {"filters", "rows"} THEN TRUE ELSE asked = 0
  /\ IF subject \in {"tree", "rows"} THEN TRUE ELSE todo = 0
  /\ IF subject = "tree" THEN TRUE ELSE calls = 0

TreeStep ==
  /\ subject = "tree" /\ Tree!Next
  /\ UNCHANGED <<subject, polygonsVars, filtersVars, outputVars, rowsVars, textsVars, codesVars, phase, turn, task, asked>>
AssemblyStep ==
  /\ subject = "polygons" /\ Assembly!Next
  /\ UNCHANGED <<subject, treeVars, filtersVars, outputVars, rowsVars, textsVars, codesVars, task, asked, todo, calls>>
FiltersStep ==
  /\ subject = "filters" /\ Filters!Next
  /\ UNCHANGED <<subject, treeVars, polygonsVars, outputVars, rowsVars, textsVars, codesVars, phase, turn, task, todo, calls>>
OutputStep ==
  /\ subject = "output" /\ Output!Next
  /\ UNCHANGED <<subject, treeVars, polygonsVars, filtersVars, rowsVars, textsVars, codesVars, asked, todo, calls>>
TableStep ==
  /\ subject = "rows" /\ Table!Next
  /\ UNCHANGED <<subject, treeVars, polygonsVars, filtersVars, outputVars, textsVars, codesVars, phase, turn, task, calls>>
ScannerStep ==
  /\ subject = "texts" /\ Scanner!Next
  /\ UNCHANGED <<subject, treeVars, polygonsVars, filtersVars, outputVars, rowsVars, codesVars, turn, asked, todo, calls>>
CodesStep ==
  /\ subject = "encodings" /\ Codes!Next
  /\ UNCHANGED <<subject, treeVars, polygonsVars, filtersVars, outputVars, rowsVars, textsVars, turn, task, asked, todo, calls>>

Next == TreeStep \/ AssemblyStep \/ FiltersStep \/ OutputStep
        \/ TableStep \/ ScannerStep \/ CodesStep

Spec == Init /\ [][Next]_vars

-----------------------------------------------------------------------------
(* What is checked of each part: its properties, stated in its own module. *)

\* Whatever loans and merges have run up it, the tree is a B+ tree, and its
\* iterators list it in order (BTree.h).
TreeWellFormed == subject = "tree" => Tree!WellFormed /\ Tree!ListedInOrder
\* It is an ordered map, of which a call may miss the least key that is not below
\* x where that is in another leaf than x would be, and only there (BTree.h).
TreeIsMap == Tree!ImplementsMap /\ [](subject = "tree" => Tree!MissesOnlyNextLeaf)
\* No key that is not below x is missed: not so, see the README, section 6.
LowerBoundFound == subject = "tree" => Tree!LowerBoundFound

\* Rings are closed, made of segments that meet, and those of complete
\* relations have all their edges (RingBuilder.cpp, RingMerger.cpp).  Points are
\* located in rings, and holes in their outer rings (PointInPolygon.cpp,
\* RingAssigner.cpp).
PolygonsAssembled ==
  subject = "polygons" => /\ Assembly!RingsJoined /\ Assembly!EdgesKept
                          /\ Assembly!LocatedRight /\ Assembly!HolesInside

\* The index of a geometry finds and locates exactly, and so do the filters
\* that ask it (MCIndex.cpp, IntersectsPolygonFilter.cpp and the others).
FiltersExact == subject = "filters" => Filters!LocatedExactly /\ Filters!FilteredExactly

\* What is written of features can be read, its polygons being closed, and is
\* what is written of the geometries built from them (FeatureWriter.cpp, GeoJsonWriter.cpp, WktWriter.cpp).
OutputReadable == subject = "output" => Output!Readable /\ Output!LinesDivide /\ Output!PolygonsClosed /\ Output!GeometriesAlike
\* The walks through members take each once, and areas are summed with their
\* signs (RelationPtr.h, GeometryBuilder.cpp, Centroid.h).
MembersGathered == subject = "output" => Output!GatheredOnce /\ Output!AreaOfShells
\* No relation is walked within itself: the guard is "A safeguard against endless
\* recursion in case a Relation contains a reference cycle" (RelationPtr.h, 24-25).
NoEndlessRecursion == subject = "output" => Output!NoEndlessRecursion
\* These do not hold: see the README, section 6.  No list of features is empty, each
\* line of GeoJSONL has one, and the area of a hole is taken away.
ListsFilled == subject = "output" => Output!ListsFilled
LineForEach == subject = "output" => Output!LineForEach
HolesTakenAway == subject = "output" => Output!HolesTakenAway

\* Rows show what their columns are named for, and each tag once (FeatureRow.cpp).
RowsRight == subject = "rows" => Table!CellsRight /\ Table!TagsShownOnce

\* Escaped text is read back, from XML and JSON (SimpleXmlParser.cpp, Json.cpp).
\* Numbers, strings, versions and the values of tags are read back from what they
\* are written as, and a checksum is the same by whatever means (varint.h,
\* ShortVarString.h, Crc32C.cpp, Format.cpp, Decimal.cpp, TagValue.h).
TextsReadBack ==
  /\ subject = "texts" => Scanner!XmlReadBack /\ Scanner!JsonScanned /\ Scanner!JsonReadBack /\ Scanner!ValueBehindTokenSkipped
  /\ subject = "encodings" => Codes!EncodingsRight
\* These do not hold: see the README, section 6.  readRawString() gives a string
\* "without enclosing quotes" (Json.h, line 63); skipValue() skips the value at p.
RawStringBare == subject = "texts" => Scanner!RawStringBare
ValueSkipped == subject = "texts" => Scanner!ValueSkipped
\* Nor do these: values of tags are true "unless" they are 0, and no number "if
\* the string value does not start with a valid number" (TagValue.h, 19 and 23);
\* what doubleReverse() and integerNice() write is read back (Format.cpp).
TrueUnlessZero == subject = "encodings" => Codes!TrueUnlessZero
NaNUnlessNumber == subject = "encodings" => Codes!NaNUnlessNumber
ReverseReadBack == subject = "encodings" => Codes!ReverseReadBack
NiceReadBack == subject = "encodings" => Codes!NiceReadBack
================================================================================
