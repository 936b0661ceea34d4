------------------------------ MODULE TileQuery ------------------------------
(***************************************************************************)
(* How a query finds its features: the walk over the tile index            *)
(* (TileIndexWalker), the help a spatial filter gives it, the scan of the  *)
(* indexes inside a tile (TileQueryTask) and the tests made on a feature   *)
(* there.  A feature that lies in two tiles is stored in both, and the     *)
(* whole point of northwestFlags is that it is returned from one of them.  *)
(*                                                                         *)
(* Tasks run in turn here: QueryPipeline has their concurrency.  A filter  *)
(* is a sequence of simple filters (empty: none; more than one: a          *)
(* ComboFilter), each a kind and the set of unit cells of its region; a    *)
(* feature's geometry fills its box.  The store's content (what the GOL    *)
(* tool writes) is made from the constants.                                *)
(***************************************************************************)
EXTENDS Integers, Sequences, FiniteSets, FiniteSetsExt, SequencesExt

-----------------------------------------------------------------------------
(* Boxes, tiles, tile pairs and zoom levels: the arithmetic that Box.h,    *)
(* Tile.h, TilePair.h and ZoomLevels.h do on 32-bit coordinates, for       *)
(* coordinates of Bits bits (the world is a square of 2^Bits units).  A    *)
(* tile is a cell of the grid that splits the world into 2^zoom columns    *)
(* and as many rows, row 0 at the top.                                     *)

CONSTANT Bits
BitsAssumption == Bits \in Nat \ {0}

MinInt == -(2^(Bits - 1))
MaxInt == 2^(Bits - 1) - 1
Coords == MinInt .. MaxInt

\* What a signed sum leaves in a variable of Bits bits.
Wrap(v) == ((v - MinInt) % 2^Bits) + MinInt

Larger(a, b) == IF a > b THEN a ELSE b
Smaller(a, b) == IF a < b THEN a ELSE b

-----------------------------------------------------------------------------
(* Boxes.                                                                  *)

Box(minX, minY, maxX, maxY) == [minX |-> minX, minY |-> minY, maxX |-> maxX, maxY |-> maxY]
EmptyBox == Box(MaxInt, MaxInt, MinInt, MinInt)
WorldBox == Box(MinInt, MinInt, MaxInt, MaxInt)

IsEmpty(b) == b.minY > b.maxY
IsSimple(b) == b.maxX >= b.minX /\ b.maxY >= b.minY

\* Box::intersects, also the test searchLeaf() spells out for a feature.
Intersects(a, b) == /\ a.minX <= b.maxX /\ a.maxX >= b.minX
                    /\ a.minY <= b.maxY /\ a.maxY >= b.minY

ContainsSimple(b, x, y) == x \in b.minX .. b.maxX /\ y \in b.minY .. b.maxY

\* Box::contains(x, y): the bounds of a box that crosses the antimeridian
\* are swapped, and the test is then made on what lies between them.
BoxContains(b, x, y) == IF b.minX > b.maxX
                          THEN ~IsEmpty(b) /\ x \in b.maxX .. b.minX /\ y \in b.minY .. b.maxY
                          ELSE ContainsSimple(b, x, y)

ContainsBox(a, b) == /\ b.minX >= a.minX /\ b.maxX <= a.maxX
                     /\ b.minY >= a.minY /\ b.maxY <= a.maxY

SimpleIntersection(a, b) ==
  LET c == Box(Larger(a.minX, b.minX), Larger(a.minY, b.minY),
               Smaller(a.maxX, b.maxX), Smaller(a.maxY, b.maxY))
  IN  IF IsSimple(c) THEN c ELSE EmptyBox

\* Box::contains(Box), for boxes that may be empty.
BoxContainsBox(a, b) ==
  IF a.minX <= a.maxX /\ b.minX <= b.maxX THEN ContainsBox(a, b)
  ELSE /\ ~IsEmpty(a) /\ ~IsEmpty(b)
       /\ Smaller(b.minX, b.maxX) >= Smaller(a.minX, a.maxX) /\ Larger(b.minX, b.maxX) <= Larger(a.minX, a.maxX)
       /\ b.minY >= a.minY /\ b.maxY <= a.maxY

Area(b) == (b.maxX - b.minX) * (b.maxY - b.minY)
SimpleSmaller(a, b) == IF Area(a) < Area(b) THEN a ELSE b

\* The least box around a set of boxes (expandToIncludeSimple on each).
BoxAround(boxes) == Box(Min({b.minX : b \in boxes}), Min({b.minY : b \in boxes}),
                        Max({b.maxX : b \in boxes}), Max({b.maxY : b \in boxes}))

\* Sums that stop at the edge of the world.
TrimmedSubtract(a, b) == IF a - b \in Coords THEN a - b ELSE MinInt
TrimmedAdd(a, b) == IF a + b \in Coords THEN a + b ELSE MaxInt

\* Wrong: the top is not trimmed.
BufferWrapped(b, d) == IF IsEmpty(b) THEN b ELSE Box(Wrap(b.minX - d), Wrap(b.minY - d), Wrap(b.maxX + d), Wrap(b.maxY + d))

\* Box::buffer: grown by d units on each side, or shrunk.
Buffer(b, d) ==
  LET c == Box(Wrap(b.minX - d), IF d >= 0 THEN TrimmedSubtract(b.minY, d) ELSE TrimmedAdd(b.minY, -d),
               Wrap(b.maxX + d), IF d >= 0 THEN TrimmedAdd(b.maxY, d) ELSE TrimmedSubtract(b.maxY, -d))
  IN  CASE IsEmpty(b) -> b [] ~IsEmpty(b) /\ d < 0 /\ IsEmpty(c) -> EmptyBox [] OTHER -> c

UnitsAround(d, x, y) == Box(Wrap(x - d), TrimmedSubtract(y, d), Wrap(x + d), TrimmedAdd(y, d))

\* Division rounds towards zero.
Middle(a, b) == IF a + b >= 0 THEN (a + b) \div 2 ELSE -((-(a + b)) \div 2)
Center(b) == <<Middle(b.minX, b.maxX), Middle(b.minY, b.maxY)>>

\* Box::expandToInclude(Coordinate).
ExpandToInclude(b, x, y) == Box(Smaller(b.minX, x), Smaller(b.minY, y), Larger(b.maxX, x), Larger(b.maxY, y))

\* The units of the world that a box covers.
CellsOf(b) == {<<x, y>> : x \in b.minX .. b.maxX, y \in b.minY .. b.maxY}

-----------------------------------------------------------------------------
(* Tiles.                                                                  *)

Tile(col, row, zoom) == [col |-> col, row |-> row, zoom |-> zoom]
RootTile == Tile(0, 0, 0)

Unit(zoom) == 2^(Bits - zoom)                        \* the extent of a tile

ColumnFromXZ(x, zoom) == (x - MinInt) \div Unit(zoom)
RowFromYZ(y, zoom) == (MaxInt - y) \div Unit(zoom)

LeftX(t) == t.col * Unit(t.zoom) + MinInt
RightX(t) == LeftX(t) + Unit(t.zoom) - 1
TopY(t) == MaxInt - t.row * Unit(t.zoom)
BottomY(t) == Wrap(MinInt - Wrap((t.row + 1) * Unit(t.zoom)))
Bounds(t) == Box(LeftX(t), BottomY(t), RightX(t), BottomY(t) + Unit(t.zoom) - 1)

Relative(t, cols, rows) == Tile(t.col + cols, t.row + rows, t.zoom)

\* Tile::neighbor: the grid wraps at its edges.
Neighbor(t, cols, rows) == Tile((t.col + cols) % 2^t.zoom, (t.row + rows) % 2^t.zoom, t.zoom)

ZoomedOut(t, zoom) == LET ratio == 2^(t.zoom - zoom)
                      IN  Tile(t.col \div ratio, t.row \div ratio, zoom)

\* Does the box meet the tile or one of its eight neighbours?  (No wrapping:
\* Tile::intersectsNeighborsSimple computes in 64 bits.)
IntersectsNeighbors(t, b) ==
  LET extent == Unit(t.zoom)
      left == MinInt + t.col * extent - extent
      bottom == -MinInt - (t.row + 2) * extent
  IN  /\ b.maxX >= left /\ b.minX < left + 3 * extent
      /\ b.maxY >= bottom /\ b.minY < bottom + 3 * extent

-----------------------------------------------------------------------------
(* Tile pairs: one tile, or it and the tile to its east or south.          *)

Pair(t, east, south) == [first |-> t, east |-> east, south |-> south]
Second(p) == Relative(p.first, p.east, p.south)
TilesOf(p) == {p.first, Second(p)}

\* The smallest pair that covers the columns left..right and the rows
\* top..bottom of a zoom level, at that level or a lower one.
RECURSIVE CoveringPair(_, _, _, _, _)
CoveringPair(left, top, right, bottom, zoom) ==
  IF right - left <= 1 /\ bottom - top <= 1 /\ (right = left \/ bottom = top)
    THEN Pair(Tile(left, top, zoom), right - left, bottom - top)
    ELSE CoveringPair(left \div 2, top \div 2, right \div 2, bottom \div 2, zoom - 1)

PairZoomedOut(p, zoom) ==
  LET northWest == ZoomedOut(p.first, zoom)
      same == northWest = ZoomedOut(Second(p), zoom)
  IN  Pair(northWest, IF same THEN 0 ELSE p.east, IF same THEN 0 ELSE p.south)

\* TilePair::operator+=(Tile).
PairPlus(p, t) ==
  LET zoom == Smaller(p.first.zoom, t.zoom)
      a == PairZoomedOut(p, zoom)
      b == ZoomedOut(t, zoom)
  IN  CoveringPair(Smaller(a.first.col, b.col), Smaller(a.first.row, b.row),
                   Larger(a.first.col + a.east, b.col), Larger(a.first.row + a.south, b.row), zoom)

\* Twins: the two tiles of a pair, each seen from the other.
Directions == {"self", "north", "west", "south", "east"}
Delta(direction) == CASE direction = "self" -> <<0, 0>> [] direction = "north" -> <<0, -1>>
                      [] direction = "west" -> <<-1, 0>> [] direction = "south" -> <<0, 1>> [] OTHER -> <<1, 0>>

Twin(t, direction) == Relative(t, Delta(direction)[1], Delta(direction)[2])

IsTwinOf(t, other) ==
  LET d == {e \in Directions : Delta(e) = <<t.col - other.col, t.row - other.row>>}
  IN  IF d = {} THEN "invalid" ELSE CHOOSE e \in d : TRUE

\* TilePair::covering: a pair begins at its western or northern tile.
Covering(t, direction) ==
  CASE direction = "self" -> Pair(t, 0, 0)
    [] direction = "north" -> Pair(Relative(t, 0, -1), 0, 1) [] direction = "west" -> Pair(Relative(t, -1, 0), 1, 0)
    [] direction = "south" -> Pair(t, 0, 1)                  [] OTHER -> Pair(t, 1, 0)

\* Wrong: west and east are swapped.
PairTwinSwapped(p, t) ==
  CASE t = p.first /\ p.east = 1 -> "west" [] t = Second(p) /\ p.east = 1 -> "east"
    [] t = p.first /\ p.south = 1 -> "south" [] t = Second(p) /\ p.south = 1 -> "north"
    [] t = p.first /\ p.east = 0 /\ p.south = 0 -> "self" [] OTHER -> "invalid"

\* TilePair::isTwinOf: where the pair's other tile lies, seen from t.
PairTwin(p, t) ==
  CASE t = p.first /\ p.east = 1 -> "east" [] t = Second(p) /\ p.east = 1 -> "west"
    [] t = p.first /\ p.south = 1 -> "south" [] t = Second(p) /\ p.south = 1 -> "north"
    [] t = p.first /\ p.east = 0 /\ p.south = 0 -> "self" [] OTHER -> "invalid"

-----------------------------------------------------------------------------
(* Zoom levels: the set of zoom levels at which a store has tiles.         *)

ValidLevels(levels) ==
  /\ 0 \in levels
  /\ \A z \in levels \ {0} : \E y \in levels : y \in z - 3 .. z - 1

ParentZoom(levels, zoom) == Max({z \in levels : z < zoom} \union {0})

-----------------------------------------------------------------------------

CONSTANTS
  Levels,      \* the zoom levels of the store
  Trees,       \* sets of tiles: the tile trees to try
  Features,    \* records [id, kind, key, box]
  Requests,    \* records [box, filter, types, keys]; box NoBox: the filter's
  NoBox,
  Losses       \* the tiles one of which may be missing

Zooms == SetToSortSeq(Levels, <)

TileQueryAssumption ==
  /\ ValidLevels(Levels) /\ Cardinality(Levels) > 1 /\ Max(Levels) <= Bits
  /\ \A tree \in Trees : /\ RootTile \in tree
                         /\ \A t \in tree \ {RootTile} : ZoomedOut(t, ParentZoom(Levels, t.zoom)) \in tree

VARIABLES
  store,       \* the store: its tiles, tile index and the tiles of each feature
  missing,     \* those of them that are not loaded
  query,       \* the request
  box,         \* box_, the bounds it is made with
  levels,      \* levels_: where the walk stands at each level of the tree
  level,       \* currentLevel_, counted from 1
  tile, tip,   \* currentTile_, currentTip_
  northwest,   \* northwestFlags_, a subset of {"N", "W"}
  turbo,       \* turboFlags_: the filters that have accepted the whole tile
  accepted,    \* acceptedTiles_
  results,     \* the features found, in order
  lookup,      \* a FeatureFinder's last question and answer
  pc           \* "walking", then "done"

walk == <<levels, level, tile, tip, northwest, turbo, accepted>>
vars == <<store, missing, query, box, walk, results, lookup, pc>>

-----------------------------------------------------------------------------
(* The store's content.                                                    *)

Children(tree, t) == {c \in tree : c # RootTile /\ t.zoom = ParentZoom(Levels, c.zoom)
                                                /\ ZoomedOut(c, t.zoom) = t}
Parents(tree) == {t \in tree : Children(tree, t) # {}}

\* A cell's bit in the mask of its parent's children.
CellNumber(step, row, col) == row * 2^step + col
ChildNumber(c) == LET zoom == ParentZoom(Levels, c.zoom)
                      corner == ZoomedOut(c, zoom)
                      ratio == 2^(c.zoom - zoom)
                  IN  CellNumber(c.zoom - zoom, c.row - corner.row * ratio, c.col - corner.col * ratio)

HeaderWords(step) == IF step = 3 THEN 3 ELSE 2       \* a page, and 32 or 64 mask bits

\* The tile index: the words of a tile with children are its page, its mask
\* and an entry for each child, which is the child's page or, if the child
\* has children itself, the distance to its words.
TileIndex(tree) ==
  LET Before(s, t) == \/ s.zoom < t.zoom
                      \/ s.zoom = t.zoom /\ s.row < t.row
                      \/ s.zoom = t.zoom /\ s.row = t.row /\ s.col < t.col
      Step(t) == Min({c.zoom : c \in Children(tree, t)}) - t.zoom
      Words(t) == HeaderWords(Step(t)) + Cardinality(Children(tree, t))
      base == [t \in Parents(tree) |-> 1 + MapThenSumSet(Words, {s \in Parents(tree) : Before(s, t)})]
      EntryOf(c) == LET p == ZoomedOut(c, ParentZoom(Levels, c.zoom)) IN
        base[p] + HeaderWords(Step(p))
          + Cardinality({d \in Children(tree, p) : ChildNumber(d) < ChildNumber(c)})
      entry == [c \in tree \ {RootTile} |-> EntryOf(c)]
      inner == Parents(tree) \ {RootTile}
      own == [t \in tree |-> IF t \in DOMAIN base THEN base[t] ELSE entry[t]]
  IN  [mask |-> [p \in {base[t] : t \in DOMAIN base} |->
                   LET t == CHOOSE t \in DOMAIN base : base[t] = p
                   IN  {ChildNumber(c) : c \in Children(tree, t)}],
       ptr  |-> [p \in {entry[c] : c \in inner} |->
                   base[CHOOSE c \in inner : entry[c] = p] - p],
       tip  |-> own]

\* The tiles that hold a feature: the lowest pair that covers its box and
\* exists.
PairOf(tree, f) ==
  LET leaf == Max(Levels)
      At(x, y) == Tile(ColumnFromXZ(x, leaf), RowFromYZ(y, leaf), leaf)
      least == PairPlus(Pair(At(f.box.minX, f.box.maxY), 0, 0), At(f.box.maxX, f.box.minY))
      fits == {z \in Levels : z <= least.first.zoom /\ TilesOf(PairZoomedOut(least, z)) \subseteq tree}
  IN  PairZoomedOut(least, Max(fits))

StoreOf(tree) == [tiles |-> tree, index |-> TileIndex(tree),
                  pair |-> [f \in Features |-> PairOf(tree, f)]]

\* The copies of a feature say in which directions the feature goes on.
MultitileFlags(f, t) == LET p == store.pair[f] IN
  IF t = p.first THEN {} ELSE (IF p.south = 1 THEN {"N"} ELSE {}) \union (IF p.east = 1 THEN {"W"} ELSE {})

IndexType(f) == CASE f.kind = "node" -> "nodes" [] f.kind = "way" -> "ways"
                  [] f.kind = "relation" -> "relations" [] OTHER -> "areas"
FeatureType(f) == CASE f.kind \in {"way", "areaWay"} -> "way" [] f.kind = "node" -> "node"
                    [] OTHER -> "relation"

\* One index of a tile: a list of roots by key, below each a leaf and a
\* branch that leads to a second leaf.
Entry(leaf, features, below) == [leaf |-> leaf, box |-> BoxAround({f.box : f \in features}), below |-> below]
Roots(t, type) ==
  LET here(key) == {f \in Features : /\ t \in TilesOf(store.pair[f])
                                     /\ IndexType(f) = type /\ f.key = key}
      Leaf(fs) == Entry(TRUE, fs, SetToSortSeq(fs, LAMBDA f, g : f.id < g.id))
      Branch(fs) == LET first == CHOOSE f \in fs : \A g \in fs : f.id <= g.id
                        rest == fs \ {first}
                    IN  IF rest = {} THEN <<Leaf(fs)>>
                        ELSE <<Leaf({first}), Entry(FALSE, rest, <<Leaf(rest)>>)>>
  IN  [key \in {f.key : f \in Features} |-> IF here(key) = {} THEN <<>> ELSE Branch(here(key))]

-----------------------------------------------------------------------------
(* Filters.                                                                *)

Inner(cells) == {c \in cells : \A i, j \in {-1, 0, 1} : <<c[1] + i, c[2] + j>> \in cells}

\* MCIndex::locateBox: 1 inside the region, -1 outside it, 0 if the region's
\* boundary passes.
Locate(s, b) == IF CellsOf(b) \subseteq Inner(s.cells) THEN 1
                ELSE IF CellsOf(b) \intersect s.cells = {} THEN -1 ELSE 0

FastTileFilter(filter) == \E i \in DOMAIN filter : filter[i].kind \in {"intersects", "within", "crosses"}
StrictBox(filter) == filter # <<>> /\ \A i \in DOMAIN filter : filter[i].kind = "within"

RegionBox(s) == BoxAround({Box(c[1], c[2], c[1], c[2]) : c \in s.cells})

\* ComboFilter(a, b) takes the intersection of strict boxes and else the
\* smaller of the two.
FilterBox(filter) ==
  FoldLeft(LAMBDA b, s : IF StrictBox(filter) THEN SimpleIntersection(b, RegionBox(s))
                         ELSE SimpleSmaller(b, RegionBox(s)),
           RegionBox(Head(filter)), Tail(filter))

\* What a filter decides about a feature alone.
Exact(s, f) == LET here == CellsOf(f.box) IN
  CASE s.kind = "within"  -> here \subseteq s.cells /\ here \intersect Inner(s.cells) # {}
    [] s.kind = "crosses" -> here \intersect (s.cells \ Inner(s.cells)) # {}
    [] OTHER              -> here \intersect s.cells # {}

AcceptOneTile(s, t) ==
  CASE s.kind \in {"intersects", "within"} -> Locate(s, Bounds(t))
    [] s.kind = "crosses" -> IF Locate(s, Bounds(t)) = 0 THEN 0 ELSE -1
    [] OTHER -> 0

RejectsTile(filter, t) == \E i \in DOMAIN filter : AcceptOneTile(filter[i], t) < 0
TurboFlags(filter, t) == {i \in DOMAIN filter : AcceptOneTile(filter[i], t) > 0}

\* Wrong: a filter that has accepted the tile takes all of its features.
AcceptOneTurbo(s, f, t, fast) == fast \/ Exact(s, f)

AcceptOne(s, f, t, fast) ==
  \/ fast /\ CASE s.kind = "intersects" -> TRUE
               [] s.kind = "within" -> /\ MultitileFlags(f, t) = {}
                                       /\ f.box.minY >= BottomY(t) /\ f.box.maxX <= RightX(t)
               [] OTHER -> FALSE
  \/ Exact(s, f)

\* Wrong: every filter of a combo reads the flag of the first.
AcceptUnshifted(filter, f, t, flags) == \A i \in DOMAIN filter : AcceptOne(filter[i], f, t, 1 \in flags)

Accept(filter, f, t, flags) == \A i \in DOMAIN filter : AcceptOne(filter[i], f, t, i \in flags)

-----------------------------------------------------------------------------
(* A tile's task.                                                          *)

AcceptIndex(key) == key \in query.keys

AcceptLeaf(f) ==
  /\ IF f.kind = "node" THEN BoxContains(box, f.box.minX, f.box.minY)
     ELSE MultitileFlags(f, tile) \intersect northwest = {} /\ Intersects(f.box, box)
  /\ f.kind \in query.types
  /\ f.key \in query.keys
  /\ Accept(query.filter, f, tile, turbo)

RECURSIVE SearchBranch(_)
SearchBranch(entries) ==
  IF entries = <<>> THEN <<>>
  ELSE LET e == Head(entries) IN
       (CASE ~Intersects(box, e.box) -> <<>>
          [] e.leaf -> SelectSeq(e.below, AcceptLeaf)
          [] OTHER -> SearchBranch(e.below))
       \o SearchBranch(Tail(entries))

Types(type) == CASE type = "nodes" -> {"node"} [] type = "ways" -> {"way"}
                 [] type = "areas" -> {"areaWay", "areaRelation"} [] type = "relations" -> {"relation"}

SearchIndexes(type) ==
  IF query.types \intersect Types(type) = {} THEN <<>>
  ELSE LET roots == Roots(tile, type)
           keys == SetToSeq({k \in DOMAIN roots : AcceptIndex(k)})
       IN  FlattenSeq([i \in DOMAIN keys |-> SearchBranch(roots[keys[i]])])

Task == SearchIndexes("nodes") \o SearchIndexes("ways")
          \o SearchIndexes("areas") \o SearchIndexes("relations")

-----------------------------------------------------------------------------
(* The walk.                                                               *)

\* A level for the children of tile t, whose words begin at p.
StartLevel(l, t, p, mask) ==
  LET zoom == Zooms[l + 1]
      step == zoom - Zooms[l]
      left == t.col * 2^step
      top == t.row * 2^step
      startCol == Larger(ColumnFromXZ(box.minX, zoom) - left, 0)
  IN  [step |-> step, corner |-> Tile(left, top, zoom),
       startCol |-> startCol, col |-> startCol - 1,
       row |-> Larger(RowFromYZ(box.maxY, zoom) - top, 0),
       endCol |-> Smaller(ColumnFromXZ(box.maxX, zoom) - left, 2^step - 1),
       endRow |-> Smaller(RowFromYZ(box.minY, zoom) - top, 2^step - 1),
       mask |-> mask, entries |-> p + HeaderWords(step)]

\* The cells a level has yet to visit.  The first column of a new row is
\* visited without a test against the last.
CellsLeft(v) == {<<v.row, c>> : c \in v.col + 1 .. v.endCol}
  \union {<<r, c>> : r \in v.row + 1 .. v.endRow, c \in {v.startCol} \union (v.startCol .. v.endCol)}

TileAt(v, cell) == Relative(v.corner, cell[2], cell[1])

Open(v) == {cell \in CellsLeft(v) :
             /\ CellNumber(v.step, cell[1], cell[2]) \in v.mask
             /\ ~(FastTileFilter(query.filter) /\ RejectsTile(query.filter, TileAt(v, cell)))}

FirstCell(cells) == CHOOSE a \in cells : \A b \in cells : a[1] < b[1] \/ (a[1] = b[1] /\ a[2] <= b[2])

\* Wrong: the entry of a child is the one of its cell, empty cells included.
ChildEntryByCell(v, number) == number

ChildEntry(v, number) == Cardinality({n \in v.mask : n <= number}) - 1

\* Wrong: the tiles a filter has rejected count as visited.
NorthwestFlagsOfBox(t) ==
  (IF box.maxY > TopY(t) THEN {"N"} ELSE {}) \union (IF box.minX < LeftX(t) THEN {"W"} ELSE {})

NorthwestFlags(t) ==
  IF FastTileFilter(query.filter)
    THEN IF StrictBox(query.filter) THEN {"N", "W"}
         ELSE (IF Neighbor(t, 0, -1) \in accepted THEN {"N"} ELSE {})
                \union (IF Neighbor(t, -1, 0) \in accepted THEN {"W"} ELSE {})
    ELSE NorthwestFlagsOfBox(t)

\* The walk enters tile t, the cell where level k (now v) stands; the tile's
\* entry is at p, and its own words, if it has any, are at down.
Enter(k, v, t, p, down) ==
  /\ tile' = t /\ tip' = down
  /\ northwest' = NorthwestFlags(t)
  /\ turbo' = IF FastTileFilter(query.filter) THEN TurboFlags(query.filter, t) ELSE {}
  /\ accepted' = IF FastTileFilter(query.filter) /\ ~StrictBox(query.filter)
                   THEN accepted \union {t} ELSE accepted
  /\ level' = IF down = p THEN k ELSE k + 1
  /\ levels' = [levels EXCEPT ![k] = v,
                  ![level'] = IF down = p THEN v
                              ELSE StartLevel(k + 1, t, down, store.index.mask[down])]

Follow(p) == IF p \in DOMAIN store.index.ptr THEN p + store.index.ptr[p] ELSE p

\* next(), the walk standing at level l of levels.
Advance(l) ==
  \E open \in {{k \in 1 .. l : Open(levels[k]) # {}}} :
    IF open = {} THEN pc' = "done" /\ UNCHANGED walk
    ELSE /\ UNCHANGED pc
         /\ \E k \in {Max(open)} : \E cell \in {FirstCell(Open(levels[k]))} :
              \E v \in {[levels[k] EXCEPT !.row = cell[1], !.col = cell[2]]} :
                \E p \in {v.entries + ChildEntry(v, CellNumber(v.step, cell[1], cell[2]))} :
                  Enter(k, v, TileAt(v, cell), p, Follow(p))

\* Wrong: the walk leaves the level it is at even if the tile has no children.
SkipChildrenAlways(l) == l - 1

SkipChildren(l) == IF levels[l].col < levels[l].startCol THEN l - 1 ELSE l

-----------------------------------------------------------------------------
NoLookup == [asked |-> <<>>, found |-> <<>>]

Init ==
  /\ store \in {StoreOf(tree) : tree \in Trees}
  /\ missing \in {{}} \union {{t} : t \in store.tiles \intersect Losses}
  /\ query \in Requests
  /\ box = IF query.box = NoBox THEN FilterBox(query.filter) ELSE query.box
  /\ level = 1 /\ tile = RootTile /\ tip = 1
  /\ levels = [l \in 1 .. Len(Zooms) - 1 |->
                StartLevel(l, RootTile, 1, IF l = 1 THEN store.index.mask[1] ELSE {})]
  /\ northwest = {} /\ turbo = {} /\ accepted = {}
  /\ results = <<>> /\ lookup = NoLookup /\ pc = "walking"

\* One round of requestTiles(): the current tile's task, or past its
\* children if it is not there; then the next tile.
RequestTile ==
  /\ pc = "walking"
  /\ IF tile \in missing THEN UNCHANGED results ELSE results' = results \o Task
  /\ Advance(IF tile \in missing THEN SkipChildren(level) ELSE level)
  /\ UNCHANGED <<store, missing, query, box, lookup>>

\* TileScannerBase: the entries of a branch in order, until one returns true.
RECURSIVE ScanBranch(_, _, _)
ScanBranch(entries, id, bounds) ==
  IF entries = <<>> THEN <<>>
  ELSE LET e == Head(entries)
           found == CASE ~Intersects(e.box, bounds) -> <<>>
                      [] e.leaf -> SelectSeq(e.below, LAMBDA f : <<FeatureType(f), f.id>> = id)
                      [] OTHER -> ScanBranch(e.below, id, bounds)
       IN  IF found # <<>> THEN <<Head(found)>> ELSE ScanBranch(Tail(entries), id, bounds)

\* Wrong: an area is looked for among the features of its type only.
ScannedTypesNoAreas(type) ==
  CASE type = "node" -> <<"nodes">> [] type = "way" -> <<"ways">> [] type = "relation" -> <<"relations">>

\* FeatureFinder: the indexes that can hold a feature of the type.
ScannedTypes(type) ==
  CASE type = "node" -> <<"nodes">> [] type = "way" -> <<"ways", "areas">>
    [] type = "relation" -> <<"areas", "relations">>

ScanFeatures(t, id, bounds) ==
  LET InIndex(type) == LET roots == Roots(t, type)
                           keys == SetToSeq(DOMAIN roots)
                       IN  FlattenSeq([i \in DOMAIN keys |-> ScanBranch(roots[keys[i]], id, bounds)])
      found == FlattenSeq([i \in DOMAIN ScannedTypes(id[1]) |-> InIndex(ScannedTypes(id[1])[i])])
  IN  IF found = <<>> THEN <<>> ELSE <<Head(found)>>

\* FeatureFinder::find() for a feature, in one of its tiles.
Find ==
  /\ pc = "done" /\ lookup = NoLookup
  /\ \E f \in Features : \E t \in TilesOf(store.pair[f]) :
       lookup' = [asked |-> <<f>>, found |-> ScanFeatures(t, <<FeatureType(f), f.id>>, f.box)]
  /\ UNCHANGED <<store, missing, query, box, walk, results, pc>>

Stop == pc = "done" /\ lookup # NoLookup /\ UNCHANGED vars

Next == RequestTile \/ Find \/ Stop
Spec == Init /\ [][Next]_vars

-----------------------------------------------------------------------------
\* TypeOK: every variable holds a value of its kind.
TypeOK ==
  /\ store.tiles \in Trees /\ missing \subseteq store.tiles /\ query \in Requests /\ IsSimple(box)
  /\ level \in 1 .. Len(Zooms) - 1 /\ DOMAIN levels = 1 .. Len(Zooms) - 1
  /\ tile \in store.tiles /\ accepted \subseteq store.tiles
  /\ northwest \subseteq {"N", "W"} /\ turbo \subseteq DOMAIN query.filter
  /\ \A i \in DOMAIN results : results[i] \in Features
  /\ pc \in {"walking", "done"}

Matches(f) ==
  /\ f.kind \in query.types /\ f.key \in query.keys /\ Intersects(f.box, box)
  /\ \A i \in DOMAIN query.filter : Exact(query.filter[i], f)

\* All the tiles of a feature, and the tiles above them, are loaded.
Loaded(f) == \A t \in TilesOf(store.pair[f]) :
               ~\E m \in missing : m.zoom <= t.zoom /\ ZoomedOut(t, m.zoom) = m

Times(f) == Cardinality({i \in DOMAIN results : results[i] = f})

\* FoundOnce: a query returns each feature that matches once, though a
\* feature may be in two tiles, and no other; a feature may be left out only
\* where a tile is missing.  (searchLeaf, northwestFlags_, turboFlags_.)
FoundOnce ==
  \A f \in Features :
    /\ Times(f) <= 1
    /\ Times(f) = 1 => Matches(f)
    /\ pc = "done" /\ Matches(f) /\ Loaded(f) => Times(f) = 1

\* TipIsOfTile: the position the walk computes by counting mask bits and
\* following pointers is that of the tile it computes from columns and rows;
\* on a walk over the world this is what ReverseTileIndex records.
TipIsOfTile == tip = store.index.tip[tile]

\* Finder: a FeatureFinder finds a feature in each tile that holds it,
\* and not another feature with the same number.
Finder == lookup.found = lookup.asked

\* BoxesCover: the bounds of a query, buffered, cover the units of the world
\* within that distance; shrunk, those that far inside; and what a box
\* contains are its units (Box.h).  Past the eastern and western edges the
\* code has a TODO.
BoxesCover == pc = "done" /\ lookup = NoLookup =>
  /\ \A d \in -3 .. 3 : \E b \in {Buffer(box, d)} :
       box.minX - d \in Coords /\ box.maxX + d \in Coords /\ box.minX - d <= box.maxX + d =>
         IF d >= 0 THEN /\ b.minX .. b.maxX = {x \in Coords : \E e \in box.minX .. box.maxX : x - e \in -d .. d}
                        /\ b.minY .. b.maxY = {y \in Coords : \E e \in box.minY .. box.maxY : y - e \in -d .. d}
         ELSE CellsOf(b) = {c \in CellsOf(box) : \A n \in d .. -d : <<c[1] + n, c[2]>> \in CellsOf(box)
                                                                    /\ <<c[1], c[2] + n>> \in CellsOf(box)}
  /\ \E b \in {Box(Center(box)[1], Center(box)[2], Center(box)[1], Center(box)[2])} :
       /\ BoxContainsBox(box, b) /\ ~BoxContainsBox(EmptyBox, b) /\ ~BoxContainsBox(box, EmptyBox)
       /\ \A d \in 0 .. 3 : UnitsAround(d, b.minX, b.minY) = Buffer(b, d)
  /\ ExpandToInclude(ExpandToInclude(EmptyBox, box.minX, box.maxY), box.maxX, box.minY) = box
  /\ \A t \in store.tiles : BoxContainsBox(box, Bounds(t)) = (CellsOf(Bounds(t)) \subseteq CellsOf(box))

\* TwinsAgree: the walk's tile is the twin of its twins, and the pair that
\* covers both says the same of each ("assert(twin.isTwinOf(*this) ==
\* twinCode)", Tile.h, 255; TilePair.h, 248 and 265).
TwinsAgree == \A d \in Directions : \E twin \in {Twin(tile, d)}, pair \in {Covering(tile, d)} :
  twin.col \in 0 .. 2^tile.zoom - 1 /\ twin.row \in 0 .. 2^tile.zoom - 1 =>
    /\ IsTwinOf(twin, tile) = d /\ PairTwin(pair, tile) = d
    /\ TilesOf(pair) = {tile, twin} /\ pair = PairPlus(Pair(tile, 0, 0), twin)
    /\ Covering(twin, PairTwin(pair, twin)) = pair
    /\ \A t \in TilesOf(pair) : IsTwinOf(t, tile) # "invalid" /\ PairTwin(pair, t) # "invalid"
=============================================================================
