--------------------------- MODULE SpatialFilters ---------------------------
(* The filters that compare features with a prepared geometry (Prepared-    *)
(* SpatialFilter and its subclasses).  PreparedFilterFactory cuts the lines *)
(* of the geometry into monotone chains, MCIndexBuilder puts them into an   *)
(* R-tree built by HilbertTreeBuilder, and MCIndex answers the questions of *)
(* the filters with it.                                                      *)
(*                                                                           *)
(* A step cuts off one chain, builds one level of the tree, or answers one   *)
(* question.  The order of the items along the Hilbert curve is any.         *)
EXTENDS PlaneGeometry

CONSTANTS
  Geometries,        \* [area, lines]: sequences of points; rings if it is an area
  Candidates,        \* the features: [area, coords], ways
  Boxes, Points,     \* what else is asked for
  Distances,         \* by number of an item: its place along the curve
  MaxVertexCount,    \* of a chain of the index
  MaxCandidateLength,\* of a chain of a candidate
  MaxItemsPerNode,
  EastEnd            \* the easternmost x

VARIABLES
  geometry,
  rest,              \* the lines that are not cut yet
  chains,            \* those made, the newest first
  distance,
  tree,              \* nodes: [bounds, child, leaf, last], or Nothing yet
  childStart, childEnd, \* the level that was built last: childEnd is the place after it
  asked, answer
vars == <<geometry, rest, chains, distance, tree, childStart, childEnd, asked, answer>>

NoNode == [bounds |-> [minX |-> 0, minY |-> 0, maxX |-> 0, maxY |-> 0], child |-> 0, leaf |-> FALSE, last |-> FALSE]
NoQuestion == [kind |-> "none"]

-----------------------------------------------------------------------------
(* MCIndexBuilder::segmentize...() *)
Slice ==
  /\ rest # <<>>
  /\ \E n \in {SliceLength(Head(rest), MaxVertexCount)} :
        /\ chains' = <<SubSeq(Head(rest), 1, n)>> \o chains
        /\ rest' = IF n = Len(Head(rest)) THEN Tail(rest)
                   ELSE <<AfterSlice(Head(rest), n)>> \o Tail(rest)
  /\ UNCHANGED <<geometry, distance, tree, childStart, childEnd, asked, answer>>

(* HilbertTreeBuilder::buildNodes(): the levels lie one before the other.    *)
Parents(n) == (n + MaxItemsPerNode - 1) \div MaxItemsPerNode
RECURSIVE CountAbove(_)
CountAbove(n) == IF Parents(n) = 1 THEN 1 ELSE Parents(n) + CountAbove(Parents(n))

ItemAt(k) == CHOOSE i \in DOMAIN chains : Cardinality({j \in DOMAIN chains : distance[j] <= distance[i]}) = k
PlaceItems ==
  /\ rest = <<>> /\ tree = <<>>
  /\ LET above == CountAbove(Len(chains))
     IN  /\ tree' = [p \in 1 .. above + Len(chains) |->
              IF p <= above THEN NoNode
              ELSE [NoNode EXCEPT !.child = ItemAt(p - above), !.bounds = ChainBounds(chains[ItemAt(p - above)])]]
         /\ childStart' = above + 1 /\ childEnd' = above + Len(chains) + 1
  /\ chains' = [i \in DOMAIN chains |-> Normalized(chains[i])]
  /\ UNCHANGED <<geometry, rest, distance, asked, answer>>

\* The children of the k-th parent.
Group(k) == childStart + (k - 1) * MaxItemsPerNode .. Smaller(childStart + k * MaxItemsPerNode, childEnd) - 1
\* Wrong: the box of the first child.
GroupBoundsFirst(group) == tree[Min(group)].bounds
GroupBounds(group) ==
  [minX |-> Min({tree[p].bounds.minX : p \in group}), minY |-> Min({tree[p].bounds.minY : p \in group}),
   maxX |-> Max({tree[p].bounds.maxX : p \in group}), maxY |-> Max({tree[p].bounds.maxY : p \in group})]
BuildLevel ==
  /\ tree # <<>> /\ childStart > 1
  /\ \E count \in {Parents(childEnd - childStart)} : \E start \in {childStart - count} :
        /\ tree' = [p \in DOMAIN tree |->
             IF p \in start .. childStart - 1
             THEN [bounds |-> GroupBounds(Group(p - start + 1)), child |-> Min(Group(p - start + 1)),
                   leaf |-> childEnd = Len(tree) + 1, last |-> p = 1]
             ELSE IF \E k \in 1 .. count : p = Max(Group(k)) THEN [tree[p] EXCEPT !.last = TRUE]
             ELSE tree[p]]
        /\ childStart' = start /\ childEnd' = childStart
  /\ UNCHANGED <<geometry, rest, chains, distance, asked, answer>>

Ready == tree # <<>> /\ childStart = 1

-----------------------------------------------------------------------------
(* RTree::search(): the items whose box meets the box, found below those    *)
(* nodes whose boxes meet it.                                                *)
Siblings(p) == p .. Min({q \in p .. Len(tree) : tree[q].last})
Met(p, box) == {q \in Siblings(p) : BoxesIntersect(tree[q].bounds, box)}
RECURSIVE Trunk(_, _)
Trunk(p, box) ==
  UNION {IF tree[q].leaf THEN {tree[r].child : r \in Met(tree[q].child, box)} ELSE Trunk(tree[q].child, box) : q \in Met(p, box)}
Search(box) == Trunk(1, box)

(* MCIndex *)
RayFrom(c) == [minX |-> X(c), minY |-> Y(c), maxX |-> EastEnd, maxY |-> Y(c)]
Bounds(i) == ChainBounds(chains[i])
CrossProduct(start, end, c) == (Y(c) - Y(start)) * (X(end) - X(start)) - (X(c) - X(start)) * (Y(end) - Y(start))
ProductAt(i, c) == LET s == FindSegmentForY(chains[i], Y(c)) IN CrossProduct(chains[i][s], chains[i][s + 1], c)

AtTop(i, c) == Y(c) = Bounds(i).maxY
OnChain(i, c) ==
  IF AtTop(i, c)
  THEN \/ Y(c) = Bounds(i).minY /\ X(c) >= Bounds(i).minX
       \/ X(c) = X(Highest(chains[i]))
  ELSE X(c) >= Bounds(i).minX /\ ProductAt(i, c) = 0
CountsCrossing(i, c) == ~AtTop(i, c) /\ (X(c) < Bounds(i).minX \/ ProductAt(i, c) > 0)
LocateAmong(found, c) ==
  IF \E i \in found : OnChain(i, c) THEN 0
  ELSE IF Cardinality({i \in found : CountsCrossing(i, c)}) % 2 = 1 THEN 1 ELSE -1
LocatePoint(c) == LocateAmong(Search(RayFrom(c)), c)
ContainsPoint(c) == LocatePoint(c) >= 0
PointOnBoundary(c) == LocateAmong(Search(BoxOf(c, c)), c) = 0

\* intersectsBoxBoundary(): a chain that overhangs on no side, or only on
\* opposite ones, meets it or lies within.
Sides(box) == [left   |-> <<<<box.minX, box.minY>>, <<box.minX, box.maxY>>>>,
               right  |-> <<<<box.maxX, box.minY>>, <<box.maxX, box.maxY>>>>,
               bottom |-> <<<<box.minX, box.minY>>, <<box.maxX, box.minY>>>>,
               top    |-> <<<<box.minX, box.maxY>>, <<box.maxX, box.maxY>>>>]
Overhangs(b, box) == {side \in {"left", "right", "bottom", "top"} :
  CASE side = "left"   -> b.minX < box.minX
    [] side = "right"  -> b.maxX > box.maxX
    [] side = "bottom" -> b.minY < box.minY
    [] side = "top"    -> b.maxY > box.maxY}
MeetsBox(i, box) ==
  LET over == Overhangs(Bounds(i), box)
  IN  \/ over \intersect {"left", "right"} = {} \/ over \intersect {"bottom", "top"} = {}
      \/ \E side \in over : ChainsIntersect(Sides(box)[side], chains[i])
IntersectsBoxBoundary(box) == \E i \in Search(box) : MeetsBox(i, box)
LocateBox(box) ==
  IF IntersectsBoxBoundary(box) THEN 0
  ELSE IF LocatePoint(<<box.minX, box.minY>>) >= 0 THEN 1
  ELSE IF \E i \in Search(box) : BoxContains(box, Bounds(i)) THEN 0 ELSE -1
MaybeLocateBox(box) == IF Search(box) # {} THEN 0 ELSE LocatePoint(<<box.minX, box.minY>>)

-----------------------------------------------------------------------------
(* The filters. *)
WayBounds(coords) == [minX |-> Min(Columns(coords)), maxX |-> Max(Columns(coords)),
                      minY |-> Min(Rows(coords)),    maxY |-> Max(Rows(coords))]
RECURSIVE Slices(_)
Slices(s) == IF Len(s) < 2 THEN {}
             ELSE LET n == SliceLength(s, MaxCandidateLength)
                  IN  {Normalized(SubSeq(s, 1, n))} \union Slices(AfterSlice(s, n))
AnySegmentsCross(coords) ==
  \E chain \in Slices(coords) : \E i \in Search(ChainBounds(chain)) : ChainsIntersect(chain, chains[i])

\* A chain, with its first point, within an area way that no chain crosses.
ChainContained(coords) ==
  \E i \in Search(WayBounds(coords)) :
     /\ BoxContains(WayBounds(coords), Bounds(i))
     /\ ClassifyBoundaryChain(coords, Lowest(chains[i])) # "outside"

IntersectsWay(way) ==
  LET loc == MaybeLocateBox(WayBounds(way.coords))
  IN  IF geometry.area
      THEN \/ loc > 0
           \/ loc = 0 /\ \/ ContainsPoint(way.coords[1]) \/ AnySegmentsCross(way.coords)
                         \/ way.area /\ ChainContained(way.coords)
      ELSE AnySegmentsCross(way.coords) \/ (way.area /\ ChainContained(way.coords))
CrossesWay(way) == IntersectsBoxBoundary(WayBounds(way.coords)) /\ AnySegmentsCross(way.coords)
\* An area all of whose nodes are on the boundary is judged by its centroid,
\* which is not modelled: the answer is "centroid".
WithinWay(way) ==
  LET loc == MaybeLocateBox(WayBounds(way.coords))
      at  == {LocatePoint(way.coords[k]) : k \in DOMAIN way.coords}
  IN  IF loc # 0 THEN (IF loc > 0 THEN "yes" ELSE "no")
      ELSE IF -1 \in at THEN "no" ELSE IF 1 \in at THEN "yes"
      ELSE IF way.area THEN "centroid" ELSE "no"

Answer(q) ==
  CASE q.kind = "point"      -> LocatePoint(q.of)
    [] q.kind = "boundary"   -> PointOnBoundary(q.of)
    [] q.kind = "box"        -> LocateBox(q.of)
    [] q.kind = "search"     -> Search(q.of)
    [] q.kind = "intersects" -> IntersectsWay(q.of)
    [] q.kind = "crosses"    -> CrossesWay(q.of)
    [] q.kind = "within"     -> WithinWay(q.of)
\* The factory of WithinPolygonFilter has no filter for lines.
Kinds == {"search", "boundary", "intersects", "crosses"} \union IF geometry.area THEN {"point", "box", "within"} ELSE {}
Asked(kind) == CASE kind \in {"point", "boundary"} -> Points
                 [] kind \in {"box", "search"}     -> Boxes
                 [] OTHER                          -> Candidates
Ask ==
  /\ Ready /\ asked = NoQuestion
  /\ \E kind \in Kinds : \E of \in Asked(kind) :
       \E q \in {[kind |-> kind, of |-> of]} : asked' = q /\ answer' = Answer(q)
  /\ UNCHANGED <<geometry, rest, chains, distance, tree, childStart, childEnd>>

Init ==
  /\ geometry \in Geometries /\ distance \in Distances
  /\ rest = geometry.lines /\ chains = <<>> /\ tree = <<>> /\ childStart = 0 /\ childEnd = 0
  /\ asked = NoQuestion /\ answer = 0
Next == Slice \/ PlaceItems \/ BuildLevel \/ Ask
Spec == Init /\ [][Next]_vars

-----------------------------------------------------------------------------
(* The references: segments by their straddling, points by a northward ray. *)
Cross(a, b, c) == (X(b) - X(a)) * (Y(c) - Y(a)) - (Y(b) - Y(a)) * (X(c) - X(a))
SegmentsMeet(a, b, c, d) ==
  /\ BoxesIntersect(BoxOf(a, b), BoxOf(c, d))
  /\ Sign(Cross(a, b, c)) * Sign(Cross(a, b, d)) <= 0
  /\ Sign(Cross(c, d, a)) * Sign(Cross(c, d, b)) <= 0
AllEdges(lines) == UNION {Edges(lines[i]) : i \in DOMAIN lines}
MeetsLines(coords) == \E e \in Edges(coords), f \in AllEdges(geometry.lines) : SegmentsMeet(e[1], e[2], f[1], f[2])
PassesAbove(a, b, p) ==
  LET w == IF X(a) < X(b) THEN a ELSE b
      e == IF X(a) < X(b) THEN b ELSE a
  IN  X(w) <= X(p) /\ X(p) < X(e) /\ Cross(w, e, p) < 0
Place(lines, p) ==
  IF \E e \in AllEdges(lines) : SegmentsMeet(e[1], e[2], p, p) THEN 0
  ELSE IF Cardinality({e \in AllEdges(lines) : PassesAbove(e[1], e[2], p)}) % 2 = 1 THEN 1 ELSE -1
Outline(b) == <<<<b.minX, b.minY>>, <<b.maxX, b.minY>>, <<b.maxX, b.maxY>>, <<b.minX, b.maxY>>, <<b.minX, b.minY>>>>
WithinBox(b, p) == X(p) \in b.minX .. b.maxX /\ Y(p) \in b.minY .. b.maxY

\* The tree finds exactly the chains whose boxes meet the box asked for, and
\* the index tells where a point or a box lies, also where the ray meets a
\* vertex, runs along an edge, or a chain was cut for its length.
LocatedExactly ==
  /\ asked.kind = "search" => answer = {i \in DOMAIN chains : BoxesIntersect(Bounds(i), asked.of)}
  /\ asked.kind = "point" => answer = Place(geometry.lines, asked.of)
  /\ asked.kind = "boundary" => (answer <=> \E e \in AllEdges(geometry.lines) : SegmentsMeet(e[1], e[2], asked.of, asked.of))
  /\ asked.kind = "box" =>
       answer = IF MeetsLines(Outline(asked.of)) \/ \E e \in AllEdges(geometry.lines) : WithinBox(asked.of, e[1])
                THEN 0 ELSE Place(geometry.lines, <<asked.of.minX, asked.of.minY>>)

\* A filter accepts exactly the ways it is named for: those that have a point
\* in common with the geometry, those whose line meets its lines, those with
\* no node outside it and one inside.
FilteredExactly ==
  LET way == asked.of
      some == way.coords[1]
      own(p) == Place(<<way.coords>>, p)
      nodes == {Place(geometry.lines, way.coords[k]) : k \in DOMAIN way.coords}
  IN  /\ asked.kind = "intersects" =>
           (answer <=> \/ MeetsLines(way.coords)
                       \/ geometry.area /\ Place(geometry.lines, some) >= 0
                       \/ way.area /\ \E e \in AllEdges(geometry.lines) : own(e[1]) >= 0)
      /\ asked.kind = "crosses" => (answer <=> MeetsLines(way.coords))
      /\ asked.kind = "within" =>
           answer = IF -1 \in nodes THEN "no" ELSE IF 1 \in nodes THEN "yes" ELSE IF way.area THEN "centroid" ELSE "no"
============================================================================
