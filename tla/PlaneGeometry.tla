--------------------------- MODULE PlaneGeometry ---------------------------
(* The geometry of lines.  RobustPointInPolygon: where a point lies        *)
(* relative to a chain of coordinates, by counting the edges that a ray to *)
(* the east crosses; the results of the ways that make up the outline of a *)
(* polygon are combined, way by way.  MCSlicer, WaySlicer,                 *)
(* CoordSequenceSlicer and MonotoneChain: lines cut into chains that run   *)
(* within one quadrant, and the tests of LineSegment.  Points are pairs of *)
(* integers.                                                               *)
EXTENDS Integers, Sequences, FiniteSets, FiniteSetsExt, SequencesExt

X(p) == p[1]
Y(p) == p[2]
Lower(a, b) == IF Y(a) < Y(b) THEN a ELSE b
Upper(a, b) == IF Y(a) < Y(b) THEN b ELSE a
Smaller(i, j) == IF i < j THEN i ELSE j
Larger(i, j)  == IF i < j THEN j ELSE i

Edges(way) == {<<way[i], way[i + 1]>> : i \in 1 .. Len(way) - 1}

InRows(a, b, pt) == Y(pt) \in Y(Lower(a, b)) .. Y(Upper(a, b))
\* Wrong: an edge that ends at the height of the ray counts, and the next one too.
CrossesYClosed(a, b, pt) == Y(a) # Y(b)
CrossesY(a, b, pt) == Y(pt) < Y(Upper(a, b))

\* The two products that the code compares, each of differences that are not
\* negative; the point must lie between the edge's ends in both directions.
Left(a, b, pt) ==
  LET l == Lower(a, b)
      u == Upper(a, b)
  IN  Larger(X(u) - X(l), X(l) - X(u)) * (Y(pt) - Y(l))
Right(a, b, pt) ==
  LET l == Lower(a, b)
      u == Upper(a, b)
  IN  (Y(u) - Y(l)) * (IF X(l) <= X(u) THEN X(pt) - X(l) ELSE X(l) - X(pt))
RisesEast(a, b) == X(Lower(a, b)) <= X(Upper(a, b))

InColumns(a, b, pt) == X(pt) \in Smaller(X(a), X(b)) .. Larger(X(a), X(b))
OnEdge(a, b, pt) == InRows(a, b, pt) /\ InColumns(a, b, pt) /\ Left(a, b, pt) = Right(a, b, pt)
Crosses(a, b, pt) ==
  /\ InRows(a, b, pt) /\ CrossesY(a, b, pt)
  /\ \/ X(pt) < Smaller(X(a), X(b))
     \/ /\ InColumns(a, b, pt)
        /\ IF RisesEast(a, b) THEN Left(a, b, pt) > Right(a, b, pt) ELSE Right(a, b, pt) > Left(a, b, pt)

ClassifyBoundaryChain(way, pt) ==
  IF \E e \in Edges(way) : OnEdge(e[1], e[2], pt) THEN "boundary"
  ELSE IF Cardinality({i \in 1 .. Len(way) - 1 : Crosses(way[i], way[i + 1], pt)}) % 2 = 1 THEN "inside"
  ELSE "outside"

Rows(way) == {Y(way[i]) : i \in DOMAIN way}
Columns(way) == {X(way[i]) : i \in DOMAIN way}
MustClassify(way, pt) == Y(pt) \in Min(Rows(way)) .. Max(Rows(way))

CombineResult(inside) == IF Cardinality(inside) % 2 = 1 THEN "inside" ELSE "outside"

\* The ways of an outline, a sequence of chains.
Locate(ways, pt) ==
  LET asked    == {i \in DOMAIN ways : MustClassify(ways[i], pt)}
      results  == [i \in asked |-> ClassifyBoundaryChain(ways[i], pt)]
  IN  IF \E i \in asked : results[i] = "boundary" THEN "boundary"
      ELSE CombineResult({i \in asked : results[i] = "inside"})

\* The same for the members of a relation, of which some may be in tiles that
\* are missing: then no point is inside.
\* Wrong: the members that are there are taken for all of them.
LocateAnyway(present, all, pt) == Locate(SelectSeq(all, LAMBDA w : w \in present), pt)
LocateMembers(present, all, pt) ==
  LET place == Locate(SelectSeq(all, LAMBDA w : w \in present), pt)
  IN  IF place = "inside" /\ ~(ToSet(all) \subseteq present) THEN "outside" ELSE place

-----------------------------------------------------------------------------
(* Monotone chains *)

\* NE and NW, SW and SE, as the differences have it; equal counts as rising.
Quadrant(a, b) == <<X(b) < X(a), Y(b) < Y(a)>>
Level(a, b) == Y(a) = Y(b)

GoesOn(s, i) == ~Level(s[i], s[i + 1]) /\ Quadrant(s[i], s[i + 1]) = Quadrant(s[1], s[2])

\* How many coordinates the next chain has, at most max: a horizontal segment
\* is a chain of its own; another ends where the direction changes.
SliceLength(s, max) ==
  IF Level(s[1], s[2]) THEN 2
  ELSE Max({n \in 2 .. Smaller(Len(s), max) : \A i \in 2 .. n - 1 : GoesOn(s, i)})

\* What a slicer has left after a chain of n: its last point starts the next.
AfterSlice(s, n) == SubSeq(s, n, Len(s))

Normalized(chain) == IF Y(chain[2]) < Y(chain[1]) THEN Reverse(chain) ELSE chain
Lowest(chain) == chain[1]
Highest(chain) == chain[Len(chain)]

BoxOf(a, b) == [minX |-> Smaller(X(a), X(b)), minY |-> Smaller(Y(a), Y(b)),
                maxX |-> Larger(X(a), X(b)),  maxY |-> Larger(Y(a), Y(b))]
ChainBounds(chain) == BoxOf(Lowest(chain), Highest(chain))
BoxesIntersect(a, b) == /\ a.minX <= b.maxX /\ a.minY <= b.maxY
                        /\ a.maxX >= b.minX /\ a.maxY >= b.minY
BoxContains(a, b) == /\ b.minX >= a.minX /\ b.maxX <= a.maxX
                     /\ b.minY >= a.minY /\ b.maxY <= a.maxY
Expanded(a, b) == [minX |-> Smaller(a.minX, b.minX), minY |-> Smaller(a.minY, b.minY),
                   maxX |-> Larger(a.maxX, b.maxX),  maxY |-> Larger(a.maxY, b.maxY)]

\* The number of the segment: that of its start.
\* Wrong: the segment whose start is at or above y.
FindSegmentForYAfter(chain, y) == Min({i \in 1 .. Len(chain) - 1 : Y(chain[i]) >= y} \union {Len(chain) - 1})
FindSegmentForY(chain, y) == Min({i \in 2 .. Len(chain) : Y(chain[i]) >= y}) - 1

\* -1, 0 (on the segment, not just in line with it) or 1.
Sign(n) == IF n < 0 THEN -1 ELSE IF n > 0 THEN 1 ELSE 0
Ccw(a, b, p) == (X(p) - X(a)) * (Y(b) - Y(a)) - (Y(p) - Y(a)) * (X(b) - X(a))
Along(a, b, p) == (X(p) - X(a)) * (X(b) - X(a)) + (Y(p) - Y(a)) * (Y(b) - Y(a))
Beyond(a, b, p) == (X(p) - X(b)) * (X(b) - X(a)) + (Y(p) - Y(b)) * (Y(b) - Y(a))
Orientation(a, b, p) ==
  IF Ccw(a, b, p) # 0 THEN Sign(Ccw(a, b, p))
  ELSE IF Along(a, b, p) <= 0 THEN Sign(Along(a, b, p))
  ELSE IF Beyond(a, b, p) < 0 THEN 0 ELSE Sign(Beyond(a, b, p))
LinesIntersect(a, b, c, d) ==
  /\ Orientation(a, b, c) * Orientation(a, b, d) <= 0
  /\ Orientation(c, d, a) * Orientation(c, d, b) <= 0

\* Both chains rise; the segments are compared in the order of their ends.
StepFirst(p, q) == Y(p) < Y(q)
Sweep(high, low) ==
  LET n == Len(high) - 1
      k == Len(low) - 1
      meets[i \in 1 .. n, j \in 1 .. k] ==
        \/ LinesIntersect(high[i], high[i + 1], low[j], low[j + 1])
        \/ IF StepFirst(high[i + 1], low[j + 1]) THEN i < n /\ meets[i + 1, j] ELSE j < k /\ meets[i, j + 1]
  IN  meets[1, FindSegmentForY(low, Y(high[1]))]
ChainsIntersect(a, b) == IF Y(Lowest(b)) > Y(Lowest(a)) THEN Sweep(b, a) ELSE Sweep(a, b)
=============================================================================
