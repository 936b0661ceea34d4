------------------------------ MODULE Polygons ------------------------------
(* The assembly of the polygons of an area relation (Polygonizer): the     *)
(* member ways with the roles outer and inner are joined into rings         *)
(* (RingBuilder), each inner ring is given to an outer one (RingAssigner), *)
(* and the inner rings of an outer one that share edges are taken apart and *)
(* joined anew without these edges (RingMerger).                            *)
(*                                                                          *)
(* A step is one turn of a loop of RingBuilder::build(), one inner ring     *)
(* assigned, or one outer ring's holes examined.  Segments are numbered:    *)
(* those of the member ways as the members are, then the fragments.         *)
EXTENDS PlaneGeometry

CONSTANTS
  Relations    \* sequences of member ways: [role, coords]

VARIABLES
  ways,        \* the member ways
  segments,    \* by number: [coords, status, backward, next]
  phase,       \* "outer", "inner", "assign", "merge", "rebuild", "done"
  order,       \* the segments to join, RingBuilder's array
  place,       \* how many of them build() has looked at
  seg,         \* the head of the chain it is extending, or 0
  rings,       \* the list that is being made: [first, vertexCount], the newest first
  outerRings,  \* as rings; from "assign" on, in RingAssigner's order if it is used
  innerRings,  \* those not assigned yet
  holes,       \* by place in outerRings: its inner rings
  turn         \* the outer ring whose holes are examined
vars == <<ways, segments, phase, order, place, seg, rings, outerRings, innerRings, holes, turn>>

First(s) == segments[s].coords[1]
End(s)   == segments[s].coords[Len(segments[s].coords)]
IsClosed(coords) == coords[1] = coords[Len(coords)]
NewSegment(coords) == [coords |-> coords, status |-> "unassigned", backward |-> FALSE, next |-> 0]

RECURSIVE Chain(_)
Chain(s) == IF s = 0 THEN <<>> ELSE <<s>> \o Chain(segments[s].next)

-----------------------------------------------------------------------------
(* RingBuilder. *)

\* The table: the places in the array of the segments that begin or end there,
\* of which the later ones come first.
Joinable(c) == {i \in DOMAIN order : c \in {First(order[i]), End(order[i])}}
Start(s) == IF segments[s].backward THEN End(s) ELSE First(s)
FindNeighbor(current) ==
  LET fit == {i \in Joinable(Start(current)) : /\ segments[order[i]].status \in {"unassigned", "tentative"}
                                                  /\ order[i] # current}
  IN  IF fit = {} THEN 0 ELSE order[Max(fit)]
\* Wrong: a candidate is taken the way it was drawn.
TurnedNever(candidate, current) == FALSE
Turned(candidate, current) == First(candidate) = Start(current)

Counted(chain) == MapThenSumSet(LAMBDA s : Len(segments[s].coords) - 1, ToSet(chain)) + 1

Building == phase \in {"outer", "inner", "rebuild"}
Skip ==
  /\ Building /\ seg = 0 /\ place < Len(order)
  /\ segments[order[place + 1]].status # "unassigned"
  /\ place' = place + 1
  /\ UNCHANGED <<ways, segments, phase, order, seg, rings, outerRings, innerRings, holes, turn>>

Begin(s) ==
  /\ Building /\ seg = 0 /\ place < Len(order) /\ s = order[place + 1]
  /\ segments[s].status = "unassigned"
  /\ place' = place + 1
  /\ IF IsClosed(segments[s].coords)
     THEN /\ segments' = [segments EXCEPT ![s] = [@ EXCEPT !.status = "assigned", !.backward = FALSE, !.next = 0]]
          /\ rings' = <<[first |-> s, vertexCount |-> Len(segments[s].coords)]>> \o rings
          /\ seg' = 0
     ELSE /\ segments' = [segments EXCEPT ![s] = [@ EXCEPT !.status = "tentative", !.backward = FALSE, !.next = 0]]
          /\ seg' = s
          /\ UNCHANGED rings
  /\ UNCHANGED <<ways, phase, order, outerRings, innerRings, holes, turn>>

Dangle ==
  /\ Building /\ seg # 0 /\ FindNeighbor(seg) = 0
  /\ segments' = [segments EXCEPT ![seg].status = "dangling"]
  /\ seg' = segments[seg].next
  /\ UNCHANGED <<ways, phase, order, place, rings, outerRings, innerRings, holes, turn>>

Extend(candidate) ==
  /\ Building /\ seg # 0 /\ candidate = FindNeighbor(seg) /\ candidate # 0
  /\ segments[candidate].status = "unassigned" /\ ~IsClosed(segments[candidate].coords)
  /\ segments' = [segments EXCEPT ![candidate] =
                    [@ EXCEPT !.status = "tentative", !.backward = Turned(candidate, seg), !.next = seg]]
  /\ seg' = candidate
  /\ UNCHANGED <<ways, phase, order, place, rings, outerRings, innerRings, holes, turn>>

TakeClosed(candidate) ==
  /\ Building /\ seg # 0 /\ candidate = FindNeighbor(seg) /\ candidate # 0
  /\ segments[candidate].status = "unassigned" /\ IsClosed(segments[candidate].coords)
  /\ segments' = [segments EXCEPT ![candidate] =
                    [@ EXCEPT !.status = "assigned", !.backward = Turned(candidate, seg), !.next = 0]]
  /\ rings' = <<[first |-> candidate, vertexCount |-> Len(segments[candidate].coords)]>> \o rings
  /\ UNCHANGED <<ways, phase, order, place, seg, outerRings, innerRings, holes, turn>>

\* The chain up to the candidate is a ring; what follows it is tried again.
UpTo(chain, candidate) == SubSeq(chain, 1, CHOOSE i \in DOMAIN chain : chain[i] = candidate)
Close(candidate) ==
  /\ Building /\ seg # 0 /\ candidate = FindNeighbor(seg) /\ candidate # 0
  /\ segments[candidate].status = "tentative"
  /\ \E chain \in {UpTo(Chain(seg), candidate)} :
        /\ segments' = [s \in DOMAIN segments |->
             IF s = candidate THEN [segments[s] EXCEPT !.status = "assigned", !.backward = Turned(candidate, seg), !.next = 0]
             ELSE IF s \in ToSet(chain) THEN [segments[s] EXCEPT !.status = "assigned"]
             ELSE segments[s]]
        /\ rings' = <<[first |-> seg, vertexCount |-> Counted(chain)]>> \o rings
  /\ seg' = segments[candidate].next
  /\ UNCHANGED <<ways, phase, order, place, outerRings, innerRings, holes, turn>>

-----------------------------------------------------------------------------
(* RingAssigner. *)

Outline(r) == [i \in DOMAIN Chain(r.first) |-> segments[Chain(r.first)[i]].coords]
BoundsOf(r) ==
  LET xs == UNION {Columns(Outline(r)[i]) : i \in DOMAIN Outline(r)}
      ys == UNION {Rows(Outline(r)[i]) : i \in DOMAIN Outline(r)}
  IN  [minX |-> Min(xs), maxX |-> Max(xs), minY |-> Min(ys), maxY |-> Max(ys)]
ContainsBounds(a, b) == /\ a.minX <= b.minX /\ b.maxX <= a.maxX
                        /\ a.minY <= b.minY /\ b.maxY <= a.maxY

\* Wrong: a first point on the boundary settles it.
EnclosesFirst(outer, inner) == Locate(Outline(outer), segments[inner.first].coords[1]) # "outside"
Encloses(outer, inner) ==
  LET at(i) == Locate(Outline(outer), segments[inner.first].coords[i])
  IN  (IF at(1) = "boundary" THEN at(2) ELSE at(1)) = "inside"

\* The ring with the most vertices, the first of them, changes places with the first ring.
Biggest(list) == Min({i \in DOMAIN list : \A j \in DOMAIN list : list[j].vertexCount <= list[i].vertexCount})
BiggestFirst(list) == [i \in DOMAIN list |-> IF i = 1 THEN list[Biggest(list)]
                                             ELSE IF i = Biggest(list) THEN list[1] ELSE list[i]]
OuterOf(inner) ==
  LET hits == {i \in 2 .. Len(outerRings) : /\ ContainsBounds(BoundsOf(outerRings[i]), BoundsOf(inner))
                                            /\ Encloses(outerRings[i], inner)}
  IN  IF hits = {} THEN 1 ELSE Max(hits)

AssignRing ==
  /\ phase = "assign" /\ Len(outerRings) > 1 /\ innerRings # <<>>
  /\ \E o \in {OuterOf(Head(innerRings))} : holes' = [holes EXCEPT ![o] = <<Head(innerRings)>> \o @]
  /\ innerRings' = Tail(innerRings)
  /\ UNCHANGED <<ways, segments, phase, order, place, seg, rings, outerRings, turn>>

-----------------------------------------------------------------------------
(* RingMerger. *)

Overlap(a, b) == /\ a.minX <= b.maxX /\ b.minX <= a.maxX
                 /\ a.minY <= b.maxY /\ b.minY <= a.maxY
MergeCandidates(list) ==
  {r \in ToSet(list) : \E q \in ToSet(list) \ {r} : Overlap(BoundsOf(r), BoundsOf(q))}

\* Wrong: an edge is another one when it is drawn the other way.
EdgeDirected(a, b) == <<a, b>>
Edge(a, b) == {a, b}
EdgeAt(s, i) == Edge(segments[s].coords[i], segments[s].coords[i + 1])
EdgePlaces(rs) == UNION {{s} \X (1 .. Len(segments[s].coords) - 1) : s \in UNION {ToSet(Chain(r.first)) : r \in rs}}
DuplicatedAmong(places) == {EdgeAt(p[1], p[2]) : p \in {q \in places : \E o \in places \ {q} : EdgeAt(q[1], q[2]) = EdgeAt(o[1], o[2])}}

\* The parts of a segment between duplicated edges; the segment itself if there are none.
Runs(s, dup) ==
  LET n      == Len(segments[s].coords) - 1
      kept   == {i \in 1 .. n : EdgeAt(s, i) \notin dup}
      starts == {i \in kept : i - 1 \notin kept}
      upto(i) == Max({j \in kept : i .. j \subseteq kept})
      sorted == SetToSortSeq(starts, <)
  IN  [k \in DOMAIN sorted |-> <<sorted[k], upto(sorted[k]) + 1>>]
Valid(r, dup) == \A s \in ToSet(Chain(r.first)) : \A i \in 1 .. Len(segments[s].coords) - 1 : EdgeAt(s, i) \notin dup
Pieces(r, dup) ==
  FlattenSeq([k \in DOMAIN Chain(r.first) |->
    LET s == Chain(r.first)[k]
    IN  [j \in DOMAIN Runs(s, dup) |-> [of |-> s, from |-> Runs(s, dup)[j][1], to |-> Runs(s, dup)[j][2]]]])
Whole(piece) == piece.from = 1 /\ piece.to = Len(segments[piece.of].coords)

\* The pieces become segments to be joined anew: a whole one is used again.
Collected(pieces, valid) ==
  LET fragments == SelectSeq(pieces, LAMBDA p : ~Whole(p))
      numbered  == [k \in DOMAIN pieces |->
                      IF Whole(pieces[k]) THEN pieces[k].of
                      ELSE Len(segments) + Cardinality({j \in 1 .. k : ~Whole(pieces[j])})]
  IN  /\ segments' = [s \in DOMAIN segments |->
                        IF s \in ToSet(numbered) THEN NewSegment(segments[s].coords) ELSE segments[s]]
                     \o [k \in DOMAIN fragments |->
                           NewSegment(SubSeq(segments[fragments[k].of].coords, fragments[k].from, fragments[k].to))]
      /\ order' = Reverse(numbered)
      /\ rings' = valid

Untouched(list, dup, candidates) == SelectSeq(list, LAMBDA r : r \notin candidates \/ Valid(r, dup))
MergeRings ==
  /\ phase = "merge" /\ turn <= Len(outerRings) /\ Len(holes[turn]) > 1
  /\ \E candidates \in {MergeCandidates(holes[turn])} :
     \E dup \in {DuplicatedAmong(EdgePlaces(candidates))} :
        Collected(FlattenSeq([i \in DOMAIN holes[turn] |->
                     IF holes[turn][i] \in candidates /\ ~Valid(holes[turn][i], dup) THEN Pieces(holes[turn][i], dup) ELSE <<>>]),
                  Untouched(holes[turn], dup, candidates))
  /\ phase' = "rebuild" /\ place' = 0
  /\ holes' = [holes EXCEPT ![turn] = <<>>]
  /\ UNCHANGED <<ways, seg, outerRings, innerRings, turn>>

LeaveRings ==
  /\ phase = "merge" /\ turn <= Len(outerRings) /\ Len(holes[turn]) <= 1
  /\ turn' = turn + 1
  /\ UNCHANGED <<ways, segments, phase, order, place, seg, rings, outerRings, innerRings, holes>>

-----------------------------------------------------------------------------
(* Polygonizer. *)

\* createSegment() puts each segment in front of those before it.
OfRole(role) == Reverse(SelectSeq([i \in DOMAIN ways |-> i], LAMBDA i : ways[i].role = role))
Built == Building /\ seg = 0 /\ place = Len(order)

OutersBuilt ==
  /\ phase = "outer" /\ Built
  /\ phase' = "inner" /\ order' = OfRole("inner") /\ place' = 0
  /\ outerRings' = rings /\ rings' = <<>>
  /\ UNCHANGED <<ways, segments, seg, innerRings, holes, turn>>

\* assignAndMergeHoles(): a single outer ring gets all inner ones unseen.
InnersBuilt ==
  /\ phase = "inner" /\ Built
  /\ phase' = IF outerRings = <<>> \/ rings = <<>> THEN "done" ELSE "assign"
  /\ outerRings' = IF outerRings # <<>> /\ rings # <<>> /\ Len(outerRings) > 1 THEN BiggestFirst(outerRings) ELSE outerRings
  /\ holes' = IF Len(outerRings) = 1 THEN <<rings>> ELSE [i \in DOMAIN outerRings |-> <<>>]
  /\ innerRings' = IF Len(outerRings) = 1 THEN <<>> ELSE rings
  /\ rings' = <<>>
  /\ UNCHANGED <<ways, segments, order, place, seg, turn>>

Assigned ==
  /\ phase = "assign" /\ innerRings = <<>>
  /\ phase' = "merge"
  /\ UNCHANGED <<ways, segments, order, place, seg, rings, outerRings, innerRings, holes, turn>>

Rebuilt ==
  /\ phase = "rebuild" /\ Built
  /\ phase' = "merge"
  /\ holes' = [holes EXCEPT ![turn] = rings] /\ turn' = turn + 1
  /\ rings' = <<>>
  /\ UNCHANGED <<ways, segments, order, place, seg, outerRings, innerRings>>

Merged ==
  /\ phase = "merge" /\ turn > Len(outerRings)
  /\ phase' = "done"
  /\ UNCHANGED <<ways, segments, order, place, seg, rings, outerRings, innerRings, holes, turn>>

Init ==
  /\ ways \in Relations
  /\ segments = [i \in DOMAIN ways |-> NewSegment(ways[i].coords)]
  /\ phase = "outer" /\ order = OfRole("outer") /\ place = 0 /\ seg = 0
  /\ rings = <<>> /\ outerRings = <<>> /\ innerRings = <<>> /\ holes = <<>> /\ turn = 1

Next ==
  \/ Skip \/ Dangle \/ AssignRing \/ MergeRings \/ LeaveRings
  \/ \E s \in DOMAIN segments : Begin(s) \/ Extend(s) \/ TakeClosed(s) \/ Close(s)
  \/ OutersBuilt \/ InnersBuilt \/ Assigned \/ Rebuilt \/ Merged

Spec == Init /\ [][Next]_vars

-----------------------------------------------------------------------------
Oriented(s) == IF segments[s].backward THEN Reverse(segments[s].coords) ELSE segments[s].coords
\* What is read from a ring: the first coordinate, and each segment without its first.
Coordinates(r) ==
  <<Oriented(r.first)[1]>> \o FlattenSeq([k \in DOMAIN Chain(r.first) |-> Tail(Oriented(Chain(r.first)[k]))])
\* The polygons, none or one or several: an outline and its holes.
Polygonal == [i \in DOMAIN outerRings |->
                <<Coordinates(outerRings[i])>> \o [k \in DOMAIN holes[i] |-> Coordinates(holes[i][k])]]
AllRings == ToSet(rings) \union ToSet(outerRings) \union ToSet(innerRings)
            \union UNION {ToSet(holes[i]) : i \in DOMAIN holes}
Joined(chain) == \A k \in DOMAIN chain :
  Oriented(chain[k])[Len(Oriented(chain[k]))] = Oriented(chain[IF k = Len(chain) THEN 1 ELSE k + 1])[1]

\* Every ring, at any time, is closed, its segments meet end to start, it has
\* as many coordinates as its vertexCount says (Ring asserts it while it is
\* read), and no segment is in two rings.
RingsJoined ==
  /\ \A r \in AllRings : Joined(Chain(r.first)) /\ r.vertexCount = Len(Coordinates(r))
  /\ \A r, q \in AllRings : r # q => ToSet(Chain(r.first)) \intersect ToSet(Chain(q.first)) = {}

EdgesOf(coords) == {{coords[i], coords[i + 1]} : i \in 1 .. Len(coords) - 1}
EdgesOfWays(role) == UNION {EdgesOf(ways[i].coords) : i \in {j \in DOMAIN ways : ways[j].role = role}}
\* Ways in which an end is not shared are parts of broken rings.
Degree(pt, role) == Cardinality({<<i, e>> \in (DOMAIN ways) \X {1, 2} :
  ways[i].role = role /\ pt = ways[i].coords[IF e = 1 THEN 1 ELSE Len(ways[i].coords)]})
Complete(role) == \A i \in DOMAIN ways : ways[i].role = role => Degree(ways[i].coords[1], role) = 2
                                                              /\ Degree(ways[i].coords[Len(ways[i].coords)], role) = 2
TimesDrawn(e, role) == Cardinality({<<i, j>> \in (DOMAIN ways) \X (1 .. 12) :
  /\ ways[i].role = role /\ j < Len(ways[i].coords)
  /\ e = {ways[i].coords[j], ways[i].coords[j + 1]}})

\* Rings that are complete are found, whatever the order and the directions of
\* their ways: the edges of the outer rings are those of the outer ways, and
\* the edges of the holes are those that only one inner way has.
EdgesKept ==
  phase = "done" /\ outerRings # <<>> =>
    /\ Complete("outer") => UNION {EdgesOf(Polygonal[i][1]) : i \in DOMAIN outerRings} = EdgesOfWays("outer")
    /\ Complete("inner") => UNION {UNION {EdgesOf(Polygonal[i][k]) : k \in 2 .. Len(Polygonal[i])} : i \in DOMAIN outerRings}
                            = {e \in EdgesOfWays("inner") : TimesDrawn(e, "inner") = 1}

\* The location by another ray, northward: the reference.
OnSome(coords, p) == \E e \in Edges(coords) :
  /\ (X(e[2]) - X(e[1])) * (Y(p) - Y(e[1])) = (Y(e[2]) - Y(e[1])) * (X(p) - X(e[1]))
  /\ X(p) \in Smaller(X(e[1]), X(e[2])) .. Larger(X(e[1]), X(e[2]))
  /\ Y(p) \in Smaller(Y(e[1]), Y(e[2])) .. Larger(Y(e[1]), Y(e[2]))
Above(a, b, p) == LET w == IF X(a) < X(b) THEN a ELSE b
                      e == IF X(a) < X(b) THEN b ELSE a
                  IN  /\ X(w) <= X(p) /\ X(p) < X(e)
                      /\ (Y(p) - Y(w)) * (X(e) - X(w)) < (Y(e) - Y(w)) * (X(p) - X(w))
TrueLocation(coords, p) ==
  IF OnSome(coords, p) THEN "boundary"
  ELSE IF Cardinality({i \in 1 .. Len(coords) - 1 : Above(coords[i], coords[i + 1], p)}) % 2 = 1 THEN "inside"
  ELSE "outside"

\* A point is found inside, outside or on the boundary of a ring the same
\* wherever its outline is cut into ways, also when the ray meets the end of a
\* way or runs along an edge; and never inside it by mistake, or on its boundary,
\* while one of the ways is missing (RobustPointInPolygon.h, lines 259-262).
LocatedRight ==
  phase = "inner" /\ place = 0 =>
    \A r \in ToSet(outerRings) : \A p \in UNION {ToSet(ways[i].coords) : i \in DOMAIN ways} :
        /\ Locate(Outline(r), p) = TrueLocation(Coordinates(r), p)
        /\ \A missing \in ToSet(Outline(r)) :
             LocateMembers(ToSet(Outline(r)) \ {missing}, Outline(r), p) \in {"outside", TrueLocation(Coordinates(r), p)} \ {"inside"}

\* Every hole lies within its outer ring if it lies within one.
HolesInside ==
  phase = "merge" =>
    \A i \in DOMAIN holes : \A r \in ToSet(holes[i]) :
      LET within(o) == \A p \in ToSet(Coordinates(r)) : TrueLocation(Coordinates(outerRings[o]), p) # "outside"
      IN  (\E o \in DOMAIN outerRings : within(o)) => within(i)
============================================================================
