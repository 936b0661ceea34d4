----------------------------- MODULE FeatureOutput -----------------------------
(***************************************************************************)
(* Walks through relations and what they write.  GeoJsonWriter and         *)
(* WktWriter write features; GeoJsonFormatter, WktFormatter and            *)
(* LeafletFormatter write the geometry of one feature;                     *)
(* RelationGeometryBuilder, Centroid, Length, MemberCollection,            *)
(* MCIndexBuilder, ConnectedFilter and PointDistanceFilter gather what     *)
(* they need from members.  Relations are members of relations, also of    *)
(* themselves, and a RecursionGuard keeps what was seen.                   *)
(*                                                                         *)
(* What is written is a sequence of tokens: names, coordinates, brackets   *)
(* and separators; only a list that may be empty has [.  A step writes a   *)
(* feature that is no collection, or goes on with one member.              *)
(***************************************************************************)
EXTENDS Naturals, Integers, Sequences, FiniteSets, SequencesExt

CONSTANTS
  Points, Null,     \* coordinates are strings; Null is (0, 0)
  Worlds,           \* [features, todo]: features by name, those to be written
  Tasks,            \* which walks are made
  Guarded           \* the walks whose worlds may have relations in a circle

Writers == {"wkt", "geojson", "geojsonl"}
Formatters == {"wktGeometry", "geojsonGeometry", "leaflet"}
Gatherers == {"geometry", "collection", "centroid", "length", "segments", "points", "distance"}
OutputAssumption == Tasks \subseteq Writers \union Formatters \union Gatherers /\ Null \in Points

VARIABLES
  task, world, turn,   \* turn: how many features of the world are done
  stack,               \* the relations being walked: [rel, at, count, seen]
  out,
  gathered,            \* <<relation, place>> of the members taken, in order
  areaSum,             \* of a centroid
  near,                \* the answer of PointDistanceFilter
  phase                \* "header", "features", "done"

vars == <<task, world, turn, stack, out, gathered, areaSum, near, phase>>

\* A feature has [type, area, placeholder, coords, members, rings, near, around,
\* anonymous, tags]; each ring of an area relation has [coords, sum], its area
\* being signed.  An edge of it may be near a point, and the area around the point.
\* A placeholder stands for a feature that the file does not have.
Feature(f) == world.features[f]
Members(f) == Feature(f).members
IsCollection(f) == Feature(f).type = "relation" /\ ~Feature(f).area

\* Which relations are reached from f, and from one of them f again.
Below(f) == {m \in ToSet(Members(f)) : Feature(m).type = "relation"}
Reached[n \in Nat, f \in DOMAIN world.features] ==
  IF n = 0 THEN {f} ELSE {f} \union UNION {Reached[n - 1, m] : m \in Below(f)}
AllReached(f) == Reached[Cardinality(DOMAIN world.features), f]
InCircle(f) == \E m \in Below(f) : f \in AllReached(m)

Init ==
  /\ task \in Tasks /\ world \in Worlds
  /\ task \notin Guarded => \A f \in DOMAIN world.features : ~InCircle(f)
  /\ task \in Formatters => \A f \in DOMAIN world.features : ~Feature(f).placeholder
  /\ task \in Gatherers => Len(world.todo) = 1
  /\ turn = 0 /\ stack = <<>> /\ out = <<>> /\ gathered = <<>> /\ areaSum = 0 /\ near = FALSE
  /\ phase = "header"

-----------------------------------------------------------------------------
(* Coordinates.                                                            *)

Json == task \in {"geojson", "geojsonl", "geojsonGeometry"}

\* WayCoordinateIterator: an area ends where it began, and (0, 0) ends a way.
\* Wrong: the first coordinate is not repeated.
CoordinatesOpen(f) == Feature(f).coords
Coordinates(f) == LET all == Feature(f).coords \o IF Feature(f).area THEN <<Feature(f).coords[1]>> ELSE <<>>
                  IN  IF Null \in ToSet(all) THEN SubSeq(all, 1, SelectInSeq(all, LAMBDA c : c = Null) - 1) ELSE all

\* Wrong: no separator, except before the last.
SeparatorLate(i, n) == IF i = n /\ n > 1 THEN <<",">> ELSE <<>>
Separator(i, n) == IF i > 1 THEN <<",">> ELSE <<>>
Listed(items) == <<"(">> \o FlattenSeq([i \in DOMAIN items |-> Separator(i, Len(items)) \o items[i]]) \o <<")">>
CoordinateList(cs) == Listed([i \in DOMAIN cs |-> <<cs[i]>>])

\* writeWayCoordinates and writePolygonizedCoordinates
WayCoordinates(f) == IF Feature(f).area THEN Listed(<<CoordinateList(Coordinates(f))>>) ELSE CoordinateList(Coordinates(f))
PolygonCoordinates(polygon) == Listed([i \in DOMAIN polygon |-> CoordinateList(polygon[i].coords)])
PolygonizedCoordinates(rings) ==
  IF Len(rings) > 1 THEN Listed([i \in DOMAIN rings |-> PolygonCoordinates(rings[i])]) ELSE PolygonCoordinates(rings[1])

-----------------------------------------------------------------------------
(* Geometries.                                                             *)

\* The name of a geometry and what follows it.
Geometry(name, coordinates) ==
  CASE Json -> <<"{", name>> \o coordinates \o <<"}">>
    [] task = "leaflet" -> <<name, "(">> \o coordinates \o <<",", "style">>
    [] OTHER -> <<name>> \o coordinates
PointGeometry(c) == Geometry("Point", IF task \in {"wkt", "wktGeometry"} THEN <<"(", c, ")">> ELSE <<c>>)

\* An area relation without rings is empty, or its center on a map.
AreaGeometry(f) ==
  IF Feature(f).rings # <<>>
  THEN Geometry(IF Len(Feature(f).rings) > 1 THEN "MultiPolygon" ELSE "Polygon", PolygonizedCoordinates(Feature(f).rings))
  ELSE IF task = "leaflet" THEN Geometry("Point", <<Feature(f).coords[1]>>) ELSE Geometry("Polygon", <<"EMPTY">>)

\* Anything but a collection.
SimpleGeometry(f) ==
  CASE Feature(f).type = "node" -> PointGeometry(Feature(f).coords[1])
    [] Feature(f).type = "way" -> Geometry(IF Feature(f).area THEN "Polygon" ELSE "LineString", WayCoordinates(f))
    [] OTHER -> AreaGeometry(f)

Opening == IF Json THEN <<"{", "Collection">> ELSE IF task = "leaflet" THEN <<"Collection", "(", "[">> ELSE <<"Collection">>
Closing(count) ==
  CASE task = "leaflet" -> <<"]">>
    [] OTHER -> (IF count = 0 THEN <<"EMPTY">> ELSE <<")">>) \o (IF Json THEN <<"}">> ELSE <<>>)

\* What stands before a member and after it.
BeforeMember(count) == IF task = "leaflet" THEN Separator(count + 1, 0) ELSE IF count > 0 THEN <<",">> ELSE <<"(">>
AfterMember == IF task = "leaflet" THEN <<")">> ELSE <<>>

\* GeometryBuilder, createPolygonal(): a feature, unless it is a collection or an
\* area without rings, as the geometry of another library.  Coordinates are
\* counted: (0, 0) does not end a way here.
Shape(f) ==
  LET closed == Feature(f).coords \o <<Feature(f).coords[1]>>
      rings(polygon) == [i \in DOMAIN polygon |-> polygon[i].coords]
  IN  CASE Feature(f).type = "node" -> [type |-> "Point", parts |-> Feature(f).coords[1]]
        [] Feature(f).type = "way" /\ ~Feature(f).area -> [type |-> "LineString", parts |-> Feature(f).coords]
        [] Feature(f).type = "way" -> [type |-> "Polygon", parts |-> <<closed>>]
        [] Len(Feature(f).rings) = 1 -> [type |-> "Polygon", parts |-> rings(Feature(f).rings[1])]
        [] OTHER -> [type |-> "MultiPolygon", parts |-> [i \in DOMAIN Feature(f).rings |-> rings(Feature(f).rings[i])]]

\* The coordinates of such a geometry: an outer ring, then the inner ones.
\* Wrong: what follows the outer ring is not separated from it.
OuterAndInnerJoined(rings) ==
  <<"(">> \o CoordinateList(rings[1]) \o FlattenSeq([i \in 1 .. Len(rings) - 1 |-> CoordinateList(rings[i + 1])]) \o <<")">>
OuterAndInner(rings) ==
  <<"(">> \o CoordinateList(rings[1]) \o FlattenSeq([i \in 1 .. Len(rings) - 1 |-> <<",">> \o CoordinateList(rings[i + 1])]) \o <<")">>
GeometryCoordinates(shape) ==
  CASE shape.type = "Point" -> <<shape.parts>>
    [] shape.type = "LineString" -> CoordinateList(shape.parts)
    [] shape.type = "Polygon" -> OuterAndInner(shape.parts)
    [] shape.type = "MultiPolygon" -> Listed([i \in DOMAIN shape.parts |-> OuterAndInner(shape.parts[i])])

-----------------------------------------------------------------------------
(* Features.                                                               *)

Writing == task \in Writers \union Formatters
Current == world.todo[turn]

\* The tags of a feature are counted; a node without a feature has none.
Tags(n) == <<"{">> \o FlattenSeq([i \in 1 .. n |-> Separator(i, n) \o <<"tag">>]) \o <<"}">>
\* Compact output: a line for each feature, but a comma before a node without one.
BeforeFeature(f) ==
  CASE task = "wkt" -> Separator(turn + 1, 0)
    [] Json /\ task \in Writers ->
         (IF turn = 0 THEN <<>> ELSE IF task = "geojsonl" /\ ~Feature(f).anonymous THEN <<"newline">> ELSE <<",">>)
         \o <<"{", "Feature">>
    [] OTHER -> <<>>
AfterFeature(f) ==
  CASE Json /\ task \in Writers -> (IF Feature(f).anonymous THEN <<>> ELSE <<",", "properties">> \o Tags(Feature(f).tags)) \o <<"}">>
    [] task = "leaflet" -> <<")">>
    [] OTHER -> <<>>

Header == CASE task = "wkt" -> <<"Collection", "(">> [] task = "geojson" -> <<"{", "Collection", "[">> [] OTHER -> <<>>
Footer == CASE task = "wkt" -> <<")">> [] task = "geojson" -> <<"]", "}">> [] OTHER -> <<>>

WriteHeader ==
  /\ phase = "header" /\ phase' = "features" /\ out' = Header
  /\ UNCHANGED <<task, world, turn, stack, gathered, areaSum, near>>

\* The guard of a walk begins with the relation whose members are walked.
\* Wrong: it does not know that relation.
FrameUnaware(f) == [rel |-> f, at |-> 0, count |-> 0, seen |-> {}]
Frame(f) == [rel |-> f, at |-> 0, count |-> 0, seen |-> {f}]

\* Centroid::Areal::addRing: a clockwise hole is added (marked TODO).
\* Wrong: all rings are taken for shells.
SignedAsShell(ring, shell) == IF ring.sum >= 0 THEN ring.sum ELSE 0 - ring.sum
Signed(ring, shell) == IF ring.sum >= 0 /\ shell THEN ring.sum ELSE 0 - ring.sum
SumOf(rings) == FoldLeft(LAMBDA s, p : s + FoldLeftDomain(LAMBDA t, i : t + Signed(p[i], i = 1), 0, p), 0, rings)

\* PointDistanceFilter: what an area holds has no distance.  The ways of an area
\* relation are looked at without a guard, as its outlines.
WaysOf(f) == {m \in ToSet(Members(f)) : Feature(m).type = "way" /\ ~Feature(m).placeholder}
Near(f) ==
  \/ Feature(f).near
  \/ Feature(f).area /\ (Feature(f).around \/ \E m \in WaysOf(f) : Feature(m).near)

WriteFeature ==
  /\ phase = "features" /\ stack = <<>> /\ turn < Len(world.todo)
  /\ \E f \in {world.todo[turn + 1]} :
       /\ turn' = turn + 1
       /\ IF IsCollection(f) \/ (Feature(f).type = "relation" /\ task \in {"collection", "length", "points"})
          THEN /\ stack' = <<Frame(f)>> /\ UNCHANGED <<areaSum, near>>
               /\ out' = IF Writing THEN out \o BeforeFeature(f) \o Opening ELSE out
          ELSE /\ stack' = stack
               /\ out' = IF Writing THEN out \o BeforeFeature(f) \o SimpleGeometry(f) \o AfterFeature(f) ELSE out
               /\ areaSum' = IF task = "centroid" THEN areaSum + SumOf(Feature(f).rings) ELSE areaSum
               /\ near' = (task = "distance" /\ Near(f))
  /\ UNCHANGED <<task, world, gathered, phase>>

WriteFooter ==
  /\ phase = "features" /\ stack = <<>> /\ turn = Len(world.todo)
  /\ phase' = "done" /\ out' = out \o Footer
  /\ UNCHANGED <<task, world, turn, stack, gathered, areaSum, near>>

-----------------------------------------------------------------------------
(* Members.                                                                *)

Top == stack[Len(stack)]
Member == Members(Top.rel)[Top.at + 1]
HasMember == stack # <<>> /\ Top.at < Len(Members(Top.rel)) /\ ~near

\* Length looks at no placeholders, which have no length, and the formatters
\* leave them to the file, which has none any more.
Skipped(m) == Feature(m).placeholder /\ task \notin Formatters
\* Nodes have no length and no segments.
Wanted(m) == task \in {"length", "segments"} => Feature(m).type # "node"
\* The gatherers that descend into relations that are areas.
DescendsAreas == task \in {"centroid", "length", "segments", "points", "distance"}

\* checkAndAdd(): a formatter has no guard.
Seen(m) == m \in Top.seen /\ task \notin Formatters
Descends(m) == Feature(m).type = "relation" /\ (~Feature(m).area \/ DescendsAreas)

\* The frame of the relation whose member was taken, or was skipped.
After(taken, m) ==
  [stack EXCEPT ![Len(stack)].at = @ + 1,
                ![Len(stack)].count = IF taken THEN @ + 1 ELSE @,
                ![Len(stack)].seen = IF taken /\ Feature(m).type = "relation" THEN @ \union {m} ELSE @]

\* A gatherer gives its guard to the walk of the child; a writer makes a new one
\* for it (writeCollectionRelationGeometry).
Child(m) == IF task \in Gatherers THEN [Frame(m) EXCEPT !.seen = Top.seen \union {m}] ELSE Frame(m)

Passed == HasMember /\ (Skipped(Member) \/ ~Wanted(Member) \/ (Feature(Member).type = "relation" /\ Seen(Member)))

SkipMember ==
  /\ HasMember /\ Passed
  /\ stack' = After(FALSE, Member)
  /\ UNCHANGED <<task, world, turn, out, gathered, areaSum, near, phase>>

\* What the geometry, the centroid, ... is made of.
Gather == Append(gathered, <<Top.rel, Top.at + 1>>)

TakeMember ==
  /\ HasMember /\ ~Passed /\ ~Descends(Member)
  /\ \E m \in {Member} :
       /\ stack' = After(TRUE, m)
       /\ out' = IF Writing THEN out \o BeforeMember(Top.count) \o SimpleGeometry(m) \o AfterMember ELSE out
       /\ near' = (task = "distance" /\ Near(m))
  /\ gathered' = Gather
  /\ UNCHANGED <<task, world, turn, areaSum, phase>>

EnterMember ==
  /\ HasMember /\ ~Passed /\ Descends(Member)
  /\ stack' = Append(After(TRUE, Member), Child(Member))
  /\ out' = IF Writing THEN out \o BeforeMember(Top.count) \o Opening ELSE out
  /\ UNCHANGED <<task, world, turn, gathered, areaSum, near, phase>>

\* Wrong: what the child has seen is not known to its parent.
SharedForgotten(parent, child) == parent
Shared(parent, child) == IF task \in Gatherers THEN [parent EXCEPT !.seen = @ \union child.seen] ELSE parent

LeaveRelation ==
  /\ stack # <<>> /\ ~HasMember
  /\ LET rest == Front(stack)
     IN  IF rest = <<>>
         THEN stack' = rest /\ out' = IF Writing THEN out \o Closing(Top.count) \o AfterFeature(Top.rel) ELSE out
         ELSE /\ stack' = [rest EXCEPT ![Len(rest)] = Shared(@, Top)]
              /\ out' = IF Writing THEN out \o Closing(Top.count) \o AfterMember ELSE out
  /\ UNCHANGED <<task, world, turn, gathered, areaSum, near, phase>>

Next == WriteHeader \/ WriteFeature \/ WriteFooter \/ SkipMember \/ TakeMember \/ EnterMember \/ LeaveRelation

Spec == Init /\ [][Next]_vars

-----------------------------------------------------------------------------
(* Correctness.                                                            *)

Names == {"Point", "LineString", "Polygon", "MultiPolygon", "Collection", "Feature", "properties", "tag", "style"}
Begins(t) == t \in Points \union Names \union {"(", "{", "["}
Ends(t) == t \in Points \union {")", "}", "]", "EMPTY", "tag", "style"}
Follows(t, u) ==
  CASE t \in {",", "newline"} -> Begins(u)
    [] t = "(" -> Begins(u)
    [] t = "{" -> u \in Names \union {"}"}
    [] t = "[" -> Begins(u) \/ u = "]"
    [] Ends(t) -> u \in {",", ")", "}", "]", "newline"}
    [] OTHER -> Begins(u) \/ u = "EMPTY"

\* The brackets that are open after the first tokens.
Bracket(t) == CASE t = ")" -> "(" [] t = "}" -> "{" [] t = "]" -> "[" [] OTHER -> "none"
Opened(open, t) ==
  IF t \in {"(", "{", "["} THEN Append(open, t)
  ELSE IF Bracket(t) = "none" THEN open
  ELSE IF open # <<>> /\ Last(open) = Bracket(t) THEN Front(open) ELSE Append(open, t)

\* What is written can be read: brackets match, and values are separated by one
\* comma, however relations are nested and whatever members are skipped
\* (FeatureWriter.cpp, GeoJsonWriter.cpp, WktWriter.cpp, FeatureFormatter.h).
\* Only WKT of no features has an empty list; there EMPTY ought to stand.
NothingListed == task = "wkt" /\ world.todo = <<>>
Readable ==
  phase = "done" /\ Writing =>
    /\ FoldLeft(Opened, <<>>, out) = <<>>
    /\ IF NothingListed THEN out = <<"Collection", "(", ")">>
       ELSE \A i \in 1 .. Len(out) - 1 : Follows(out[i], out[i + 1])
\* Not so, and not checked: there is always something in a list.
ListsFilled == phase = "done" /\ Writing => \A i \in 1 .. Len(out) - 1 : Follows(out[i], out[i + 1])

\* GeoJSONL (GeoJsonWriter.cpp): what stands between two features is the end of a
\* line, unless a node without a feature follows, which shares its line with the
\* feature before it.
Between == {i \in DOMAIN out : out[i] \in {",", "newline"} /\ FoldLeft(Opened, <<>>, SubSeq(out, 1, i - 1)) = <<>>}
Behind(i) == world.todo[Cardinality({j \in Between : j <= i}) + 1]
LinesDivide ==
  phase = "done" /\ task = "geojsonl" =>
    /\ world.todo # <<>> => Cardinality(Between) = Len(world.todo) - 1
    /\ \A i \in Between : out[i] = "newline" <=> ~Feature(Behind(i)).anonymous
\* Not so, and not checked: each feature has a line of its own.
LineForEach == phase = "done" /\ task = "geojsonl" => \A i \in Between : out[i] = "newline"

\* The rings of polygons are closed (WayCoordinateIterator.cpp): where a list of
\* coordinates begins within two brackets, it ends as it begins.
ListEnd(i) == CHOOSE j \in i .. Len(out) : out[j] = ")" /\ \A k \in i .. j - 1 : out[k] # ")"
PolygonsClosed ==
  phase = "done" /\ Writing =>
    \A i \in 1 .. Len(out) - 2 : (out[i] \in {"Polygon", "MultiPolygon"} /\ out[i + 1] = "(" /\ task # "leaflet") =>
      \E j \in i + 2 .. Len(out) : out[j] \in Points /\ out[j] = out[ListEnd(j) - 1] /\ \A k \in i + 1 .. j - 1 : out[k] = "("

\* A feature and the geometry that is built from it are written alike
\* (GeometryWriter.cpp, GeometryBuilder.cpp), unless (0, 0) is one of its places.
Simple(f) == ~IsCollection(f) /\ ~Feature(f).placeholder /\ Null \notin ToSet(Feature(f).coords)
GeometriesAlike ==
  phase = "done" /\ Writing /\ task # "leaflet" =>
    \A f \in {g \in DOMAIN world.features : Simple(g) /\ (Feature(g).type = "relation" => Feature(g).rings # <<>>)} :
      LET built == GeometryCoordinates(Shape(f))
      IN  SimpleGeometry(f) =
            Geometry(Shape(f).type, IF Feature(f).type = "node" /\ ~Json THEN <<"(">> \o built \o <<")">> ELSE built)

\* The members that a walk takes, by definition: those of each relation reached.
WalkedBelow(f) == {m \in Below(f) : Descends(m) /\ ~Skipped(m)}
Walked[n \in Nat, f \in DOMAIN world.features] ==
  IF n = 0 THEN {f} ELSE {f} \union UNION {Walked[n - 1, m] : m \in WalkedBelow(f)}
Taken(f) == {<<r, i>> : r \in Walked[Cardinality(DOMAIN world.features), f], i \in 1 .. 4}
Expected(f) == {e \in Taken(f) : e[2] <= Len(Members(e[1])) /\
                  \E m \in {Members(e[1])[e[2]]} : ~Skipped(m) /\ Wanted(m) /\ ~Descends(m)}
MemberAt(e) == Members(e[1])[e[2]]

\* A gatherer takes each node and way of each relation that it reaches once, and
\* each area once if it does not descend into it, also if relations refer to each
\* other in a circle (RelationPtr.h, lines 23-53).  PointDistanceFilter stops at
\* the first that is near, and says no only if none is.
GatheredOnce ==
  phase = "done" /\ task \in Gatherers /\ gathered # <<>> =>
    \E expected \in {Expected(world.todo[1])} :
      /\ IsInjective(gathered)
      /\ ToSet(gathered) \subseteq expected
      /\ near = (task = "distance" /\ \E e \in expected : Near(MemberAt(e)))
      /\ ~near => \A e \in expected :
           \E g \in ToSet(gathered) : IF Feature(MemberAt(e)).type = "relation" THEN MemberAt(g) = MemberAt(e) ELSE g = e
      /\ \A g, h \in ToSet(gathered) : g # h /\ MemberAt(g) = MemberAt(h) => Feature(MemberAt(g)).type # "relation"

\* The area of a centroid is that of the shells without the holes, and twice that
\* of the holes which are wound clockwise: those are not taken away, but added
\* (Centroid.h, marked TODO at line 30).
Size(n) == IF n < 0 THEN 0 - n ELSE n
SumOfRings(Part(_, _)) ==
  FoldLeft(LAMBDA s, f : s + FoldLeft(LAMBDA t, p : t + FoldLeftDomain(LAMBDA u, i : u + Part(p[i].sum, i = 1), 0, p), 0, Feature(f).rings),
           0, world.todo)
ShellsWithoutHoles == SumOfRings(LAMBDA sum, shell : IF shell THEN Size(sum) ELSE 0 - Size(sum))
ClockwiseHoles == SumOfRings(LAMBDA sum, shell : IF ~shell /\ sum < 0 THEN Size(sum) ELSE 0)
AreaOfShells == phase = "done" /\ task = "centroid" => areaSum = ShellsWithoutHoles + 2 * ClockwiseHoles
\* Not so, and not checked: every hole is taken away.
HolesTakenAway == phase = "done" /\ task = "centroid" => areaSum = ShellsWithoutHoles

\* No relation is walked within itself: the guard is to stop endless recursion
\* (RelationPtr.h, lines 23-26).
NoEndlessRecursion == \A i, j \in DOMAIN stack : i < j => stack[i].rel # stack[j].rel
================================================================================
