------------------------------- MODULE MCReading -------------------------------
(* Queries, tiles and tables for Reading.                                  *)
EXTENDS Reading, Integers, FiniteSetsExt, Functions


\* Words of tag tables, boxes and tiles, without the inputs defined below.
NoFeatures(q) == {}
TagWords == INSTANCE Goql WITH Queries <- {}, Filters <- {}, Features <- NoFeatures
Plane == INSTANCE TileQuery WITH Trees <- {}, Features <- {}, Requests <- {}, Losses <- {}

CONSTANTS n1, n2, n3, w1, w2, w3, r1, r2, r3

-----------------------------------------------------------------------------
(* GOQL on two indexed global keys, two local keys and a handful of values. *)

\* Strings 1 .. 7 have codes: "no", the keys 2 and 3, the values 4 and 5 (a number).
MCHash == [s \in 0 .. 29 |-> (5 * s) % 7]
MCCodeOf(s) == IF s < StringCount THEN s ELSE -1
MCNumberIn == [s \in 0 .. 29 |-> IF s = 5 THEN 7 ELSE IF s = 23 THEN 9 ELSE NotANumber]

KeyA == [name |-> 2, code |-> 2, cat |-> 1]
KeyB == [name |-> 3, code |-> 3, cat |-> 2]
KeyL == [name |-> 20, code |-> -1, cat |-> 0]
KeyM == [name |-> 21, code |-> -1, cat |-> 0]
MCSomeKeys == {KeyA, KeyB, KeyL, KeyM}

Term(op, arg) == [op |-> op, arg |-> arg]
Coded == Term("STRING", 4)
LocalTerm == Term("STRING", 22)
Operands == {<<Coded>>, <<LocalTerm>>, <<Coded, LocalTerm>>, <<Term("STRING", 5), Coded>>,
             <<Coded, Term("EQ_NUM", 9)>>, <<Term("STARTS_WITH", {4, 22})>>}
Numeric == {<<Term("LT", 8)>>, <<Term("GE", 8)>>, <<Term("EQ_NUM", 7)>>}

Simple(keys) == [key : keys, form : {"has", "not"}, ops : {<<>>}]
PlainClauses(keys) == Simple(keys) \cup [key : keys, form : {"pos", "neg"}, ops : {<<Coded>>}]
Clauses(keys) == Simple(keys) \cup [key : keys, form : {"pos", "neg"}, ops : Operands]
                   \cup [key : keys, form : {"pos"}, ops : Numeric]

N == {"n"}
NW == {"n", "w"}
Sel(types, clauses) == [types |-> types, clauses |-> clauses]

\* One clause of any kind; two on one key; two on two keys; up to three plain ones;
\* two or three selectors, of one type or more.
MCQueries ==
  {<<Sel(NW, <<>>)>>} \cup {<<Sel(N, <<c>>)>> : c \in Clauses(MCSomeKeys)}
    \cup {<<Sel(N, <<c, d>>)>> : c \in Clauses({KeyA}), d \in Clauses({KeyA})}
    \cup {<<Sel(N, <<c, d>>)>> : c \in Clauses({KeyL}), d \in Clauses({KeyA, KeyL, KeyM})}
    \cup {<<Sel(N, <<c, d, e>>)>> : c \in Simple({KeyA}), d \in PlainClauses({KeyB, KeyL}), e \in Simple({KeyL, KeyM})}
    \cup {<<Sel(s, <<c>>), Sel(t, <<d>>)>> : s \in {N, NW}, t \in {N, NW},
                                             c \in Simple(MCSomeKeys), d \in Simple({KeyA, KeyL})}
    \cup {<<Sel(N, <<c>>), Sel(NW, <<d>>), Sel(N, <<c, d>>)>> :
            c \in Simple({KeyA}), d \in Simple({KeyL, KeyM})}
    \cup {<<Sel(N, <<c>>), Sel(N, <<d>>), Sel(N, <<e>>)>> :
            c \in Simple({KeyL}), d \in Simple({KeyM}), e \in Simple({KeyL})}
\* One key that must be present.
HasQueries == {<<Sel(N, <<c>>)>> : c \in [key : {KeyA, KeyL}, form : {"has"}, ops : {<<>>}]}
\* A local key that may be missing, before another; behind a global one; a key that
\* must be present after a negative clause on it.
Clause(key, form, ops) == [key |-> key, form |-> form, ops |-> ops]
MissingQueries == {<<Sel(N, <<Clause(KeyL, "not", <<>>), Clause(KeyM, "has", <<>>)>>)>>}
BehindQueries == {<<Sel(N, <<Clause(KeyA, "has", <<>>), Clause(KeyL, "not", <<>>)>>)>>}
MergedQueries == {<<Sel(N, <<Clause(KeyA, "neg", <<Coded>>), Clause(KeyA, "has", <<>>)>>)>>}
MCFilters == {<<Sel(N, <<[key |-> KeyB, form |-> "pos", ops |-> <<Coded>>]>>)>>}

Tag(k, type, v) == [key |-> k.name, type |-> type, val |-> v]
AllTags(k) ==
  {<<>>, <<Tag(k, TagWords!GlobalString, 1)>>, <<Tag(k, TagWords!GlobalString, 4)>>, <<Tag(k, TagWords!GlobalString, 5)>>,
   <<Tag(k, TagWords!LocalString, 22)>>, <<Tag(k, TagWords!LocalString, 23)>>, <<Tag(k, TagWords!NarrowNumber, 7)>>,
   <<Tag(k, TagWords!WideNumber, 9)>>}
FewTags(k) == {<<>>, <<Tag(k, TagWords!GlobalString, 1)>>, <<Tag(k, TagWords!GlobalString, 4)>>}

Uses(q, k) == \E i \in DOMAIN q : \E j \in DOMAIN q[i].clauses : q[i].clauses[j].key = k
TagsFor(q, k) ==
  IF ~ \E x \in MCSomeKeys : Uses(q, x) THEN IF k \in {KeyA, KeyL} THEN AllTags(k) ELSE FewTags(k)
  ELSE IF ~ Uses(q, k) THEN IF k \in {KeyA, KeyL} THEN {<<>>} ELSE {<<>>, <<Tag(k, TagWords!GlobalString, 4)>>}
  ELSE IF Cardinality({x \in MCSomeKeys : Uses(q, x)}) = 1 THEN AllTags(k) ELSE FewTags(k)
Table(g, l) == [globals |-> IF g = <<>> THEN TagWords!EmptyMarker ELSE g, locals |-> l]
MCTaggedFeatures(q) ==
  [type : IF \E i \in DOMAIN q : q[i].types = NW THEN NW ELSE N,
   tags : {Table(a \o b, l \o m) : a \in TagsFor(q, KeyA), b \in TagsFor(q, KeyB),
                                   l \in TagsFor(q, KeyL), m \in TagsFor(q, KeyM)}]

-----------------------------------------------------------------------------
(* Tile queries on a world of 16 by 16 units.                              *)

Box(minX, minY, maxX, maxY) == Plane!Box(minX, minY, maxX, maxY)
Tile(col, row, zoom) == Plane!Tile(col, row, zoom)
CellsOf(b) == Plane!CellsOf(b)

\* All the tiles of a level below a tile.
Below(t, zoom) == LET n == 2^(zoom - t.zoom) IN
  {Tile(t.col * n + c, t.row * n + r, zoom) : c \in 0 .. n - 1, r \in 0 .. n - 1}

World(zoom) == Below(Plane!RootTile, zoom)

\* A full tree, and one that goes down in the west and has gaps.
MCTrees == LET low == Min(Levels \ {0})  high == Max(Levels) IN
  {{Plane!RootTile} \union World(low) \union World(high),
   {Plane!RootTile} \union (World(low) \ {Tile(1, 0, low)})
      \union {t \in Below(Tile(0, 0, low), high) \union Below(Tile(1, 1, low), high) : t.row # 3}}

F(id, kind, key, minX, minY, maxX, maxY) ==
  [id |-> id, kind |-> kind, key |-> key, box |-> Box(minX, minY, maxX, maxY)]

MCTileFeatures ==
  {F(1, "node", "a", -1, 0, -1, 0), F(1, "way", "a", -4, 1, -1, 1), F(1, "relation", "b", -1, -1, 0, 0),
   F(2, "way", "a", -1, 2, 1, 3), F(3, "way", "b", -4, -2, -3, 1), F(4, "areaWay", "a", -8, -1, -5, 6),
   F(5, "areaRelation", "b", 0, -6, 3, -5), F(6, "way", "a", 5, 4, 7, 7), F(7, "areaWay", "a", -1, 5, 4, 5)}

MCLosses == {Tile(0, 0, 1), Tile(3, 3, 3), Tile(0, 0, 3)}

MCBoxes == {Box(a, b, c, d) : a \in {-8, -3, 0}, b \in {-8, -1, 0}, c \in {-1, 1, 7}, d \in {-1, 0, 5}}
SimpleBoxes == {b \in MCBoxes : Plane!IsSimple(b)}

Kinds == {"node", "way", "areaWay", "areaRelation", "relation"}
Request(b, filter, types, keys) == [box |-> b, filter |-> filter, types |-> types, keys |-> keys]

North == CellsOf(Box(-6, -1, 3, 7))
Corner == CellsOf(Box(-8, -8, -2, 5)) \union CellsOf(Box(-8, -8, 7, -4))
Of(kind, cells) == [kind |-> kind, cells |-> cells]

\* Where a filter rejects tiles, the query's box is that of the filter or the
\* world, and at most one filter rejects a tile that a matching feature is in.
TileFilters == {<<Of(k, c)>> : k \in {"intersects", "crosses"}, c \in {North, Corner}}
  \union {<<Of("intersects", Corner), Of("within", North)>>}
NearFilters == {<<Of("near", Corner)>>, <<Of("near", North), Of("near", Corner)>>}
StrictFilters == {<<Of("within", North)>>, <<Of("within", Corner)>>, <<Of("within", North), Of("within", Corner)>>}

MCRequests ==
  {Request(b, <<>>, Kinds, {"a", "b"}) : b \in SimpleBoxes}
    \union {Request(Plane!WorldBox, <<>>, {"way", "areaWay"}, {"a"})}
    \union {Request(b, f, Kinds, {"a", "b"}) : b \in {NoBox, Plane!WorldBox}, f \in TileFilters}
    \union {Request(b, f, Kinds, {"a", "b"}) : b \in {NoBox, Box(-3, -1, 0, 0), Box(-8, 0, -1, 6)}, f \in NearFilters}
    \union {Request(NoBox, f, Kinds, {"a", "b"}) : f \in StrictFilters}

\* A box narrower than that of a strict filter: within(area), then the box.
NarrowedRequests == {Request(Box(-4, -8, 7, -1), f, Kinds, {"a", "b"}) : f \in StrictFilters}

\* Two filters that a feature satisfies in different tiles.
West == CellsOf(Box(-8, -8, -1, 7))
East == CellsOf(Box(0, -8, 7, 7))
CombinedRequests == {Request(Plane!WorldBox, <<Of("intersects", West), Of("intersects", East)>>, Kinds, {"a", "b"})}

-----------------------------------------------------------------------------
(* One small library: nodes n1 and n3 at one place and n2 at another, ways *)
(* w1, w2 and the placeholder w3, relations r1, r2 and the area r3; tile A *)
(* holds the features asked about.  Export numbers and tile numbers lie at *)
(* both sides of the largest and the smallest narrow delta.                *)

MCMemberFeatures == {n1, n2, n3, w1, w2, w3, r1, r2, r3}
MCKind == [f \in MCMemberFeatures |-> CASE f \in {n1, n2, n3} -> "node" [] f \in {w1, w2, w3} -> "way" [] OTHER -> "relation"]
MCTileOf == [f \in MCMemberFeatures |-> CASE f \in {n2, w2} -> "B" [] f \in {n3, r2} -> "C" [] OTHER -> "A"]
MCAddress == [f \in MCMemberFeatures |-> CASE f = n1 -> 100 [] f = w1 -> 2048 [] f = w3 -> 40000 [] f = r1 -> 300
                                     [] f = r3 -> 70004 [] OTHER -> 8]
MCTex == [f \in MCMemberFeatures |-> CASE f = n2 -> 0 [] f = w2 -> 2048 [] f = r2 -> 2047 [] f = n3 -> 4096
                                 [] f = n1 -> 5 [] f = w1 -> 1023 [] f = r1 -> 70000 [] f = r3 -> 9 [] OTHER -> 10]
MCPlace == [f \in {n1, n2, n3} |-> IF f = n2 THEN 2 ELSE 1]
MCTableOf == [mr |-> [layout |-> "members", owner |-> r1, at |-> 302],
              ms |-> [layout |-> "members", owner |-> r2, at |-> 1000],
              mt |-> [layout |-> "members", owner |-> r3, at |-> 70008],
              n1w |-> [layout |-> "nodes", owner |-> w1, at |-> 2046],
              n2w |-> [layout |-> "nodes", owner |-> w2, at |-> 500],
              pn |-> [layout |-> "relations", owner |-> n1, at |-> 116]]
MCAreas == {r3}
MCPlaceholders == {w3}
MCRings == {2, 3}

Global(c) == [code |-> c, str |-> 0]
Local(at) == [code |-> -1, str |-> at]

TipChoices == {[A |-> 7, B |-> 1, C |-> 32768], [A |-> 7, B |-> 32767, C |-> 16384], [A |-> 7, B |-> 2, C |-> 70000]}

Listings(fs, n) == UNION {{l \in [1 .. k -> fs] : IsInjective(l)} : k \in 1 .. n}
WithRoles(fs, roles, n) ==
  UNION {{[i \in 1 .. Len(l) |-> [feature |-> l[i], role |-> g[i]]] : g \in [1 .. Len(l) -> roles]} : l \in Listings(fs, n)}
Plain(l) == [i \in DOMAIN l |-> [feature |-> l[i], role |-> Global(0)]]

Base == [kind |-> "members", of |-> r1, lists |-> [mr |-> <<>>], tips |-> [A |-> 7, B |-> 1, C |-> 32768], missing |-> {},
         types |-> {"node", "way", "relation"}, wanted |-> MCMemberFeatures, roles |-> NoRoles, matched |-> TRUE,
         near |-> {"A", "B", "C"}, inside |-> {}, outside |-> {}, path |-> <<>>, area |-> FALSE, ways |-> {}]

Views == {Base, [Base EXCEPT !.kind = "rings"], [Base EXCEPT !.missing = {"B"}, !.roles = {Global(0), Local(900)}],
          [Base EXCEPT !.missing = {"C"}, !.roles = {Global(2)}, !.types = {"way", "node"}],
          [Base EXCEPT !.wanted = {w1, n2}, !.types = {"way", "relation"}]}

MemberJobs ==
  {[v EXCEPT !.lists = [mr |-> l], !.tips = tips] :
     v \in Views, tips \in TipChoices, l \in WithRoles({w1, w2, n2, r2}, {Global(0), Global(2), Local(900)}, 3)}

\* A way's nodes: at each place of its path a feature node that lies there, or
\* an anonymous one.
Listed(places) == LET fs == SelectSeq(places, LAMBDA p : p.node # NoFeature)
                  IN  [i \in DOMAIN fs |-> [feature |-> fs[i].node, role |-> Global(0)]]
Places == {[xy |-> 1, node |-> NoFeature], [xy |-> 1, node |-> n1], [xy |-> 1, node |-> n3],
           [xy |-> 2, node |-> NoFeature], [xy |-> 2, node |-> n2], [xy |-> 3, node |-> NoFeature]}
NodeJobs ==
  UNION {{[Base EXCEPT !.kind = "nodes", !.of = w1, !.tips = tips, !.missing = away, !.area = area,
             !.matched = view.matched, !.wanted = view.wanted, !.path = [i \in DOMAIN places |-> places[i].xy],
             !.lists = IF Listed(places) = <<>> THEN <<>>
                       ELSE [n1w |-> Listed(IF area THEN Append(places, places[1]) ELSE places)]] :
           tips \in TipChoices, away \in {{}, {"C"}}, area \in BOOLEAN,
           view \in {[matched |-> FALSE, wanted |-> MCMemberFeatures], [matched |-> TRUE, wanted |-> {n1, n2}]}} :
         places \in UNION {[1 .. k -> Places] : k \in 2 .. 3}}

ParentJobs ==
  {[Base EXCEPT !.kind = "parents", !.of = n1, !.ways = ws, !.tips = tips, !.missing = away, !.types = types,
                !.wanted = wanted, !.lists = [n1w |-> Plain(a), n2w |-> Plain(b), pn |-> Plain(c)]] :
     ws \in SUBSET {w1, w2}, tips \in TipChoices, away \in {{}, {"B"}, {"A"}}, types \in {{"way"}, {"way", "relation"}},
     wanted \in {MCMemberFeatures, MCMemberFeatures \ {w1, r2}}, a \in Listings({n1, n3}, 2), b \in Listings({n1, n2}, 2),
     c \in Listings({r1, r2}, 2)}

\* Relations that contain each other.
Containing == [r1 |-> Listings({w1, n2, r1, r2, r3}, 2), r2 |-> Listings({w2, w3, r1, r3}, 2), r3 |-> {<<w1>>, <<r2, w2>>, <<r1, w1>>, <<r3, n2>>}]
Walks == {[Base EXCEPT !.kind = "collect"], [Base EXCEPT !.kind = "points", !.missing = {"B"}],
          [Base EXCEPT !.kind = "within", !.wanted = {w1}, !.outside = {w2}],
          [Base EXCEPT !.kind = "within", !.wanted = {w2}, !.missing = {"C"}],
          [Base EXCEPT !.kind = "any", !.wanted = {w1, r3}, !.near = {"A", "C"}, !.inside = {}],
          [Base EXCEPT !.kind = "any", !.wanted = {w2}, !.inside = {r3}],
          [Base EXCEPT !.kind = "any", !.of = r3, !.wanted = {n2, w2}, !.near = {"B"}]}
WalkJobs == {[w EXCEPT !.lists = [mr |-> Plain(a), ms |-> Plain(b), mt |-> Plain(c)]] :
               w \in Walks, a \in Containing.r1, b \in Containing.r2, c \in Containing.r3}

MCJobs == {MemberJobs, NodeJobs, ParentJobs, WalkJobs}
================================================================================
