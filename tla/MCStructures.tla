----------------------------- MODULE MCStructures ------------------------------
(* Small inputs for every part of Structures.                              *)
EXTENDS Structures, Integers, SequencesExt, Functions, TLC

Geometry == INSTANCE PlaneGeometry
\* How texts are escaped, without the documents and values defined below.
Escapes == INSTANCE Texts WITH NameTokens <- {}, Documents <- {}, Values <- {}

-----------------------------------------------------------------------------
(* Calls that fill and empty a tree.                                       *)

Calls(op, ks) == [i \in DOMAIN ks |-> [op |-> op, key |-> ks[i]]]
Puts(ks) == Calls("insert", ks)
Takes(ks) == Calls("take", ks)
Up(a, b) == [i \in 1 .. b - a + 1 |-> a + i - 1]
Down(a, b) == [i \in 1 .. b - a + 1 |-> b - i + 1]
Mixed == [i \in 1 .. 17 |-> (7 * i) % 18]
MCTreeKeys == 1 .. 18
MCScripts == {<<>>, Puts(Up(1, 17)), Puts(Down(1, 18)), Puts(Mixed), Puts(Up(1, 17)) \o Takes(Up(1, 7)),
            Puts(Up(1, 17)) \o Takes(Down(10, 16)), Puts(Down(1, 18)) \o Takes(<<5, 6, 7, 12, 13, 14, 1, 2>>)}

-----------------------------------------------------------------------------
(* Polygons: rings in pieces.                                              *)

\* A ring without its last point, cut at some of its points; a piece may be turned.
At(ring, i) == ring[((i - 1) % Len(ring)) + 1]
Between(ring, a, b) == [k \in 1 .. b - a + 1 |-> At(ring, a + k - 1)]
RingPiece(ring, cuts, k) ==
  Between(ring, cuts[k], IF k = Len(cuts) THEN cuts[1] + Len(ring) ELSE cuts[k + 1])
TurnSome(pieces, turned) == [k \in DOMAIN pieces |-> IF k \in turned THEN Reverse(pieces[k]) ELSE pieces[k]]
Cut(ring, cuts, turned) == TurnSome([k \in DOMAIN cuts |-> RingPiece(ring, cuts, k)], turned)
Closed(ring) == Cut(ring, <<1>>, {})
Halves(ring) == {Cut(ring, c, t) : c \in {<<i, j>> : i \in {1, 2}, j \in {3, 4}}, t \in SUBSET {1, 2}}
Thirds(ring) == {Cut(ring, <<1, 2, 4>>, t) : t \in SUBSET {1, 2, 3}}

WaysOf(role, pieces) == [k \in DOMAIN pieces |-> [role |-> role, coords |-> pieces[k]]]
Shuffled(s) == {[k \in DOMAIN s |-> s[f[k]]] : f \in Permutations(DOMAIN s)}
Without(s, k) == RemoveAt(s, k)

Square(x, y, d) == <<<<x, y>>, <<x + d, y>>, <<x + d, y + d>>, <<x, y + d>>>>
Tent(x, y) == <<<<x, y>>, <<x + 2, y>>, <<x + 1, y + 1>>>>

\* Two rings in parts, in any order, complete or with a part missing.
Two == {WaysOf("outer", a \o b) : a \in Thirds(Square(0, 0, 1)), b \in {Cut(Tent(3, 0), <<1, 3>>, t) : t \in {{}, {1}}}}
Chains == UNION {Shuffled(w) : w \in {v \in Two : v[2].coords[1] = <<1, 0>>}}
          \union UNION {Shuffled(Without(w, k)) : w \in {v \in Two : v[1].coords[1] = <<0, 0>>}, k \in 1 .. 5}

\* Holes that share edges, in a ring that is cut.
Blocks == {<<Square(1, 1, 2), Square(3, 1, 1)>>, <<Square(1, 1, 1), Square(2, 1, 1)>>,
           <<<<<<1, 1>>, <<2, 1>>, <<3, 1>>, <<3, 2>>, <<2, 2>>, <<1, 2>>>>, Square(1, 2, 1)>>}
Nested == {WaysOf("outer", Closed(Square(0, 0, 6))) \o WaysOf("inner", w) :
             w \in UNION {{a \o b : a \in Halves(bs[1]) \union {Closed(bs[1])}, b \in {Closed(bs[2]), Reverse(Closed(bs[2])), Cut(bs[2], <<2, 4>>, {1})}} : bs \in Blocks}}
Alone == {WaysOf("outer", Closed(Square(0, 0, 6))) \o WaysOf("inner", Closed(Square(4, 4, 1))) \o WaysOf("inner", Closed(Square(1, 1, 1)) \o Closed(Square(2, 1, 1)))}

\* Three outer rings, one in the bay of another, and a hole in each.
Bay == <<<<0, 0>>, <<6, 0>>, <<6, 6>>, <<4, 6>>, <<4, 2>>, <<2, 2>>, <<2, 6>>, <<0, 6>>>>
InBay == <<<<2, 3>>, <<4, 3>>, <<3, 6>>>>
Far == <<<<7, 0>>, <<8, 0>>, <<9, 0>>, <<10, 3>>, <<10, 4>>, <<9, 6>>, <<8, 6>>, <<7, 6>>, <<7, 4>>, <<7, 2>>>>
HoleIn(x) == CASE x = "bay" -> <<<<0, 1>>, <<1, 1>>, <<1, 2>>>>
               [] x = "inbay" -> <<<<2, 3>>, <<3, 4>>, <<3, 5>>>>
               [] x = "far" -> <<<<8, 1>>, <<9, 3>>, <<8, 2>>>>
Outers == {<<Closed(Bay)[1], c[1], c[2], Closed(InBay)[1]>> : c \in {Cut(Far, <<1, 4>>, t) : t \in SUBSET {1, 2}}}
          \union {<<Closed(SubSeq(Far, 1, 6))[1], c[1], c[2], Closed(InBay)[1]>> : c \in {Cut(Bay, <<2, 5>>, t) : t \in SUBSET {1, 2}}}
Inners == {<<Closed(HoleIn(a))[1], Closed(HoleIn(b))[1]>> : a, b \in {"bay", "inbay", "far"}}
Assigns == {o \o WaysOf("inner", i) : o \in UNION {Shuffled(WaysOf("outer", w)) : w \in Outers}, i \in {j \in Inners : j[1] # j[2]}}

\* Ways that end where a ring that is a single way begins.
Hanging == UNION {Shuffled(WaysOf("outer", <<Closed(Square(0, 0, 1))[1], w>>)) : w \in {<<<<2, 2>>, <<0, 0>>>>, <<<<0, 0>>, <<2, 2>>>>}}

MCRelations == Chains \union Nested \union Alone \union Assigns \union Hanging

\* Two rings that have a point in common, each of two ways.
MCTouching == Shuffled(WaysOf("outer", Cut(Square(0, 0, 1), <<2, 3>>, {}) \o Cut(Square(1, 1, 1), <<1, 2>>, {})))

-----------------------------------------------------------------------------
(* Spatial filters: geometries, features and questions.                    *)

ClosedRing(s) == s \o <<s[1]>>
Areas == {<<ClosedRing(<<<<1, 1>>, <<4, 1>>, <<4, 4>>, <<1, 4>>>>)>>,
          \* a bay, and a peak at the height of a level edge
          <<ClosedRing(<<<<0, 0>>, <<5, 0>>, <<5, 4>>, <<3, 1>>, <<2, 4>>, <<1, 4>>>>)>>,
          \* a long way up in one direction, cut for its length
          <<ClosedRing(<<<<0, 0>>, <<1, 1>>, <<1, 2>>, <<2, 3>>, <<3, 5>>, <<4, 2>>, <<4, 1>>, <<5, 0>>>>)>>,
          \* a hole, and two ways that make up a ring
          <<ClosedRing(<<<<0, 0>>, <<5, 0>>, <<5, 5>>, <<0, 5>>>>), ClosedRing(<<<<2, 1>>, <<4, 2>>, <<3, 4>>, <<1, 3>>>>)>>,
          <<<<<<0, 2>>, <<2, 0>>, <<5, 1>>>>, <<<<5, 1>>, <<3, 3>>, <<3, 5>>, <<0, 2>>>>>>}
Lines == {<<<<<<0, 1>>, <<1, 1>>, <<3, 1>>, <<4, 3>>, <<5, 5>>, <<2, 4>>>>>>, <<<<<<0, 5>>, <<1, 3>>, <<2, 2>>, <<5, 0>>>>>>}
MCGeometries == {[area |-> TRUE, lines |-> l] : l \in Areas} \union {[area |-> FALSE, lines |-> l] : l \in Lines}

Line(s) == [area |-> FALSE, coords |-> s]
Area(s) == [area |-> TRUE, coords |-> ClosedRing(s)]
Segs == {<<a, b>> : a \in {<<0, 0>>, <<2, 2>>, <<3, 1>>, <<0, 4>>, <<2, 3>>}, b \in {<<5, 5>>, <<2, 4>>, <<5, 1>>, <<3, 2>>, <<1, 0>>}}
MCCandidates == {Line(s) : s \in Segs}
  \union {Line(<<<<0, 0>>, <<1, 1>>, <<2, 2>>, <<3, 3>>, <<0, 3>>>>), Line(<<<<5, 0>>, <<4, 0>>, <<3, 0>>, <<3, 2>>, <<4, 4>>>>)}
  \union {Area(<<<<0, 0>>, <<5, 0>>, <<5, 5>>, <<0, 5>>>>), Area(<<<<2, 2>>, <<3, 2>>, <<3, 3>>>>), Area(<<<<1, 1>>, <<4, 1>>, <<4, 4>>>>),
          Area(<<<<4, 4>>, <<5, 4>>, <<5, 5>>, <<4, 5>>>>)}
MCIndexPoints == {<<x, y>> : x, y \in 0 .. 5}
MCBoxes == {Geometry!BoxOf(a, b) : a \in {<<0, 0>>, <<1, 1>>, <<2, 3>>, <<3, 2>>}, b \in {<<5, 5>>, <<2, 2>>, <<4, 3>>, <<3, 3>>, <<0, 4>>}}
MCDistances == {[i \in 1 .. 12 |-> i], [i \in 1 .. 12 |-> (5 * i) % 13], [i \in 1 .. 12 |-> 20 - i]}

-----------------------------------------------------------------------------
(* Small worlds of relations.                                              *)

MCPoints == {"a", "b", "c", "d", "0"}

Plain == [type |-> "node", area |-> FALSE, placeholder |-> FALSE, coords |-> <<"a">>, members |-> <<>>,
          rings |-> <<>>, near |-> FALSE, around |-> FALSE, anonymous |-> FALSE, tags |-> 1]
Absent(t) == [Plain EXCEPT !.type = t, !.placeholder = TRUE, !.coords = <<"0">>]
Way(cs) == [Plain EXCEPT !.type = "way", !.coords = cs, !.tags = 2]
Relation(ms) == [Plain EXCEPT !.type = "relation", !.members = ms, !.tags = 0]
Ring(sum) == [coords |-> <<"b", "c", "d", "b">>, sum |-> sum]
AreaRelation(ms, groups) == [Relation(ms) EXCEPT !.area = TRUE, !.rings = groups]

FeaturesOf(inA, inB) ==
  [n |-> Plain, anonymous |-> [Plain EXCEPT !.anonymous = TRUE], far |-> [Plain EXCEPT !.near = TRUE],
   w |-> Way(<<"a", "b", "0", "c">>), ring |-> [Way(<<"b", "c", "d">>) EXCEPT !.area = TRUE],
   lake |-> [Way(<<"b", "c", "d">>) EXCEPT !.area = TRUE, !.around = TRUE],
   noNode |-> Absent("node"), noWay |-> Absent("way"), noRelation |-> Absent("relation"),
   area |-> AreaRelation(<<"ring", "w">>, <<<<Ring(4), Ring(1)>>, <<Ring(-3)>>>>),
   one |-> AreaRelation(<<"w">>, <<<<Ring(-4), Ring(1), Ring(-2)>>>>),
   broken |-> AreaRelation(<<"w", "n">>, <<>>),
   A |-> Relation(inA), B |-> Relation(inB)]

\* The members of A come from all kinds; B is reached from A, twice, and may
\* refer to A.
InA == {<<>>, <<"n", "w", "ring">>, <<"noNode", "n", "noWay", "w">>, <<"area", "one", "area">>, <<"B", "n", "B">>,
        <<"n", "B", "broken">>, <<"noRelation", "B", "area">>, <<"A", "n">>, <<"B", "far", "w">>, <<"noWay", "noRelation">>}
InB == {<<>>, <<"w">>, <<"A", "w">>, <<"noNode">>, <<"area", "n", "A">>, <<"B", "ring", "one">>, <<"broken", "lake", "far">>}
Todo == {<<>>, <<"A">>, <<"n", "A", "anonymous", "w">>, <<"A", "area">>, <<"one", "w", "ring">>, <<"area">>, <<"one">>, <<"broken">>, <<"far">>}
MCWorlds == {[features |-> FeaturesOf(a, b), todo |-> t] : a \in InA, b \in InB, t \in Todo}

-----------------------------------------------------------------------------
(* Rows: schemas and features.                                             *)

MCRowKeys == {"name", "ref", "addr:city", "fixme"}
MCCommonKeys == {"name", "ref"}
MCMatching == [w \in {"", "addr:*", "*me"} |->
                 CASE w = "" -> MCRowKeys [] w = "addr:*" -> {"addr:city"} [] OTHER -> {"name", "fixme"}]
MCColumns == {"id", "lat", "tags", "geom", "name", "fixme", "addr:*", "*me"}
MCSchemaTexts == {t \in UNION {[1 .. n -> MCColumns] : n \in 1 .. 3} : IsInjective(t)}

Tag(k) == [key |-> k, value |-> "value of " \o k]
MCFeatures == {[tags |-> t, size |-> n] :
                 t \in {<<>>, <<Tag("name")>>, <<Tag("name"), Tag("ref"), Tag("addr:city")>>, <<Tag("ref"), Tag("fixme"), Tag("addr:city")>>},
                 n \in {1, 3}}

-----------------------------------------------------------------------------
(* Texts: pieces of XML with the events that they stand for.               *)

MCNames == {"n", "m", "amp", "lt", "gt", "quot", "apos"}

Piece(t, e) == [text |-> t, events |-> e]
Joined(pieces) == [text |-> FlattenSeq([i \in DOMAIN pieces |-> pieces[i].text]),
                   events |-> FlattenSeq([i \in DOMAIN pieces |-> pieces[i].events])]
Strings == {<<>>, <<"n">>, <<"<", "n">>, <<"&", "amp", ";">>, <<"''", "'", ">">>}
AttributePiece(name, q, s) == Piece(<<" ", name, "=", q>> \o Escapes!WriteEscaped(s) \o <<q>>, <<<<"attr", name, s>>>>)
TextPiece(s) == Piece(Escapes!WriteEscaped(s), IF s = <<>> THEN <<>> ELSE <<<<"text", s>>>>)
Comment == Piece(<<"<", "!", "-", "-", "n", "-", ">", "<", "-", "-", ">">>, <<>>)
Declaration == Piece(<<"<", "?", "n", " ", ">", "?", ">">>, <<>>)
ElementPiece(name, attributes, content, blank) ==
  Joined(<<Piece(<<"<", name>>, <<<<"start", name>>>>), attributes,
           IF content.text = <<>> THEN Piece(blank \o <<"/", ">">>, <<>>)
           ELSE Piece(blank \o <<">">> \o content.text \o <<"<", "/", name, ">">>, content.events),
           Piece(<<>>, <<<<"end">>>>)>>)

NoPiece == Piece(<<>>, <<>>)
AttributeLists == {NoPiece, AttributePiece("n", "'", <<"&">>)} \union
  {Joined(<<AttributePiece("n", "''", s), AttributePiece("m", "'", t)>>) : s, t \in Strings}
Contents == {NoPiece, Comment} \union {TextPiece(s) : s \in Strings} \union
  {Joined(<<TextPiece(s), ElementPiece("m", a, c, b), TextPiece(t)>>) :
     s \in {<<>>, <<"<">>}, t \in {<<>>, <<"n", "&">>}, a \in {NoPiece, AttributePiece("m", "''", <<">">>)},
     c \in {NoPiece, TextPiece(<<"n">>), Comment, ElementPiece("n", NoPiece, NoPiece, <<>>)}, b \in {<<>>, <<" ">>}} \union
  {Joined(<<ElementPiece("m", NoPiece, NoPiece, <<>>), Comment, TextPiece(t)>>) : t \in Strings}
MCDocuments == {Joined(<<d, ElementPiece("n", a, c, <<" ">>)>>) : d \in {NoPiece, Declaration}, a \in AttributeLists, c \in Contents}
\* A control character is written as a numeric reference.
MCNumeric == {ElementPiece("n", NoPiece, TextPiece(<<"n", "ctl">>), <<>>)}

(* JSON.                                                                   *)

JsonStrings == {<<>>, <<"}">>, <<"a", Escapes!Quote>>, <<"\\">>, <<"]", "ctl">>, <<Escapes!Quote, "{">>, <<"\\", Escapes!Quote, "\\">>}
StringValue(s) == Escapes!JsonEscaped(s) \o <<Escapes!Quote>>
Simple == {<<"1">>} \union {<<Escapes!Quote>> \o StringValue(s) : s \in JsonStrings}
Lists(open, close, of) == {<<open, close>>} \union {<<open>> \o v \o <<close>> : v \in of} \union
                          {<<open>> \o v \o <<",">> \o w \o <<close>> : v \in of, w \in {<<"1">>, <<Escapes!Quote, Escapes!Quote>>}}
Inner == Lists("{", "}", Simple) \union Lists("[", "]", {<<"1">>, <<Escapes!Quote, "]", Escapes!Quote>>})
Outer(open, close) == Lists(open, close, Simple \union Inner)
After == {<<>>, <<"}", "]", Escapes!Quote>>}
MCValues ==
  {[kind |-> "object", text |-> Tail(v) \o a, size |-> Len(v) - 1, content |-> <<>>] : v \in Outer("{", "}"), a \in After} \union
  {[kind |-> "array", text |-> Tail(v) \o a, size |-> Len(v) - 1, content |-> <<>>] : v \in Outer("[", "]"), a \in After} \union
  {[kind |-> "string", text |-> StringValue(s) \o a, size |-> Len(StringValue(s)), content |-> s] : s \in JsonStrings, a \in After} \union
  {[kind |-> "value", text |-> b \o v \o a, size |-> Len(b \o v), content |-> <<>>] :
     b \in {<<>>, <<":">>}, v \in Simple \union Lists("[", "]", Simple) \union Lists("{", "}", Simple), a \in After}

-----------------------------------------------------------------------------
(* Numbers, strings and texts that are written and read back.              *)

UpTo(S, n) == UNION {[1 .. k -> S] : k \in 0 .. n}
JobsOf(name, items) == {[task |-> name, item |-> i] : i \in items}
MCMinNumber == -6
\* Characters: a minus, a plus, a point, digits and a letter.
NumberCharacters == {-3, -5, -2, 0, 1, 5, 49}
Messages == {<<>>, <<{}>>, <<{0}, {7}>>, [i \in 1 .. 15 |-> {i % 8, (3 * i) % 8}], [i \in 1 .. 9 |-> {}], [i \in 1 .. 6 |-> 0 .. 7]}
Mantissas == {-1250, -999, -105, -49, -50, -5, -1, 0, 1, 4, 95, 100, 999, 1250, 123456}
MCJobs ==
  JobsOf("varints", UpTo({-300, -3, -1, 0, 1, 64, 1000}, 3) \ {<<>>})
  \union JobsOf("strings", {<<s, t>> : s, t \in UpTo({0, 49}, 5)})
  \union JobsOf("checksum", Messages)
  \union JobsOf("decimal", UpTo(NumberCharacters, 4))
  \union {[task |-> "number", item |-> [mantissa |-> m, scale |-> s], precision |-> d] : m \in Mantissas, s \in 0 .. 4, d \in 0 .. 3}
  \union {[task |-> "version", item |-> <<a, b, c>>, suffix |-> s] : a, b, c \in {0, 1, 7}, s \in {<<>>, <<-3, 49, -2, 1>>, <<-5, 5>>}}
================================================================================
