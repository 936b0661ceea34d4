-------------------------------- MODULE Members --------------------------------
(***************************************************************************)
(* Walking the tables that relate features: the members of a relation, the *)
(* nodes of a way, the parents of a node (FeatureIteratorBase.cpp), and    *)
(* the recursive walks through relations that may contain each other       *)
(* (SpatialFilter.cpp, WithinFilter.cpp, ConnectedFilter.cpp,              *)
(* MemberCollection.cpp).  A tile may not be there; a walk skips what it   *)
(* cannot reach.                                                           *)
(*                                                                         *)
(* A job is what the program asks for, over one library (Jobs is a set of  *)
(* sets of them):                                                          *)
(*   kind    members, rings, nodes, parents, collect, points, any, within  *)
(*   of      the feature asked about                                       *)
(*   lists   for each table, the features (and roles) it lists             *)
(*   tips    the number of each tile, missing the tiles that are not there *)
(*   types, wanted, roles   what the view's types, its matcher and filter, *)
(*           and its role filter accept (NoRoles: there is none)           *)
(*   matched the view has a matcher                                        *)
(*   near    the tiles near the filter's box, inside the relations in it   *)
(*   outside the features that lie outside the filter's area               *)
(*   path    the coordinates stored for the way, area whether it is one    *)
(***************************************************************************)
EXTENDS Integers, Sequences, FiniteSets, SequencesExt

-----------------------------------------------------------------------------
(* The tables that list a relation's members, a way's feature nodes and a  *)
(* feature's parent relations, as 16-bit words (RelatedIterator.h).  An    *)
(* entry for a feature in the same tile is a 32-bit relative pointer; one  *)
(* for a foreign feature is the change of its export number (TEX) and, if  *)
(* it is in another tile than the foreign feature before it, the change of *)
(* the tile number (TIP).  Both deltas have a narrow and a wide form.      *)
(* Member tables have a further flag, for an entry that changes the role.  *)
(*                                                                         *)
(* Encode stands for the tool that writes these tables.                    *)

\* A layout: the number of extra flags, the bytes from one word to the next
\* and the TEX that the first delta refers to.
Layout == [members   |-> [extra |-> 1, step |->  2, startTex |-> 1024],
           nodes     |-> [extra |-> 0, step |-> -2, startTex |-> 2048],
           relations |-> [extra |-> 0, step |->  2, startTex |-> 2048]]
StartTip == 16384
NoExports == 0                              \* pExports_ == nullptr

Bit(n, k) == (n \div 2^k) % 2 = 1
Signed(word) == IF word >= 32768 THEN word - 65536 ELSE word
Long(upper, lower) == Signed(upper) * 65536 + lower

\* MemberFlags
LastEntry(member) == Bit(member, 0)
Foreign(member) == Bit(member, 1)
DifferentRole(member) == Bit(member, 2)
DifferentTile(l, member) == Bit(member, 2 + l.extra)
Wide(l, word) == Bit(word, 3 + l.extra)

Role(code, str) == [code |-> code, str |-> str]       \* a global string, or the address of a local one
EmptyRole == Role(0, 0)
RejectedRole == Role(-2, 0)

-----------------------------------------------------------------------------
(* Reading.  A table is [words, at]: its words in the order they are read  *)
(* and the address of the first.  The iterator is [next, tip, tex, member, *)
(* exports, accepted, role, missing]; next counts words from 1.            *)

Start(l) == [next |-> 1, tip |-> StartTip, tex |-> l.startTex, member |-> 0, exports |-> NoExports,
             accepted |-> TRUE, role |-> EmptyRole, missing |-> FALSE]

\* Wrong: a delta of either width is read as a narrow one.
TipDeltaNarrow(words, i) == [delta |-> Signed(words[i]) \div 2, next |-> i + 1]

TipDelta(words, i) ==
  IF Bit(words[i], 0) THEN [delta |-> Long(words[i + 1], words[i]) \div 2, next |-> i + 2]
                      ELSE [delta |-> Signed(words[i]) \div 2, next |-> i + 1]

\* An entry's first word tells whether there is a second.
TwoWords(l, word) == ~Foreign(word) \/ Wide(l, word)
ReadLink(l, words, it) ==
  IF TwoWords(l, words[it.next])
  THEN [it EXCEPT !.member = Long(words[it.next + 1], words[it.next]), !.next = @ + 2]
  ELSE [it EXCEPT !.member = Signed(words[it.next]), !.next = @ + 1]

\* accepted: the numbers of the tiles that the iterator does not pass over.
MoveTile(it, jump, accepted) ==
  [it EXCEPT !.tip = @ + jump.delta, !.next = jump.next, !.exports = NoExports,
             !.accepted = it.tip + jump.delta \in accepted]

ReadTip(l, words, it, accepted) ==
  IF Foreign(it.member) /\ DifferentTile(l, it.member) THEN MoveTile(it, TipDelta(words, it.next), accepted) ELSE it

AddTex(l, it) == IF Foreign(it.member) THEN [it EXCEPT !.tex = @ + it.member \div 2^(4 + l.extra)] ELSE it

\* The words of the entry up to its role.  A foreign entry moves tip and tex
\* even if the member is then rejected.
ReadEntry(l, words, it, accepted) == AddTex(l, ReadTip(l, words, ReadLink(l, words, it), accepted))

\* A common role is one word, a local string a 32-bit pointer relative to its
\* own place.
RoleAt(table, l, i) ==
  IF Bit(table.words[i], 0) THEN Role(table.words[i] \div 2, 0)
  ELSE Role(-1, table.at + l.step * (i - 1) + Long(table.words[i + 1], table.words[i]) \div 2)
RoleWords(role) == IF role.code >= 0 THEN 1 ELSE 2
NamesRole(l, it) == l.extra > 0 /\ DifferentRole(it.member)
TakeRole(it, role, accepted) ==
  [it EXCEPT !.next = @ + RoleWords(role), !.role = IF accepted THEN role ELSE RejectedRole]

\* The address that the pointer in the entry that starts at word i gives.
LocalAddress(l, table, it, i) ==
  IF l.extra > 0 THEN ((table.at + l.step * (i - 1)) \div 4) * 4 + (it.member \div 8) * 4
                 ELSE table.at + l.step * (i - 1) + it.member \div 2

-----------------------------------------------------------------------------
(* Writing.  An entry is [foreign, tip, tex, address, role]; the caller    *)
(* says where the first word will be.                                      *)

Fits(n, bits) == n >= -(2^(bits - 1)) /\ n < 2^(bits - 1)
Low(n) == n % 65536
High(n) == (n \div 65536) % 65536

EncodeRole(here, role) ==
  IF role.code >= 0 THEN <<2 * role.code + 1>>
  ELSE LET pointer == 2 * (role.str - here) IN <<Low(pointer), High(pointer)>>

\* One more entry, after the words and the place reached in "so".
EncodeEntry(l, at, so, entry, last) ==
  LET here      == at + l.step * Len(so.words)
      newRole   == l.extra > 0 /\ entry.role # so.role
      texDelta  == entry.tex - so.tex
      tipDelta  == entry.tip - so.tip
      moved     == entry.tip # so.from
      wide      == ~Fits(texDelta, 12 - l.extra)
      flags     == (IF last THEN 1 ELSE 0) + (IF entry.foreign THEN 2 ELSE 0) + (IF newRole THEN 4 ELSE 0)
      link      == IF entry.foreign
                   THEN texDelta * 2^(4 + l.extra) + flags + 2^(2 + l.extra) * (IF moved THEN 1 ELSE 0)
                                                           + 2^(3 + l.extra) * (IF wide THEN 1 ELSE 0)
                   ELSE 2 * (entry.address - (IF l.extra > 0 THEN here - (here % 4) ELSE here)) + flags
      tipWords  == CASE ~entry.foreign \/ ~moved -> <<>>
                     [] Fits(tipDelta, 15) -> <<Low(2 * tipDelta)>>
                     [] OTHER -> <<Low(2 * tipDelta + 1), High(2 * tipDelta + 1)>>
      linkWords == IF entry.foreign /\ ~wide THEN <<Low(link)>> ELSE <<Low(link), High(link)>>
      before    == so.words \o linkWords \o tipWords
      roleWords == IF newRole THEN EncodeRole(at + l.step * Len(before), entry.role) ELSE <<>>
  IN  [words |-> before \o roleWords, role |-> IF newRole THEN entry.role ELSE so.role,
       tip  |-> IF entry.foreign THEN entry.tip ELSE so.tip,
       from |-> IF entry.foreign THEN entry.tip ELSE so.from,
       tex  |-> IF entry.foreign THEN entry.tex ELSE so.tex]

RECURSIVE EncodeFrom(_, _, _, _, _)
EncodeFrom(l, at, so, entries, i) ==
  IF i > Len(entries) THEN so.words
  ELSE EncodeFrom(l, at, EncodeEntry(l, at, so, entries[i], i = Len(entries)), entries, i + 1)

Encode(l, at, entries) ==
  [at |-> at,
   words |-> EncodeFrom(l, at, [words |-> <<>>, role |-> EmptyRole, tip |-> StartTip, from |-> -1,
                                tex |-> l.startTex], entries, 1)]

-----------------------------------------------------------------------------

CONSTANTS
  NoFeature, Fetching, NoRoles,
  Features,
  Kind, TileOf, Address, Tex,    \* functions on Features; Address: in its tile
  Place,                         \* the coordinate of each node
  Areas,                         \* relations that represent an area
  Placeholders,                  \* stubs for features that the library lacks
  TableOf,                       \* [id |-> [layout, owner, at]]
  Rings,                         \* the codes of the roles outer and inner
  Jobs

NoPlace == 0                                \* Coordinate::isNull

VARIABLES
  job,
  tables,     \* the words of each table
  stack,      \* the iterators in use, the innermost last
  seen,       \* RecursionGuard: the parent and childRelations_
  cursor,     \* WayNodeCursor
  ahead,      \* nextFeatureNode
  ways,       \* the ways that the query of the parent ways has yet to yield
  stage,      \* of the parents: "ways", then "relations"
  current,    \* FeatureIteratorBase::current_
  out,        \* what the program has been given
  where       \* the value that a recursive walk builds up

vars == <<job, tables, stack, seen, cursor, ahead, ways, stage, current, out, where>>

Top == stack[Len(stack)]
LayoutOf(id) == Layout[TableOf[id].layout]
Entry(j, id, e) ==
  [foreign |-> TileOf[e.feature] # TileOf[TableOf[id].owner],
   tip |-> j.tips[TileOf[e.feature]], tex |-> Tex[e.feature], address |-> Address[e.feature], role |-> e.role]
TablesFor(j) == [id \in DOMAIN j.lists |->
  Encode(LayoutOf(id), TableOf[id].at, [i \in DOMAIN j.lists[id] |-> Entry(j, id, j.lists[id][i])])]

-----------------------------------------------------------------------------
(* One pass of the loop in RelatedIteratorBase::next().                    *)

Recursive(j) == j.kind \in {"collect", "points", "any", "within"}

AcceptRing(role) == role.code \in Rings
AcceptRole(j, role) == CASE j.kind = "members" -> j.roles = NoRoles \/ role \in j.roles
                         [] j.kind = "rings" -> AcceptRing(role) [] OTHER -> TRUE

\* Only the walk that looks for an intersecting member passes over tiles, and
\* only if the relation does not lie within the box.
AcceptTile(j, id) ==
  IF j.kind = "any" /\ TableOf[id].owner \notin j.inside THEN {j.tips[t] : t \in j.near} ELSE Int

\* What next() returns.  The matcher and the filter are not asked by the
\* walks that take every member, nor about the nodes of a way that is
\* perhaps a parent.
Accept(j, id, f) ==
  CASE j.kind = "members" -> Kind[f] \in j.types /\ f \in j.wanted
    [] j.kind = "rings" -> Kind[f] = "way"
    [] j.kind \in {"nodes", "parents"} /\ TableOf[id].owner = j.of -> f \in j.wanted
    [] OTHER -> TRUE

\* Before the first entry that names a role, the role is the empty one, which
\* a role filter may not accept.
FirstRole == IF AcceptRole(job, EmptyRole) THEN EmptyRole ELSE RejectedRole
New(id) == [id |-> id, it |-> [Start(LayoutOf(id)) EXCEPT !.role = FirstRole]]

\* readAndAcceptRole.  A role that is not accepted stays so for the entries
\* after it that do not change the role.
ReadRole(l, table, it) ==
  IF ~NamesRole(l, it) THEN it
  ELSE LET role == RoleAt(table, l, it.next) IN TakeRole(it, role, AcceptRole(job, role))

After(frame) ==
  ReadRole(LayoutOf(frame.id), tables[frame.id],
           ReadEntry(LayoutOf(frame.id), tables[frame.id].words, frame.it, AcceptTile(job, frame.id)))

\* The tile numbered tip, if it is there.
Fetched(tip) == {t \in DOMAIN job.tips \ job.missing : job.tips[t] = tip}

\* The exports of a tile, once fetched, are kept until the tile changes.
Fetch(it) ==
  IF it.role = RejectedRole \/ ~Foreign(it.member) \/ it.exports # NoExports \/ ~it.accepted THEN it
  ELSE IF Fetched(it.tip) = {} THEN [it EXCEPT !.missing = TRUE] ELSE [it EXCEPT !.exports = it.tip]

Pointed(frame, it) ==
  CASE it.role = RejectedRole -> {}
    [] it.role # RejectedRole /\ Foreign(it.member) ->
         {f \in Features : TileOf[f] \in Fetched(it.exports) /\ Tex[f] = it.tex}
    [] OTHER -> {f \in Features : /\ TileOf[f] = TileOf[TableOf[frame.id].owner]
                    /\ Address[f] = LocalAddress(LayoutOf(frame.id), tables[frame.id], it, frame.it.next)}

\* A pass of the innermost iterator: the frame after it, and the feature that
\* it yields, if any.
Yield(frame, it, fs) == [frame |-> [frame EXCEPT !.it = it],
                         yields |-> IF fs = {} THEN NoFeature ELSE CHOOSE f \in fs : TRUE]
YieldOf(frame, it) == Yield(frame, it, {f \in Pointed(frame, it) : Accept(job, frame.id, f)})
Passed == YieldOf(Top, Fetch(After(Top)))

More == stack # <<>> /\ ~LastEntry(Top.it.member)
Resume(frame) == [stack EXCEPT ![Len(stack)] = frame]

\* The loop goes on: the entry has no feature for this iterator.
SkipEntry ==
  /\ More /\ (job.kind = "nodes" => ahead = Fetching)
  /\ \E p \in {Passed} : p.yields = NoFeature /\ stack' = Resume(p.frame)
  /\ UNCHANGED <<job, tables, seen, cursor, ahead, ways, stage, current, out, where>>

-----------------------------------------------------------------------------
(* Members, rings: fetchNext() for RELATION_MEMBERS, AreaMemberIterator.   *)

Item(f, role) == [feature |-> f, role |-> role]
Anonymous(xy) == [xy |-> xy]

\* A feature has two words: of an anonymous node its id and its coordinate, else
\* the pointer and the role, which is null unless it has been set.
NullFeature == [type |-> "null", first |-> NoFeature, second |-> EmptyRole]
IsAnonymousNode(f) == f.type = "anonymous"
\* What the program reads of a copy.
CopyOf(f) == IF IsAnonymousNode(f) THEN f.second ELSE Item(f.first, f.second)

SetTypedFeature(f) == [current EXCEPT !.type = Kind[f], !.first = f]
SetRole(f, role) == [f EXCEPT !.second = role]
\* setType() and setFeature(): the second word stays.
SetNode(f) == [current EXCEPT !.type = "node", !.first = f]
\* The id is not told apart from others.
SetIdAndXY(xy) == [type |-> "anonymous", first |-> NoFeature, second |-> Anonymous(xy)]
Hand(f) == current' = f /\ out' = Append(out, CopyOf(f))
EndOfFeatures == current' = [current EXCEPT !.type = "null"] /\ out' = out

YieldMember ==
  /\ job.kind \in {"members", "rings"} /\ More
  /\ \E p \in {Passed} :
       /\ p.yields # NoFeature
       /\ stack' = Resume(p.frame)
       /\ IF job.kind = "members" THEN Hand(SetRole(SetTypedFeature(p.yields), p.frame.it.role))
          ELSE out' = Append(out, Item(p.yields, p.frame.it.role)) /\ current' = current
  /\ UNCHANGED <<job, tables, seen, cursor, ahead, ways, stage, where>>

MembersEnd ==
  /\ job.kind \in {"members", "rings"} /\ stack # <<>> /\ ~More
  /\ stack' = <<>> /\ EndOfFeatures
  /\ UNCHANGED <<job, tables, seen, cursor, ahead, ways, stage, where>>

-----------------------------------------------------------------------------
(* The nodes of a way.  With a matcher only the feature nodes are given,   *)
(* else all, and the next feature node is always fetched ahead.            *)

\* WayNodeCursor(way): the first coordinate is there at once.
CursorOf(j) == [read |-> 1, xy |-> j.path[1], first |-> IF j.area THEN j.path[1] ELSE NoPlace]

\* WayNodeCursor::next(): past the end, the first coordinate of an area comes
\* once more, then none.
Moved(c) == IF c.read < Len(job.path) THEN [c EXCEPT !.read = @ + 1, !.xy = job.path[c.read + 1]]
            ELSE [c EXCEPT !.xy = c.first, !.first = NoPlace]

\* featureNodes.next(), over as many entries as it takes.
FetchNode ==
  /\ job.kind = "nodes" /\ ahead = Fetching
  /\ IF More THEN \E p \in {Passed} : /\ p.yields # NoFeature
                                      /\ stack' = Resume(p.frame) /\ ahead' = p.yields
             ELSE ahead' = NoFeature /\ stack' = stack
  /\ UNCHANGED <<job, tables, seen, cursor, ways, stage, current, out, where>>

\* WAYNODES_FEATURES
YieldFeatureNode ==
  /\ job.kind = "nodes" /\ job.matched /\ stage = "running" /\ ahead # Fetching
  /\ IF ahead = NoFeature THEN stage' = "done" /\ EndOfFeatures /\ ahead' = ahead
     ELSE Hand(SetNode(ahead)) /\ ahead' = Fetching /\ stage' = stage
  /\ UNCHANGED <<job, tables, stack, seen, cursor, ways, where>>

\* Wrong: the node is given, and its successor is not fetched.
YieldAnyNodeStuck ==
  /\ job.kind = "nodes" /\ ~job.matched /\ stage = "running" /\ ahead # Fetching
  /\ cursor' = Moved(cursor)
  /\ IF cursor.xy = NoPlace THEN stage' = "done" /\ EndOfFeatures /\ ahead' = ahead
     ELSE /\ Hand(IF ahead # NoFeature /\ Place[ahead] = cursor.xy THEN SetNode(ahead) ELSE SetIdAndXY(cursor.xy))
          /\ UNCHANGED <<ahead, stage>>
  /\ UNCHANGED <<job, tables, stack, seen, ways, where>>

\* WAYNODES_ALL: a feature node where the one fetched ahead lies.
YieldAnyNode ==
  /\ job.kind = "nodes" /\ ~job.matched /\ stage = "running" /\ ahead # Fetching
  /\ cursor' = Moved(cursor)
  /\ IF cursor.xy = NoPlace THEN stage' = "done" /\ EndOfFeatures /\ ahead' = ahead
     ELSE IF ahead # NoFeature /\ Place[ahead] = cursor.xy
     THEN Hand(SetNode(ahead)) /\ ahead' = Fetching /\ stage' = stage
     ELSE Hand(SetIdAndXY(cursor.xy)) /\ UNCHANGED <<ahead, stage>>
  /\ UNCHANGED <<job, tables, stack, seen, ways, where>>

-----------------------------------------------------------------------------
(* The parents of a node: first the ways that a query of its place yields, *)
(* in any order, whose tables list it (FeatureNodeFilter), then the        *)
(* relations in its own table.                                             *)

TablesOf(f, layout) == {id \in DOMAIN job.lists : TableOf[id].owner = f /\ TableOf[id].layout = layout}

AskWay ==
  /\ job.kind = "parents" /\ stack = <<>> /\ stage = "ways"
  /\ \E w \in ways :
       /\ ways' = ways \ {w}
       /\ stack' = IF w \in job.wanted THEN [i \in 1 .. Cardinality(TablesOf(w, "nodes"))
                                              |-> New(CHOOSE id \in TablesOf(w, "nodes") : TRUE)]
                   ELSE <<>>
  /\ UNCHANGED <<job, tables, seen, cursor, ahead, stage, current, out, where>>

\* Wrong: any node at the same place will do.
AcceptWayByPlace ==
  /\ job.kind = "parents" /\ stage = "ways" /\ More
  /\ \E p \in {Passed} :
       /\ p.yields # NoFeature
       /\ IF Place[p.yields] = Place[job.of]
          THEN stack' = <<>> /\ Hand(SetTypedFeature(TableOf[Top.id].owner))
          ELSE stack' = Resume(p.frame) /\ UNCHANGED <<current, out>>
  /\ UNCHANGED <<job, tables, seen, cursor, ahead, ways, stage, where>>

\* The way is a parent once its table has yielded the very node.
AcceptWay ==
  /\ job.kind = "parents" /\ stage = "ways" /\ More
  /\ \E p \in {Passed} :
       /\ p.yields # NoFeature
       /\ IF p.yields = job.of
          THEN stack' = <<>> /\ Hand(SetTypedFeature(TableOf[Top.id].owner))
          ELSE stack' = Resume(p.frame) /\ UNCHANGED <<current, out>>
  /\ UNCHANGED <<job, tables, seen, cursor, ahead, ways, stage, where>>

RejectWay ==
  /\ job.kind = "parents" /\ stage = "ways" /\ stack # <<>> /\ ~More
  /\ stack' = <<>>
  /\ UNCHANGED <<job, tables, seen, cursor, ahead, ways, stage, current, out, where>>

\* switchToParentRelationsIterator, once the query has no more ways; a view
\* of the ways alone ends here.
SwitchToRelations ==
  /\ job.kind = "parents" /\ stack = <<>> /\ stage = "ways" /\ ways = {}
  /\ stage' = "relations"
  /\ stack' = IF "relation" \in job.types THEN <<New(CHOOSE id \in TablesOf(job.of, "relations") : TRUE)>> ELSE <<>>
  /\ UNCHANGED <<job, tables, seen, cursor, ahead, ways, current, out, where>>

YieldRelation ==
  /\ job.kind = "parents" /\ stage = "relations" /\ stack # <<>>
  /\ IF More THEN \E p \in {Passed} : /\ p.yields # NoFeature
                                      /\ stack' = Resume(p.frame) /\ Hand(SetTypedFeature(p.yields))
             ELSE stack' = <<>> /\ EndOfFeatures
  /\ UNCHANGED <<job, tables, seen, cursor, ahead, ways, stage, where>>

-----------------------------------------------------------------------------
(* The recursive walks.  collect pushes nodes, ways and areas and descends *)
(* into other relations; points takes the points of nodes and ways; any    *)
(* ends at the first member that is accepted; within ends at the first     *)
(* that lies outside.  The place of a member relative to the filter is -1, *)
(* 0 or 1, and it is accepted if that is 1.                                *)

\* The members of an area are walked with no guard, and relations among them
\* count for nothing.
Unguarded == job.kind = "any" /\ job.of \in Areas
Descends(f) == Kind[f] = "relation" /\ (job.kind \in {"points", "within"} \/ f \notin Areas)

\* Wrong: the guard holds only the relation being read.
EnterUnguarded(p) ==
  /\ p.yields # NoFeature /\ Kind[p.yields] = "relation" /\ p.yields \notin Placeholders
  /\ p.yields # TableOf[Top.id].owner /\ Descends(p.yields)
  /\ \E id \in TablesOf(p.yields, "members") : stack' = Append(Resume(p.frame), New(id))
  /\ seen' = seen \union {p.yields}
  /\ UNCHANGED <<out, where>>

\* A relation that was not seen before is walked in its turn.
Enter(p) ==
  /\ p.yields # NoFeature /\ Kind[p.yields] = "relation" /\ p.yields \notin Placeholders
  /\ p.yields \notin seen /\ Descends(p.yields) /\ ~Unguarded
  /\ \E id \in TablesOf(p.yields, "members") : stack' = Append(Resume(p.frame), New(id))
  /\ seen' = seen \union {p.yields}
  /\ UNCHANGED <<out, where>>

\* Placeholders and relations seen before are passed over.
PassOver(p) ==
  /\ p.yields \in Placeholders \/ (Kind[p.yields] = "relation" /\ (p.yields \in seen \/ Unguarded))
  /\ stack' = Resume(p.frame)
  /\ UNCHANGED <<seen, out, where>>

Greater(a, b) == IF a > b THEN a ELSE b

\* Wrong: what a way or a node gives replaces what the others gave.
TakeLast(p, place) ==
  /\ p.yields # NoFeature /\ p.yields \notin Placeholders /\ ~Descends(p.yields)
  /\ Kind[p.yields] = "relation" => p.yields \notin seen /\ ~Unguarded
  /\ seen' = IF Kind[p.yields] = "relation" THEN seen \union {p.yields} ELSE seen
  /\ out' = Append(out, Item(p.yields, EmptyRole))
  /\ where' = place
  /\ stack' = IF (job.kind = "any" /\ place = 1) \/ (job.kind = "within" /\ place = -1)
              THEN <<>> ELSE Resume(p.frame)

\* A member that counts itself.  The first that is accepted, or lies outside,
\* ends the whole walk.
Take(p, place) ==
  /\ p.yields # NoFeature /\ p.yields \notin Placeholders /\ ~Descends(p.yields)
  /\ Kind[p.yields] = "relation" => p.yields \notin seen /\ ~Unguarded
  /\ seen' = IF Kind[p.yields] = "relation" THEN seen \union {p.yields} ELSE seen
  /\ out' = Append(out, Item(p.yields, EmptyRole))
  /\ where' = IF place = -1 /\ job.kind = "within" THEN -1 ELSE Greater(where, place)
  /\ stack' = IF (job.kind = "any" /\ place = 1) \/ (job.kind = "within" /\ place = -1)
              THEN <<>> ELSE Resume(p.frame)

PlaceOf(f) == IF f \in job.wanted THEN 1 ELSE IF f \in job.outside THEN -1 ELSE 0

WalkMember ==
  /\ Recursive(job) /\ More
  /\ \E p \in {Passed} : Enter(p) \/ (p.yields # NoFeature /\ (PassOver(p) \/ Take(p, PlaceOf(p.yields))))
  /\ UNCHANGED <<job, tables, cursor, ahead, ways, stage, current>>

\* The end of a relation's table: back to the relation that lists it.
Return ==
  /\ Recursive(job) /\ stack # <<>> /\ ~More
  /\ stack' = Front(stack)
  /\ UNCHANGED <<job, tables, seen, cursor, ahead, ways, stage, current, out, where>>

-----------------------------------------------------------------------------
First(j) == TablesOf(j.of, IF j.kind = "nodes" THEN "nodes" ELSE "members")

\* FeatureIteratorBase(view), acceptFeature, MemberCollection.  A way without
\* feature nodes has no table of them, and nothing for a matcher to accept.
Init ==
  /\ \E jobs \in Jobs : job \in jobs
  /\ tables = TablesFor(job)
  /\ stack = IF job.kind = "parents" \/ First(job) = {} THEN <<>> ELSE <<New(CHOOSE id \in First(job) : TRUE)>>
  /\ seen = IF Recursive(job) THEN {job.of} ELSE {}
  /\ cursor = IF job.kind = "nodes" THEN CursorOf(job) ELSE [read |-> 0, xy |-> NoPlace, first |-> NoPlace]
  /\ ahead = IF job.kind = "nodes" THEN Fetching ELSE NoFeature
  /\ ways = IF job.kind = "parents" THEN job.ways ELSE {}
  /\ stage = CASE job.kind = "parents" -> "ways"
               [] job.kind = "nodes" /\ job.matched /\ First(job) = {} -> "done" [] OTHER -> "running"
  /\ current = IF job.kind = "nodes" /\ First(job) # {} THEN [NullFeature EXCEPT !.type = "node"] ELSE NullFeature
  /\ out = <<>>
  /\ where = 0

Ended == stack = <<>> /\ stage \notin {"ways", IF job.kind = "nodes" THEN "running" ELSE "ways"}
Done == (Ended \/ stage = "done") /\ UNCHANGED vars

Next == \/ SkipEntry \/ YieldMember \/ MembersEnd
        \/ FetchNode \/ YieldFeatureNode \/ YieldAnyNode
        \/ AskWay \/ AcceptWay \/ RejectWay \/ SwitchToRelations \/ YieldRelation
        \/ WalkMember \/ Return \/ Done

Spec == Init /\ [][Next]_vars

-----------------------------------------------------------------------------
(* Correctness.                                                            *)

\* What a table lists that is not in a tile that is missing.
Reachable(id) == SelectSeq(job.lists[id], LAMBDA e : TileOf[e.feature] \notin job.missing
                                                    \/ TileOf[e.feature] = TileOf[TableOf[id].owner])
Given(id, test(_)) == LET es == SelectSeq(Reachable(id), test)
                      IN  [i \in DOMAIN es |-> Item(es[i].feature, es[i].role)]
The(ids) == CHOOSE id \in ids : TRUE

\* The members of a relation, or of its rings, are given in the order listed,
\* each with its own role: those that are reachable and accepted, and no
\* others, whatever the deltas between them and whoever was passed over
\* between them (RelatedIterator.h, MemberIterator.h, AreaMemberIterator.h).
ListedExactly ==
  (job.kind \in {"members", "rings"} /\ Ended) =>
    LET given == Given(The(First(job)), LAMBDA e : /\ AcceptRole(job, e.role)
                   /\ Accept(job, The(First(job)), e.feature))
    IN  out = given

\* Every coordinate of a way is given once, in order, and an area's first once
\* more at the end; the feature nodes among them are those the way's table
\* lists, in that order.  With a matcher it is the accepted ones alone
\* (FeatureIteratorBase.cpp, WayNodeCursor.h).
NodesInOrder ==
  (job.kind = "nodes" /\ stage = "done") =>
    LET listed == IF First(job) = {} THEN <<>> ELSE Given(The(First(job)), LAMBDA e : e.feature \in job.wanted)
        PlaceOfItem(item) == IF "xy" \in DOMAIN item THEN item.xy ELSE Place[item.feature]
        nodes == SelectSeq(out, LAMBDA item : "feature" \in DOMAIN item)
    IN  /\ [i \in DOMAIN nodes |-> nodes[i].feature] = [i \in DOMAIN listed |-> listed[i].feature]
        /\ ~job.matched => [i \in DOMAIN out |-> PlaceOfItem(out[i])]
                           = (IF job.area THEN Append(job.path, job.path[1]) ELSE job.path)

\* The parents of a node: each way that lists this very node, not another at
\* its place, and then the relations in its table
\* (FeatureNodeFilter.cpp, FeatureIteratorBase.cpp).
ParentsExact ==
  (job.kind = "parents" /\ Ended) =>
    LET parents == {w \in job.ways \intersect job.wanted : \E id \in TablesOf(w, "nodes") :
                      \E i \in DOMAIN Reachable(id) : Reachable(id)[i].feature = job.of}
        relations == IF "relation" \in job.types
                     THEN Given(The(TablesOf(job.of, "relations")), LAMBDA e : e.feature \in job.wanted) ELSE <<>>
        n == Cardinality(parents)
    IN  /\ Len(out) = n + Len(relations)
        /\ {out[i].feature : i \in 1 .. n} = parents
        /\ SubSeq(out, n + 1, Len(out)) = relations

\* Only members have roles.  This does not hold: a node that follows an anonymous
\* one has the coordinate of that for its role (Feature.h, 77-78).
RolesOfMembers == job.kind \in {"nodes", "parents"} =>
  \A i \in DOMAIN out : "feature" \in DOMAIN out[i] => out[i].role = EmptyRole

\* The relations that a recursive walk reaches: the smallest set that has the
\* one asked about and the relations it descends to from there.
Lists(r, f) == \E id \in TablesOf(r, "members") : \E i \in DOMAIN Reachable(id) : Reachable(id)[i].feature = f
Into(r) == {f \in Features \ Placeholders : Lists(r, f) /\ Descends(f) /\ ~Unguarded}
Relations == {f \in Features : Kind[f] = "relation"}
Reached(into) == {f \in Relations :
  \A rs \in SUBSET Relations : (job.of \in rs /\ \A g \in rs : into[g] \subseteq rs) => f \in rs}
Counted(r) == {f \in Features \ Placeholders :
  Lists(r, f) /\ ~Descends(f) /\ (Kind[f] = "relation" => f # job.of /\ ~Unguarded)}
AllCounted == UNION {Counted(r) : r \in Reached([g \in Relations |-> Into(g)])}

\* A recursive walk visits each relation once, however the relations contain
\* each other, and misses no member it can reach; with a filter, its answer
\* is the one that all these members together give, though it stops early and
\* skips the tiles away from the filter's box (SpatialFilter.cpp,
\* WithinFilter.cpp, ConnectedFilter.cpp, MemberCollection.cpp).
WalkedOnce ==
  Recursive(job) =>
    /\ \A i, j \in DOMAIN stack : i # j => stack[i].id # stack[j].id
    /\ Ended => \E counted \in {AllCounted}, taken \in {{out[i].feature : i \in DOMAIN out}} :
                /\ taken \subseteq counted
                /\ CASE job.kind \in {"collect", "points"} -> taken = counted
                     [] job.kind = "any" -> (where = 1) = (counted \intersect job.wanted # {})
                     [] OTHER -> where = (CASE counted \intersect job.outside # {} -> -1
                                            [] counted \intersect job.wanted # {} -> 1 [] OTHER -> 0)
================================================================================
