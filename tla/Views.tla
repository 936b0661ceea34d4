-------------------------------- MODULE Views --------------------------------
(***************************************************************************)
(* Collections of features.  A View (View.h), wrapped by Features, Nodes,  *)
(* Ways and Relations, is a kind (the whole world, or what is related to   *)
(* one feature), a set of types, and references to a store, a matcher and  *)
(* a filter.  Views are values: each operation makes a new one that shares *)
(* these objects by reference counts, and the last view of a store closes  *)
(* it.  The matcher that accepts everything is a part of its store.        *)
(*                                                                         *)
(* What a query or a filter accepts is known here by its types and, for a  *)
(* filter, its box (a set of cells).  Some sequences of calls lose what    *)
(* was asked for; asked keeps, besides the calls, which these were.        *)
(***************************************************************************)
EXTENDS Naturals, FiniteSets, FiniteSetsExt, Sequences, SequencesExt, Functions

CONSTANTS
  NoView, NoFilter,
  Slots,        \* the variables of the program that hold collections
  Stores,       \* library files
  Queries,      \* records [name, types]
  Filters,      \* records [name, types, box, strict]
  TypeSets,     \* what ways(), nodes() and relations() narrow to
  Boxes, World, \* sets of cells, and the set of all cells
  Related,      \* features of which members, nodes or parents are asked
  Capacity      \* no more matchers and filters are made once this many exist

Types == {"node", "way", "relation"}

VARIABLES
  views,      \* the view in each slot, or NoView
  asked,      \* what the program asked for when it made that view
  stores,     \* the reference count of each store; 0: closed
  matchers,   \* the matchers, by number
  filters,    \* the filters, by number
  freed       \* has the last call used an object that was no more there?

vars == <<views, asked, stores, matchers, filters, freed>>
All(s) == s                                  \* names the store's allMatcher_
NoFeature == "no feature"

-----------------------------------------------------------------------------
(* Counted objects.  h is the heap: the stores, matchers and filters.      *)

Heap == [stores |-> stores, matchers |-> matchers, filters |-> filters, freed |-> FALSE]
UseHeap(h) == /\ stores' = h.stores /\ matchers' = h.matchers
              /\ filters' = h.filters /\ freed' = h.freed

AddStore(h, s) == IF h.stores[s] = 0 THEN [h EXCEPT !.freed = TRUE] ELSE [h EXCEPT !.stores[s] = @ + 1]

\* With its last reference, the store and the matcher inside it are gone.
ReleaseStore(h, s) ==
  IF h.stores[s] = 0 THEN [h EXCEPT !.freed = TRUE]
  ELSE [h EXCEPT !.stores[s] = @ - 1,
                 !.matchers = IF h.stores[s] = 1 THEN Restrict(@, DOMAIN @ \ {All(s)}) ELSE @]

AddMatcher(h, m) == IF m \in DOMAIN h.matchers THEN [h EXCEPT !.matchers[m].count = @ + 1]
                                               ELSE [h EXCEPT !.freed = TRUE]
AddFilter(h, f) == CASE f = NoFilter -> h
                     [] f \in DOMAIN h.filters -> [h EXCEPT !.filters[f].count = @ + 1]
                     [] OTHER -> [h EXCEPT !.freed = TRUE]

\* MatcherHolder::dealloc and ~ComboFilter release what the object holds.
RECURSIVE ReleaseMatcher(_, _), ReleaseFilter(_, _)
ReleaseMatcher(h, m) ==
  CASE m \notin DOMAIN h.matchers -> [h EXCEPT !.freed = TRUE]
    [] h.matchers[m].count > 1 -> [h EXCEPT !.matchers[m].count = @ - 1]
    [] OTHER -> LET parts == h.matchers[m].parts
                    g == [h EXCEPT !.matchers = Restrict(@, DOMAIN @ \ {m})]
                IN  IF parts = <<>> THEN g ELSE ReleaseMatcher(ReleaseMatcher(g, parts[1]), parts[2])
ReleaseFilter(h, f) ==
  CASE f = NoFilter -> h
    [] f \notin DOMAIN h.filters -> [h EXCEPT !.freed = TRUE]
    [] h.filters[f].count > 1 -> [h EXCEPT !.filters[f].count = @ - 1]
    [] OTHER -> FoldLeft(LAMBDA g, part : ReleaseFilter(g, part),
                         [h EXCEPT !.filters = Restrict(@, DOMAIN @ \ {f})], h.filters[f].parts)

Unused(objects) == Min((1 .. Cardinality(DOMAIN objects) + 1) \ DOMAIN objects)

Put(objects, id, object) == [x \in DOMAIN objects \union {id} |-> IF x = id THEN object ELSE objects[x]]

\* getMatcher(query): a new matcher, with one reference, whatever was
\* compiled before.
NewMatcher(h, id, q) ==
  [h EXCEPT !.matchers = Put(@, id, [count |-> 1, of |-> {q.name}, types |-> q.types, parts |-> <<>>])]

\* Wrong: combine() drops the second matcher's part.
CombineFirst(h, id, a, b) ==
  [h EXCEPT !.matchers = Put(@, id, [count |-> 1, parts |-> <<a, b>>, of |-> @[a].of,
                                     types |-> @[a].types \intersect @[b].types])]

\* MatcherHolder::combine: the new matcher takes over both references.
Combine(h, id, a, b) ==
  [h EXCEPT !.matchers = Put(@, id, [count |-> 1, parts |-> <<a, b>>, of |-> @[a].of \union @[b].of,
                                     types |-> @[a].types \intersect @[b].types])]

\* Wrong: a new object that nobody refers to yet.
NewFilterUncounted(h, id, f) ==
  [h EXCEPT !.filters = Put(@, id, [count |-> 0, of |-> {f.name}, types |-> f.types, box |-> f.box,
                                    strict |-> f.strict, parts |-> <<>>])]

NewFilter(h, id, f) ==
  [h EXCEPT !.filters = Put(@, id, [count |-> 1, of |-> {f.name}, types |-> f.types, box |-> f.box,
                                    strict |-> f.strict, parts |-> <<>>])]

\* ComboFilter(a, b) adds a reference to each simple filter in a and b; its
\* box is the smaller of theirs, or what is in both if both are strict.
ComboFilter(h, id, a, b) ==
  LET Parts(f) == IF h.filters[f].parts = <<>> THEN <<f>> ELSE h.filters[f].parts
      parts == Parts(a) \o Parts(b)
      g == FoldLeft(LAMBDA k, f : AddFilter(k, f), h, parts)
      boxA == h.filters[a].box
      boxB == h.filters[b].box
      strict == h.filters[a].strict /\ h.filters[b].strict
      disjoint == strict /\ boxA \intersect boxB = {}
  IN  [g EXCEPT !.filters = Put(@, id,
         [count |-> 1, of |-> @[a].of \union @[b].of, strict |-> strict, parts |-> parts,
          types |-> IF disjoint THEN {} ELSE @[a].types \intersect @[b].types,
          box |-> CASE strict -> boxA \intersect boxB
                    [] ~strict /\ Cardinality(boxA) < Cardinality(boxB) -> boxA [] OTHER -> boxB])]

-----------------------------------------------------------------------------
(* Views.  A context is a union: <<"box", b>> or <<"feature", f>>.         *)

View(kind, uses, types, store, context, matcher, filter) ==
  [kind |-> kind, uses |-> uses, types |-> types, store |-> store,
   context |-> context, matcher |-> matcher, filter |-> filter]

\* The references that a new view of these objects takes.
Share(h, v) == AddStore(AddFilter(AddMatcher(h, v.matcher), v.filter), v.store)

\* Wrong: the store first, then the matcher that may be a part of it.
DestroyStoreFirst(h, v) == ReleaseFilter(ReleaseMatcher(ReleaseStore(h, v.store), v.matcher), v.filter)

Destroy(h, v) == ReleaseStore(ReleaseFilter(ReleaseMatcher(h, v.matcher), v.filter), v.store)

EmptyOf(v) == View("empty", {}, {}, v.store, <<"feature", NoFeature>>, v.matcher, NoFilter)

\* operator=: each object that differs is released, then the other's taken,
\* in the order store, matcher, filter.
Replace(h, v, w) ==
  LET h1 == IF v.store = w.store THEN h ELSE AddStore(ReleaseStore(h, v.store), w.store)
      h2 == IF v.matcher = w.matcher THEN h1 ELSE AddMatcher(ReleaseMatcher(h1, v.matcher), w.matcher)
  IN  IF v.filter = w.filter THEN h2 ELSE AddFilter(ReleaseFilter(h2, v.filter), w.filter)

Free(slot) == views[slot] = NoView
Objects == Cardinality(DOMAIN matchers \ Stores) + Cardinality(DOMAIN filters)
Room == Objects < Capacity
Simple == /\ \A m \in DOMAIN matchers : matchers[m].parts = <<>>
          /\ \A f \in DOMAIN filters : filters[f].parts = <<>>

\* What the calls that made a view asked for.  own: has it a query of its own,
\* or a filter, or only those of a second operand of &?  dropped: queries that
\* a later call has put aside; lost: what else is not as asked.
Asked(kind, feature, types, store) ==
  [kind |-> kind, feature |-> feature, types |-> types, store |-> store,
   queries |-> {}, filters |-> {}, box |-> World,
   own |-> {}, dropped |-> {}, lost |-> {}]

\* The cells that the filters asked for accept.
Within(w) == {c \in World : \A f \in Filters : f.name \in w.filters => c \in f.box}

\* Of an empty view that is rightly empty, no more need be known.
Settled(v, w) ==
  IF v.kind = "empty" /\ (w.types = {} \/ Within(w) \intersect w.box = {})
  THEN Asked("empty", NoFeature, {}, v.store) ELSE w

\* The view an operation made initializes a variable, or is assigned to one
\* that holds a view (perhaps the one it was made from), and destroyed.
Make(slot, h, v, wanted) ==
  /\ views' = [views EXCEPT ![slot] = v] /\ asked' = [asked EXCEPT ![slot] = Settled(v, wanted)]
  /\ IF Free(slot) THEN UseHeap(h)
     ELSE UseHeap(Destroy(Replace(h, views[slot], v), v))
MakeEmpty(slot, v, wanted) == Make(slot, Share(Heap, EmptyOf(v)), EmptyOf(v), wanted)

Losing(w, what, happens) == IF happens THEN [w EXCEPT !.lost = @ \union {what}] ELSE w
\* A query that came with the second operand of & has no flag.
Borrowed(w) == IF "matcher" \in w.own THEN {} ELSE w.queries

\* Features(golFile): openSingle() and a view of the whole world.
Open(slot, s) ==
  /\ Free(slot)
  /\ \E h \in {[Heap EXCEPT !.stores[s] = @ + 1,
                  !.matchers = IF stores[s] > 0 THEN @
                    ELSE Put(@, All(s), [count |-> 1, of |-> {}, types |-> Types, parts |-> <<>>])]} :
       Make(slot, AddMatcher(h, All(s)),
            View("world", {"bounds"}, Types, s, <<"box", World>>, All(s), NoFilter),
            Asked("world", NoFeature, Types, s))

Copy(from, slot) ==
  /\ Free(slot) /\ ~Free(from)
  /\ Make(slot, Share(Heap, views[from]), views[from], asked[from])

Assign(from, slot) ==
  /\ ~Free(slot) /\ ~Free(from) /\ slot # from
  /\ UseHeap(Replace(Heap, views[slot], views[from]))
  /\ views' = [views EXCEPT ![slot] = views[from]]
  /\ asked' = [asked EXCEPT ![slot] = asked[from]]

Drop(slot) ==
  /\ ~Free(slot)
  /\ UseHeap(Destroy(Heap, views[slot]))
  /\ views' = [views EXCEPT ![slot] = NoView]
  /\ asked' = [asked EXCEPT ![slot] = NoView]

\* operator&(types): nodes(), ways(), relations().
OfTypes(from, slot, types) ==
  /\ ~Free(from)
  /\ LET v == views[from]
         wanted == [asked[from] EXCEPT !.types = @ \intersect types]
     IN  IF v.types \intersect types = {} THEN MakeEmpty(slot, v, wanted)
         ELSE Make(slot, Share(Heap, v), [v EXCEPT !.types = @ \intersect types], wanted)

\* Wrong: the view's own matcher is replaced.
MatcherWithout(v, h, id, q) == NewMatcher(h, id, q)

\* The matcher of withQuery() is number id, or the second of two.
MatcherWith(v, h, id, q) ==
  IF "matcher" \notin v.uses THEN NewMatcher(h, id, q)
  ELSE \* the query's own matcher gets the number after id
       LET second == Unused(Put(h.matchers, id, {}))
       IN  Combine(AddMatcher(NewMatcher(h, second, q), v.matcher), id, v.matcher, second)

WithQuery(from, slot, q) ==
  /\ ~Free(from)
  /\ Room
  /\ LET v == views[from]
         id == Unused(matchers)
         types == v.types \intersect q.types
         wanted == [asked[from] EXCEPT !.types = @ \intersect q.types, !.queries = @ \union {q.name},
                      !.own = @ \union {"matcher"}, !.dropped = @ \union Borrowed(asked[from])]
     IN  IF types = {} THEN MakeEmpty(slot, v, wanted)
         ELSE Make(slot, AddStore(AddFilter(MatcherWith(v, Heap, id, q), v.filter), v.store),
                   [v EXCEPT !.types = types, !.matcher = id, !.uses = @ \union {"matcher"}], wanted)

\* Wrong: the reference to the new filter is kept when a combination holds it.
FilterKept(v, h, id, f) ==
  IF v.filter = NoFilter THEN NewFilter(h, id, f)
  ELSE LET second == Unused(Put(h.filters, id, {}))
       IN  ComboFilter(NewFilter(h, second, f), id, v.filter, second)

\* The filter of withFilter(): number id.
FilterWith(v, h, id, f) ==
  IF v.filter = NoFilter THEN NewFilter(h, id, f)
  ELSE LET second == Unused(Put(h.filters, id, {}))
       IN  ReleaseFilter(ComboFilter(NewFilter(h, second, f), id, v.filter, second), second)

\* A view of what is related to a feature that was made from one of the world
\* has that one's flag for bounds, which share their place with the feature.
Misplaced(v) == v.kind \notin {"world", "empty"} /\ "bounds" \in v.uses

\* The box of a filter replaces that of the view, and a feature, if the view was
\* made from one with a box.
WithFilter(from, slot, f) ==
  /\ ~Free(from)
  /\ Room
  /\ \E v \in {views[from]}, id \in {Unused(filters)} :
     \E h \in {FilterWith(v, Heap, id, f)} :
     \E w \in {[asked[from] EXCEPT !.types = @ \intersect f.types, !.filters = @ \union {f.name},
                                   !.own = @ \union {"filter"}]} :
     \E wanted \in {Losing(Losing(w, "box", w.box # World), "feature", Misplaced(v))} :
       IF v.types \intersect h.filters[id].types = {}
       THEN Make(slot, Share(ReleaseFilter(h, id), EmptyOf(v)), EmptyOf(v), wanted)
       ELSE Make(slot, AddStore(AddMatcher(h, v.matcher), v.store),
                 [v EXCEPT !.types = @ \intersect h.filters[id].types, !.filter = id,
                           !.uses = @ \union {"filter"},
                           !.context = IF "bounds" \in v.uses THEN <<"box", h.filters[id].box>> ELSE @],
                 wanted)

\* Wrong: a second box replaces the first.
NarrowedReplacing(v, box) == box

Narrowed(v, box) == IF "active" \in v.uses THEN box \intersect v.context[2] ELSE box

\* withBounds(box); a view that uses no bounds throws.  The bounds of a view
\* with a feature are the bits of its address.
WithBounds(from, slot, box) ==
  /\ ~Free(from)
  /\ "bounds" \in views[from].uses
  /\ \E bounds \in IF views[from].context[1] = "box" THEN {views[from].context[2]} ELSE SUBSET World :
     \E v \in {[views[from] EXCEPT !.context = <<"box", bounds>>]} : \E b \in {Narrowed(v, box)} :
     \E wanted \in {Losing([asked[from] EXCEPT !.box = @ \intersect box], "feature", Misplaced(v))} :
       IF b = {} THEN MakeEmpty(slot, v, wanted)
       ELSE Make(slot, Share(Heap, v),
                 [v EXCEPT !.context = <<"box", b>>, !.uses = @ \union {"active"}], wanted)

\* withOther(): the intersection of two views of the whole world.  The box and
\* the flags are those of the first, whatever the second has.
WithOther(from, other, slot) ==
  /\ ~Free(from) /\ ~Free(other)
  /\ Objects <= Capacity /\ Simple
  /\ \E v \in {views[from]}, w \in {views[other]} :
     \E types \in {v.types \intersect w.types} :
     \E x \in {asked[other]} :
     \E both \in {[asked[from] EXCEPT !.types = @ \intersect x.types,
                      !.queries = @ \union x.queries, !.filters = @ \union x.filters,
                      !.box = @ \intersect x.box, !.lost = @ \union x.lost,
                      !.dropped = @ \union x.dropped \union
                                  IF "matcher" \in asked[from].own THEN Borrowed(x) ELSE asked[from].queries]} :
     \E wanted \in {Losing(both, "box", x.box # World)} :
       IF v.store # w.store \/ types = {} THEN MakeEmpty(slot, v, [wanted EXCEPT !.types = {}])
       ELSE /\ v.kind = "world" /\ w.kind = "world"
            /\ \E id \in {Unused(matchers)}, fid \in {Unused(filters)} :
               \E two \in {{"matcher"} \subseteq v.uses \intersect w.uses} :
               \E matcher \in {CASE two -> id [] ~two /\ "matcher" \in v.uses -> v.matcher [] OTHER -> w.matcher} :
               \E filter \in {CASE v.filter = NoFilter -> w.filter [] w.filter = NoFilter -> v.filter [] OTHER -> fid} :
               \E h1 \in {IF two THEN Combine(AddMatcher(AddMatcher(Heap, v.matcher), w.matcher), id, v.matcher, w.matcher)
                          ELSE AddMatcher(Heap, matcher)} :
               \E h2 \in {IF filter = fid THEN ComboFilter(h1, fid, v.filter, w.filter) ELSE AddFilter(h1, filter)} :
                 Make(slot, AddStore(h2, v.store),
                      [v EXCEPT !.uses = @ \union {"active"}, !.types = types,
                                !.matcher = matcher, !.filter = filter], wanted)

\* What a program calls on a collection: features("w[highway]"), features(box),
\* features(xy), features & others.
Constrained(from, slot) ==
  \/ \E q \in Queries : WithQuery(from, slot, q)
  \/ \E b \in Boxes : WithBounds(from, slot, b)
  \/ \E other \in Slots : WithOther(from, other, slot)

\* intersecting(), within(), containing(), crossing(), maxMetersFrom(): each
\* makes a filter.
Filtered(from, slot) == \E f \in Filters : WithFilter(from, slot, f)

-----------------------------------------------------------------------------
(* Views of related features.                                              *)

\* The types of what is related to a feature (members() of a way are its
\* nodes()).
RelatedTypes(r, kind) ==
  CASE kind = "nodes" -> IF r.kind = "way" THEN {"node"} ELSE {}
    [] kind = "members" -> IF r.kind = "relation" THEN Types ELSE {}
    [] kind = "parents" -> r.parents

\* The query narrows them, except in parentWaysOf(), for an anonymous node.
TypesOfRelated(r, kind, q) ==
  CASE q = NoView -> RelatedTypes(r, kind)
    [] q # NoView /\ kind = "parents" /\ r.kind = "anonymousNode" -> {"way"}
    [] OTHER -> RelatedTypes(r, kind) \intersect q.types

\* FeatureBase's nodes(), members() and parents(): View::related(), or an
\* empty view.
RelatedTo(from, slot, r, kind, q) ==
  /\ Free(slot) /\ ~Free(from)
  /\ Room
  /\ \E s \in {views[from].store}, id \in {Unused(matchers)} :
     \E wanted \in {[Asked(kind, r.name, RelatedTypes(r, kind), s) EXCEPT
                        !.types = IF q = NoView THEN @ ELSE @ \intersect q.types,
                        !.queries = IF q = NoView THEN {} ELSE {q.name},
                        !.own = IF q = NoView THEN {} ELSE {"matcher"},
                        !.lost = IF TypesOfRelated(r, kind, q) = RelatedTypes(r, kind) \intersect
                                      (IF q = NoView THEN Types ELSE q.types)
                                 THEN {} ELSE {"types"}]} :
       IF RelatedTypes(r, kind) = {}
       THEN Make(slot, AddStore(AddMatcher(Heap, All(s)), s),
                 View("empty", {}, {}, s, <<"feature", NoFeature>>, All(s), NoFilter), wanted)
       ELSE \E types \in {TypesOfRelated(r, kind, q)} :
              Make(slot, AddStore(IF q = NoView THEN AddMatcher(Heap, All(s)) ELSE NewMatcher(Heap, id, q), s),
                   View(IF types = {} THEN "empty" ELSE kind, IF q = NoView THEN {} ELSE {"matcher"}, types, s,
                        <<"feature", r.name>>, IF q = NoView THEN All(s) ELSE id, NoFilter), wanted)

\* Features' nodesOf(), membersOf() and parentsOf() keep the view's flags, but
\* the feature takes the place of the box.
RelatedOf(from, slot, r, kind) ==
  /\ Free(slot) /\ ~Free(from)
  /\ views[from].kind \in {"world", "empty"}
  /\ \E v \in {views[from]} : \E types \in {v.types \intersect RelatedTypes(r, kind)} :
     \E w \in {[asked[from] EXCEPT !.kind = kind, !.feature = r.name, !.types = @ \intersect RelatedTypes(r, kind)]} :
     \E wanted \in {Losing(w, "box", w.box # World)} :
       IF v.kind = "empty" \/ types = {} THEN MakeEmpty(slot, v, wanted)
       ELSE Make(slot, Share(Heap, v),
                 [v EXCEPT !.kind = kind, !.types = types, !.context = <<"feature", r.name>>], wanted)

-----------------------------------------------------------------------------
Init ==
  /\ views = [s \in Slots |-> NoView] /\ asked = views
  /\ stores = [s \in Stores |-> 0]
  /\ matchers = <<>> /\ filters = <<>> /\ freed = FALSE

Next == \E slot \in Slots :
  \/ \E s \in Stores : Open(slot, s)
  \/ Drop(slot)
  \/ \E from \in Slots :
       \/ Copy(from, slot)
       \/ Assign(from, slot)
       \/ \E types \in TypeSets : OfTypes(from, slot, types)
       \/ Constrained(from, slot)
       \/ Filtered(from, slot)
       \/ \E r \in Related : \E kind \in {"nodes", "parents"} \union {IF r.kind = "way" THEN "nodes" ELSE "members"} :
            \/ \E q \in Queries \union {NoView} : RelatedTo(from, slot, r, kind, q)
            \/ RelatedOf(from, slot, r, kind)

Spec == Init /\ [][Next]_vars

-----------------------------------------------------------------------------
\* TypeOK: every variable holds a value of its kind.
TypeOK ==
  /\ DOMAIN views = Slots /\ DOMAIN asked = Slots
  /\ stores \in [Stores -> Nat] /\ freed \in BOOLEAN
  /\ \A m \in DOMAIN matchers : matchers[m].count > 0 /\ matchers[m].types \subseteq Types
  /\ \A f \in DOMAIN filters : filters[f].count > 0 /\ filters[f].box \subseteq World

Live == {s \in Slots : views[s] # NoView}

\* Every count is the number of the references there are (so nothing leaks),
\* what a view refers to is there, and a store is open exactly as long as a view
\* refers to it: "When the last Features object referring to a FeatureStore is
\* destroyed, the associated Geographic Object Library is automatically closed"
\* (api/Features.h).
RefsExact ==
  LET Held(objects, x) == MapThenSumSet(LAMBDA y : Cardinality({i \in DOMAIN objects[y].parts : objects[y].parts[i] = x}),
                                        DOMAIN objects)
  IN  /\ \A s \in Stores : stores[s] = Cardinality({x \in Live : views[x].store = s})
      /\ \A m \in DOMAIN matchers :
           matchers[m].count = Cardinality({x \in Live : views[x].matcher = m}) + Held(matchers, m)
             + (IF \E s \in Stores : m = All(s) THEN 1 ELSE 0)
      /\ \A f \in DOMAIN filters :
           filters[f].count = Cardinality({x \in Live : views[x].filter = f}) + Held(filters, f)
      /\ \A x \in Live : views[x].matcher \in DOMAIN matchers
                         /\ views[x].filter \in DOMAIN filters \union {NoFilter}

\* A view that uses the matcher inside its store, and is the last of that store.
LastOfStore(slot) ==
  ~Free(slot) /\ views[slot].matcher = All(views[slot].store) /\ stores[views[slot].store] = 1

\* An object is used after it was freed in one kind of call, and each time in
\* that: when the last view of a store, which has no query, is assigned one of
\* another store (View::operator= gives up the store before the matcher in it).
FreedOnlyByAssigning ==
  [][freed' <=> \E slot \in Slots : LastOfStore(slot) /\ views'[slot] # NoView
                                     /\ views'[slot].store # views[slot].store]_vars

\* A view misses nothing that was asked for: it is empty only if the constraints
\* exclude each other, and has no constraint that was not asked for.
NothingMissed == \A x \in Live : \E v \in {views[x]}, w \in {asked[x]} :
  "feature" \notin w.lost =>
    /\ w.types \subseteq v.types \/ Within(w) \intersect w.box = {}
    /\ v.kind # "empty" =>
         /\ matchers[v.matcher].of \subseteq w.queries
         /\ v.kind = w.kind /\ v.store = w.store
         /\ IF v.kind = "world" THEN Within(w) \intersect w.box \subseteq v.context[2]
            ELSE v.context = <<"feature", w.feature>>

\* And it has "the additional constraint" of each call (api/Features.h), but for
\* those that the code drops: a box that a filter, a feature or the second operand
\* of & replaces; a query that came with the second operand, when another comes;
\* the query's types, for the ways of an anonymous node.  A box or a filter for
\* features related to another replaces that feature, if the view was made from
\* one of the world.
NarrowedAsAsked == \A x \in Live : views[x].kind # "empty" => \E v \in {views[x]}, w \in {asked[x]} :
  /\ "types" \notin w.lost => v.types = w.types
  /\ w.queries \ w.dropped \subseteq matchers[v.matcher].of
  /\ (IF v.filter = NoFilter THEN {} ELSE filters[v.filter].of) = w.filters
  /\ v.uses \intersect {"matcher", "filter"} = w.own
  /\ w.lost \intersect {"box", "feature"} = {} =>
       Within(w) \intersect w.box = Within(w) \intersect (IF v.kind = "world" THEN v.context[2] ELSE World)
  /\ "feature" \in w.lost <=> v.kind # "world" /\ v.context[1] = "box"

\* A view owns what it uses, misses nothing and, but for the cases named above,
\* is as its calls asked.
ViewsExact == [](RefsExact /\ NothingMissed /\ NarrowedAsAsked) /\ FreedOnlyByAssigning

-----------------------------------------------------------------------------
(* What comments say of the code and is not so *)

\* Nothing is used after it was freed: "Store must be released *last*, since the
\* default matcher resides within it" (View.h:133).
NothingUsedAfterFree == ~freed

\* Each collection is "a copy of the Features object, with the additional
\* constraint" (api/Features.h): none is dropped.
NothingDropped == \A x \in Live : views[x].kind # "empty" =>
  "box" \notin asked[x].lost /\ asked[x].queries = matchers[views[x].matcher].of

\* The feature in a view's context is the one it was made for ("If used,
\* USES_BOUNDS flag must be clear", View.h:31).
RelatedIntact == \A x \in Live :
  views[x].kind \in {"nodes", "members", "parents"} => views[x].context = <<"feature", asked[x].feature>>
=============================================================================
