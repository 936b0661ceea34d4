------------------------------ MODULE FeatureRows ------------------------------
(***************************************************************************)
(* Rows of a table of features.  A KeySchema says which columns a row has  *)
(* and which keys fall under a wildcard; a FeatureRow puts each tag of a   *)
(* feature into its column, or into the column "tags".  Texts that a row   *)
(* makes (tags and geometry) are in the buffer of a StringBuilder, which   *)
(* is used for one row after the other and moves when it grows; the cells  *)
(* hold views of it.                                                       *)
(*                                                                         *)
(* Text in the buffer is a sequence of chunks, each as long as one unit.   *)
(***************************************************************************)
EXTENDS Naturals, Integers, Sequences, FiniteSets, SequencesExt

CONSTANTS
  Keys,             \* ordinary keys
  CommonKeys,       \* those whose code is at most MAX_COMMON_KEY
  Wildcards,        \* "x*" or "*x", by name
  Everything,       \* the wildcard of the empty prefix
  Matching,         \* which keys a wildcard matches
  SchemaTexts,      \* sequences of column names and wildcards
  Features,         \* [tags: sequence of [key, value], size of its geometry]
  Capacity,         \* of a new buffer
  MaxRows

Specials == {"id", "lon", "lat", "tags", "geom"}
RowsAssumption ==
  /\ CommonKeys \subseteq Keys /\ Keys \intersect (Specials \union Wildcards) = {}
  /\ Matching[Everything] = Keys

VARIABLES
  asked,            \* the columns and wildcards that the schema is made of
  schema,           \* [columns, special, globals, locals, wildcards]
  feature,
  builder,          \* [at, capacity, text]: at is the address of the buffer
  row,              \* [kind, text] or [kind, at, from, size]
  todo,             \* the tags still to be walked
  tagsSize,
  step, rows

vars == <<asked, schema, feature, builder, row, todo, tagsSize, step, rows>>

-----------------------------------------------------------------------------
(* KeySchema.                                                              *)

NoColumns == [columns |-> <<>>, special |-> [s \in Specials |-> 0], globals |-> [k \in Keys |-> 0],
              locals |-> [k \in Keys |-> 0], wildcards |-> {}]

AddKey(s, name) ==
  LET column == Len(s.columns) + 1
      added == [s EXCEPT !.columns = Append(@, name)]
  IN  CASE name \in Wildcards -> [s EXCEPT !.wildcards = @ \union {name}]
        [] name \in Specials -> [added EXCEPT !.special[name] = column]
        [] name \in CommonKeys -> [added EXCEPT !.globals[name] = column]
        [] OTHER -> [added EXCEPT !.locals[name] = column]

\* A column "tags" without any wildcard takes all keys.
\* Wrong: also if there are wildcards.
DefaultWildcardAlways(s) == IF s.special["tags"] > 0 THEN [s EXCEPT !.wildcards = @ \union {Everything}] ELSE s
DefaultWildcard(s) ==
  IF s.special["tags"] > 0 /\ s.wildcards = {} THEN [s EXCEPT !.wildcards = {Everything}] ELSE s
SchemaOf(text) == DefaultWildcard(FoldLeft(AddKey, NoColumns, text))

WILDCARD == -1
CheckWildcard(s, key) == IF \E w \in s.wildcards : key \in Matching[w] THEN WILDCARD ELSE 0
ColumnOfGlobal(s, key) == IF s.globals[key] > 0 THEN s.globals[key] ELSE CheckWildcard(s, key)
ColumnOfLocal(s, key) == IF s.locals[key] > 0 THEN s.locals[key] ELSE CheckWildcard(s, key)

\* A tag has a global key if the key is common.
\* Wrong: all keys are looked up among the global ones.
ColumnOfGlobals(s, tag) == ColumnOfGlobal(s, tag.key)
Column(s, tag) == IF tag.key \in CommonKeys THEN ColumnOfGlobal(s, tag.key) ELSE ColumnOfLocal(s, tag.key)

-----------------------------------------------------------------------------
(* The buffer.                                                             *)

Blank == [kind |-> "own", text |-> <<>>]
Own(text) == [kind |-> "own", text |-> text]        \* in the cell, or in the store
View(at, from, size) == [kind |-> "view", at |-> at, from |-> from, size |-> size]

\* A buffer that grows is moved; another may be put where it was.
Written(b, chunks) ==
  IF Len(b.text) + Len(chunks) <= b.capacity THEN [b EXCEPT !.text = @ \o chunks]
  ELSE [at |-> b.at + 1, capacity |-> 2 * (Len(b.text) + Len(chunks)), text |-> b.text \o chunks]

\* What a cell shows now.
Shown(cell) == IF cell.kind = "own" THEN cell.text
               ELSE IF cell.at # builder.at THEN <<"freed">> ELSE SubSeq(builder.text, cell.from + 1, cell.from + cell.size)

Geometry(f) == [i \in 1 .. f.size |-> "geometry"]
TagText(tag) == <<tag.key, tag.value>>

-----------------------------------------------------------------------------
(* FeatureRow.                                                             *)

Init ==
  /\ asked \in SchemaTexts /\ schema = SchemaOf(asked)
  /\ feature \in Features
  /\ builder = [at |-> 0, capacity |-> Capacity, text |-> <<>>]
  /\ row = <<>> /\ todo = <<>> /\ tagsSize = 0 /\ step = "begin" /\ rows = 0

\* Wrong: what was written for the row before is kept.
ClearedNot(b) == b
Cleared(b) == [b EXCEPT !.text = <<>>]

Begin ==
  /\ step = "begin" /\ rows < MaxRows
  /\ builder' = Cleared(builder)
  /\ row' = [i \in DOMAIN schema.columns |->
               CASE i = schema.special["id"] -> Own(<<"id">>)
                 [] i = schema.special["lon"] -> Own(<<"lon">>)
                 [] i = schema.special["lat"] -> Own(<<"lat">>)
                 [] OTHER -> Blank]
  /\ todo' = feature.tags /\ step' = "tags" /\ rows' = rows + 1
  /\ UNCHANGED <<asked, schema, feature, tagsSize>>

Separator == IF builder.text = <<>> THEN <<"{">> ELSE <<",">>

PutTag ==
  /\ step = "tags" /\ todo # <<>>
  /\ \E column \in {Column(schema, Head(todo))} :
       /\ row' = IF column > 0 THEN [row EXCEPT ![column] = Own(<<Head(todo).value>>)] ELSE row
       /\ builder' = IF column < 0 /\ schema.special["tags"] > 0
                     THEN Written(Written(builder, Separator), TagText(Head(todo))) ELSE builder
  /\ todo' = Tail(todo)
  /\ UNCHANGED <<asked, schema, feature, tagsSize, step, rows>>

EndTags ==
  /\ step = "tags" /\ todo = <<>>
  /\ builder' = IF builder.text = <<>> THEN builder ELSE Written(builder, <<"}">>)
  /\ tagsSize' = Len(builder'.text) /\ step' = "geometry"
  /\ UNCHANGED <<asked, schema, feature, row, todo, rows>>

\* The view of the tags is taken after the geometry is written.
\* Wrong: it is of the buffer as it was before.
ViewTagsEarly(before, after) == View(before.at, 0, tagsSize)
ViewTags(before, after) == View(after.at, 0, tagsSize)

WriteGeometry ==
  /\ step = "geometry"
  /\ builder' = IF schema.special["geom"] > 0 THEN Written(builder, Geometry(feature)) ELSE builder
  /\ row' = [i \in DOMAIN row |->
               CASE i = schema.special["tags"] -> ViewTags(builder, builder')
                 [] i = schema.special["geom"] -> View(builder'.at, tagsSize, Len(builder'.text) - tagsSize)
                 [] OTHER -> row[i]]
  /\ step' = "done"
  /\ UNCHANGED <<asked, schema, feature, todo, tagsSize, rows>>

\* The row is used before the next is begun.
NextRow ==
  /\ step = "done" /\ rows < MaxRows
  /\ \E f \in Features : feature' = f
  /\ step' = "begin"
  /\ UNCHANGED <<asked, schema, builder, row, todo, tagsSize, rows>>

Next == Begin \/ PutTag \/ EndTags \/ WriteGeometry \/ NextRow

Spec == Init /\ [][Next]_vars

-----------------------------------------------------------------------------
(* FilteredTagWalker and TagUtils::getTags.                                *)

\* Which tags a formatter with the schema writes, and which a client gets; a
\* schema without columns lets a client have all tags.
Walked(s, tags) == SelectSeq(tags, LAMBDA t : Column(s, t) # 0)
Got(s, tags) == IF s.columns = <<>> THEN tags ELSE Walked(s, tags)

-----------------------------------------------------------------------------
(* Correctness.                                                            *)

ValueOf(key) == IF \E t \in ToSet(feature.tags) : t.key = key
                THEN <<(CHOOSE t \in ToSet(feature.tags) : t.key = key).value>> ELSE <<>>
AskedWildcards == IF ToSet(asked) \intersect Wildcards = {} THEN {Everything} ELSE ToSet(asked) \intersect Wildcards
UnderWildcard(key) == key \notin ToSet(asked) /\ \E w \in AskedWildcards : key \in Matching[w]
Others == SelectSeq(feature.tags, LAMBDA t : UnderWildcard(t.key))
TagsText == IF Others = <<>> THEN <<>>
            ELSE FlattenSeq([i \in DOMAIN Others |-> <<IF i = 1 THEN "{" ELSE ",">> \o TagText(Others[i])]) \o <<"}">>

\* When a row is done each cell shows what its column is named for: the value of
\* the key, all other tags that a wildcard matches, or the geometry, though the
\* buffer may have moved (FeatureRow.cpp, lines 113-145).
CellsRight ==
  step = "done" =>
    \A i \in DOMAIN row :
      Shown(row[i]) = CASE schema.columns[i] = "tags" -> TagsText
                        [] schema.columns[i] = "geom" -> Geometry(feature)
                        [] schema.columns[i] \in Keys -> ValueOf(schema.columns[i])
                        [] OTHER -> <<schema.columns[i]>>

\* No tag is shown twice, and those that a client gets with the schema are those
\* that are shown, if there is a column for them (TagUtils.h, lines 18-42).
TagsShownOnce ==
  step = "done" /\ schema.special["tags"] > 0 =>
    \A i \in DOMAIN feature.tags : \E t \in {feature.tags[i]} :
      \E cells \in {{c \in DOMAIN row : t.value \in ToSet(Shown(row[c]))}} :
        /\ Cardinality(cells) <= 1
        /\ cells # {} <=> t \in ToSet(Got(schema, feature.tags))
================================================================================
