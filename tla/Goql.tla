-------------------------------- MODULE Goql --------------------------------
(* A GOQL query from its parsed form to the matcher that is asked about features:
   the tables of tags a feature is stored with; the graph of operations that
   MatcherParser, Selector, TagClause, OpGraph and MatcherValidator make of a query;
   and its code, from MatcherCompiler, MatcherEmitter, MatcherEngine and
   MatcherHolder.

   A query is a sequence of selectors [types, clauses]; a clause is
   [key, form, ops], where a key is [name, code, cat], the form is "has" ([k]),
   "not" ([!k]), "pos" or "neg" (with value operations), and a value operation is
   [op, arg]: op "STRING" takes a string, the pattern operations and "REGEX" the
   set of strings they hold of, the numeric ones a number.

   A graph is a sequence of nodes; a node's number is its address in the source's
   arena, 0 the null pointer.  Copying a node copies its record.

   Init chooses a query; the actions parse it, validate it (or choose one of the
   built-in matchers), place one operation at a time, set the jumps, and combine the
   matcher with another.  The properties ask it about every feature in Features. *)
EXTENDS Integers, Sequences, FiniteSets, TLC

-----------------------------------------------------------------------------
(* The tags of a feature as a GOL stores them, and the ways the library reads
   them: TagTablePtr, TagIterator, TagWalker, and the StringTable that gives
   strings their codes.

   A table has its global tags (keys with a code up to MaxCommonKey) in the
   order of their codes and its local tags (any other key) in the order of their
   keys.  Keys and strings are numbers.  The two highest bits and the two lowest
   of a global key's 16 bits are kept: the last tag is marked by the top bit, and
   the code searched for is compared with all of them. *)

CONSTANTS MaxCommonKey

MaxCommonKeyAssumption == MaxCommonKey \in 1 .. 8190

NarrowNumber == 0
GlobalString == 1
WideNumber == 2
LocalString == 3

Tags == [key : Nat, type : 0 .. 3, val : Int]
NoTag == [type |-> -1, val |-> 0]
ValueOf(tag) == [type |-> tag.type, val |-> tag.val]

-----------------------------------------------------------------------------
(* Strings and their codes *)

LeastOf(S) == CHOOSE x \in S : \A y \in S : x <= y

\* Number of buckets: above the string count, a power of two.
BucketCount(count) == LeastOf({n \in {2 ^ k : k \in 0 .. 16} : n > count})

\* The hash table of the strings 0 .. count - 1, string 0 (the empty one) left
\* out, the lower codes ahead in each chain.
Chains(count, hash) ==
  LET bucketOf(code) == hash[code] % BucketCount(count)
      chain(b) == {code \in 1 .. count - 1 : bucketOf(code) = b}
      above(code) == {c \in chain(bucketOf(code)) : c > code}
  IN [buckets |-> [b \in 0 .. BucketCount(count) - 1 |->
                     IF chain(b) = {} THEN 0 ELSE LeastOf(chain(b))],
      next |-> [code \in 0 .. count - 1 |->
                  IF code = 0 \/ above(code) = {} THEN 0 ELSE LeastOf(above(code))]]

\* Wrong: the head of a chain is not compared.
GetCodeSkipsHead(chains, hash, str) ==
  LET follow[code \in DOMAIN chains.next] ==
        IF code = 0 THEN -1 ELSE IF code = str THEN code ELSE follow[chains.next[code]]
  IN IF str = 0 THEN 0
     ELSE follow[chains.next[chains.buckets[hash[str] % Cardinality(DOMAIN chains.buckets)]]]

\* The code of a string, or -1.  (A string that has one is named by it.)
GetCode(chains, hash, str) ==
  LET follow[code \in DOMAIN chains.next] ==
        IF code = 0 THEN -1 ELSE IF code = str THEN code ELSE follow[chains.next[code]]
  IN IF str = 0 THEN 0
     ELSE follow[chains.buckets[hash[str] % Cardinality(DOMAIN chains.buckets)]]

-----------------------------------------------------------------------------
(* Lookups *)

LastFlag == 2 ^ 15

\* What the global part of a table without global tags holds.
EmptyMarker == <<[key |-> 0, type |-> GlobalString, val |-> 0]>>

\* The 16 bits of the i-th global key.
KeyBits(t, i) ==
  4 * t.globals[i].key + t.globals[i].type + (IF i = Len(t.globals) THEN LastFlag ELSE 0)
CodeIn(bits) == (bits % LastFlag) \div 4

HasLocalKeys(t) == t.locals # <<>>

\* The first global tag from the i-th on that is not below the bits searched for.
ScanFrom(t, i, bits) == LeastOf({j \in i .. Len(t.globals) : KeyBits(t, j) >= bits})

GetGlobalKeyValue(t, code) ==
  LET i == ScanFrom(t, 1, 4 * code)
  IN IF CodeIn(KeyBits(t, i)) # code THEN NoTag ELSE ValueOf(t.globals[i])

GetLocalKeyValue(t, key) ==
  LET found == {i \in DOMAIN t.locals : t.locals[i].key = key}
  IN IF found = {} THEN NoTag ELSE ValueOf(t.locals[LeastOf(found)])

\* A key's code decides where it is looked for.
GetKeyValue(t, key, code) ==
  IF code \in 0 .. MaxCommonKey THEN GetGlobalKeyValue(t, code)
  ELSE GetLocalKeyValue(t, key)

-----------------------------------------------------------------------------
(* Iteration: a position is <<part, index>>, or Done. *)

Done == <<"done", 0>>
FirstLocal(t) == IF HasLocalKeys(t) THEN <<"locals", 1>> ELSE Done

\* Position after the tag at pos.
After(t, pos) ==
  LET i == pos[2]
  IN IF pos[1] = "locals"
     THEN IF i = Len(t.locals) THEN Done ELSE <<"locals", i + 1>>
     ELSE IF KeyBits(t, i) >= LastFlag THEN FirstLocal(t) ELSE <<"globals", i + 1>>

TagAt(t, pos) == IF pos[1] = "locals" THEN t.locals[pos[2]] ELSE t.globals[pos[2]]

Positions(t) ==
  {<<"globals", i>> : i \in DOMAIN t.globals} \cup {<<"locals", i>> : i \in DOMAIN t.locals}
    \cup {Done}

\* The tags a TagIterator returns: it tests for an empty table once.
Iterate(t) ==
  LET first == IF KeyBits(t, 1) = LastFlag + GlobalString THEN FirstLocal(t) ELSE <<"globals", 1>>
      from[pos \in Positions(t)] ==
        IF pos = Done THEN <<>> ELSE <<TagAt(t, pos)>> \o from[After(t, pos)]
  IN from[first]

\* Wrong: a TagWalker that ends at the marker of an empty table.
WalkEndsAtMarker(t) ==
  LET from[pos \in Positions(t)] ==
        IF pos = Done \/ TagAt(t, pos).key = 0 THEN <<>>
        ELSE <<TagAt(t, pos)>> \o from[After(t, pos)]
  IN from[<<"globals", 1>>]

\* The tags a TagWalker visits: it passes over a key with code 0.
Walk(t) ==
  LET from[pos \in Positions(t)] ==
        IF pos = Done THEN <<>>
        ELSE (IF pos[1] = "globals" /\ TagAt(t, pos).key = 0 THEN <<>> ELSE <<TagAt(t, pos)>>)
               \o from[After(t, pos)]
  IN from[<<"globals", 1>>]

Count(t) ==
  (IF KeyBits(t, 1) = LastFlag + GlobalString THEN 0 ELSE Len(t.globals)) + Len(t.locals)

\* The tags as a map, into which a key goes once.
TagMap(t) ==
  LET tags == Iterate(t)
  IN  [key \in {tags[i].key : i \in DOMAIN tags} |->
         ValueOf(tags[LeastOf({i \in DOMAIN tags : tags[i].key = key})])]
HasTag(t, key, code) == GetKeyValue(t, key, code) # NoTag

IsEmpty(t) == KeyBits(t, 1) = LastFlag + GlobalString /\ ~ HasLocalKeys(t)

-----------------------------------------------------------------------------

\* A table as the tools write it.
IsTable(t) ==
  /\ t.globals # <<>>
  /\ \A i \in DOMAIN t.globals : t.globals[i] \in Tags /\ t.globals[i].key \in 0 .. MaxCommonKey
  /\ \A i, j \in DOMAIN t.globals : i < j => t.globals[i].key < t.globals[j].key
  /\ (\E i \in DOMAIN t.globals : t.globals[i].key = 0) => t.globals = EmptyMarker
  /\ \A i, j \in DOMAIN t.locals : i < j => t.locals[i].key < t.locals[j].key

\* Looking up a key finds what iterating over the tags finds under it; both kinds
\* of iteration and the count agree.
LookupsAgree(t, keys) ==
  /\ Walk(t) = Iterate(t)
  /\ Count(t) = Len(Iterate(t))
  /\ IsEmpty(t) <=> Iterate(t) = <<>>
  /\ \A k \in keys :
       /\ HasTag(t, k.name, k.code) <=> k.name \in DOMAIN TagMap(t)
       /\ HasTag(t, k.name, k.code) => GetKeyValue(t, k.name, k.code) = TagMap(t)[k.name]

-----------------------------------------------------------------------------

CONSTANTS
  CodeNo,       \* the code of "no"
  CodeOf(_)     \* the code of a string, 0 or less if it has none

Null == 0

ValueOps == <<"NOP", "EQ_CODE", "EQ_STR", "STARTS_WITH", "ENDS_WITH", "CONTAINS", "REGEX",
              "EQ_NUM", "LE", "LT", "GE", "GT">>
Opcodes == ValueOps \o <<"GLOBAL_KEY", "FIRST_GLOBAL_KEY", "LOCAL_KEY", "FIRST_LOCAL_KEY",
                         "HAS_LOCAL_KEYS", "LOAD_CODE", "LOAD_STRING", "LOAD_NUM",
                         "CODE_TO_STR", "STR_TO_NUM", "FEATURE_TYPE", "GOTO", "RETURN">>
IsValueOp(node) == \E i \in DOMAIN ValueOps : ValueOps[i] = node.op
Rank == [op \in {Opcodes[i] : i \in DOMAIN Opcodes} |-> CHOOSE i \in DOMAIN Opcodes : Opcodes[i] = op]

\* Words that follow an instruction's opcode.
OPCODE_ARGS ==
  [op \in DOMAIN Rank |->
     CASE op \in {"NOP", "CODE_TO_STR", "RETURN"} -> 0
       [] op \in {"HAS_LOCAL_KEYS", "LOAD_CODE", "LOAD_STRING", "LOAD_NUM", "STR_TO_NUM", "GOTO"} -> 1
       [] op = "FEATURE_TYPE" -> 3
       [] OTHER -> 2]

\* The successors of a node: next[0] and next[1] in the source.
Targets(falseOp, trueOp) == (FALSE :> falseOp) @@ (TRUE :> trueOp)
Swapped(next) == Targets(next[TRUE], next[FALSE])

OpNode(op, arg, falseOp, trueOp) ==
  [op |-> op, arg |-> arg, neg |-> FALSE, addr |-> 0, callers |-> 0, validated |-> FALSE,
   deferred |-> FALSE, next |-> Targets(falseOp, trueOp)]
NewOp(op, arg) == OpNode(op, arg, Null, Null)

\* OpNode::compareTo.  Regexes and nodes without a comparable operand are "less".
Compare(a, b) ==
  IF a.op # b.op THEN Rank[a.op] - Rank[b.op]
  ELSE CASE a.op \in {"EQ_CODE", "EQ_STR", "EQ_NUM", "LE", "LT", "GE", "GT", "GLOBAL_KEY",
                      "LOCAL_KEY"} -> a.arg - b.arg
         [] a.op \in {"STARTS_WITH", "ENDS_WITH", "CONTAINS"} -> IF a.arg = b.arg THEN 0 ELSE -1
         [] OTHER -> -1

-----------------------------------------------------------------------------
(* Clauses *)

VALUE_TYPES(op) ==
  CASE op = "EQ_CODE" -> "VALUE_GLOBAL_STRING"
    [] op = "EQ_STR" -> "VALUE_LOCAL_STRING"
    [] op \in {"STARTS_WITH", "ENDS_WITH", "CONTAINS", "REGEX"} -> "VALUE_ANY_STRING"
    [] OTHER -> "VALUE_ANY_NUMBER"

\* Where insertValueOp puts a node in a chain that starts at next[side] of owner:
\* the link to change, or none if the node is there already.
RECURSIVE Slot(_, _, _, _, _)
Slot(g, owner, side, node, asAnd) ==
  LET current == g[owner].next[side]
      comp == Compare(g[current], node)
  IN IF g[current].op = "RETURN" \/ comp > 0 THEN <<owner, side>>
     ELSE IF comp = 0 THEN <<>>
     ELSE Slot(g, current, asAnd, node, asAnd)

\* Puts node n into the chain at a slot; a copy of a node that is there is left out.
InsertAt(g, slot, n, asAnd) ==
  IF slot = <<>> THEN g
  ELSE [g EXCEPT ![n].next[asAnd] = g[slot[1]].next[slot[2]], ![slot[1]].next[slot[2]] = n]
InsertInChain(g, keyOp, n, asAnd) ==
  InsertAt(g, Slot(g, keyOp, ~ g[keyOp].neg, g[n], asAnd), n, asAnd)

\* Wrong: negated operations are chained as alternatives too.
InsertAlternatives(g, keyOp, n, asAnd) ==
  LET first == g[keyOp].next[~ g[keyOp].neg]
  IN IF g[first].op = "RETURN"
     THEN [g EXCEPT ![n].next = g[keyOp].next, ![keyOp].next[~ g[keyOp].neg] = n]
     ELSE InsertInChain([g EXCEPT ![n].next = g[first].next], keyOp, n, FALSE)

\* insertValueOp: a chain is ordered; the ends of a new node are those of the chain.
InsertValueOp(g, keyOp, n, asAnd) ==
  LET first == g[keyOp].next[~ g[keyOp].neg]
  IN IF g[first].op = "RETURN"
     THEN [g EXCEPT ![n].next = g[keyOp].next, ![keyOp].next[~ g[keyOp].neg] = n]
     ELSE InsertInChain([g EXCEPT ![n].next = g[first].next], keyOp, n, asAnd)

\* The same for every node of a sequence.
RECURSIVE InsertValueOps(_, _, _, _)
InsertValueOps(g, keyOp, ns, asAnd) ==
  IF ns = <<>> THEN g
  ELSE InsertValueOps(InsertValueOp(g, keyOp, Head(ns), asAnd), keyOp, Tail(ns), asAnd)

\* The value operations of a clause.
ValueNode(v) ==
  IF v.op # "STRING" THEN NewOp(v.op, v.arg)
  ELSE IF CodeOf(v.arg) > 0 THEN NewOp("EQ_CODE", CodeOf(v.arg)) ELSE NewOp("EQ_STR", v.arg)
ValueNodes(clause) ==
  CASE clause.form = "not" -> <<NewOp("EQ_CODE", CodeNo)>>
    [] clause.form = "has" -> <<[NewOp("EQ_CODE", CodeNo) EXCEPT !.neg = TRUE]>>
    [] OTHER -> [i \in DOMAIN clause.ops |-> [ValueNode(clause.ops[i]) EXCEPT !.neg = clause.form = "neg"]]
KeyNode(key) == IF key.code > 0 THEN NewOp("GLOBAL_KEY", key.code) ELSE NewOp("LOCAL_KEY", key.name)

Negative(clause) == clause.form \in {"not", "neg"}

\* The clause with key node k and value nodes vs, added to the graph.
NewClause(g, falseOp, clause, k, vs) ==
  [g |-> InsertValueOps(
           g \o <<[k EXCEPT !.neg = Negative(clause), !.next = Targets(falseOp, Len(g) + 2)],
                  NewOp("RETURN", 1)>> \o vs,
           Len(g) + 1, [i \in DOMAIN vs |-> Len(g) + 2 + i], Negative(clause)),
   clause |-> [keyOp |-> Len(g) + 1, trueOp |-> Len(g) + 2, cat |-> clause.key.cat,
               required |-> ~ Negative(clause), complex |-> FALSE,
               values |-> {VALUE_TYPES(vs[i].op) : i \in DOMAIN vs}]]

\* expectTagClause: the graph and the clause.
ExpectTagClause(g, falseOp, clause) ==
  NewClause(g, falseOp, clause, KeyNode(clause.key), ValueNodes(clause))

IsOrClause(g, c) ==
  LET valOp == g[g[c.keyOp].next[TRUE]]
  IN valOp.op # "RETURN" /\ g[valOp.next[FALSE]].op # "RETURN"

\* The operations of an AND chain from valOp on.
RECURSIVE AndChain(_, _)
AndChain(g, valOp) ==
  IF g[valOp].op = "RETURN" THEN <<>> ELSE <<valOp>> \o AndChain(g, g[valOp].next[TRUE])

\* The strand of the other clause goes ahead of the clause's own.  A negated clause
\* has none there: the source follows a null pointer, and ok is FALSE.
ChainStrands(g, c, strand) ==
  [ok |-> strand # <<>>, clause |-> c,
   g |-> IF strand = <<>> THEN g
         ELSE [g EXCEPT ![strand[Len(strand)]].next[TRUE] = g[c.keyOp].next[TRUE],
                        ![c.keyOp].next[TRUE] = strand[1]]]

AbsorbInto(g, c, other) ==
  IF c.complex THEN ChainStrands(g, c, AndChain(g, g[other.keyOp].next[TRUE]))
  ELSE [ok |-> TRUE, clause |-> c,
        g |-> InsertValueOps(g, c.keyOp, AndChain(g, g[other.keyOp].next[~ g[other.keyOp].neg]), TRUE)]

\* A negated clause that takes in one that is not becomes one that is not.
Unnegated(g, c, other) ==
  IF g[c.keyOp].neg /\ ~ g[other.keyOp].neg
  THEN [g EXCEPT ![c.keyOp].neg = FALSE, ![c.keyOp].next = Swapped(g[c.keyOp].next)]
  ELSE g

Merged(g, c, other) ==
  [c EXCEPT !.values = c.values \cup other.values,
            !.complex = c.complex \/ other.complex \/ IsOrClause(g, c) \/ IsOrClause(g, other)]

\* TagClause::absorb: the graph and the clause once it has taken in another.
AbsorbAs(g, c, other) == AbsorbInto(g, Merged(g, c, other), other)
Absorb(g, c, other) == AbsorbAs(Unnegated(g, c, other), c, other)

-----------------------------------------------------------------------------
(* Selectors *)

IndexBits(cat) == IF cat = 0 THEN {} ELSE {cat}

\* A clause at its place, or the one on the same key with the clause absorbed.
Absorbed(p, i, a) == [ok |-> p.ok /\ a.ok, g |-> a.g, sel |-> [p.sel EXCEPT !.clauses[i] = a.clause]]
Placing(p, c, bits) ==
  LET cs == p.sel.clauses
      order(i) == Compare(p.g[cs[i].keyOp], p.g[c.keyOp])
      same == {i \in DOMAIN cs : order(i) = 0}
      before == Cardinality({i \in DOMAIN cs : order(i) < 0})
  IN IF same # {} THEN Absorbed(p, LeastOf(same), Absorb(p.g, cs[LeastOf(same)], c))
     ELSE [p EXCEPT !.sel.bits = @ \cup bits,
                    !.sel.clauses = SubSeq(cs, 1, before) \o <<c>> \o SubSeq(cs, before + 1, Len(cs))]

\* Wrong: the key of a negated clause counts for the index too.
AddClauseCountsNegated(p, c) == Placing(p, c, IndexBits(c.cat))

\* Selector::addClause: clauses are kept in the order of their keys.
AddClause(p, c) == Placing(p, c, IF c.required THEN IndexBits(c.cat) ELSE {})

AddParsed(p, e) == AddClause([p EXCEPT !.g = e.g], e.clause)

\* expectSelector, from the graph built so far.
ExpectSelector(g, ast) ==
  LET step[i \in 0 .. Len(ast.clauses)] ==
        IF i = 0
        THEN [ok |-> TRUE, g |-> Append(g, NewOp("RETURN", 0)),
              sel |-> [types |-> ast.types, bits |-> {}, clauses |-> <<>>, falseOp |-> Len(g) + 1]]
        ELSE LET p == step[i - 1]
             IN AddParsed(p, ExpectTagClause(p.g, Len(g) + 1, ast.clauses[i]))
  IN step[Len(ast.clauses)]

AddSelector(p, s) ==
  [ok |-> p.ok /\ s.ok, g |-> s.g, sels |-> Append(p.sels, s.sel), bits |-> p.bits \cup s.sel.bits]

\* MatcherParser::parse: the graph, the selectors and the index bits of them all.
Parsed(query) ==
  LET step[i \in 0 .. Len(query)] ==
        IF i = 0 THEN [ok |-> TRUE, g |-> <<>>, sels |-> <<>>, bits |-> {}]
        ELSE LET p == step[i - 1] IN AddSelector(p, ExpectSelector(p.g, query[i]))
  IN step[Len(query)]

-----------------------------------------------------------------------------
(* Validation: load operations.  An operator that adds nodes returns [g, id]. *)

Added(g, node) == [g |-> Append(g, node), id |-> Len(g) + 1]

RECURSIVE FindWrongTypeOp(_, _)
FindWrongTypeOp(g, op) ==
  LET next == g[op].next[g[op].neg]
  IN IF IsValueOp(g[next]) THEN FindWrongTypeOp(g, next) ELSE next

\* A copy of the value operations from valOp on that apply to the given values.
SetNext(g, own, b, c) == [g |-> [c.g EXCEPT ![own].next[b] = c.id], id |-> own]
RECURSIVE CloneValueOp(_, _, _), CloneNext(_, _, _, _)
CloneNext(c, b, valOp, accepted) ==
  SetNext(c.g, c.id, b, CloneValueOp(c.g, c.g[valOp].next[b], accepted))
CloneValueOp(g, valOp, accepted) ==
  IF ~ IsValueOp(g[valOp]) THEN [g |-> g, id |-> valOp]
  ELSE IF VALUE_TYPES(g[valOp].op) \notin accepted
       THEN CloneValueOp(g, g[valOp].next[g[valOp].neg], accepted)
  ELSE CloneNext(CloneNext(Added(g, g[valOp]), FALSE, valOp, accepted), TRUE, valOp, accepted)

NumberValues == {"VALUE_ANY_NUMBER"}
StringValues == {"VALUE_LOCAL_STRING", "VALUE_ANY_STRING", "VALUE_ANY_NUMBER"}
CodeValues == {"VALUE_GLOBAL_STRING", "VALUE_ANY_STRING", "VALUE_ANY_NUMBER"}

\* Conversions ahead of a path c; a failed conversion to a number goes on with NaN.
ToNumber(c, values) ==
  IF values \cap NumberValues = {} THEN c ELSE Added(c.g, OpNode("STR_TO_NUM", 0, c.id, c.id))
ToStringValue(c, values) ==
  IF values \cap {"VALUE_ANY_STRING", "VALUE_ANY_NUMBER"} = {} THEN c
  ELSE Added(c.g, OpNode("CODE_TO_STR", 0, c.id, Null))
Converted(c, load, values) ==
  CASE load = "LOAD_NUM" -> c
    [] load = "LOAD_STRING" -> ToNumber(c, values)
    [] load = "LOAD_CODE" -> ToStringValue(ToNumber(c, values), values)

\* Wrong: the only load has no operation for a value of another type.
LoadAheadOnly(c, load, otherwise) == Added(c.g, OpNode(load, 0, otherwise, c.id))

LoadAhead(c, load, otherwise) ==
  Added(c.g, OpNode(load, 0, IF otherwise # Null THEN otherwise ELSE FindWrongTypeOp(c.g, c.id), c.id))
LoadPath(c, load, values, otherwise) ==
  IF IsValueOp(c.g[c.id]) THEN LoadAhead(Converted(c, load, values), load, otherwise)
  ELSE [g |-> c.g, id |-> otherwise]

\* Ahead of the path p: one for the values that another load accepts.
AddLoad(p, load, accepted, values, valOp) ==
  IF values \cap accepted = {} THEN p
  ELSE LoadPath(CloneValueOp(p.g, valOp, accepted), load, values, p.id)

CreateMultiTypeLoadOps(g, values, valOp) ==
  AddLoad(
    AddLoad(
      AddLoad([g |-> g, id |-> Null], "LOAD_NUM", NumberValues, values, valOp),
      "LOAD_STRING", StringValues, values, valOp),
    "LOAD_CODE", CodeValues, values, valOp)

\* For numbers: a number, a local string (converted) or a code (converted twice).
CreateNumberLoadOps(g, wrong, first) ==
  LET toNum == Len(g) + 1
  IN [g |-> g \o <<OpNode("STR_TO_NUM", 0, wrong, first),
                   OpNode("CODE_TO_STR", 0, toNum, Null),
                   OpNode("LOAD_CODE", 0, wrong, toNum + 1),
                   OpNode("LOAD_STRING", 0, toNum + 2, toNum),
                   OpNode("LOAD_NUM", 0, toNum + 3, first)>>,
      id |-> toNum + 4]

LoadOps(g, c, wrong, first) ==
  CASE ~ c.complex /\ c.values = {"VALUE_GLOBAL_STRING"} -> Added(g, OpNode("LOAD_CODE", 0, wrong, first))
    [] ~ c.complex /\ c.values = {"VALUE_LOCAL_STRING"} -> Added(g, OpNode("LOAD_STRING", 0, wrong, first))
    [] ~ c.complex /\ c.values = NumberValues -> CreateNumberLoadOps(g, wrong, first)
    [] OTHER -> CreateMultiTypeLoadOps(g, c.values, first)

InsertLoadOps(g, c) ==
  LET first == g[c.keyOp].next[~ g[c.keyOp].neg]
  IN SetNext(g, c.keyOp, ~ g[c.keyOp].neg, LoadOps(g, c, FindWrongTypeOp(g, first), first)).g

-----------------------------------------------------------------------------
(* Validation: selectors *)

\* The first key of either kind is marked as such.
Mark(g, cs, i) ==
  LET kind == g[cs[i].keyOp].op
  IN IF \A j \in 1 .. i - 1 : g[cs[j].keyOp].op \notin {kind, IF kind = "GLOBAL_KEY" THEN "FIRST_GLOBAL_KEY"
                                                               ELSE "FIRST_LOCAL_KEY"}
     THEN [g EXCEPT ![cs[i].keyOp].op = IF kind = "GLOBAL_KEY" THEN "FIRST_GLOBAL_KEY" ELSE "FIRST_LOCAL_KEY"]
     ELSE g
CopyNode(g, to, from) == [g EXCEPT ![to] = g[from]]

\* The clauses with their load operations, each clause's key copied into the end of
\* the clause before it.
LinkClauses(g0, cs) ==
  LET step[i \in 0 .. Len(cs)] ==
        IF i = 0 THEN g0
        ELSE LET g == InsertLoadOps(Mark(step[i - 1], cs, i), cs[i])
             IN IF i = 1 THEN g ELSE CopyNode(g, cs[i - 1].trueOp, cs[i].keyOp)
  IN step[Len(cs)]

LocalClauses(g, cs) == {i \in DOMAIN cs : g[cs[i].keyOp].op \in {"LOCAL_KEY", "FIRST_LOCAL_KEY"}}


\* The check whether there are local keys: ahead of the selector, or, if only the
\* local clauses after global ones are negated, ahead of those.
CheckLocalKeys(g, sel, locals) ==
  LET cs == sel.clauses
      end == cs[Len(cs)].trueOp
      t == cs[Len(cs) - Cardinality(locals)].trueOp
  IN CASE locals = {} -> [g |-> g, id |-> cs[1].keyOp]
       [] \E i \in locals : ~ g[cs[i].keyOp].neg ->
            Added(g, OpNode("HAS_LOCAL_KEYS", 0, sel.falseOp, cs[1].keyOp))
       [] locals = DOMAIN cs -> Added(g, OpNode("HAS_LOCAL_KEYS", 0, end, cs[1].keyOp))
       [] OTHER -> [g |-> [g EXCEPT ![t].op = "HAS_LOCAL_KEYS", ![t].next[TRUE] = end],
                    id |-> cs[1].keyOp]

\* validateSelector: global keys come before local ones.
ValidateSelector(g, sel) ==
  IF sel.clauses = <<>> THEN Added(g, NewOp("RETURN", 1))
  ELSE CheckLocalKeys(LinkClauses(g, sel.clauses), sel, LocalClauses(g, sel.clauses))

\* A selector's first operation is copied over the false end of the one before it.
\* merge: so far all begin with the same check for local keys.
IsCheck(g, op) == g[op].op = "HAS_LOCAL_KEYS"
Failing(g, op) == g[g[op].next[FALSE]].arg
ChainSelector(p, prev, v) ==
  LET g == CopyNode(v.g, prev.falseOp, v.id)
  IN [p EXCEPT !.g = g,
               !.merge = p.merge /\ IsCheck(g, v.id) /\ Failing(g, v.id) = Failing(g, p.id)]
FirstSelector(v) == [g |-> v.g, id |-> v.id, merge |-> IsCheck(v.g, v.id)]

\* The check the selectors share is left out of all but the first.
RECURSIVE MergeChecks(_, _)
MergeChecks(g, sels) ==
  IF Len(sels) = 1 THEN g
  ELSE MergeChecks(CopyNode(g, sels[1].falseOp, sels[2].clauses[1].keyOp), Tail(sels))
CheckFails(g, op, falseOp) ==
  IF g[g[op].next[FALSE]].op # "RETURN" THEN [g EXCEPT ![op].next[FALSE] = falseOp] ELSE g
MergeAll(p, sels) ==
  [g |-> IF p.merge /\ Len(sels) > 1
         THEN CheckFails(MergeChecks(p.g, sels), p.id, sels[Len(sels)].falseOp) ELSE p.g,
   id |-> p.id]

\* validateAllSelectors
ValidateAllSelectors(g, sels) ==
  LET step[i \in DOMAIN sels] ==
        IF i = 1 THEN FirstSelector(ValidateSelector(g, sels[1]))
        ELSE LET p == step[i - 1] IN ChainSelector(p, sels[i - 1], ValidateSelector(p.g, sels[i]))
  IN MergeAll(step[Len(sels)], sels)

\* groupSelectors: the selectors with the first one's types, and the others.
OfTypes(sels, types) == SelectSeq(sels, LAMBDA s : s.types = types)
NotOfTypes(sels, types) == SelectSeq(sels, LAMBDA s : s.types # types)

\* validatePolyformSelectors: one check of the types for each group, in the place of
\* the false end of the group before it.
CheckTypes(v, typeOp, group) ==
  [v.g EXCEPT ![typeOp] = OpNode("FEATURE_TYPE", group[1].types, group[Len(group)].falseOp, v.id)]
RECURSIVE LinkGroups(_, _, _)
LinkGroup(g, typeOp, group) == CheckTypes(ValidateAllSelectors(g, group), typeOp, group)
LinkGroups(g, typeOp, sels) ==
  IF sels = <<>> THEN g
  ELSE LET group == OfTypes(sels, sels[1].types)
       IN LinkGroups(LinkGroup(g, typeOp, group), group[Len(group)].falseOp,
                     NotOfTypes(sels, sels[1].types))

\* The first operation of the graph.
Linked(g, sels) ==
  IF \A i \in DOMAIN sels : sels[i].types = sels[1].types THEN ValidateAllSelectors(g, sels)
  ELSE [g |-> LinkGroups(Append(g, NewOp("FEATURE_TYPE", {})), Len(g) + 1, sels), id |-> Len(g) + 1]

\* validateOp: words needed, gotos that may be needed, callers of every operation.
RECURSIVE ValidateOp(_, _), CallOp(_, _)
CallOp(s, op) ==
  IF op = Null THEN s
  ELSE [(IF s.g[op].validated THEN s ELSE ValidateOp(s, op)) EXCEPT !.g[op].callers = @ + 1]
CountGotos(s, falseOp, many, trueOp) ==
  IF trueOp # Null /\ many /\ s.g[trueOp].callers > 1 THEN [s EXCEPT !.gotos = @ + 1] ELSE s
CallTrue(s, falseOp, trueOp) ==
  CountGotos(CallOp(s, trueOp), falseOp, falseOp # Null /\ s.g[falseOp].callers > 1, trueOp)
ValidateOp(s, n) ==
  CallTrue(CallOp([s EXCEPT !.g[n].validated = TRUE, !.words = @ + OPCODE_ARGS[s.g[n].op] + 1],
                  s.g[n].next[FALSE]),
           s.g[n].next[FALSE], s.g[n].next[TRUE])

\* MatcherValidator::validate
Counted(v) == [id |-> v.id, counts |-> ValidateOp([g |-> v.g, words |-> 0, gotos |-> 0], v.id)]
Validated(g, sels) == Counted(Linked(g, sels))
MaxInstructionSize(counts) == (counts.words + counts.gotos * 2) * 2

AcceptedTypes(sels) == UNION {sels[i].types : i \in DOMAIN sels}

-----------------------------------------------------------------------------
(* From the graph to the code of a matcher *)

CONSTANTS
  Queries,      \* sequences of selectors
  Filters,      \* queries with a built-in matcher, to combine with
  SomeKeys,     \* keys, those with a category among them
  StringCount,  \* the strings 0 .. StringCount - 1 have codes
  Hash,         \* the hash of every string
  Features(_),  \* the features a query is asked about: [type, tags]
  NumberIn,     \* what a string is as a number; NotANumber if it is none
  NotANumber

VARIABLES pc, query, also, graph, sels, holder, node, words, deferred, jumps, code
vars == <<pc, query, also, graph, sels, holder, node, words, deferred, jumps, code>>

SumBits(S) ==
  LET sum[n \in 0 .. 32] ==
        IF n = 0 THEN 0 ELSE sum[n - 1] + (IF n \in S THEN 2 ^ (n - 1) ELSE 0)
  IN sum[32]

\* A MatcherHolder: the masks of its four index types are one.
Holder(types, kind, mask, min) ==
  [types |-> types, kind |-> kind, mask |-> mask, min |-> min, size |-> 0, arg |-> <<>>]
AllBits == 1 .. 30      \* for the 32 bits of the source

-----------------------------------------------------------------------------

Init ==
  /\ pc = "parse" /\ query \in Queries /\ also = <<>>
  /\ graph = <<>> /\ sels = <<>> /\ holder = Holder({}, "none", {}, 0)
  /\ node = Null /\ words = 0 /\ deferred = <<>> /\ jumps = <<>> /\ code = <<>>

\* The key and the value, if any, of a query that needs no code.
FastPath(g, ss, bits) ==
  LET c == ss[1].clauses[1]
      key == g[c.keyOp]
      value == g[key.next[TRUE]]
      single == Len(ss[1].clauses) = 1 /\ key.op = "GLOBAL_KEY" /\ ~ key.neg
      simple == /\ value.op = "EQ_CODE"
                /\ g[value.next[FALSE]].op = "RETURN" /\ g[value.next[TRUE]].op = "RETURN"
  IN IF Len(ss) # 1 THEN <<>>
     ELSE IF ss[1].clauses = <<>> THEN <<Holder(ss[1].types, "all", AllBits, 0)>>
     ELSE IF single /\ simple /\ ~ value.neg
       THEN <<[Holder(ss[1].types, "keyvalue", bits, SumBits(bits)) EXCEPT !.arg = <<key.arg, value.arg>>]>>
     ELSE IF single /\ simple /\ value.arg = CodeNo
       THEN <<[Holder(ss[1].types, "key", bits, SumBits(bits)) EXCEPT !.arg = <<key.arg, CodeNo>>]>>
     ELSE <<>>

Parse ==
  /\ pc = "parse"
  /\ \E p \in {Parsed(query)} : \E fast \in {FastPath(p.g, p.sels, p.bits)} :
    /\ graph' = p.g /\ sels' = p.sels
    /\ pc' = IF ~ p.ok THEN "undefined" ELSE IF fast # <<>> THEN "ready" ELSE "validate"
    /\ holder' = IF p.ok /\ fast # <<>> THEN fast[1]
                 ELSE Holder({}, "code", p.bits, IF p.bits = {} THEN 0 ELSE 1)
    /\ UNCHANGED <<query, also, node, words, deferred, jumps, code>>

Validate ==
  /\ pc = "validate" /\ pc' = "emit"
  /\ \E v \in {Validated(graph, sels)} :
    /\ graph' = v.counts.g /\ node' = v.id
    /\ holder' = [holder EXCEPT !.types = AcceptedTypes(sels), !.size = MaxInstructionSize(v.counts)]
    /\ UNCHANGED <<query, also, sels, words, deferred, jumps, code>>

-----------------------------------------------------------------------------
(* MatcherEmitter *)

\* Wrong: an operation that was deferred is placed even if it has been since.
TakeDeferredAgain(g, stack) ==
  IF stack = <<>> THEN [node |-> Null, stack |-> <<>>]
  ELSE [node |-> stack[Len(stack)], stack |-> SubSeq(stack, 1, Len(stack) - 1)]

\* The topmost deferred operation without an address, and the stack below it.
TakeDeferred(g, stack) ==
  LET open == {i \in DOMAIN stack : g[stack[i]].addr = 0}
      top == CHOOSE i \in open : \A j \in open : j <= i
  IN IF open = {} THEN [node |-> Null, stack |-> <<>>]
     ELSE [node |-> stack[top], stack |-> SubSeq(stack, 1, top - 1)]

\* Wrong: the branch that stays is always the true one's.
TurnedNever(g, n) == FALSE

\* The false branch becomes the jump: only it has been placed, or more jump to it.
Turned(g, n) ==
  LET f == g[g[n].next[FALSE]]
      t == g[g[n].next[TRUE]]
  IN t.addr = 0 /\ (f.addr # 0 \/ f.callers > t.callers)

Inverse(n) == [n EXCEPT !.neg = ~ @, !.next = Swapped(n.next)]

\* emit(), one operation.  Addresses are in bytes.
EmitOp ==
  LET placed == [graph EXCEPT ![node].addr = words * 2]
      n == placed[node]
      size == OPCODE_ARGS[n.op] + 1
      taken == TakeDeferred(placed, deferred)
      place(instr) == code' = code @@ (words * 2 :> instr) /\ words' = words + size
      instruction == [op |-> n.op, neg |-> n.neg, arg |-> n.arg, jump |-> 0]
      goto == Len(graph) + 1
  IN /\ pc = "emit" /\ node # Null
     /\ \/ /\ n.op \in {"NOP", "CODE_TO_STR"}       \* goes on to its one successor
           /\ place(instruction)
           /\ IF placed[n.next[FALSE]].addr # 0
              THEN /\ graph' = Append([placed EXCEPT ![node].next[FALSE] = goto],
                                      OpNode("GOTO", 0, n.next[FALSE], n.next[FALSE]))
                   /\ node' = goto
              ELSE graph' = placed /\ node' = n.next[FALSE]
           /\ UNCHANGED <<deferred, jumps>>
        \/ /\ n.op \in {"GOTO", "RETURN"}           \* goes on to a deferred operation
           /\ place(instruction)
           /\ graph' = placed /\ node' = taken.node /\ deferred' = taken.stack
           /\ jumps' = IF n.op = "GOTO" THEN Append(jumps, node) ELSE jumps
        \/ /\ n.op \notin {"NOP", "CODE_TO_STR", "GOTO", "RETURN"}
           /\ LET m == IF Turned(placed, node) THEN Inverse(n) ELSE n
                  both == placed[m.next[TRUE]].addr # 0 /\ placed[m.next[FALSE]].addr # 0
                  t == m.next[TRUE]
                  g == [placed EXCEPT ![node] = IF both THEN [m EXCEPT !.next[FALSE] = goto] ELSE m,
                                      ![t].deferred = TRUE]
              IN /\ place([instruction EXCEPT !.neg = m.neg])
                 /\ graph' = IF both THEN Append(g, OpNode("GOTO", 0, m.next[FALSE], m.next[FALSE]))
                             ELSE g
                 /\ node' = IF both THEN goto ELSE m.next[FALSE]
                 /\ deferred' = IF placed[t].deferred THEN deferred ELSE Append(deferred, t)
                 /\ jumps' = Append(jumps, node)
     /\ UNCHANGED <<pc, query, also, sels, holder>>

\* Where the jump of an instruction is stored.
JumpSlot(n) == graph[n].addr + OPCODE_ARGS[graph[n].op] * 2

\* fixJumps(): a jump is relative to where it is stored.
FixJumps ==
  /\ pc = "emit" /\ node = Null /\ pc' = "ready"
  /\ code' = [a \in DOMAIN code |->
                LET js == {n \in {jumps[i] : i \in DOMAIN jumps} : graph[n].addr = a}
                IN IF js = {} THEN code[a]
                   ELSE LET n == CHOOSE x \in js : TRUE
                        IN [code[a] EXCEPT !.jump = graph[graph[n].next[TRUE]].addr - JumpSlot(n)]]
  /\ jumps' = <<>>
  /\ UNCHANGED <<query, also, graph, sels, holder, node, words, deferred>>

\* Wrong: the smaller mask of the two is kept.
CombineMeet(a, b) ==
  [Holder(a.types \cap b.types, "combo", a.mask \cap b.mask, IF a.min > b.min THEN a.min ELSE b.min)
     EXCEPT !.arg = <<a, b>>]

\* MatcherHolder::combine.
Combine(a, b) ==
  [Holder(a.types \cap b.types, "combo", a.mask \cup b.mask, IF a.min > b.min THEN a.min ELSE b.min)
     EXCEPT !.arg = <<a, b>>]

\* A view narrows its matcher with another query's.
CombineWith ==
  /\ pc = "ready" /\ also = <<>>
  /\ also' \in Filters
  /\ \E p \in {Parsed(also')} : holder' = Combine(holder, FastPath(p.g, p.sels, p.bits)[1])
  /\ UNCHANGED <<pc, query, graph, sels, node, words, deferred, jumps, code>>

Ready == pc \in {"ready", "undefined"} /\ UNCHANGED vars

Next == Parse \/ Validate \/ EmitOp \/ FixJumps \/ CombineWith \/ Ready
Spec == Init /\ [][Next]_vars

-----------------------------------------------------------------------------
(* MatcherEngine.  The registers: the position in the table's part, the type and
   the last bit but two of the last key read (stale), and the value loaded. *)

IsString(tag) == tag.type \in {GlobalString, LocalString}
NumberOf(tag) == IF IsString(tag) THEN NumberIn[tag.val] ELSE tag.val

Holds(op, arg, v) ==
  CASE op = "EQ_CODE" -> v.code = arg
    [] op = "EQ_STR" -> v.str = arg
    [] op \in {"STARTS_WITH", "ENDS_WITH", "CONTAINS", "REGEX"} -> v.str \in arg
    [] OTHER -> /\ v.num # NotANumber
                /\ CASE op = "EQ_NUM" -> v.num = arg [] op = "LE" -> v.num <= arg
                     [] op = "LT" -> v.num < arg [] op = "GE" -> v.num >= arg
                     [] op = "GT" -> v.num > arg

\* scanGlobalKeys: stops at the first key that is not below the one it looks for.
ScanGlobalKeys(t, r, key) ==
  LET i == ScanFrom(t, r.at, 4 * key)
      bits == KeyBits(t, i)
  IN [hit |-> CodeIn(bits) = key,
      r |-> [r EXCEPT !.tag = t.globals[i], !.at = i, !.bit2 = (bits \div 4) % 2 = 1]]

\* scanLocalKeys: moves on past the key if it finds it, else not at all.
ScanLocalKeys(t, r, key) ==
  LET hits == {i \in r.at .. Len(t.locals) : t.locals[i].key = key}
      i == LeastOf(hits)
  IN IF hits = {} THEN [hit |-> FALSE, r |-> r]
     ELSE [hit |-> TRUE,
           r |-> [r EXCEPT !.tag = t.locals[i], !.at = i + 1, !.bit2 = i = Len(t.locals)]]

\* What a branching instruction finds, and the registers after it.
Tested(ins, f, r) ==
  LET t == f.tags
      same(hit) == [hit |-> hit, r |-> r]
      load(type, v) == [hit |-> r.tag.type \in type, r |-> [r EXCEPT !.val = v]]
  IN CASE ins.op = "FIRST_GLOBAL_KEY" -> ScanGlobalKeys(t, [r EXCEPT !.at = 1], ins.arg)
       [] ins.op = "GLOBAL_KEY" -> ScanGlobalKeys(t, r, ins.arg)
       [] ins.op = "FIRST_LOCAL_KEY" -> ScanLocalKeys(t, [r EXCEPT !.at = 1], ins.arg)
       [] ins.op = "LOCAL_KEY" -> IF r.bit2 THEN same(FALSE) ELSE ScanLocalKeys(t, r, ins.arg)
       [] ins.op = "HAS_LOCAL_KEYS" -> same(HasLocalKeys(t))
       [] ins.op = "LOAD_CODE" -> load({GlobalString}, [r.val EXCEPT !.code = r.tag.val])
       [] ins.op = "LOAD_STRING" -> load({LocalString}, [r.val EXCEPT !.str = r.tag.val])
       [] ins.op = "LOAD_NUM" ->
            load({NarrowNumber, WideNumber},
                 IF IsString(r.tag) THEN r.val ELSE [r.val EXCEPT !.num = r.tag.val])
       [] ins.op = "STR_TO_NUM" ->
            [hit |-> NumberIn[r.val.str] # NotANumber,
             r |-> [r EXCEPT !.val.num = NumberIn[r.val.str]]]
       [] ins.op = "FEATURE_TYPE" -> same(f.type \in ins.arg)
       [] OTHER -> same(Holds(ins.op, ins.arg, r.val))

RECURSIVE Run(_, _, _)
Run(at, f, r) ==
  LET ins == code[at]
      slot == at + OPCODE_ARGS[ins.op] * 2
      x == Tested(ins, f, r)
  IN CASE ins.op = "RETURN" -> ins.arg = 1
       [] ins.op = "GOTO" -> Run(slot + ins.jump, f, r)
       [] ins.op = "NOP" -> Run(at + 2, f, r)
       [] ins.op = "CODE_TO_STR" -> Run(at + 2, f, [r EXCEPT !.val.str = r.val.code])
       [] OTHER -> Run(IF x.hit # ins.neg THEN slot + ins.jump ELSE slot + 2, f, x.r)

\* MatcherEngine::accept: what it may answer, the registers being uninitialized.
Answers(f) ==
  {Run(0, f, [at |-> 1, tag |-> f.tags.globals[1], bit2 |-> bit,
              val |-> [code |-> 0, str |-> 0, num |-> 0]]) : bit \in BOOLEAN}

\* GlobalTagMatcher and GlobalKeyMatcher.
MatchKeyValue(t, key, value) ==
  LET i == ScanFrom(t, 1, 4 * key + GlobalString)
  IN /\ KeyBits(t, i) % LastFlag = 4 * key + GlobalString
     /\ t.globals[i].val = value
MatchKey(t, key, no) ==
  LET i == ScanFrom(t, 1, 4 * key + 1)
  IN /\ CodeIn(KeyBits(t, i)) = key
     /\ ~ (t.globals[i].type = GlobalString /\ t.globals[i].val = no)

\* Wrong: a bucket must hold all the indexed keys of a query.
AcceptIndexAll(h, keys) == h.mask \subseteq keys

\* acceptIndex: the bits of the bucket's keys, as a number.
AcceptIndex(h, keys) == SumBits(h.mask \cap keys) >= h.min

\* What a holder's main matcher may answer about a feature.
RECURSIVE Accepts(_, _)
Accepts(h, f) ==
  CASE h.kind = "all" -> {TRUE}
    [] h.kind = "keyvalue" -> {MatchKeyValue(f.tags, h.arg[1], h.arg[2])}
    [] h.kind = "key" -> {MatchKey(f.tags, h.arg[1], h.arg[2])}
    [] h.kind = "combo" -> {a /\ b : a \in Accepts(h.arg[1], f), b \in Accepts(h.arg[2], f)}
    [] OTHER -> Answers(f)

-----------------------------------------------------------------------------
(* What a query means, by the tags of a feature *)

ValuesOf(tag) == [code |-> IF tag.type = GlobalString THEN tag.val ELSE -1,
                  str |-> IF IsString(tag) THEN tag.val ELSE -1, num |-> NumberOf(tag)]

ClauseMeans(c, f) ==
  LET tag == GetKeyValue(f.tags, c.key.name, c.key.code)
      present == tag # NoTag
      no == tag.type = GlobalString /\ tag.val = CodeNo
      some == \E i \in DOMAIN c.ops :
                Holds(IF c.ops[i].op = "STRING" THEN "EQ_STR" ELSE c.ops[i].op, c.ops[i].arg,
                      ValuesOf(tag))
  IN CASE c.form = "has" -> present /\ ~ no
       [] c.form = "not" -> present => no
       [] c.form = "pos" -> present /\ some
       [] c.form = "neg" -> present => ~ some

SelectorMeans(sel, f) ==
  f.type \in sel.types /\ \A j \in DOMAIN sel.clauses : ClauseMeans(sel.clauses[j], f)
QueryMeans(q, f) == \E i \in DOMAIN q : SelectorMeans(q[i], f)
AlsoMeans(f) == also # <<>> => QueryMeans(also, f)
Means(f) == QueryMeans(query, f) /\ AlsoMeans(f)

\* The category of every indexed key a feature has: the keys of its bucket hold them.
BucketKeys(f) == {k.cat : k \in {x \in SomeKeys : x.cat # 0 /\ HasTag(f.tags, x.name, x.code)}}

Terms(c) == IF c.ops = <<>> THEN {[op |-> "STRING", arg |-> CodeNo]} ELSE {c.ops[i] : i \in DOMAIN c.ops}
IsGlobal(c) == c.key.code > 0

\* Clauses on one key that are merged rightly: negative ones; or a positive one with
\* one term, before others of that kind and negative ones with other terms.
Mergeable(c, d) ==
  \/ Negative(c) /\ Negative(d)
  \/ /\ ~ Negative(c) /\ Cardinality(Terms(c)) = 1
     /\ IF Negative(d) THEN Terms(c) \cap Terms(d) = {} ELSE Cardinality(Terms(d)) = 1

\* How the bytecode of a selector reads the tags of a feature.  Two kinds of
\* selectors read tags that are not the feature's.
\*   [k][!l]: the check for local keys takes the place of the operation on l, since
\*   it was copied there before (MatcherValidator.cpp, 397 and 426).  If there are
\*   local tags, l is taken to have the value of the global tag that was last read;
\*   a second local key is then looked up in the middle of the global tags.
\*   [!l][m]: where l is missing, LOCAL_KEY tests the register of the key that was
\*   read before, if any (MatcherEngine.cpp, 206): local tags may not be seen.
Locals(sel) == {i \in DOMAIN sel.clauses : ~ IsGlobal(sel.clauses[i])}
Optional(sel, i) == \A j \in Locals(sel) : sel.clauses[j].key = sel.clauses[i].key => Negative(sel.clauses[j])
LeadingLocal(sel) == CHOOSE i \in Locals(sel) : \A j \in Locals(sel) : sel.clauses[i].key.name <= sel.clauses[j].key.name
OneLocal(sel) == Cardinality({sel.clauses[i].key : i \in Locals(sel)}) = 1
CheckReplaces(sel) == Locals(sel) \notin {{}, DOMAIN sel.clauses} /\ \A i \in Locals(sel) : Optional(sel, i)

ReadAs(sel, f) ==
  IF Locals(sel) = {} THEN {f}
  ELSE LET key == sel.clauses[LeadingLocal(sel)].key
       IN  IF CheckReplaces(sel) /\ HasLocalKeys(f.tags)
           THEN {[f EXCEPT !.tags.locals = <<[tag EXCEPT !.key = key.name]>>] :
                   tag \in {f.tags.globals[i] : i \in DOMAIN f.tags.globals}}
           ELSE IF Optional(sel, LeadingLocal(sel)) /\ ~ OneLocal(sel) /\ ~ HasTag(f.tags, key.name, key.code)
           THEN {f, [f EXCEPT !.tags.locals = <<>>]}
           ELSE {f}

\* What a query may answer about a feature: one answer, for all other selectors.
MayAnswer(q, f) ==
  {a \in BOOLEAN : IF a THEN \E i \in DOMAIN q : \E g \in ReadAs(q[i], f) : SelectorMeans(q[i], g)
                   ELSE \A i \in DOMAIN q : \E g \in ReadAs(q[i], f) : ~ SelectorMeans(q[i], g)}

\* The queries whose clauses keep their meaning.  Left out are other merges of
\* clauses on one key (TagClause.cpp, line 87: "TODO: Broken !!!!"), keys with a code
\* above MaxCommonKey (stored as local keys, compiled as global ones), and what
\* is one global [k], which GlobalKeyMatcher looks for in the wrong place: see the
\* README, section 6.
HandledSelector(sel) ==
  LET cs == sel.clauses
  IN /\ \A i, j \in DOMAIN cs : i < j /\ cs[i].key = cs[j].key => Mergeable(cs[i], cs[j])
     /\ \A i \in DOMAIN cs : cs[i].key.code <= MaxCommonKey
Handled(q) ==
  /\ \A i \in DOMAIN q : HandledSelector(q[i])
  /\ Len(q) = 1 => \/ q[1].clauses = <<>>
                   \/ \E i \in DOMAIN q[1].clauses :
                        \/ q[1].clauses[i].form # "has" \/ ~ IsGlobal(q[1].clauses[i])
                        \/ q[1].clauses[i].key # q[1].clauses[1].key
\* What lies in the middle of global tags is unknown.
Read(q, f) == \A i \in DOMAIN q : CheckReplaces(q[i]) /\ HasLocalKeys(f.tags) => OneLocal(q[i])

\* The index bits of all selectors are asked for together: every selector needs one.
Requires(sel) == \E i \in DOMAIN sel.clauses : ~ Negative(sel.clauses[i]) /\ sel.clauses[i].key.cat # 0
IndexedAlike(q) == \A i, j \in DOMAIN q : Requires(q[i]) = Requires(q[j])

-----------------------------------------------------------------------------

Placed == {n \in DOMAIN graph : n \in {jumps[i] : i \in DOMAIN jumps} \/ graph[n].addr # 0}
Branches(n) == OPCODE_ARGS[graph[n].op] > 0

\* Types, and the shape of the graph: a branching operation has two successors.
TypeOK ==
  /\ pc \in {"parse", "validate", "emit", "ready", "undefined"}
  /\ also \in Filters \cup {<<>>}
  /\ node \in 0 .. Len(graph) /\ words \in Nat
  /\ pc = "emit" => \A n \in (Placed \cup {node}) \ {Null} : Branches(n) => Null \notin {graph[n].next[b] : b \in BOOLEAN}

\* The matcher accepts exactly the features that the query describes (Parser,
\* Validator, Emitter and Engine together; the holder's types are tested by the scan
\* of the tiles), also where a key is optional: with local keys that may be missing
\* it answers rightly, or as for a feature with the tags that ReadAs says.
MatchesAsDefined ==
  pc = "ready" /\ Handled(query) =>
    \A f \in Features(query) : f.type \in holder.types /\ Read(query, f) =>
      Accepts(holder, f) \subseteq {a /\ AlsoMeans(f) : a \in MayAnswer(query, f)}

\* acceptIndex does not skip a bucket that holds a feature the query describes.
NoBucketSkipped ==
  pc = "ready" /\ IndexedAlike(query) =>
    \A f \in Features(query) : Means(f) => AcceptIndex(holder, BucketKeys(f))

\* The code fits the memory reserved for it: compileMatcher allocates
\* maxInstructionSize() before the emitter inserts its gotos.
InstructionsFit == pc = "emit" => words * 2 <= holder.size

\* The emitter's assertions: an operation is placed once and its jump leads to the
\* start of an instruction other than its own operand.
JumpsLand ==
  /\ pc = "emit" /\ node # Null => graph[node].addr = 0
  /\ pc = "ready" /\ code # <<>> =>
       \A a \in DOMAIN code :
         OPCODE_ARGS[code[a].op] > 0 =>
           code[a].jump # 0 /\ a + OPCODE_ARGS[code[a].op] * 2 + code[a].jump \in DOMAIN code

\* On every table, looking up, iterating, walking and counting agree; and the hash
\* table finds the code of every string that has one.
TagsAgree ==
  pc = "parse" /\ (\A i \in DOMAIN query : query[i].clauses = <<>>) =>
    /\ \A f \in Features(query) : IsTable(f.tags) /\ LookupsAgree(f.tags, SomeKeys)
    /\ \A s \in DOMAIN Hash : CodeOf(s) = GetCode(Chains(StringCount, Hash), Hash, s)

-----------------------------------------------------------------------------

\* What the comments say of the matchers: [k] takes a feature whose k is present and
\* not "no", whatever the value.
AllMatchAsDefined ==
  pc = "ready" => \A f \in Features(query) : f.type \in holder.types => Accepts(holder, f) = {Means(f)}
=============================================================================
