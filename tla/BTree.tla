--------------------------------- MODULE BTree ---------------------------------
(***************************************************************************)
(* The B+ tree (BTree.h).  A node has a leftmost child (0 in a leaf) and   *)
(* entries of a key and a value, the value of an inner node's entry being  *)
(* a child.  A cursor is the path from the root to a leaf: at each level a *)
(* node and a position, 0 for the leftmost child.                          *)
(*                                                                         *)
(* A call descends from the root, one level a step.  An insertion or a     *)
(* removal then works up the path, one level a step, until a node has room *)
(* or keeps enough.  Sizes are those of the code, in bytes.                *)
(***************************************************************************)
EXTENDS Naturals, FiniteSets, Sequences, SequencesExt, FiniteSetsExt, Functions

CONSTANTS
  Keys,
  MaxKeys,       \* the entries for which a node has room
  NoEntry,
  Scripts,       \* sequences of [op, key]: the calls made first
  MaxCalls       \* at most this many calls follow

\* As in the pages of 4096 bytes that the class assumes, a node has room for an
\* odd number of entries.
BTreeAssumption == MaxKeys \in Nat /\ MaxKeys >= 5 /\ MaxKeys % 2 = 1
NodeSize(n) == 8 + 8 * Len(n.entries)
MaxNodeSize == 8 + 8 * MaxKeys
MinNodeSize == MaxNodeSize \div 2 - 8

ValueOf(k) == 100 + k
IsLeaf(n) == n.left = 0
KeyCount(n) == Len(n.entries)
Entry(k, v) == [key |-> k, value |-> v]
Level(ref, pos) == [ref |-> ref, pos |-> pos]
Child(n, pos) == IF pos = 0 THEN n.left ELSE n.entries[pos].value

VARIABLES
  root, nodes,   \* allocNode and freeNode change the domain of nodes
  call,          \* the call in progress: [op, key, entry]; op "none": none is
  path,          \* its cursor
  at,            \* the node it is about to descend into, or 0
  taken,         \* what the last call returned
  listed,        \* what the iterator in use, or the last one, has returned
  todo, calls    \* the rest of the script, and the calls made after it

vars == <<root, nodes, call, path, at, taken, listed, todo, calls>>

None == [op |-> "none", key |-> 0, entry |-> NoEntry]
Contents == UNION {Range(nodes[r].entries) : r \in {r \in DOMAIN nodes : IsLeaf(nodes[r])}}
Present == {e.key : e \in Contents}

Init ==
  /\ root = 1 /\ nodes = [r \in {1} |-> [left |-> 0, entries |-> <<>>]]
  /\ call = None /\ path = <<>> /\ at = 0 /\ taken = NoEntry /\ listed = <<>>
  /\ todo \in Scripts /\ calls = 0

-----------------------------------------------------------------------------
(* Calls.                                                                  *)

Begin(op, k) ==
  /\ call' = [op |-> op, key |-> k, entry |-> Entry(k, ValueOf(k))]
  /\ at' = root /\ path' = <<>>
  /\ listed' = IF op = "iterate" THEN <<>> ELSE listed
  /\ UNCHANGED <<root, nodes, taken>>

NextOfScript ==
  /\ call = None /\ todo # <<>>
  /\ Begin(Head(todo).op, Head(todo).key)
  /\ todo' = Tail(todo) /\ calls' = calls

\* The caller does not insert a key twice.
AnyCall ==
  /\ call = None /\ todo = <<>> /\ calls < MaxCalls
  /\ \/ \E k \in Keys \ Present : Begin("insert", k)
     \/ \E x \in Keys : Begin("take", x)
     \/ listed = <<>> /\ Begin("iterate", 0)
  /\ calls' = calls + 1 /\ todo' = todo

\* The binary searches: the last entry not above the key, and the first entry
\* not below it.
FindInnerNodeEntry(n, k) == Cardinality({i \in DOMAIN n.entries : n.entries[i].key <= k})
\* Wrong: the first entry above the key.
FindLeafNodeEntryAbove(n, k) == 1 + Cardinality({i \in DOMAIN n.entries : n.entries[i].key <= k})
FindLeafNodeEntry(n, k) == 1 + Cardinality({i \in DOMAIN n.entries : n.entries[i].key < k})

Searched(n) == CASE call.op = "iterate" -> IF IsLeaf(n) THEN 1 ELSE 0
                 [] call.op # "iterate" /\ IsLeaf(n) -> FindLeafNodeEntry(n, call.key)
                 [] OTHER -> FindInnerNodeEntry(n, call.key)

\* findLowerBound, moveToFirst and the descent of moveNext, one level.
Descend ==
  /\ at # 0
  /\ \E pos \in {Searched(nodes[at])} :
       /\ path' = Append(path, Level(at, pos))
       /\ at' = IF IsLeaf(nodes[at]) THEN 0 ELSE Child(nodes[at], pos)
  /\ UNCHANGED <<root, nodes, call, taken, listed, todo, calls>>

\* The innermost level that the call has reached, on its way back up.
Here == Last(path)
Node == nodes[Here.ref]
Working(op) == call.op = op /\ at = 0
Finish == call' = None /\ path' = <<>> /\ UNCHANGED <<at, listed, todo, calls>>
GoUp(e, up) == /\ call' = [call EXCEPT !.entry = e] /\ path' = up
               /\ UNCHANGED <<at, listed, todo, calls>>

-----------------------------------------------------------------------------
(* Insertion.                                                              *)

Fresh(used) == Min((1 .. Cardinality(used) + 1) \ used)
Put(ns, ref, n) == [r \in DOMAIN ns \union {ref} |-> IF r = ref THEN n ELSE ns[r]]
InsertRaw(n, pos, e) == [n EXCEPT !.entries = InsertAt(@, pos, e)]
RemoveRaw(n, pos) == [n EXCEPT !.entries = RemoveAt(@, pos)]

InsertHere ==
  /\ Working("insert") /\ NodeSize(Node) + 8 <= MaxNodeSize
  /\ nodes' = Put(nodes, Here.ref, InsertRaw(Node, Here.pos, call.entry))
  /\ taken' = NoEntry /\ root' = root
  /\ Finish

\* A leaf's right half keeps the split key; an inner node's gives it up, and
\* its child becomes the leftmost one.
LeftHalf(n, split) == [n EXCEPT !.entries = SubSeq(@, 1, split)]
RightHalf(n, split) ==
  IF IsLeaf(n) THEN [left |-> 0, entries |-> SubSeq(n.entries, split + 1, KeyCount(n))]
  ELSE [left |-> n.entries[split + 1].value, entries |-> SubSeq(n.entries, split + 2, KeyCount(n))]

\* Wrong: in the right half of an inner node the entry keeps the place it has
\* in the right half of a leaf.
PlaceRightUnshifted(n, pos, split) == IF pos - split > KeyCount(RightHalf(n, split)) THEN pos - split - 1 ELSE pos - split
PlaceRight(n, pos, split) == pos - split - (IF IsLeaf(n) THEN 0 ELSE 1)

\* The node is split at half its keys and the entry goes to the half that it
\* belongs to; the parent, or a new root, gets the key between the halves.
SplitNode ==
  /\ Working("insert") /\ NodeSize(Node) + 8 > MaxNodeSize
  /\ \E right \in {Fresh(DOMAIN nodes)}, split \in {KeyCount(Node) \div 2} :
     \E up \in {Entry(Node.entries[split + 1].key, right)} :
     \E ns \in {IF Here.pos > split + 1
                 THEN Put(Put(nodes, Here.ref, LeftHalf(Node, split)), right,
                          InsertRaw(RightHalf(Node, split), PlaceRight(Node, Here.pos, split), call.entry))
                 ELSE Put(Put(nodes, right, RightHalf(Node, split)), Here.ref,
                          InsertRaw(LeftHalf(Node, split), Here.pos, call.entry))} :
       IF Len(path) = 1
       THEN /\ root' = Fresh(DOMAIN ns)
            /\ nodes' = Put(ns, Fresh(DOMAIN ns), [left |-> root, entries |-> <<up>>])
            /\ Finish
       ELSE /\ nodes' = ns /\ root' = root
            /\ GoUp(up, [Front(path) EXCEPT ![Len(path) - 1].pos = @ + 1])
  /\ taken' = NoEntry

-----------------------------------------------------------------------------
(* Removal: takeLowerBound.  A node that is left with too few entries      *)
(* borrows one from its left or right sibling or, if neither has one to    *)
(* spare, is merged with one, whose entry the parent then loses.           *)

IsAfter == Here.pos > KeyCount(Node)
AtLeaf == IsLeaf(Node)
Taken == IF AtLeaf THEN Node.entries[Here.pos] ELSE taken

\* All keys of the leaf where x belongs are lower: the next leaf is not asked.
TakeNothing ==
  /\ Working("take") /\ AtLeaf /\ IsAfter
  /\ taken' = NoEntry /\ UNCHANGED <<root, nodes>>
  /\ Finish

Left == RemoveRaw(Node, Here.pos)
Removing == Working("take") /\ ~IsAfter /\ taken' = Taken
TooSmall == NodeSize(Left) < MinNodeSize
Parent == path[Len(path) - 1]
Above == nodes[Parent.ref]
Sibling(pos) == Child(Above, pos)
Spare(pos) == NodeSize(nodes[Sibling(pos)]) > MinNodeSize
LeftSpare == Parent.pos > 0 /\ Spare(Parent.pos - 1)
RightSpare == Parent.pos < KeyCount(Above) /\ Spare(Parent.pos + 1)

RemoveHere ==
  /\ Removing /\ ~TooSmall
  /\ nodes' = Put(nodes, Here.ref, Left) /\ root' = root
  /\ Finish

\* A root without keys gives way to its only child.
RemoveFromRoot ==
  /\ Removing /\ TooSmall /\ Len(path) = 1
  /\ IF ~IsLeaf(Node) /\ KeyCount(Left) = 0
     THEN root' = Left.left /\ nodes' = Restrict(nodes, DOMAIN nodes \ {root})
     ELSE root' = root /\ nodes' = Put(nodes, Here.ref, Left)
  /\ Finish

\* The parent's entry at a node's position has the key between the node and
\* its left sibling.
BorrowLeft ==
  /\ Removing /\ TooSmall /\ Len(path) > 1 /\ LeftSpare
  /\ \E e \in {Last(nodes[Sibling(Parent.pos - 1)].entries)} :
       nodes' = [nodes EXCEPT
         ![Sibling(Parent.pos - 1)].entries = Front(@),
         ![Here.ref] = IF IsLeaf(Node) THEN InsertRaw(Left, 1, e)
                       ELSE [left |-> e.value, entries |-> <<Entry(Above.entries[Parent.pos].key, Left.left)>> \o Left.entries],
         ![Parent.ref].entries[Parent.pos].key = e.key]
  /\ root' = root /\ Finish

\* Wrong: the parent gets the key of the entry that was borrowed, as it does
\* for inner nodes.
NewBoundBorrowed(right) == Head(right.entries).key
NewBound(right) == IF IsLeaf(right) THEN right.entries[2].key ELSE Head(right.entries).key

BorrowRight ==
  /\ Removing /\ TooSmall /\ Len(path) > 1 /\ ~LeftSpare /\ RightSpare
  /\ \E right \in {nodes[Sibling(Parent.pos + 1)]} :
       nodes' = [nodes EXCEPT
         ![Sibling(Parent.pos + 1)] = [left |-> IF IsLeaf(right) THEN 0 ELSE Head(right.entries).value,
                                      entries |-> Tail(right.entries)],
         ![Here.ref] = [Left EXCEPT !.entries = Append(@,
            IF IsLeaf(Node) THEN Head(right.entries) ELSE Entry(Above.entries[Parent.pos + 1].key, right.left))],
         ![Parent.ref].entries[Parent.pos + 1].key = NewBound(right)]
  /\ root' = root /\ Finish

\* The left one of two siblings takes in the other, which is at pos; the
\* parent loses that entry in the next step.
Merged(leftNode, rightNode, pos) ==
  [leftNode EXCEPT !.entries = @ \o (IF IsLeaf(leftNode) THEN <<>> ELSE <<Entry(Above.entries[pos].key, rightNode.left)>>)
                                 \o rightNode.entries]

Merge ==
  /\ Removing /\ TooSmall /\ Len(path) > 1 /\ ~LeftSpare /\ ~RightSpare
  /\ \E pos \in {IF Parent.pos > 0 THEN Parent.pos ELSE 1} :
     \E merged \in {IF Parent.pos > 0 THEN Merged(nodes[Sibling(pos - 1)], Left, pos)
                                      ELSE Merged(Left, nodes[Sibling(pos)], pos)} :
       /\ nodes' = Restrict(Put(nodes, Sibling(pos - 1), merged), DOMAIN nodes \ {Sibling(pos)})
       /\ GoUp(call.entry, [Front(path) EXCEPT ![Len(path) - 1].pos = pos])
  /\ root' = root

-----------------------------------------------------------------------------
(* Iteration: from the end of a leaf up to the lowest level that has a     *)
(* further child, and from there down to the first entry.                  *)

IterateEnd == Working("iterate") /\ IsAfter /\ Finish /\ UNCHANGED <<root, nodes, taken>>

\* Wrong: up to the highest level that has a further child.
FurtherHighest == {i \in 1 .. Len(path) - 1 : /\ path[i].pos < KeyCount(nodes[path[i].ref])
                    /\ \A j \in 1 .. i - 1 : path[j].pos >= KeyCount(nodes[path[j].ref])}
Further == {i \in 1 .. Len(path) - 1 : path[i].pos < KeyCount(nodes[path[i].ref])}

IterateNext ==
  /\ Working("iterate") /\ ~IsAfter
  /\ listed' = Append(listed, Node.entries[Here.pos])
  /\ IF Here.pos + 1 <= KeyCount(Node) \/ Further = {}
     THEN path' = [path EXCEPT ![Len(path)].pos = @ + 1] /\ at' = 0
     ELSE \E i \in {Max(Further)} :
            /\ path' = [SubSeq(path, 1, i) EXCEPT ![i].pos = @ + 1]
            /\ at' = Child(nodes[path[i].ref], path[i].pos + 1)
  /\ UNCHANGED <<root, nodes, call, taken, todo, calls>>

Next == \/ NextOfScript \/ AnyCall \/ Descend
        \/ InsertHere \/ SplitNode
        \/ TakeNothing \/ RemoveHere \/ RemoveFromRoot \/ BorrowLeft \/ BorrowRight \/ Merge
        \/ IterateEnd \/ IterateNext

Spec == Init /\ [][Next]_vars

-----------------------------------------------------------------------------
(* Correctness.                                                            *)

Children(n) == IF IsLeaf(n) THEN {} ELSE {Child(n, pos) : pos \in 0 .. KeyCount(n)}
InOrder(es) == \A i \in 2 .. Len(es) : es[i - 1].key < es[i].key

\* The keys in the nodes from ref down are at least low and below high, those
\* of each child within the keys around it.
RECURSIVE Within(_, _, _)
Within(ref, low, high) ==
  LET n == nodes[ref]
  IN  /\ \A i \in DOMAIN n.entries : n.entries[i].key >= low /\ n.entries[i].key < high
      /\ ~IsLeaf(n) => \A pos \in 0 .. KeyCount(n) :
           Within(Child(n, pos), IF pos = 0 THEN low ELSE n.entries[pos].key,
                                 IF pos = KeyCount(n) THEN high ELSE n.entries[pos + 1].key)

RECURSIVE Depths(_)
Depths(ref) == IF IsLeaf(nodes[ref]) THEN {1} ELSE {d + 1 : d \in UNION {Depths(c) : c \in Children(nodes[ref])}}

\* Between calls, whatever splits, loans and merges have run up the tree: keys
\* are in order and in the ranges their parents give, all leaves are on one
\* level, no node but the root is too empty, and each allocated node is the
\* root or the child of exactly one node (BTree.h).
WellFormed ==
  call = None =>
    /\ \A r \in DOMAIN nodes : InOrder(nodes[r].entries) /\ NodeSize(nodes[r]) <= MaxNodeSize
                               /\ (r # root => NodeSize(nodes[r]) >= MinNodeSize)
    /\ Within(root, 0, Max(Keys) + 1) /\ Cardinality(Depths(root)) = 1
    /\ DOMAIN nodes = {root} \union UNION {Children(nodes[r]) : r \in DOMAIN nodes}
    /\ \A r, q \in DOMAIN nodes : r # q => Children(nodes[r]) \intersect Children(nodes[q]) = {}

\* The tree is an ordered map: its leaves have exactly the entries put in and
\* not taken out, and a call takes out the least that is not below x, or none
\* (BTree.h).
Map == INSTANCE OrderedMap WITH
  entries <- [k \in Present |-> (CHOOSE e \in Contents : e.key = k).value]
ImplementsMap == Map!Spec

\* A call for the least key that is not below x misses it exactly if a key of an
\* inner node lies above x and not above that one, so that x belongs in an
\* earlier leaf; never x itself (BTree.h:239-247).
MissesOnlyNextLeaf ==
  LET x == call.key
      above == {k \in Present : k >= x}
      bounds == UNION {{e.key : e \in Range(nodes[r].entries)} : r \in {r \in DOMAIN nodes : ~IsLeaf(nodes[r])}}
  IN  Working("take") /\ AtLeaf =>
        (IsAfter <=> above = {} \/ \E b \in bounds : x < b /\ b <= Min(above))

\* Not so: a call that takes nothing has found "all keys are lower" (BTree.h:363).
LowerBoundFound ==
  Working("take") /\ AtLeaf /\ IsAfter => \A k \in Present : k < call.key

\* An iterator returns every entry once, in the order of the keys (BTree.h).
ListedInOrder ==
  /\ InOrder(listed)
  /\ (call.op = "iterate" /\ at = 0 /\ IsAfter) => Range(listed) = Contents
================================================================================
