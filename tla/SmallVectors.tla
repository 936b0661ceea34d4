----------------------------- MODULE SmallVectors -----------------------------
(***************************************************************************)
(* SmallVector: a vector that keeps its first elements in itself, and      *)
(* takes a buffer from the heap when it has more.  Elements are            *)
(* constructed and destroyed one by one; a cell without one is raw.        *)
(***************************************************************************)
EXTENDS Naturals, Sequences, FiniteSets

CONSTANTS
  Vectors, Elements, Raw, Default,
  InlineCapacity,   \* S
  MaxSize,          \* of a vector
  MaxCalls

Inline == 0
SmallVectorsAssumption ==
  /\ IsFiniteSet(Vectors) /\ InlineCapacity \in Nat \ {0}
  /\ Raw \notin Elements /\ Default \in Elements /\ MaxSize \in Nat

VARIABLES
  vectors,          \* [data, size, capacity, inline]: data is a buffer or Inline
  heap,             \* the cells of each buffer
  expected,         \* what each vector should hold
  spoiled,          \* an element was constructed over another, or a raw cell destroyed
  calls

vars == <<vectors, heap, expected, spoiled, calls>>

NoElements == [i \in 1 .. InlineCapacity |-> Raw]
Fresh == [data |-> Inline, size |-> 0, capacity |-> InlineCapacity, inline |-> NoElements]

Init ==
  /\ vectors = [v \in Vectors |-> Fresh] /\ heap = << >>
  /\ expected = [v \in Vectors |-> <<>>] /\ spoiled = FALSE /\ calls = 0

-----------------------------------------------------------------------------
(* Memory: m is [vectors, heap, spoiled].                                  *)

Memory == [vectors |-> vectors, heap |-> heap, spoiled |-> spoiled]
CellsOf(m, v) == IF m.vectors[v].data = Inline THEN m.vectors[v].inline ELSE m.heap[m.vectors[v].data]
WithCells(m, v, cells) ==
  IF m.vectors[v].data = Inline THEN [m EXCEPT !.vectors[v].inline = cells]
  ELSE [m EXCEPT !.heap[m.vectors[v].data] = cells]

\* Cells from a place on get elements; cells lose theirs.
Construct(m, v, from, elements) ==
  LET place == from + 1 .. from + Len(elements)
      into == CellsOf(m, v)
  IN  [WithCells(m, v, [i \in DOMAIN into |-> IF i \in place THEN elements[i - from] ELSE into[i]])
       EXCEPT !.spoiled = @ \/ ~(place \subseteq DOMAIN into) \/ \E i \in place \intersect DOMAIN into : into[i] # Raw]
Destroy(m, v, from, to) ==
  [WithCells(m, v, [i \in DOMAIN CellsOf(m, v) |-> IF i \in from + 1 .. to THEN Raw ELSE CellsOf(m, v)[i]])
   EXCEPT !.spoiled = @ \/ \E i \in from + 1 .. to : CellsOf(m, v)[i] = Raw]
Held(m, v) == SubSeq(CellsOf(m, v), 1, m.vectors[v].size)

Free(m, v) == IF m.vectors[v].data = Inline THEN m
              ELSE [m EXCEPT !.heap = [b \in DOMAIN @ \ {m.vectors[v].data} |-> @[b]]]
Unused(m) == CHOOSE b \in 1 .. Cardinality(Vectors) + 1 : b \notin DOMAIN m.heap
NewBuffer(m, capacity) ==
  [b \in DOMAIN m.heap \union {Unused(m)} |-> IF b = Unused(m) THEN [i \in 1 .. capacity |-> Raw] ELSE m.heap[b]]

-----------------------------------------------------------------------------
(* Capacity.                                                               *)

\* The elements are moved before the old buffer is freed.
Reallocate(m, v, capacity) ==
  LET b == Unused(m)
      taken == [m EXCEPT !.heap = NewBuffer(m, capacity)]
      freed == Free(Destroy(taken, v, 0, m.vectors[v].size), v)
      switched == [freed EXCEPT !.vectors[v].data = b, !.vectors[v].capacity = capacity]
  IN  Construct(switched, v, 0, Held(m, v))

Reserve(m, v, min) == IF min > m.vectors[v].capacity THEN Reallocate(m, v, min) ELSE m

NextCapacity(capacity, min) == IF 2 * capacity > min THEN 2 * capacity ELSE min

\* Wrong: there is room for one more when there is none.
FullLate(vector) == vector.size > vector.capacity
Full(vector) == vector.size = vector.capacity

-----------------------------------------------------------------------------
(* Operations.                                                             *)

Done(m, v, elements) ==
  /\ vectors' = [m.vectors EXCEPT ![v].size = Len(elements)]
  /\ heap' = m.heap /\ spoiled' = m.spoiled /\ expected' = [expected EXCEPT ![v] = elements]
  /\ calls' = calls + 1

EmplaceBack(v, x) ==
  /\ vectors[v].size < MaxSize
  /\ \E m \in {IF Full(vectors[v]) THEN Reallocate(Memory, v, NextCapacity(vectors[v].capacity, vectors[v].size + 1)) ELSE Memory} :
       Done(Construct(m, v, vectors[v].size, <<x>>), v, Append(expected[v], x))

PopBack(v) ==
  /\ vectors[v].size > 0
  /\ \E n \in {vectors[v].size - 1} : Done(Destroy(Memory, v, n, vectors[v].size), v, SubSeq(expected[v], 1, n))

Resize(v, n) ==
  IF n > vectors[v].size
  THEN \E more \in {[i \in 1 .. n - vectors[v].size |-> Default]} :
         Done(Construct(Reserve(Memory, v, n), v, vectors[v].size, more), v, expected[v] \o more)
  ELSE Done(Destroy(Memory, v, n, vectors[v].size), v, SubSeq(expected[v], 1, n))

Clear(v) == Done(Destroy(Memory, v, 0, vectors[v].size), v, <<>>)

Assign(v, w) ==
  /\ v # w
  /\ \E m \in {Reserve([Destroy(Memory, v, 0, vectors[v].size) EXCEPT !.vectors[v].size = 0], v, vectors[w].size)} :
       Done(Construct(m, v, 0, Held(Memory, w)), v, expected[w])

\* adoptContentsOf(): a buffer is taken over, elements within the other vector
\* are moved one by one.
\* Wrong: the other keeps the buffer.
LeftOfShared(vector) == [vector EXCEPT !.size = 0]
LeftOf(vector) == [vector EXCEPT !.data = Inline, !.size = 0, !.capacity = InlineCapacity]
Adopt(m, v, w) ==
  IF m.vectors[w].data # Inline
  THEN [m EXCEPT !.vectors[v].data = m.vectors[w].data, !.vectors[v].capacity = m.vectors[w].capacity,
                 !.vectors[w] = LeftOf(m.vectors[w])]
  ELSE [Destroy(Construct(m, v, 0, Held(m, w)), w, 0, m.vectors[w].size) EXCEPT !.vectors[w].size = 0]

\* The destructor, with or without a constructor that takes over another vector.
Destructed(v) == [Free(Destroy(Memory, v, 0, vectors[v].size), v)
                  EXCEPT !.vectors[v].data = Inline, !.vectors[v].size = 0, !.vectors[v].capacity = InlineCapacity]
MoveAssign(v, w) ==
  /\ v # w
  /\ \E m \in {Adopt(Destructed(v), v, w)} :
       /\ vectors' = [m.vectors EXCEPT ![v].size = vectors[w].size] /\ heap' = m.heap /\ spoiled' = m.spoiled
       /\ expected' = [expected EXCEPT ![v] = expected[w], ![w] = <<>>] /\ calls' = calls + 1
Renew(v) == Done(Destructed(v), v, <<>>)

Next ==
  /\ calls < MaxCalls
  /\ \E v \in Vectors :
       \/ \E x \in Elements : EmplaceBack(v, x)
       \/ PopBack(v) \/ Clear(v) \/ Renew(v)
       \/ \E n \in 0 .. MaxSize : Resize(v, n)
       \/ \E w \in Vectors : Assign(v, w) \/ MoveAssign(v, w)

Spec == Init /\ [][Next]_vars

-----------------------------------------------------------------------------
(* Correctness.                                                            *)

\* Each vector holds what a sequence would, in cells that hold nothing else:
\* elements are neither lost nor left behind when they move between the vector
\* and the heap (SmallVector.h, lines 186-241 and 284-333).
VectorsHold ==
  \A v \in Vectors :
    /\ vectors[v].size <= vectors[v].capacity /\ Len(CellsOf(Memory, v)) = vectors[v].capacity
    /\ Held(Memory, v) = expected[v] /\ ~spoiled
    /\ \A i \in vectors[v].size + 1 .. vectors[v].capacity : CellsOf(Memory, v)[i] = Raw
    /\ vectors[v].data # Inline => vectors[v].inline = NoElements

\* Each buffer belongs to one vector: none leaks, and none is freed twice.
BuffersOwned ==
  /\ DOMAIN heap = {vectors[v].data : v \in Vectors} \ {Inline}
  /\ \A v, w \in Vectors : v # w /\ vectors[v].data # Inline => vectors[v].data # vectors[w].data
================================================================================
