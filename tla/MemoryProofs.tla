----------------------------- MODULE MemoryProofs -----------------------------
(***************************************************************************)
(* What holds of the memory that everything is made of, arenas and small   *)
(* vectors, for every number of objects, arenas, vectors and elements and  *)
(* all sizes of chunks.  Each part has an inductive invariant of its own;  *)
(* a step of a part that threads share leaves it alone.                    *)
(***************************************************************************)
EXTENDS Services, FiniteSetTheorems, SequenceTheorems, TLAPS

-----------------------------------------------------------------------------
(* Arenas: the inductive invariant *)

Owners == SimpleArenas \union {"arena"}
ChunkPlaces == [own : SUBSET Nat, current : Nat, p : Nat, end : Nat]
ArenaObjects == [owner : Owners, chunk : Nat, from : Nat, size : Nat \ {0}, align : Nat \ {0}]

\* Where each arena cuts its next object.
Where == [o \in Owners |-> IF o = "arena" THEN [own |-> arena.own, current |-> arena.current, p |-> arena.p, end |-> arena.end]
                                          ELSE simple[o]]

\* Between the header and the end of a chunk of its own.
CutsIn(w, sizes) ==
  /\ w \in ChunkPlaces /\ w.own \subseteq DOMAIN sizes
  /\ w.current # 0 => w.current \in w.own /\ ChunkHeader <= w.p /\ w.p <= w.end /\ w.end = sizes[w.current]

\* A chunk has one owner, or has been given back once.
OneOwner(sizes, given_back, wh) ==
  /\ \A o, q \in Owners : o # q => wh[o].own \intersect wh[q].own = {}
  /\ \A c \in DOMAIN sizes : given_back[c] = IF \E o \in Owners : c \in wh[o].own THEN 0 ELSE 1

\* An object lies in a chunk of its owner, before the place of the next.
LiesIn(b, w, sizes) ==
  /\ b.chunk \in w.own /\ ChunkHeader <= b.from /\ b.from + b.size <= sizes[b.chunk] /\ b.from % b.align = 0
  /\ b.chunk = w.current => b.from + b.size <= w.p
LieApart(a, b) == a.chunk = b.chunk => a.from + a.size <= b.from \/ b.from + b.size <= a.from

Arranged(sizes, given_back, wh, obs) ==
  /\ sizes \in Seq(Nat) /\ given_back \in Seq(Nat) /\ Len(given_back) = Len(sizes) /\ DOMAIN wh = Owners
  /\ \A o \in Owners : CutsIn(wh[o], sizes)
  /\ OneOwner(sizes, given_back, wh)
  /\ \A i \in DOMAIN obs : obs[i] \in ArenaObjects /\ LiesIn(obs[i], wh[obs[i].owner], sizes)
  /\ \A i, j \in DOMAIN obs : i # j => LieApart(obs[i], obs[j])

\* The nodes of a bag are objects of the arena, none of which is trimmed, and
\* have room for as many items as there are; the last one is not empty.
NodesFilled(nodes, count) ==
  \/ nodes = <<>> /\ count = 0
  \/ \E filled \in 1 .. ItemsPerChunk : count = (Len(nodes) - 1) * ItemsPerChunk + filled
BagHeld(b, obs, last) ==
  /\ b \in [nodes : Seq(Nat), count : Nat] /\ NodesFilled(b.nodes, b.count)
  /\ \A k \in 1 .. Len(b.nodes) : /\ b.nodes[k] \in DOMAIN obs /\ b.nodes[k] # last
                                  /\ obs[b.nodes[k]].owner = "arena" /\ obs[b.nodes[k]].size = 1 + ItemsPerChunk
  /\ \A k, l \in 1 .. Len(b.nodes) : k # l => b.nodes[k] # b.nodes[l]

\* The object that may be trimmed ends where the next one would begin.
TrimsLast(a, obs) ==
  a.last # 0 => /\ a.last \in DOMAIN obs /\ obs[a.last].owner = "arena" /\ a.current # 0
                /\ obs[a.last].chunk = a.current /\ obs[a.last].from + obs[a.last].size = a.p

ArenasTyped ==
  /\ growth \in Nat \ {0} /\ calls \in Nat /\ DOMAIN objects \subseteq 1 .. calls
  /\ arena \in [own : SUBSET Nat, current : Nat, p : Nat, end : Nat, nextSize : Nat \ {0}, last : Nat]
  /\ simple \in [SimpleArenas -> ChunkPlaces]
  /\ arena.current = 0 => arena.p = 0 /\ arena.end = 0
  /\ \A s \in SimpleArenas : /\ simple[s].end = ChunkHeader + ChunkSize
                             /\ simple[s].current = 0 => simple[s].p = simple[s].end

ArenasInv ==
  /\ ArenasTyped /\ Arranged(chunkSizes, freed, Where, objects)
  /\ TrimsLast(arena, objects) /\ BagHeld(bag, objects, arena.last)


-----------------------------------------------------------------------------
(* Arenas: chunks and objects *)

\* A product grows with its second factor.
LEMMA ProductGrows ==
  ASSUME NEW a \in Nat, NEW b \in Nat, NEW c \in Nat, b <= c
  PROVE  a * b \in Nat /\ a * c \in Nat /\ a * b <= a * c
<1>1. PICK d \in Nat : c = b + d
  <2>1. c - b \in Nat /\ c = b + (c - b)
    OBVIOUS
  <2>. QED BY <2>1
<1>2. a * c = a * b + a * d /\ a * d \in Nat /\ a * b \in Nat
  BY <1>1
<1>. QED BY <1>1, <1>2

\* The object i is cut after the place where its owner's next one would begin,
\* and is followed by the place p.
IsCut(wh, wh2, obs, obs2, i, p) ==
  /\ DOMAIN obs2 = DOMAIN obs \union {i} /\ i \notin DOMAIN obs /\ \A j \in DOMAIN obs : obs2[j] = obs[j]
  /\ p \in Nat /\ \E b \in ArenaObjects :
       /\ obs2[i] = b /\ b.chunk = wh[b.owner].current /\ wh[b.owner].current # 0 /\ wh2 = [wh EXCEPT ![b.owner].p = p]
       /\ wh[b.owner].p <= b.from /\ b.from % b.align = 0 /\ b.from + b.size <= p /\ p <= wh[b.owner].end
LEMMA ObjectCut ==
  ASSUME NEW sizes, NEW gb, NEW wh, NEW obs, Arranged(sizes, gb, wh, obs),
         NEW wh2, NEW obs2, NEW i, NEW p, IsCut(wh, wh2, obs, obs2, i, p)
  PROVE  Arranged(sizes, gb, wh2, obs2)
<1>. PICK b \in ArenaObjects :
       /\ obs2[i] = b /\ b.chunk = wh[b.owner].current /\ wh[b.owner].current # 0 /\ wh2 = [wh EXCEPT ![b.owner].p = p]
       /\ wh[b.owner].p <= b.from /\ b.from % b.align = 0 /\ b.from + b.size <= p /\ p <= wh[b.owner].end
  BY DEF IsCut
<1>. DEFINE o == b.owner
<1>. /\ o \in Owners /\ p \in Nat /\ i \notin DOMAIN obs /\ wh2 = [wh EXCEPT ![o].p = p]
     /\ b.owner = o /\ wh[o].current # 0 /\ b.chunk = wh[o].current
     /\ wh[o].p <= b.from /\ b.from % b.align = 0 /\ b.from + b.size <= p /\ p <= wh[o].end
     /\ DOMAIN obs2 = DOMAIN obs \union {i} /\ obs2[i] = b /\ \A j \in DOMAIN obs : obs2[j] = obs[j]
  BY DEF IsCut, ArenaObjects
<1>. HIDE DEF o
<1>1. /\ \A q \in Owners : wh2[q].own = wh[q].own /\ wh2[q].current = wh[q].current /\ wh2[q].end = wh[q].end
      /\ \A q \in Owners : q # o => wh2[q] = wh[q]
      /\ wh2[o] = [wh[o] EXCEPT !.p = p] /\ wh[o] \in ChunkPlaces /\ wh2[o].p = p /\ DOMAIN wh2 = Owners
  BY DEF Arranged, CutsIn, ChunkPlaces
<1>2. /\ DOMAIN obs2 = DOMAIN obs \union {i} /\ obs2[i] = b
      /\ \A j \in DOMAIN obs : obs2[j] = obs[j] /\ j # i
  OBVIOUS
<1>3. /\ \A q \in Owners : CutsIn(wh[q], sizes)
      /\ OneOwner(sizes, gb, wh)
      /\ \A j \in DOMAIN obs : obs[j] \in ArenaObjects /\ LiesIn(obs[j], wh[obs[j].owner], sizes)
      /\ \A j, k \in DOMAIN obs : j # k => LieApart(obs[j], obs[k])
  BY DEF Arranged
<1>4. /\ wh[o].p \in Nat /\ wh[o].end \in Nat /\ b.from \in Nat /\ b.size \in Nat \ {0}
      /\ wh[o].current \in wh[o].own /\ wh[o].end = sizes[wh[o].current] /\ ChunkHeader <= wh[o].p
      /\ ChunkHeader \in Nat
  BY <1>3, ServicesAssumption DEF CutsIn, ChunkPlaces, ArenaObjects, Memory!ArenasAssumption
<1>5. ASSUME NEW q \in Owners PROVE CutsIn(wh2[q], sizes)
  <2>1. CASE q = o
    <3>1. wh2[o] \in ChunkPlaces /\ CutsIn(wh[o], sizes)
      BY <1>1, <1>3 DEF ChunkPlaces
    <3>2. wh[o].own \subseteq DOMAIN sizes /\ wh2[o].current = wh[o].current /\ wh2[o].end = wh[o].end
      BY <1>1, <3>1 DEF CutsIn
    <3>3. ChunkHeader <= p
      BY <1>4, b.size \in Nat, b.from \in Nat
    <3>. QED BY <1>1, <1>4, <2>1, <3>1, <3>2, <3>3 DEF CutsIn
  <2>. QED BY <1>1, <1>3, <2>1
<1>6. OneOwner(sizes, gb, wh2)
  BY <1>1, <1>3 DEF OneOwner
\* Who else has the chunk.
<1>7. ASSUME NEW j \in DOMAIN obs PROVE obs[j].owner # o => obs[j].chunk # b.chunk
  <2>1. obs[j].owner \in Owners /\ obs[j].chunk \in wh[obs[j].owner].own
    BY <1>3 DEF ArenaObjects, LiesIn
  <2>. QED BY <1>3, <1>4, <2>1 DEF OneOwner
<1>8. ASSUME NEW j \in DOMAIN obs
      PROVE  LiesIn(obs[j], wh2[obs[j].owner], sizes) /\ LieApart(obs[j], b) /\ LieApart(b, obs[j])
  <2>1. /\ obs[j] \in ArenaObjects /\ LiesIn(obs[j], wh[obs[j].owner], sizes)
        /\ obs[j].from \in Nat /\ obs[j].size \in Nat
    BY <1>3 DEF ArenaObjects
  <2>2. CASE obs[j].owner # o
    BY <1>1, <1>7, <2>1, <2>2 DEF LieApart, ArenaObjects
  <2>3. CASE obs[j].owner = o
    <3>1. obs[j].chunk = wh[o].current => obs[j].from + obs[j].size <= wh[o].p
      BY <2>1, <2>3 DEF LiesIn
    <3>2. LiesIn(obs[j], wh2[o], sizes)
      BY <1>1, <1>4, <2>1, <2>3, <3>1 DEF LiesIn
    <3>. QED BY <1>4, <2>1, <2>3, <3>1, <3>2 DEF LieApart
  <2>. QED BY <2>2, <2>3
<1>9. LiesIn(b, wh2[o], sizes)
  BY <1>1, <1>4 DEF LiesIn
<1>10. /\ \A j \in DOMAIN obs2 : obs2[j] \in ArenaObjects /\ LiesIn(obs2[j], wh2[obs2[j].owner], sizes)
       /\ \A j, k \in DOMAIN obs2 : j # k => LieApart(obs2[j], obs2[k])
  BY <1>2, <1>3, <1>8, <1>9
<1>. QED BY <1>1, <1>5, <1>6, <1>10 DEF Arranged

\* A chunk is taken from the heap; its header comes first.
LEMMA ChunkAdded ==
  ASSUME NEW sizes, NEW gb, NEW wh, NEW obs, Arranged(sizes, gb, wh, obs),
         NEW o \in Owners, NEW size \in Nat, ChunkHeader <= size
  PROVE  Arranged(Append(sizes, size), Append(gb, 0),
                  [wh EXCEPT ![o] = [own |-> @.own \union {Len(sizes) + 1}, current |-> Len(sizes) + 1,
                                     p |-> ChunkHeader, end |-> size]], obs)
<1>. DEFINE c == Len(sizes) + 1
            sizes2 == Append(sizes, size)
            gb2 == Append(gb, 0)
            wh2 == [wh EXCEPT ![o] = [own |-> @.own \union {c}, current |-> c, p |-> ChunkHeader, end |-> size]]
<1>1. /\ sizes \in Seq(Nat) /\ gb \in Seq(Nat) /\ Len(gb) = Len(sizes) /\ DOMAIN wh = Owners
      /\ \A q \in Owners : CutsIn(wh[q], sizes)
      /\ OneOwner(sizes, gb, wh)
      /\ \A j \in DOMAIN obs : obs[j] \in ArenaObjects /\ LiesIn(obs[j], wh[obs[j].owner], sizes)
      /\ \A j, k \in DOMAIN obs : j # k => LieApart(obs[j], obs[k])
  BY DEF Arranged
<1>2. ChunkHeader \in Nat \ {0}
  BY ServicesAssumption DEF Memory!ArenasAssumption
<1>3. /\ sizes2 \in Seq(Nat) /\ gb2 \in Seq(Nat) /\ Len(gb2) = Len(sizes2)
      /\ DOMAIN sizes2 = DOMAIN sizes \union {c} /\ DOMAIN gb = DOMAIN sizes /\ c \notin DOMAIN sizes /\ c \in Nat \ {0}
      /\ sizes2[c] = size /\ gb2[c] = 0 /\ \A k \in DOMAIN sizes : sizes2[k] = sizes[k] /\ gb2[k] = gb[k]
  <2>1. Len(sizes) \in Nat /\ Len(gb) \in Nat /\ DOMAIN sizes = 1 .. Len(sizes) /\ DOMAIN gb = 1 .. Len(gb)
    BY <1>1, LenProperties
  <2>2. /\ sizes2 \in Seq(Nat) /\ Len(sizes2) = Len(sizes) + 1 /\ sizes2[c] = size
        /\ \A k \in 1 .. Len(sizes) : sizes2[k] = sizes[k]
    BY <1>1, AppendProperties
  <2>3. /\ gb2 \in Seq(Nat) /\ Len(gb2) = Len(gb) + 1 /\ gb2[c] = 0
        /\ \A k \in 1 .. Len(gb) : gb2[k] = gb[k]
    BY <1>1, AppendProperties
  <2>4. DOMAIN sizes2 = 1 .. Len(sizes2)
    BY <2>2, LenProperties
  <2>. QED BY <1>1, <2>1, <2>2, <2>3, <2>4
<1>4. /\ DOMAIN wh2 = Owners /\ \A q \in Owners : q # o => wh2[q] = wh[q]
      /\ wh2[o] = [own |-> wh[o].own \union {c}, current |-> c, p |-> ChunkHeader, end |-> size]
  BY <1>1
<1>. HIDE DEF c, sizes2, gb2, wh2
<1>5. \A q \in Owners : wh[q] \in ChunkPlaces /\ wh[q].own \subseteq DOMAIN sizes
  BY <1>1 DEF CutsIn
<1>6. ASSUME NEW q \in Owners PROVE CutsIn(wh2[q], sizes2)
  <2>1. CASE q = o
    <3>1. wh[o].own \subseteq DOMAIN sizes /\ DOMAIN sizes \subseteq Nat /\ wh[o] \in ChunkPlaces
      BY <1>1, <1>5, LenProperties
    <3>2. wh[o].own \union {c} \subseteq DOMAIN sizes2 /\ wh[o].own \union {c} \in SUBSET Nat
      BY <1>3, <3>1
    <3>3. wh2[o] \in ChunkPlaces
      <4>. DEFINE own2 == wh[o].own \union {c}
      <4>1. own2 \in SUBSET Nat /\ c \in Nat /\ ChunkHeader \in Nat
        BY <1>2, <1>3, <3>2
      <4>2. wh2[o] = [own |-> own2, current |-> c, p |-> ChunkHeader, end |-> size]
        BY <1>4
      <4>. HIDE DEF own2
      <4>. QED BY <4>1, <4>2 DEF ChunkPlaces
    <3>4. /\ wh2[o].own = wh[o].own \union {c} /\ wh2[o].current = c
          /\ wh2[o].p = ChunkHeader /\ wh2[o].end = size
      BY <1>4
    <3>. QED BY <1>2, <1>3, <2>1, <3>2, <3>3, <3>4 DEF CutsIn
  <2>2. CASE q # o
    <3>1. wh[q].own \subseteq DOMAIN sizes /\ CutsIn(wh[q], sizes) /\ wh2[q] = wh[q]
      BY <1>1, <1>4, <1>5, <2>2
    <3>2. wh[q].current # 0 => sizes2[wh[q].current] = sizes[wh[q].current]
      BY <1>3, <3>1 DEF CutsIn
    <3>. QED BY <1>3, <3>1, <3>2 DEF CutsIn
  <2>. QED BY <2>1, <2>2
<1>7. OneOwner(sizes2, gb2, wh2)
  <2>1. \A q \in Owners : c \notin wh[q].own
    BY <1>3, <1>5
  <2>2. /\ \A q, r \in Owners : q # r => wh[q].own \intersect wh[r].own = {}
        /\ \A d \in DOMAIN sizes : gb[d] = IF \E q \in Owners : d \in wh[q].own THEN 0 ELSE 1
    BY <1>1 DEF OneOwner
  <2>3. \A q \in Owners : wh2[q].own = IF q = o THEN wh[q].own \union {c} ELSE wh[q].own
    BY <1>4
  <2>4. ASSUME NEW q \in Owners, NEW r \in Owners, q # r PROVE wh2[q].own \intersect wh2[r].own = {}
    <3>1. wh[q].own \intersect wh[r].own = {} /\ c \notin wh[q].own /\ c \notin wh[r].own
      BY <2>1, <2>2, <2>4
    <3>2. wh2[q].own \subseteq wh[q].own \union (IF q = o THEN {c} ELSE {})
      BY <2>3
    <3>3. wh2[r].own \subseteq wh[r].own \union (IF r = o THEN {c} ELSE {})
      BY <2>3
    <3>. QED BY <2>4, <3>1, <3>2, <3>3
  <2>5. ASSUME NEW d \in DOMAIN sizes2 PROVE gb2[d] = IF \E q \in Owners : d \in wh2[q].own THEN 0 ELSE 1
    <3>1. CASE d = c
      BY <1>3, <2>3, <3>1
    <3>2. CASE d # c
      <4>1. \A q \in Owners : d \in wh2[q].own <=> d \in wh[q].own
        BY <2>3, <3>2
      <4>2. d \in DOMAIN sizes
        BY <1>3, <3>2
      <4>. QED BY <1>3, <2>2, <4>1, <4>2
    <3>. QED BY <3>1, <3>2
  <2>. QED BY <2>4, <2>5 DEF OneOwner
<1>8. ASSUME NEW j \in DOMAIN obs PROVE LiesIn(obs[j], wh2[obs[j].owner], sizes2)
  <2>1. /\ obs[j].owner \in Owners /\ obs[j].chunk \in wh[obs[j].owner].own
        /\ LiesIn(obs[j], wh[obs[j].owner], sizes)
    BY <1>1 DEF ArenaObjects, LiesIn
  <2>2. obs[j].chunk \in DOMAIN sizes /\ obs[j].chunk # c
    BY <1>3, <1>5, <2>1
  <2>3. CASE obs[j].owner = o
    BY <1>3, <1>4, <2>1, <2>2, <2>3 DEF LiesIn
  <2>4. CASE obs[j].owner # o
    BY <1>3, <1>4, <2>1, <2>2, <2>4 DEF LiesIn
  <2>. QED BY <2>3, <2>4
<1>9. Arranged(sizes2, gb2, wh2, obs)
  BY <1>1, <1>3, <1>4, <1>6, <1>7, <1>8 DEF Arranged
<1>. QED BY <1>9 DEF c, sizes2, gb2, wh2

\* The place of the next object moves back to the end of those that are left.
LEMMA PlaceLowered ==
  ASSUME NEW sizes, NEW gb, NEW wh, NEW obs, Arranged(sizes, gb, wh, obs),
         NEW o \in Owners, NEW p \in Nat, wh[o].current # 0 => ChunkHeader <= p /\ p <= wh[o].p,
         \A j \in DOMAIN obs : obs[j].chunk = wh[o].current => obs[j].from + obs[j].size <= p
  PROVE  Arranged(sizes, gb, [wh EXCEPT ![o].p = p], obs)
<1>. DEFINE wh2 == [wh EXCEPT ![o].p = p]
<1>1. /\ \A q \in Owners : wh2[q].own = wh[q].own /\ wh2[q].current = wh[q].current /\ wh2[q].end = wh[q].end
      /\ \A q \in Owners : q # o => wh2[q] = wh[q]
      /\ wh2[o] \in ChunkPlaces /\ wh[o] \in ChunkPlaces /\ wh2[o].p = p /\ DOMAIN wh2 = Owners
  BY DEF Arranged, CutsIn, ChunkPlaces
<1>. HIDE DEF wh2
<1>2. /\ \A q \in Owners : CutsIn(wh[q], sizes)
      /\ OneOwner(sizes, gb, wh)
      /\ \A j \in DOMAIN obs : obs[j] \in ArenaObjects /\ LiesIn(obs[j], wh[obs[j].owner], sizes)
  BY DEF Arranged
<1>3. ASSUME NEW q \in Owners PROVE CutsIn(wh2[q], sizes)
  <2>1. CASE q = o
    <3>1. wh[o].p \in Nat /\ wh[o].end \in Nat /\ CutsIn(wh[o], sizes)
      BY <1>1, <1>2 DEF ChunkPlaces
    <3>. QED BY <1>1, <2>1, <3>1 DEF CutsIn
  <2>. QED BY <1>1, <1>2, <2>1
<1>4. OneOwner(sizes, gb, wh2)
  BY <1>1, <1>2 DEF OneOwner
<1>5. ASSUME NEW j \in DOMAIN obs PROVE LiesIn(obs[j], wh2[obs[j].owner], sizes)
  <2>1. LiesIn(obs[j], wh[obs[j].owner], sizes) /\ obs[j].owner \in Owners
    BY <1>2 DEF ArenaObjects
  <2>. QED BY <1>1, <2>1 DEF LiesIn
<1>. QED BY <1>1, <1>3, <1>4, <1>5 DEF Arranged, wh2

\* Objects go away, or end earlier.
LEMMA ObjectsSmaller ==
  ASSUME NEW sizes, NEW gb, NEW wh, NEW obs, Arranged(sizes, gb, wh, obs), NEW obs2,
         DOMAIN obs2 \subseteq DOMAIN obs,
         \A i \in DOMAIN obs2 : /\ obs2[i] \in ArenaObjects /\ obs2[i].owner = obs[i].owner /\ obs2[i].chunk = obs[i].chunk
                                /\ obs2[i].from = obs[i].from /\ obs2[i].align = obs[i].align
                                /\ obs2[i].size <= obs[i].size
  PROVE  Arranged(sizes, gb, wh, obs2)
<1>1. /\ \A j \in DOMAIN obs : obs[j] \in ArenaObjects /\ LiesIn(obs[j], wh[obs[j].owner], sizes)
      /\ \A j, k \in DOMAIN obs : j # k => LieApart(obs[j], obs[k])
      /\ \A q \in Owners : CutsIn(wh[q], sizes)
      /\ sizes \in Seq(Nat)
  BY DEF Arranged
<1>2. ASSUME NEW i \in DOMAIN obs2 PROVE LiesIn(obs2[i], wh[obs2[i].owner], sizes)
  <2>1. /\ obs2[i].from \in Nat /\ obs2[i].size \in Nat /\ obs[i].size \in Nat
        /\ LiesIn(obs[i], wh[obs2[i].owner], sizes) /\ wh[obs2[i].owner] \in ChunkPlaces
        /\ obs[i].chunk \in DOMAIN sizes
    BY <1>1 DEF ArenaObjects, CutsIn, LiesIn
  <2>2. sizes[obs[i].chunk] \in Nat /\ wh[obs2[i].owner].p \in Nat
    <3>1. sizes \in Seq(Nat) /\ DOMAIN sizes = 1 .. Len(sizes)
      BY <1>1, <2>1, LenProperties
    <3>2. sizes[obs[i].chunk] \in Nat
      BY <2>1, <3>1, ElementOfSeq
    <3>. QED BY <2>1, <3>2 DEF ChunkPlaces
  <2>. QED BY <2>1, <2>2 DEF LiesIn
<1>3. ASSUME NEW i \in DOMAIN obs2, NEW j \in DOMAIN obs2, i # j PROVE LieApart(obs2[i], obs2[j])
  <2>1. /\ obs2[i].from \in Nat /\ obs2[i].size \in Nat /\ obs[i].size \in Nat
        /\ obs2[j].from \in Nat /\ obs2[j].size \in Nat /\ obs[j].size \in Nat /\ LieApart(obs[i], obs[j])
    BY <1>1, <1>3 DEF ArenaObjects
  <2>. QED BY <2>1 DEF LieApart
<1>. QED BY <1>2, <1>3 DEF Arranged

\* An owner gives all its chunks back, with what is in them.
LEMMA ChunksGivenBack ==
  ASSUME NEW sizes, NEW gb, NEW wh, NEW obs, Arranged(sizes, gb, wh, obs),
         NEW o \in Owners, NEW w \in ChunkPlaces, w.own = {}, w.current = 0
  PROVE  Arranged(sizes, [c \in DOMAIN gb |-> IF c \in wh[o].own THEN gb[c] + 1 ELSE gb[c]], [wh EXCEPT ![o] = w],
                  Restrict(obs, DOMAIN obs \ {i \in DOMAIN obs : obs[i].owner = o}))
<1>. DEFINE gb2 == [c \in DOMAIN gb |-> IF c \in wh[o].own THEN gb[c] + 1 ELSE gb[c]]
            wh2 == [wh EXCEPT ![o] = w]
            left == DOMAIN obs \ {i \in DOMAIN obs : obs[i].owner = o}
            obs2 == Restrict(obs, left)
<1>1. /\ sizes \in Seq(Nat) /\ gb \in Seq(Nat) /\ Len(gb) = Len(sizes) /\ DOMAIN wh = Owners
      /\ \A q \in Owners : CutsIn(wh[q], sizes)
      /\ OneOwner(sizes, gb, wh)
      /\ \A j \in DOMAIN obs : obs[j] \in ArenaObjects /\ LiesIn(obs[j], wh[obs[j].owner], sizes)
      /\ \A j, k \in DOMAIN obs : j # k => LieApart(obs[j], obs[k])
  BY DEF Arranged
<1>2. /\ gb2 \in Seq(Nat) /\ Len(gb2) = Len(sizes) /\ DOMAIN gb2 = DOMAIN sizes
      /\ \A c \in DOMAIN sizes : gb2[c] = IF c \in wh[o].own THEN gb[c] + 1 ELSE gb[c]
  <2>1. Len(gb) \in Nat /\ DOMAIN gb = 1 .. Len(gb) /\ DOMAIN sizes = 1 .. Len(sizes) /\ gb \in [1 .. Len(gb) -> Nat]
    BY <1>1, LenProperties
  <2>2. gb2 \in [1 .. Len(gb) -> Nat]
    BY <2>1
  <2>3. gb2 \in Seq(Nat) /\ Len(gb2) = Len(gb)
    BY <2>1, <2>2, LenProperties
  <2>. QED BY <1>1, <2>1, <2>3
<1>3. DOMAIN wh2 = Owners /\ wh2[o] = w /\ \A q \in Owners : q # o => wh2[q] = wh[q]
  BY <1>1
<1>4. /\ DOMAIN obs2 = left /\ left \subseteq DOMAIN obs
      /\ \A i \in left : obs2[i] = obs[i] /\ obs[i].owner # o
  BY DEF Restrict
<1>. HIDE DEF gb2, wh2, obs2, left
<1>5. ASSUME NEW q \in Owners PROVE CutsIn(wh2[q], sizes)
  BY <1>1, <1>3 DEF CutsIn
<1>6. OneOwner(sizes, gb2, wh2)
  <2>1. /\ \A q, r \in Owners : q # r => wh[q].own \intersect wh[r].own = {}
        /\ \A d \in DOMAIN sizes : gb[d] = IF \E q \in Owners : d \in wh[q].own THEN 0 ELSE 1
    BY <1>1 DEF OneOwner
  <2>2. wh2[o].own = {} /\ \A q \in Owners : q # o => wh2[q].own = wh[q].own
    BY <1>3
  <2>3. \A q, r \in Owners : q # r => wh2[q].own \intersect wh2[r].own = {}
    BY <2>1, <2>2
  <2>4. ASSUME NEW d \in DOMAIN sizes PROVE gb2[d] = IF \E q \in Owners : d \in wh2[q].own THEN 0 ELSE 1
    <3>1. CASE d \in wh[o].own
      <4>1. \A q \in Owners : d \notin wh2[q].own
        BY <2>1, <2>2, <3>1
      <4>. QED BY <1>2, <2>1, <3>1, <4>1
    <3>2. CASE d \notin wh[o].own
      <4>1. \A q \in Owners : d \in wh2[q].own <=> d \in wh[q].own
        BY <2>2, <3>2
      <4>. QED BY <1>2, <2>1, <3>2, <4>1
    <3>. QED BY <3>1, <3>2
  <2>. QED BY <2>3, <2>4 DEF OneOwner
<1>7. /\ \A i \in DOMAIN obs2 : obs2[i] \in ArenaObjects /\ LiesIn(obs2[i], wh2[obs2[i].owner], sizes)
      /\ \A i, j \in DOMAIN obs2 : i # j => LieApart(obs2[i], obs2[j])
  BY <1>1, <1>3, <1>4 DEF ArenaObjects
<1>8. Arranged(sizes, gb2, wh2, obs2)
  BY <1>1, <1>2, <1>3, <1>5, <1>6, <1>7 DEF Arranged
<1>. QED BY <1>8 DEF gb2, wh2, obs2, left

\* What one owner has becomes another's, which had nothing.
LEMMA ChunksMoved ==
  ASSUME NEW sizes, NEW gb, NEW wh, NEW obs, Arranged(sizes, gb, wh, obs),
         NEW s \in Owners, NEW t \in Owners, s # t, wh[s].own = {},
         NEW w \in ChunkPlaces, w.own = {}, w.current = 0
  PROVE  Arranged(sizes, gb, [wh EXCEPT ![s] = wh[t], ![t] = w],
                  [i \in DOMAIN obs |-> IF obs[i].owner = t THEN [obs[i] EXCEPT !.owner = s] ELSE obs[i]])
<1>. DEFINE wh2 == [wh EXCEPT ![s] = wh[t], ![t] = w]
            obs2 == [i \in DOMAIN obs |-> IF obs[i].owner = t THEN [obs[i] EXCEPT !.owner = s] ELSE obs[i]]
<1>1. /\ sizes \in Seq(Nat) /\ gb \in Seq(Nat) /\ Len(gb) = Len(sizes) /\ DOMAIN wh = Owners
      /\ \A q \in Owners : CutsIn(wh[q], sizes)
      /\ OneOwner(sizes, gb, wh)
      /\ \A j \in DOMAIN obs : obs[j] \in ArenaObjects /\ LiesIn(obs[j], wh[obs[j].owner], sizes)
      /\ \A j, k \in DOMAIN obs : j # k => LieApart(obs[j], obs[k])
  BY DEF Arranged
<1>2. /\ DOMAIN wh2 = Owners /\ wh2[s] = wh[t] /\ wh2[t] = w
      /\ \A q \in Owners : q # s /\ q # t => wh2[q] = wh[q]
  BY <1>1
<1>3. DOMAIN obs2 = DOMAIN obs /\ \A i \in DOMAIN obs :
        /\ obs2[i] \in ArenaObjects /\ obs2[i].chunk = obs[i].chunk /\ obs2[i].from = obs[i].from
        /\ obs2[i].size = obs[i].size /\ obs2[i].align = obs[i].align
        /\ obs2[i].owner = IF obs[i].owner = t THEN s ELSE obs[i].owner
  BY <1>1 DEF ArenaObjects
<1>. HIDE DEF wh2, obs2
<1>4. ASSUME NEW q \in Owners PROVE CutsIn(wh2[q], sizes)
  BY <1>1, <1>2 DEF CutsIn
<1>5. OneOwner(sizes, gb, wh2)
  <2>1. /\ \A q, r \in Owners : q # r => wh[q].own \intersect wh[r].own = {}
        /\ \A d \in DOMAIN sizes : gb[d] = IF \E q \in Owners : d \in wh[q].own THEN 0 ELSE 1
    BY <1>1 DEF OneOwner
  <2>2. wh2[t].own = {} /\ wh2[s].own = wh[t].own /\ \A q \in Owners : q # s /\ q # t => wh2[q].own = wh[q].own
    BY <1>2
  <2>3. \A q, r \in Owners : q # r => wh2[q].own \intersect wh2[r].own = {}
    BY <2>1, <2>2
  <2>4. ASSUME NEW d \in DOMAIN sizes
        PROVE  (\E q \in Owners : d \in wh2[q].own) <=> (\E q \in Owners : d \in wh[q].own)
    <3>1. ASSUME NEW q \in Owners, d \in wh2[q].own PROVE \E r \in Owners : d \in wh[r].own
      BY <2>2, <3>1
    <3>2. ASSUME NEW q \in Owners, d \in wh[q].own PROVE \E r \in Owners : d \in wh2[r].own
      BY <2>2, <3>2
    <3>. QED BY <3>1, <3>2
  <2>. QED BY <2>1, <2>3, <2>4 DEF OneOwner
<1>6. ASSUME NEW i \in DOMAIN obs PROVE LiesIn(obs2[i], wh2[obs2[i].owner], sizes)
  <2>1. LiesIn(obs[i], wh[obs[i].owner], sizes) /\ obs[i].owner \in Owners /\ obs[i].owner # s
    BY <1>1 DEF ArenaObjects, LiesIn
  <2>2. wh2[obs2[i].owner] = wh[obs[i].owner]
    BY <1>2, <1>3, <2>1
  <2>. QED BY <1>3, <2>1, <2>2 DEF LiesIn
<1>7. ASSUME NEW i \in DOMAIN obs, NEW j \in DOMAIN obs, i # j PROVE LieApart(obs2[i], obs2[j])
  BY <1>1, <1>3, <1>7 DEF LieApart
<1>8. Arranged(sizes, gb, wh2, obs2)
  BY <1>1, <1>2, <1>3, <1>4, <1>5, <1>6, <1>7 DEF Arranged
<1>. QED BY <1>8 DEF wh2, obs2

\* Division is what it is said to be.
LEMMA ArenaDivision ==
  ASSUME NEW d \in Nat \ {0}, NEW q \in Nat, NEW r \in 0 .. d - 1
  PROVE  (d * q + r) % d = r /\ (d * q + r) \div d = q
<1>1. \A a \in Int, b \in 0 .. d - 1 : (d * a + b) % d = b
  OBVIOUS
<1>2. \A a \in Int, b \in 0 .. d - 1 : (d * a + b) \div d = a
  OBVIOUS
<1>. QED BY <1>1, <1>2

\* A place is moved up to the next aligned one.
LEMMA AlignedAfter ==
  ASSUME NEW p \in Nat, NEW align \in Nat \ {0}
  PROVE  /\ Memory!Aligned(p, align) \in Nat /\ p <= Memory!Aligned(p, align)
         /\ Memory!Aligned(p, align) % align = 0
<1>. DEFINE x == p + align - 1
            q == x \div align
            r == x % align
<1>1. x \in Nat
  OBVIOUS
<1>. HIDE DEF x
<1>2. q \in Nat /\ r \in 0 .. align - 1 /\ x = align * q + r
  BY <1>1
<1>. HIDE DEF q, r
<1>3. align * q + 0 \in Nat /\ align * q = q * align /\ align * q + 0 = q * align
  BY <1>2
<1>4. (align * q + 0) % align = 0
  BY <1>2, ArenaDivision
<1>5. p <= q * align
  BY <1>2, <1>3 DEF x
<1>6. Memory!Aligned(p, align) = q * align
  BY DEF Memory!Aligned, q, x
<1>. QED BY <1>3, <1>4, <1>5, <1>6

\* The bag takes a node for its first item, and when its last node is full.
LEMMA NodeTaken ==
  ASSUME NEW nodes \in Seq(Nat), NEW count \in Nat, NodesFilled(nodes, count), NEW node
  PROVE  /\ Memory!NeedsNode(count) => NodesFilled(Append(nodes, node), count + 1)
         /\ ~Memory!NeedsNode(count) => NodesFilled(nodes, count + 1)
<1>1. ItemsPerChunk \in Nat \ {0}
  BY ServicesAssumption DEF Memory!ArenasAssumption
<1>. DEFINE k == ItemsPerChunk
            n == Len(nodes)
<1>2. n \in Nat /\ Len(Append(nodes, node)) = n + 1
  BY LenProperties
<1>. HIDE DEF k
<1>3. k \in Nat \ {0}
  BY <1>1 DEF k
<1>4. CASE n = 0
  <2>1. nodes = <<>> /\ \A filled \in 1 .. k : (n - 1) * k + filled = filled - k
    BY <1>3, <1>4, EmptySeq
  <2>2. count = 0
    BY <1>3, <2>1 DEF NodesFilled, k
  <2>3. n + 1 \in Nat /\ (n + 1 - 1) * k = 0
    BY <1>3, <1>4
  <2>4. NodesFilled(Append(nodes, node), count + 1)
    BY <1>2, <1>3, <2>2, <2>3 DEF NodesFilled, k
  <2>5. k * 0 + 0 = 0 /\ 0 \in 0 .. k - 1
    BY <1>3
  <2>6. 0 % k = 0
    BY <1>3, <2>5, ArenaDivision
  <2>. QED BY <2>2, <2>4, <2>6 DEF Memory!NeedsNode, k
<1>5. CASE n # 0
  <2>1. PICK filled \in 1 .. k : count = (n - 1) * k + filled
    BY <1>2, <1>5, EmptySeq DEF NodesFilled, k
  <2>2. n - 1 \in Nat /\ (n - 1) * k = k * (n - 1) /\ k * n + 0 = n * k /\ (n - 1) * k + k = n * k /\ n * k \in Nat
    BY <1>2, <1>3, <1>5
  <2>3. CASE filled = k
    <3>1. count = k * n + 0 /\ count + 1 = (n + 1 - 1) * k + 1
      BY <1>2, <1>3, <2>1, <2>2, <2>3
    <3>2. count % k = 0
      <4>1. 0 \in 0 .. k - 1
        BY <1>3
      <4>2. (k * n + 0) % k = 0
        BY <1>2, <1>3, <4>1, ArenaDivision
      <4>. QED BY <3>1, <4>2
    <3>3. NodesFilled(Append(nodes, node), count + 1)
      BY <1>2, <1>3, <3>1 DEF NodesFilled, k
    <3>. QED BY <3>2, <3>3 DEF Memory!NeedsNode, k
  <2>4. CASE filled # k
    <3>1. count = k * (n - 1) + filled /\ filled \in 0 .. k - 1 /\ count + 1 = (n - 1) * k + (filled + 1) /\ filled + 1 \in 1 .. k
      BY <1>3, <2>1, <2>2, <2>4
    <3>2. count % k = filled /\ filled # 0
      <4>1. (k * (n - 1) + filled) % k = filled
        BY <1>3, <2>2, <3>1, ArenaDivision
      <4>. QED BY <2>1, <3>1, <4>1
    <3>3. NodesFilled(nodes, count + 1)
      BY <3>1 DEF NodesFilled, k
    <3>. QED BY <3>2, <3>3 DEF Memory!NeedsNode, k
  <2>. QED BY <2>3, <2>4
<1>. QED BY <1>4, <1>5

-----------------------------------------------------------------------------
(* Arenas: the steps *)

\* What is assumed of sizes and alignments.
LEMMA ArenaSizes ==
  /\ ChunkHeader \in Nat \ {0} /\ ChunkSize \in Nat \ {0} /\ ItemsPerChunk \in Nat \ {0} /\ 1 \in Alignments
  /\ "arena" \in Owners /\ \A s \in SimpleArenas : s \in Owners /\ s # "arena"
  /\ \A align \in Alignments : align \in Nat \ {0} /\ ChunkHeader % align = 0
BY ServicesAssumption DEF Memory!ArenasAssumption, Owners

\* Where the next objects are cut when only the arena's place changes.
LEMMA ArenaPlaced ==
  ASSUME UNCHANGED simple
  PROVE  Where' = [Where EXCEPT !["arena"] = [own |-> arena'.own, current |-> arena'.current, p |-> arena'.p, end |-> arena'.end]]
BY DEF Where

\* Where they are cut when only a simple arena's place changes.
LEMMA SimplePlaced ==
  ASSUME UNCHANGED arena, NEW s \in SimpleArenas, \A q \in SimpleArenas : q # s => simple'[q] = simple[q]
  PROVE  Where' = [Where EXCEPT ![s] = simple'[s]]
<1>1. \A o \in Owners : o # "arena" => o \in SimpleArenas
  BY DEF Owners
<1>2. s \in Owners /\ s # "arena"
  BY ArenaSizes
<1>. QED BY <1>1, <1>2 DEF Where

\* An arena allocates an object; it may be the one to be trimmed.
LEMMA ArenaAllocates ==
  ASSUME ArenasInv, NEW size \in Nat \ {0}, NEW align \in Alignments, NEW last \in {0, calls + 1},
         Memory!Alloc(size, align, last), calls' = calls + 1, UNCHANGED <<growth, simple>>
  PROVE  /\ ArenasTyped' /\ Arranged(chunkSizes', freed', Where', objects') /\ TrimsLast(arena', objects')
         /\ arena'.last = last /\ calls + 1 \notin DOMAIN objects /\ DOMAIN objects' = DOMAIN objects \union {calls + 1}
         /\ objects'[calls + 1].owner = "arena" /\ objects'[calls + 1].size = size
         /\ \A i \in DOMAIN objects : objects'[i] = objects[i]
<1>. DEFINE i == calls + 1
            A(p) == [own |-> arena.own, current |-> arena.current, p |-> p, end |-> arena.end]
<1>1. /\ ArenasTyped /\ Arranged(chunkSizes, freed, Where, objects)
      /\ growth \in Nat \ {0} /\ calls \in Nat /\ i \in Nat /\ i \notin DOMAIN objects /\ DOMAIN objects \subseteq 1 .. calls
      /\ arena.own \in SUBSET Nat /\ arena.current \in Nat /\ arena.p \in Nat /\ arena.end \in Nat
      /\ arena.nextSize \in Nat \ {0} /\ (arena.current = 0 => arena.p = 0 /\ arena.end = 0)
      /\ arena \in [own : SUBSET Nat, current : Nat, p : Nat, end : Nat, nextSize : Nat \ {0}, last : Nat]
      /\ last \in Nat
  BY DEF ArenasInv, ArenasTyped
<1>2. Where["arena"] = A(arena.p) /\ DOMAIN Where = Owners
  BY ArenaSizes DEF Where
<1>3. Where' = [Where EXCEPT !["arena"] = [own |-> arena'.own, current |-> arena'.current, p |-> arena'.p, end |-> arena'.end]]
  BY ArenaPlaced
<1>4. align \in Nat \ {0} /\ ChunkHeader % align = 0 /\ ChunkHeader \in Nat \ {0} /\ "arena" \in Owners
  BY ArenaSizes
<1>5. CASE Memory!Room(size, align)
  <2>. DEFINE from == Memory!Aligned(arena.p, align)
              b == [owner |-> "arena", chunk |-> arena.current, from |-> from, size |-> size, align |-> align]
  <2>1. from \in Nat /\ arena.p <= from /\ from % align = 0 /\ from + size <= arena.end
    BY <1>1, <1>4, <1>5, AlignedAfter DEF Memory!Room
  <2>. HIDE DEF from
  <2>2. arena.current # 0
    BY <1>1, <2>1
  <2>3. /\ arena' = [arena EXCEPT !.p = from + size, !.last = last] /\ UNCHANGED <<chunkSizes, freed>>
        /\ objects' = [j \in DOMAIN objects \union {i} |-> IF j = i THEN b ELSE objects[j]]
    BY <1>5 DEF Memory!Alloc, Memory!Object, from
  <2>4. b \in ArenaObjects /\ b.owner = "arena" /\ b.chunk = arena.current /\ b.from = from /\ b.size = size /\ b.align = align
    BY <1>1, <1>4, <2>1 DEF ArenaObjects
  <2>. HIDE DEF b
  <2>5. Where' = [Where EXCEPT !["arena"].p = from + size]
    <3>1. arena'.own = arena.own /\ arena'.current = arena.current /\ arena'.end = arena.end /\ arena'.p = from + size
      BY <1>1, <2>3
    <3>2. [A(arena.p) EXCEPT !.p = from + size] = A(from + size)
      OBVIOUS
    <3>3. [Where EXCEPT !["arena"].p = from + size] = [Where EXCEPT !["arena"] = A(from + size)]
      BY <1>2, <3>2
    <3>. QED BY <1>3, <3>1, <3>3
  <2>6. Arranged(chunkSizes', freed', Where', objects')
    <3>1. /\ Where["arena"].current # 0 /\ b.chunk = Where["arena"].current /\ Where["arena"].p <= b.from
          /\ b.from % b.align = 0 /\ from + size \in Nat /\ b.from + b.size <= from + size
          /\ from + size <= Where["arena"].end
      BY <1>1, <1>2, <2>1, <2>2, <2>4
    <3>2. /\ DOMAIN objects' = DOMAIN objects \union {i} /\ objects'[i] = b
          /\ \A j \in DOMAIN objects : objects'[j] = objects[j]
      BY <1>1, <2>3
    <3>3. IsCut(Where, Where', objects, objects', i, from + size)
      BY <1>1, <2>4, <2>5, <3>1, <3>2 DEF IsCut
    <3>. QED BY <1>1, <2>3, <3>3, ObjectCut
  <2>7. /\ DOMAIN objects' = DOMAIN objects \union {i} /\ objects'[i] = b
        /\ \A j \in DOMAIN objects : objects'[j] = objects[j]
    BY <1>1, <2>3
  <2>8. arena'.last = last /\ arena'.current = arena.current /\ arena'.p = from + size /\ arena'.end = arena.end
    BY <1>1, <2>3
  <2>9. ArenasTyped'
    <3>1. /\ arena' \in [own : SUBSET Nat, current : Nat, p : Nat, end : Nat, nextSize : Nat \ {0}, last : Nat]
          /\ arena'.current # 0
      <4>. DEFINE end == from + size
      <4>1. end \in Nat /\ arena' = [arena EXCEPT !.p = end, !.last = last]
        BY <2>1, <2>3
      <4>. HIDE DEF end
      <4>. QED BY <1>1, <2>2, <4>1
    <3>2. DOMAIN objects' \subseteq 1 .. calls' /\ calls' \in Nat
      BY <1>1, <2>7
    <3>. QED BY <1>1, <3>1, <3>2 DEF ArenasTyped
  <2>10. TrimsLast(arena', objects')
    BY <2>2, <2>4, <2>7, <2>8 DEF TrimsLast
  <2>. QED BY <1>1, <2>4, <2>6, <2>7, <2>8, <2>9, <2>10
<1>6. CASE ~Memory!Room(size, align)
  <2>. DEFINE c == Len(chunkSizes) + 1
              gross == Memory!GrossSize(size)
              next == Memory!NextSize(size)
              own == arena.own \union {c}
              b == [owner |-> "arena", chunk |-> c, from |-> ChunkHeader, size |-> size, align |-> align]
              placed == [Where EXCEPT !["arena"] = [own |-> @.own \union {c}, current |-> c, p |-> ChunkHeader, end |-> gross]]
  <2>1. Len(chunkSizes) \in Nat /\ c \in Nat \ {0}
    BY <1>1, LenProperties DEF Arranged
  <2>2. gross \in Nat /\ ChunkHeader + size <= gross /\ next \in Nat \ {0}
    <3>1. arena.nextSize \div growth \in Nat
      BY <1>1
    <3>. QED BY <1>1, <1>4, <3>1 DEF Memory!GrossSize, Memory!NextSize, Memory!Whale
  <2>3. /\ arena' = [own |-> own, current |-> c, p |-> ChunkHeader + size, end |-> gross, nextSize |-> next, last |-> last]
        /\ chunkSizes' = Append(chunkSizes, gross) /\ freed' = Append(freed, 0)
        /\ objects' = [j \in DOMAIN objects \union {i} |-> IF j = i THEN b ELSE objects[j]]
    BY <1>6 DEF Memory!Alloc, Memory!Object, Memory!NewChunk, Memory!ChunkTaken
  <2>4. /\ b \in ArenaObjects /\ b.owner = "arena" /\ b.chunk = c /\ b.from = ChunkHeader /\ b.size = size /\ b.align = align
        /\ own \in SUBSET Nat
    BY <1>1, <1>4, <2>1 DEF ArenaObjects
  <2>. HIDE DEF c, gross, next, b
  <2>5. /\ placed["arena"] = [own |-> own, current |-> c, p |-> ChunkHeader, end |-> gross]
        /\ Where' = [placed EXCEPT !["arena"].p = ChunkHeader + size]
    BY <1>2, <1>3, <1>4, <2>3
  <2>6. Arranged(chunkSizes', freed', placed, objects)
    <3>1. gross \in Nat /\ ChunkHeader <= gross
      BY <1>4, <2>2
    <3>2. Arranged(Append(chunkSizes, gross), Append(freed, 0), placed, objects)
      BY <1>1, <1>4, <3>1, ChunkAdded DEF c
    <3>. QED BY <2>3, <3>2
  <2>. HIDE DEF placed, own
  <2>7. Arranged(chunkSizes', freed', Where', objects')
    <3>1. /\ placed["arena"].current # 0 /\ b.chunk = placed["arena"].current /\ placed["arena"].p <= b.from
          /\ b.from % b.align = 0 /\ ChunkHeader + size \in Nat /\ b.from + b.size <= ChunkHeader + size
          /\ ChunkHeader + size <= placed["arena"].end
      BY <1>4, <2>1, <2>2, <2>4, <2>5
    <3>2. /\ DOMAIN objects' = DOMAIN objects \union {i} /\ objects'[i] = b
          /\ \A j \in DOMAIN objects : objects'[j] = objects[j]
      BY <1>1, <2>3
    <3>3. Where' = [placed EXCEPT !["arena"].p = ChunkHeader + size] /\ i \notin DOMAIN objects /\ "arena" \in Owners
      BY <1>1, <1>4, <2>5
    <3>4. b \in ArenaObjects /\ b.owner = "arena"
      BY <2>4
    <3>5. IsCut(placed, Where', objects, objects', i, ChunkHeader + size)
      BY <3>1, <3>2, <3>3, <3>4 DEF IsCut
    <3>. QED BY <2>6, <3>5, ObjectCut
  <2>8. /\ DOMAIN objects' = DOMAIN objects \union {i} /\ objects'[i] = b
        /\ \A j \in DOMAIN objects : objects'[j] = objects[j]
    BY <1>1, <2>3
  <2>9. ArenasTyped'
    <3>1. /\ arena' \in [own : SUBSET Nat, current : Nat, p : Nat, end : Nat, nextSize : Nat \ {0}, last : Nat]
          /\ arena'.current # 0
      <4>1. ChunkHeader + size \in Nat /\ last \in Nat
        BY <1>1, <1>4
      <4>. QED BY <2>1, <2>2, <2>3, <2>4, <4>1
    <3>2. DOMAIN objects' \subseteq 1 .. calls' /\ calls' \in Nat
      BY <1>1, <2>8
    <3>. QED BY <1>1, <3>1, <3>2 DEF ArenasTyped
  <2>10. TrimsLast(arena', objects')
    BY <2>1, <2>3, <2>4, <2>8 DEF TrimsLast
  <2>. QED BY <1>1, <2>3, <2>4, <2>7, <2>8, <2>9, <2>10
<1>. QED BY <1>5, <1>6

\* The bag is as it was when its nodes are.
LEMMA BagStays ==
  ASSUME NEW b, NEW obs, NEW last, BagHeld(b, obs, last), NEW obs2, NEW last2, last2 = last \/ last2 \notin DOMAIN obs,
         \A i \in DOMAIN obs : i # last /\ obs[i].owner = "arena" => i \in DOMAIN obs2 /\ obs2[i] = obs[i]
  PROVE  BagHeld(b, obs2, last2)
BY DEF BagHeld

\* An object is allocated.
LEMMA AllocObjectSteps ==
  ASSUME ArenasInv, Memory!AllocObject, calls' = calls + 1
  PROVE  ArenasInv'
<1>1. PICK size \in Sizes, align \in Alignments : Memory!Alloc(size, align, calls + 1)
  BY DEF Memory!AllocObject
<1>2. UNCHANGED <<growth, simple, bag>>
  BY DEF Memory!AllocObject
<1>3. size \in Nat \ {0}
  BY ServicesAssumption DEF Memory!ArenasAssumption
<1>4. /\ ArenasTyped' /\ Arranged(chunkSizes', freed', Where', objects') /\ TrimsLast(arena', objects')
      /\ arena'.last = calls + 1 /\ calls + 1 \notin DOMAIN objects /\ DOMAIN objects' = DOMAIN objects \union {calls + 1}
      /\ \A i \in DOMAIN objects : objects'[i] = objects[i]
  BY <1>1, <1>2, <1>3, ArenaAllocates
<1>5. BagHeld(bag, objects', arena'.last)
  BY <1>4, BagStays DEF ArenasInv
<1>. QED BY <1>2, <1>4, <1>5 DEF ArenasInv

\* An item is added to the bag, in a new node or not.
LEMMA AddItemSteps ==
  ASSUME ArenasInv, Memory!AddItem, calls' = calls + 1
  PROVE  ArenasInv'
<1>1. /\ bag.nodes \in Seq(Nat) /\ bag.count \in Nat /\ NodesFilled(bag.nodes, bag.count)
      /\ bag = [nodes |-> bag.nodes, count |-> bag.count] /\ BagHeld(bag, objects, arena.last)
      /\ \A k \in 1 .. Len(bag.nodes) : /\ bag.nodes[k] \in DOMAIN objects /\ bag.nodes[k] # arena.last
                                        /\ objects[bag.nodes[k]].owner = "arena" /\ objects[bag.nodes[k]].size = 1 + ItemsPerChunk
      /\ \A k, l \in 1 .. Len(bag.nodes) : k # l => bag.nodes[k] # bag.nodes[l]
  BY DEF ArenasInv, BagHeld
<1>2. UNCHANGED <<growth, simple>> /\ calls \in Nat /\ DOMAIN objects \subseteq 1 .. calls
  BY DEF Memory!AddItem, ArenasInv, ArenasTyped
<1>3. CASE Memory!NeedsNode(bag.count)
  <2>1. Memory!Alloc(1 + ItemsPerChunk, 1, 0) /\ bag' = [nodes |-> Append(bag.nodes, calls + 1), count |-> bag.count + 1]
    BY <1>3 DEF Memory!AddItem, Memory!None
  <2>2. 1 + ItemsPerChunk \in Nat \ {0} /\ 1 \in Alignments
    BY ArenaSizes
  <2>3. /\ ArenasTyped' /\ Arranged(chunkSizes', freed', Where', objects') /\ TrimsLast(arena', objects')
        /\ arena'.last = 0 /\ calls + 1 \notin DOMAIN objects /\ DOMAIN objects' = DOMAIN objects \union {calls + 1}
        /\ objects'[calls + 1].owner = "arena" /\ objects'[calls + 1].size = 1 + ItemsPerChunk
        /\ \A i \in DOMAIN objects : objects'[i] = objects[i]
    BY <1>2, <2>1, <2>2, ArenaAllocates
  <2>. DEFINE nodes == Append(bag.nodes, calls + 1)
  <2>4. /\ nodes \in Seq(Nat) /\ Len(nodes) = Len(bag.nodes) + 1 /\ Len(bag.nodes) \in Nat
        /\ nodes[Len(bag.nodes) + 1] = calls + 1 /\ \A k \in 1 .. Len(bag.nodes) : nodes[k] = bag.nodes[k]
    BY <1>1, <1>2, AppendProperties, LenProperties
  <2>5. NodesFilled(nodes, bag.count + 1)
    BY <1>1, <1>3, NodeTaken
  <2>. HIDE DEF nodes
  <2>6. \A k \in 1 .. Len(nodes) : k \in 1 .. Len(bag.nodes) \/ (k = Len(bag.nodes) + 1 /\ nodes[k] = calls + 1)
    BY <2>4
  <2>7. \A i \in DOMAIN objects : i # 0
    BY <1>2
  <2>8. \A k \in 1 .. Len(nodes) : /\ nodes[k] \in DOMAIN objects' /\ nodes[k] # 0
                                   /\ objects'[nodes[k]].owner = "arena" /\ objects'[nodes[k]].size = 1 + ItemsPerChunk
    <3>. TAKE k \in 1 .. Len(nodes)
    <3>1. CASE k \in 1 .. Len(bag.nodes)
      <4>1. /\ nodes[k] = bag.nodes[k] /\ bag.nodes[k] \in DOMAIN objects
            /\ objects[bag.nodes[k]].owner = "arena" /\ objects[bag.nodes[k]].size = 1 + ItemsPerChunk
        BY <1>1, <2>4, <3>1
      <4>. QED BY <2>3, <2>7, <4>1
    <3>2. CASE nodes[k] = calls + 1
      <4>1. calls + 1 # 0
        BY <1>2
      <4>. QED BY <2>3, <3>2, <4>1
    <3>. QED BY <2>6, <3>1, <3>2
  <2>9. ASSUME NEW k \in 1 .. Len(nodes), NEW l \in 1 .. Len(nodes), k # l PROVE nodes[k] # nodes[l]
    <3>1. \A m \in 1 .. Len(bag.nodes) : nodes[m] = bag.nodes[m] /\ nodes[m] # calls + 1
      BY <1>1, <2>3, <2>4
    <3>2. CASE k \in 1 .. Len(bag.nodes) /\ l \in 1 .. Len(bag.nodes)
      BY <1>1, <2>9, <3>1, <3>2
    <3>. QED BY <2>6, <2>9, <3>1, <3>2
  <2>10. bag'.nodes = nodes /\ bag'.count = bag.count + 1 /\ bag' \in [nodes : Seq(Nat), count : Nat]
    BY <1>1, <2>1, <2>4 DEF nodes
  <2>11. BagHeld(bag', objects', arena'.last)
    BY <2>3, <2>5, <2>8, <2>9, <2>10 DEF BagHeld
  <2>. QED BY <2>3, <2>11 DEF ArenasInv
<1>4. CASE ~Memory!NeedsNode(bag.count)
  <2>1. bag' = [bag EXCEPT !.count = @ + 1] /\ UNCHANGED <<chunkSizes, freed, arena, objects>>
    BY <1>4 DEF Memory!AddItem
  <2>2. NodesFilled(bag.nodes, bag.count + 1)
    BY <1>1, <1>4, NodeTaken
  <2>3. bag'.nodes = bag.nodes /\ bag'.count = bag.count + 1 /\ bag' \in [nodes : Seq(Nat), count : Nat]
    BY <1>1, <2>1
  <2>4. BagHeld(bag', objects', arena'.last)
    BY <1>1, <2>1, <2>2, <2>3 DEF BagHeld
  <2>5. Where' = Where
    BY <1>2, <2>1 DEF Where
  <2>. QED BY <1>2, <2>1, <2>4, <2>5 DEF ArenasInv, ArenasTyped
<1>. QED BY <1>3, <1>4

\* The object that was allocated last is trimmed.
LEMMA ReduceSteps ==
  ASSUME ArenasInv, Memory!ReduceLastAlloc, calls' = calls + 1
  PROVE  ArenasInv'
<1>. DEFINE i == arena.last
<1>1. i # 0 /\ UNCHANGED <<chunkSizes, freed, growth, simple, bag>>
  BY DEF Memory!ReduceLastAlloc, Memory!None
<1>2. PICK by \in 1 .. objects[i].size - 1 :
        /\ arena' = [arena EXCEPT !.p = arena.p - by]
        /\ objects' = [objects EXCEPT ![i].size = @ - by]
  BY DEF Memory!ReduceLastAlloc, Memory!Trimmed
<1>. DEFINE n == objects[i].size - by
            q == arena.p - by
<1>3. /\ ArenasTyped /\ Arranged(chunkSizes, freed, Where, objects) /\ BagHeld(bag, objects, i)
      /\ i \in DOMAIN objects /\ objects[i].owner = "arena" /\ arena.current # 0
      /\ objects[i].chunk = arena.current /\ objects[i].from + objects[i].size = arena.p
  BY <1>1 DEF ArenasInv, TrimsLast
<1>4. /\ \A j \in DOMAIN objects : objects[j] \in ArenaObjects /\ LiesIn(objects[j], Where[objects[j].owner], chunkSizes)
      /\ \A j, k \in DOMAIN objects : j # k => LieApart(objects[j], objects[k])
      /\ CutsIn(Where["arena"], chunkSizes)
  BY <1>3, ArenaSizes DEF Arranged
<1>5. /\ objects[i] \in ArenaObjects /\ objects[i].size \in Nat /\ objects[i].from \in Nat /\ arena.p \in Nat
      /\ by \in Nat \ {0} /\ n \in Nat \ {0} /\ n <= objects[i].size /\ q = objects[i].from + n /\ q \in Nat /\ q <= arena.p
  BY <1>3, <1>4 DEF ArenaObjects, ArenasTyped
<1>6. /\ DOMAIN objects' = DOMAIN objects /\ \A j \in DOMAIN objects : j # i => objects'[j] = objects[j]
      /\ objects'[i] = [objects[i] EXCEPT !.size = n]
  BY <1>2, <1>3
<1>7. /\ objects'[i] \in ArenaObjects /\ objects'[i].owner = "arena" /\ objects'[i].chunk = arena.current
      /\ objects'[i].from = objects[i].from /\ objects'[i].size = n /\ objects'[i].align = objects[i].align
  BY <1>3, <1>5, <1>6 DEF ArenaObjects
<1>8. arena'.p = q /\ arena'.last = i /\ arena'.current = arena.current /\ arena'.own = arena.own /\ arena'.end = arena.end
  BY <1>2, <1>3 DEF ArenasTyped
<1>. HIDE DEF n, q, i
<1>9. Where' = [Where EXCEPT !["arena"].p = q] /\ Where["arena"].current = arena.current /\ Where["arena"].p = arena.p
  <2>1. Where["arena"] = [own |-> arena.own, current |-> arena.current, p |-> arena.p, end |-> arena.end]
    BY ArenaSizes DEF Where
  <2>2. [Where["arena"] EXCEPT !.p = q] = [own |-> arena.own, current |-> arena.current, p |-> q, end |-> arena.end]
    BY <2>1
  <2>. QED BY <1>1, <1>8, <2>1, <2>2, ArenaPlaced
<1>10. Arranged(chunkSizes, freed, Where, objects')
  <2>1. \A j \in DOMAIN objects' :
          /\ objects'[j] \in ArenaObjects /\ objects'[j].owner = objects[j].owner /\ objects'[j].chunk = objects[j].chunk
          /\ objects'[j].from = objects[j].from /\ objects'[j].align = objects[j].align
          /\ objects'[j].size <= objects[j].size
    <3>1. \A j \in DOMAIN objects : objects[j].size <= objects[j].size
      BY <1>4 DEF ArenaObjects
    <3>. QED BY <1>3, <1>4, <1>5, <1>6, <1>7, <3>1
  <2>. QED BY <1>3, <1>6, <2>1, ObjectsSmaller
<1>11. ASSUME NEW j \in DOMAIN objects', objects'[j].chunk = arena.current
       PROVE  objects'[j].from + objects'[j].size <= q
  <2>1. CASE j = i
    BY <1>5, <1>7, <2>1
  <2>2. CASE j # i
    <3>1. /\ objects[j].chunk = arena.current /\ j \in DOMAIN objects /\ objects'[j] = objects[j]
          /\ objects[j].size \in Nat \ {0} /\ objects[j].from \in Nat /\ LieApart(objects[j], objects[i])
      BY <1>3, <1>4, <1>6, <1>11, <2>2 DEF ArenaObjects
    <3>2. objects[j].owner = "arena"
      <4>1. /\ objects[j].owner \in Owners /\ arena.current \in Where[objects[j].owner].own
            /\ arena.current \in Where["arena"].own
        BY <1>3, <1>4, <3>1 DEF ArenaObjects, LiesIn
      <4>. QED BY <1>3, <4>1, ArenaSizes DEF Arranged, OneOwner
    <3>3. objects[j].from + objects[j].size <= arena.p
      BY <1>4, <1>9, <3>1, <3>2 DEF LiesIn
    <3>. QED BY <1>3, <1>5, <3>1, <3>3 DEF LieApart
  <2>. QED BY <2>1, <2>2
<1>12. Arranged(chunkSizes', freed', Where', objects')
  <2>1. ChunkHeader <= q
    BY <1>3, <1>4, <1>5, ArenaSizes DEF LiesIn
  <2>2. Arranged(chunkSizes, freed, [Where EXCEPT !["arena"].p = q], objects')
    BY <1>5, <1>9, <1>10, <1>11, <2>1, ArenaSizes, PlaceLowered
  <2>. QED BY <1>1, <1>9, <2>2
<1>13. TrimsLast(arena', objects')
  BY <1>3, <1>5, <1>6, <1>7, <1>8 DEF TrimsLast
<1>14. BagHeld(bag', objects', arena'.last)
  BY <1>1, <1>3, <1>6, <1>8, BagStays
<1>15. ArenasTyped'
  <2>1. arena' \in [own : SUBSET Nat, current : Nat, p : Nat, end : Nat, nextSize : Nat \ {0}, last : Nat]
    BY <1>2, <1>3, <1>5 DEF ArenasTyped, q
  <2>. QED BY <1>1, <1>3, <1>6, <1>8, <2>1 DEF ArenasTyped
<1>. QED BY <1>12, <1>13, <1>14, <1>15 DEF ArenasInv

\* The object that was allocated last is freed.
LEMMA FreeLastSteps ==
  ASSUME ArenasInv, Memory!FreeLastAlloc, calls' = calls + 1
  PROVE  ArenasInv'
<1>. DEFINE i == arena.last
            q == objects[i].from
<1>1. /\ i # 0 /\ UNCHANGED <<chunkSizes, freed, growth, simple, bag>>
      /\ arena' = [arena EXCEPT !.p = q, !.last = 0] /\ objects' = Restrict(objects, DOMAIN objects \ {i})
  BY DEF Memory!FreeLastAlloc, Memory!None, Memory!Without, Restrict
<1>2. /\ ArenasTyped /\ Arranged(chunkSizes, freed, Where, objects) /\ BagHeld(bag, objects, i)
      /\ i \in DOMAIN objects /\ objects[i].owner = "arena" /\ arena.current # 0
      /\ objects[i].chunk = arena.current /\ objects[i].from + objects[i].size = arena.p
  BY <1>1 DEF ArenasInv, TrimsLast
<1>3. /\ \A j \in DOMAIN objects : objects[j] \in ArenaObjects /\ LiesIn(objects[j], Where[objects[j].owner], chunkSizes)
      /\ \A j, k \in DOMAIN objects : j # k => LieApart(objects[j], objects[k])
      /\ CutsIn(Where["arena"], chunkSizes)
  BY <1>2, ArenaSizes DEF Arranged
<1>4. objects[i].size \in Nat \ {0} /\ q \in Nat /\ arena.p \in Nat /\ q <= arena.p /\ ChunkHeader <= q
  BY <1>2, <1>3 DEF ArenaObjects, ArenasTyped, LiesIn
<1>5. /\ DOMAIN objects' = DOMAIN objects \ {i} /\ \A j \in DOMAIN objects' : objects'[j] = objects[j]
  BY <1>1 DEF Restrict
<1>6. /\ arena'.p = q /\ arena'.last = 0 /\ arena'.current = arena.current /\ arena'.own = arena.own /\ arena'.end = arena.end
      /\ arena' \in [own : SUBSET Nat, current : Nat, p : Nat, end : Nat, nextSize : Nat \ {0}, last : Nat]
  <2>. HIDE DEF q
  <2>. QED BY <1>1, <1>2, <1>4 DEF ArenasTyped
<1>. HIDE DEF q, i
<1>7. Where' = [Where EXCEPT !["arena"].p = q] /\ Where["arena"].current = arena.current /\ Where["arena"].p = arena.p
  <2>1. Where["arena"] = [own |-> arena.own, current |-> arena.current, p |-> arena.p, end |-> arena.end]
    BY ArenaSizes DEF Where
  <2>2. [Where["arena"] EXCEPT !.p = q] = [own |-> arena.own, current |-> arena.current, p |-> q, end |-> arena.end]
    BY <2>1
  <2>. QED BY <1>1, <1>6, <2>1, <2>2, ArenaPlaced
<1>8. Arranged(chunkSizes, freed, Where, objects')
  <2>1. \A j \in DOMAIN objects' :
          /\ objects'[j] \in ArenaObjects /\ objects'[j].owner = objects[j].owner /\ objects'[j].chunk = objects[j].chunk
          /\ objects'[j].from = objects[j].from /\ objects'[j].align = objects[j].align
          /\ objects'[j].size <= objects[j].size
    <3>1. \A j \in DOMAIN objects : objects[j].size <= objects[j].size
      BY <1>3 DEF ArenaObjects
    <3>. QED BY <1>3, <1>5, <3>1
  <2>. QED BY <1>2, <1>5, <2>1, ObjectsSmaller
<1>9. ASSUME NEW j \in DOMAIN objects', objects'[j].chunk = arena.current
      PROVE  objects'[j].from + objects'[j].size <= q
  <2>1. /\ objects[j].chunk = arena.current /\ j \in DOMAIN objects /\ objects'[j] = objects[j] /\ j # i
        /\ objects[j].size \in Nat \ {0} /\ objects[j].from \in Nat /\ LieApart(objects[j], objects[i])
    BY <1>2, <1>3, <1>5, <1>9 DEF ArenaObjects
  <2>2. objects[j].owner = "arena"
    <3>1. /\ objects[j].owner \in Owners /\ arena.current \in Where[objects[j].owner].own
          /\ arena.current \in Where["arena"].own
      BY <1>2, <1>3, <2>1 DEF ArenaObjects, LiesIn
    <3>. QED BY <1>2, <3>1, ArenaSizes DEF Arranged, OneOwner
  <2>3. objects[j].from + objects[j].size <= arena.p
    BY <1>3, <1>7, <2>1, <2>2 DEF LiesIn
  <2>. QED BY <1>2, <1>4, <2>1, <2>3 DEF LieApart, q
<1>10. Arranged(chunkSizes', freed', Where', objects')
  <2>1. Arranged(chunkSizes, freed, [Where EXCEPT !["arena"].p = q], objects')
    BY <1>4, <1>7, <1>8, <1>9, ArenaSizes, PlaceLowered
  <2>. QED BY <1>1, <1>7, <2>1
<1>11. 0 \notin DOMAIN objects
  BY <1>2 DEF ArenasTyped
<1>12. BagHeld(bag', objects', arena'.last)
  <2>1. \A j \in DOMAIN objects : j # i => j \in DOMAIN objects' /\ objects'[j] = objects[j]
    BY <1>5
  <2>2. BagHeld(bag, objects', 0)
    BY <1>2, <1>11, <2>1, BagStays
  <2>. QED BY <1>1, <1>6, <2>2
<1>13. ArenasTyped'
  <2>1. calls' \in Nat /\ DOMAIN objects' \subseteq 1 .. calls'
    BY <1>2, <1>5 DEF ArenasTyped
  <2>2. UNCHANGED <<growth, simple>>
    BY <1>1
  <2>. QED BY <1>2, <1>6, <2>1, <2>2 DEF ArenasTyped
<1>. QED BY <1>6, <1>10, <1>12, <1>13 DEF ArenasInv, TrimsLast

\* The arena gives all its chunks back.
LEMMA ClearSteps ==
  ASSUME ArenasInv, Memory!Clear, calls' = calls + 1
  PROVE  ArenasInv'
<1>. DEFINE w == [own |-> {}, current |-> 0, p |-> 0, end |-> 0]
<1>1. /\ freed' = [c \in DOMAIN freed |-> IF c \in arena.own THEN freed[c] + 1 ELSE freed[c]]
      /\ arena' = [own |-> {}, current |-> 0, p |-> 0, end |-> 0, nextSize |-> ChunkSize, last |-> 0]
      /\ objects' = Restrict(objects, DOMAIN objects \ {i \in DOMAIN objects : objects[i].owner = "arena"})
      /\ bag' = [nodes |-> <<>>, count |-> 0] /\ UNCHANGED <<chunkSizes, growth, simple>>
  BY DEF Memory!Clear, Memory!Freed, Memory!NewArena, Memory!NewBag, Memory!ObjectsOf, Memory!None,
         Memory!Without, Restrict
<1>2. ArenasTyped /\ Arranged(chunkSizes, freed, Where, objects)
  BY DEF ArenasInv
<1>3. Where["arena"].own = arena.own /\ Where' = [Where EXCEPT !["arena"] = w]
  <2>1. Where["arena"].own = arena.own
    BY ArenaSizes DEF Where
  <2>. QED BY <1>1, <2>1, ArenaPlaced
<1>4. w \in ChunkPlaces /\ w.own = {} /\ w.current = 0
  BY DEF ChunkPlaces
<1>. HIDE DEF w
<1>5. Arranged(chunkSizes', freed', Where', objects')
  <2>1. Arranged(chunkSizes, [c \in DOMAIN freed |-> IF c \in Where["arena"].own THEN freed[c] + 1 ELSE freed[c]],
                 [Where EXCEPT !["arena"] = w],
                 Restrict(objects, DOMAIN objects \ {i \in DOMAIN objects : objects[i].owner = "arena"}))
    BY <1>2, <1>4, ArenaSizes, ChunksGivenBack
  <2>. QED BY <1>1, <1>3, <2>1
<1>6. DOMAIN objects' \subseteq DOMAIN objects
  BY <1>1 DEF Restrict
<1>7. ArenasTyped'
  <2>1. arena' \in [own : SUBSET Nat, current : Nat, p : Nat, end : Nat, nextSize : Nat \ {0}, last : Nat]
    BY <1>1, ArenaSizes
  <2>. QED BY <1>1, <1>2, <1>6, <2>1 DEF ArenasTyped
<1>8. BagHeld(bag', objects', arena'.last)
  <2>1. /\ bag'.nodes = <<>> /\ bag'.count = 0 /\ bag' \in [nodes : Seq(Nat), count : Nat] /\ Len(bag'.nodes) = 0
    BY <1>1, EmptySeq
  <2>. QED BY <2>1 DEF BagHeld, NodesFilled
<1>. QED BY <1>1, <1>5, <1>7, <1>8 DEF ArenasInv, TrimsLast

\* A simple arena allocates an object.
LEMMA AllocSimpleSteps ==
  ASSUME ArenasInv, NEW s \in SimpleArenas, Memory!AllocSimple(s), calls' = calls + 1
  PROVE  ArenasInv'
<1>. DEFINE i == calls + 1
            c == Len(chunkSizes) + 1
            top == ChunkHeader + ChunkSize
<1>1. /\ ArenasTyped /\ Arranged(chunkSizes, freed, Where, objects) /\ TrimsLast(arena, objects)
      /\ BagHeld(bag, objects, arena.last)
      /\ calls \in Nat /\ i \in Nat \ {0} /\ i \notin DOMAIN objects /\ DOMAIN objects \subseteq 1 .. calls
      /\ simple \in [SimpleArenas -> ChunkPlaces] /\ simple[s] \in ChunkPlaces
      /\ simple[s].own \in SUBSET Nat /\ simple[s].p \in Nat /\ simple[s].current \in Nat
      /\ simple[s].end = top /\ (simple[s].current = 0 => simple[s].p = top)
  BY DEF ArenasInv, ArenasTyped, ChunkPlaces
<1>2. /\ ChunkHeader \in Nat \ {0} /\ ChunkSize \in Nat \ {0} /\ s \in Owners /\ s # "arena" /\ 1 \in Nat \ {0}
      /\ Len(chunkSizes) \in Nat /\ c \in Nat \ {0} /\ top \in Nat /\ ChunkHeader <= top
  BY <1>1, ArenaSizes, LenProperties DEF Arranged
<1>3. UNCHANGED <<growth, arena, bag>>
  BY DEF Memory!AllocSimple
<1>4. Where[s] = simple[s] /\ DOMAIN Where = Owners
  BY <1>2 DEF Where
<1>5. \A x \in Nat : x % 1 = 0
  OBVIOUS
<1>6. PICK size \in {n \in Sizes : n <= ChunkSize} :
       \/ /\ simple[s].p + size <= simple[s].end
          /\ simple' = [simple EXCEPT ![s] = [simple[s] EXCEPT !.p = simple[s].p + size]]
          /\ objects' = Memory!Object(s, simple[s].current, simple[s].p, size, 1)
          /\ UNCHANGED <<chunkSizes, freed>>
       \/ /\ simple[s].p + size > simple[s].end
          /\ simple' = [simple EXCEPT ![s] = [own |-> simple[s].own \union {c}, current |-> c,
                                              p |-> ChunkHeader + size, end |-> simple[s].end]]
          /\ objects' = Memory!Object(s, c, ChunkHeader, size, 1)
          /\ Memory!ChunkTaken(simple[s].end)
  BY DEF Memory!AllocSimple, Memory!NewChunk
<1>7. size \in Nat \ {0} /\ size <= ChunkSize
  BY ServicesAssumption DEF Memory!ArenasAssumption
\* What is left to show in both cases.
<1>9. ASSUME DOMAIN objects' = DOMAIN objects \union {i}, \A j \in DOMAIN objects : objects'[j] = objects[j],
             NEW w \in ChunkPlaces, simple' = [simple EXCEPT ![s] = w], w.end = top, w.current # 0,
             Arranged(chunkSizes', freed', Where', objects')
      PROVE  ArenasInv'
  <2>1. simple' \in [SimpleArenas -> ChunkPlaces] /\ simple'[s] = w /\ \A q \in SimpleArenas : q # s => simple'[q] = simple[q]
    BY <1>1, <1>9
  <2>2. calls' \in Nat /\ DOMAIN objects' \subseteq 1 .. calls'
    BY <1>1, <1>9
  <2>3. ArenasTyped'
    BY <1>1, <1>3, <1>9, <2>1, <2>2 DEF ArenasTyped
  <2>4. TrimsLast(arena', objects')
    BY <1>1, <1>3, <1>9 DEF TrimsLast
  <2>5. BagHeld(bag, objects', arena.last)
    BY <1>1, <1>9, BagStays
  <2>. QED BY <1>3, <1>9, <2>3, <2>4, <2>5 DEF ArenasInv
<1>. HIDE DEF i, c, top
<1>10. CASE /\ simple[s].p + size <= simple[s].end
            /\ simple' = [simple EXCEPT ![s] = [simple[s] EXCEPT !.p = simple[s].p + size]]
            /\ objects' = Memory!Object(s, simple[s].current, simple[s].p, size, 1)
            /\ UNCHANGED <<chunkSizes, freed>>
  <2>. DEFINE q == simple[s].p + size
              w == [simple[s] EXCEPT !.p = q]
  <2>1. q \in Nat /\ q <= top /\ simple[s].current # 0
    BY <1>1, <1>2, <1>7, <1>10
  <2>. DEFINE b == [owner |-> s, chunk |-> simple[s].current, from |-> simple[s].p, size |-> size, align |-> 1]
  <2>2. /\ b \in ArenaObjects /\ b.owner = s /\ b.chunk = simple[s].current /\ b.from = simple[s].p /\ b.size = size /\ b.from % b.align = 0
        /\ DOMAIN objects' = DOMAIN objects \union {i} /\ objects'[i] = b
        /\ \A j \in DOMAIN objects : objects'[j] = objects[j]
    <3>1. b \in ArenaObjects /\ simple[s].p % 1 = 0
      BY <1>1, <1>2, <1>5, <1>7 DEF ArenaObjects
    <3>2. objects' = [j \in DOMAIN objects \union {i} |-> IF j = i THEN b ELSE objects[j]]
      BY <1>10 DEF Memory!Object, i
    <3>3. b.owner = s /\ b.chunk = simple[s].current /\ b.from = simple[s].p /\ b.size = size /\ b.align = 1
      OBVIOUS
    <3>. HIDE DEF b
    <3>4. /\ DOMAIN objects' = DOMAIN objects \union {i} /\ objects'[i] = b
          /\ \A j \in DOMAIN objects : objects'[j] = objects[j]
      BY <1>1, <3>2
    <3>. QED BY <3>1, <3>3, <3>4
  <2>. HIDE DEF b
  <2>. HIDE DEF q
  <2>3. w \in ChunkPlaces /\ w.end = top /\ w.current # 0 /\ simple' = [simple EXCEPT ![s] = w]
    BY <1>1, <1>10, <2>1 DEF ChunkPlaces, q
  <2>4. Where' = [Where EXCEPT ![s].p = q]
    <3>1. \A r \in SimpleArenas : r # s => simple'[r] = simple[r]
      BY <1>1, <2>3
    <3>2. simple'[s] = w /\ [Where EXCEPT ![s].p = q] = [Where EXCEPT ![s] = w]
      BY <1>1, <1>4, <2>3
    <3>. HIDE DEF w
    <3>. QED BY <1>3, <3>1, <3>2, SimplePlaced
  <2>. HIDE DEF w
  <2>5. b.from + b.size <= q /\ Where[s].p <= b.from /\ q <= Where[s].end
    BY <1>1, <1>4, <1>7, <2>1, <2>2 DEF q
  <2>6. IsCut(Where, Where', objects, objects', i, q)
    BY <1>1, <1>4, <2>1, <2>2, <2>4, <2>5 DEF IsCut
  <2>7. Arranged(chunkSizes', freed', Where', objects')
    BY <1>1, <1>10, <2>6, ObjectCut
  <2>. QED BY <1>9, <2>2, <2>3, <2>7
<1>11. CASE /\ simple[s].p + size > simple[s].end
            /\ simple' = [simple EXCEPT ![s] = [own |-> simple[s].own \union {c}, current |-> c,
                                                p |-> ChunkHeader + size, end |-> simple[s].end]]
            /\ objects' = Memory!Object(s, c, ChunkHeader, size, 1)
            /\ Memory!ChunkTaken(simple[s].end)
  <2>. DEFINE q == ChunkHeader + size
              own == simple[s].own \union {c}
              w == [own |-> own, current |-> c, p |-> q, end |-> top]
              placed == [Where EXCEPT ![s] = [own |-> @.own \union {c}, current |-> c, p |-> ChunkHeader, end |-> top]]
  <2>1. q \in Nat /\ q <= top /\ own \in SUBSET Nat
    BY <1>1, <1>2, <1>7 DEF top
  <2>. DEFINE b == [owner |-> s, chunk |-> c, from |-> ChunkHeader, size |-> size, align |-> 1]
  <2>2. /\ b \in ArenaObjects /\ b.owner = s /\ b.chunk = c /\ b.from = ChunkHeader /\ b.size = size /\ b.from % b.align = 0
        /\ DOMAIN objects' = DOMAIN objects \union {i} /\ objects'[i] = b
        /\ \A j \in DOMAIN objects : objects'[j] = objects[j]
    <3>1. b \in ArenaObjects /\ ChunkHeader % 1 = 0
      BY <1>1, <1>2, <1>5, <1>7 DEF ArenaObjects
    <3>2. objects' = [j \in DOMAIN objects \union {i} |-> IF j = i THEN b ELSE objects[j]]
      BY <1>11 DEF Memory!Object, i
    <3>3. b.owner = s /\ b.chunk = c /\ b.from = ChunkHeader /\ b.size = size /\ b.align = 1
      OBVIOUS
    <3>. HIDE DEF b
    <3>4. /\ DOMAIN objects' = DOMAIN objects \union {i} /\ objects'[i] = b
          /\ \A j \in DOMAIN objects : objects'[j] = objects[j]
      BY <1>1, <3>2
    <3>. QED BY <3>1, <3>3, <3>4
  <2>. HIDE DEF b
  <2>3. simple' = [simple EXCEPT ![s] = w]
    BY <1>1, <1>11
  <2>. HIDE DEF q
  <2>4. /\ placed[s] = [own |-> own, current |-> c, p |-> ChunkHeader, end |-> top]
        /\ [placed EXCEPT ![s].p = q] = [Where EXCEPT ![s] = w]
    <3>1. placed[s] = [own |-> own, current |-> c, p |-> ChunkHeader, end |-> top]
      BY <1>2, <1>4
    <3>3. DOMAIN placed = Owners /\ \A r \in Owners : r # s => placed[r] = Where[r]
      BY <1>2, <1>4
    <3>. HIDE DEF placed, own
    <3>2. [placed[s] EXCEPT !.p = q] = w
      BY <3>1
    <3>. HIDE DEF w
    <3>4. [placed EXCEPT ![s].p = q] = [r \in Owners |-> IF r = s THEN w ELSE Where[r]]
      BY <1>2, <3>2, <3>3
    <3>5. [Where EXCEPT ![s] = w] = [r \in Owners |-> IF r = s THEN w ELSE Where[r]]
      BY <1>4
    <3>. QED BY <3>1, <3>4, <3>5
  <2>. HIDE DEF own
  <2>5. w \in ChunkPlaces /\ w.end = top /\ w.current # 0
    BY <1>2, <2>1 DEF ChunkPlaces
  <2>. HIDE DEF w
  <2>6. Where' = [placed EXCEPT ![s].p = q]
    <3>1. simple'[s] = w /\ \A r \in SimpleArenas : r # s => simple'[r] = simple[r]
      BY <1>1, <2>3
    <3>. QED BY <1>3, <2>4, <3>1, SimplePlaced
  <2>7. Arranged(chunkSizes', freed', placed, objects)
    <3>1. chunkSizes' = Append(chunkSizes, top) /\ freed' = Append(freed, 0)
      BY <1>1, <1>11 DEF Memory!ChunkTaken
    <3>2. Arranged(Append(chunkSizes, top), Append(freed, 0), placed, objects)
      BY <1>1, <1>2, ChunkAdded DEF c
    <3>. QED BY <3>1, <3>2
  <2>. HIDE DEF placed
  <2>8. b.from + b.size <= q /\ placed[s].p <= b.from /\ q <= placed[s].end
    BY <1>2, <1>7, <2>1, <2>2, <2>4 DEF q
  <2>9. IsCut(placed, Where', objects, objects', i, q)
    <3>1. placed[s].current = c /\ i \notin DOMAIN objects
      BY <1>1, <2>4
    <3>. QED BY <1>2, <2>1, <2>2, <2>6, <2>8, <3>1 DEF IsCut
  <2>10. Arranged(chunkSizes', freed', Where', objects')
    BY <2>7, <2>9, ObjectCut
  <2>. QED BY <1>9, <2>2, <2>3, <2>5, <2>10
<1>. QED BY <1>6, <1>10, <1>11

\* A simple arena takes over what another has, after it gave its own back.
LEMMA MoveSimpleSteps ==
  ASSUME ArenasInv, NEW s \in SimpleArenas, NEW t \in SimpleArenas, Memory!MoveSimple(s, t), calls' = calls + 1
  PROVE  ArenasInv'
<1>. DEFINE w == Memory!NewSimple
            left == DOMAIN objects \ {i \in DOMAIN objects : objects[i].owner = s}
            wh1 == [Where EXCEPT ![s] = w]
            obs1 == Restrict(objects, left)
            gb1 == [c \in DOMAIN freed |-> IF c \in Where[s].own THEN freed[c] + 1 ELSE freed[c]]
<1>1. /\ s # t /\ simple' = [simple EXCEPT ![s] = simple[t], ![t] = w]
      /\ freed' = [c \in DOMAIN freed |-> IF c \in simple[s].own THEN freed[c] + 1 ELSE freed[c]]
      /\ objects' = [i \in left |-> IF objects[i].owner = t THEN [objects[i] EXCEPT !.owner = s] ELSE objects[i]]
      /\ UNCHANGED <<chunkSizes, growth, arena, bag>>
  BY DEF Memory!MoveSimple, Memory!LeftOf, Memory!Freed, Memory!ObjectsOf
<1>2. /\ ArenasTyped /\ Arranged(chunkSizes, freed, Where, objects) /\ TrimsLast(arena, objects)
      /\ BagHeld(bag, objects, arena.last) /\ simple \in [SimpleArenas -> ChunkPlaces]
      /\ simple[t].end = ChunkHeader + ChunkSize /\ (simple[t].current = 0 => simple[t].p = simple[t].end)
  BY DEF ArenasInv, ArenasTyped
<1>3. /\ s \in Owners /\ t \in Owners /\ s # "arena" /\ t # "arena"
      /\ ChunkHeader \in Nat \ {0} /\ ChunkSize \in Nat \ {0}
  BY ArenaSizes
<1>4. /\ w \in ChunkPlaces /\ w.own = {} /\ w.current = 0 /\ w.p = w.end /\ w.end = ChunkHeader + ChunkSize
  BY <1>3 DEF Memory!NewSimple, Memory!None, ChunkPlaces
<1>. HIDE DEF w
<1>5. Where[s] = simple[s] /\ Where[t] = simple[t] /\ DOMAIN Where = Owners
  BY <1>3 DEF Where
<1>6. Arranged(chunkSizes, gb1, wh1, obs1)
  BY <1>2, <1>3, <1>4, ChunksGivenBack
<1>7. gb1 = freed'
  BY <1>1, <1>5
<1>8. /\ DOMAIN obs1 = left /\ \A i \in left : obs1[i] = objects[i]
  BY DEF Restrict
<1>9. wh1[s] = w /\ wh1[t] = simple[t]
  BY <1>1, <1>3, <1>5
<1>10. Where' = [wh1 EXCEPT ![s] = wh1[t], ![t] = w]
  <2>1. simple'[s] = simple[t] /\ simple'[t] = w /\ \A r \in SimpleArenas : r # s /\ r # t => simple'[r] = simple[r]
    BY <1>1, <1>2
  <2>2. /\ Where'["arena"] = Where["arena"] /\ DOMAIN Where' = Owners
        /\ \A r \in SimpleArenas : Where'[r] = simple'[r] /\ Where[r] = simple[r]
    BY <1>1, ArenaSizes DEF Where
  <2>3. \A r \in Owners : r = "arena" \/ r \in SimpleArenas
    BY DEF Owners
  <2>4. Where' = [r \in Owners |-> Where'[r]]
    BY DEF Where
  <2>5. [wh1 EXCEPT ![s] = wh1[t], ![t] = w] = [r \in Owners |-> IF r = t THEN w ELSE IF r = s THEN simple[t] ELSE Where[r]]
    BY <1>3, <1>5, <1>9
  <2>6. \A r \in Owners : Where'[r] = IF r = t THEN w ELSE IF r = s THEN simple[t] ELSE Where[r]
    BY <1>1, <1>3, <2>1, <2>2, <2>3
  <2>. QED BY <2>4, <2>5, <2>6
<1>11. objects' = [i \in DOMAIN obs1 |-> IF obs1[i].owner = t THEN [obs1[i] EXCEPT !.owner = s] ELSE obs1[i]]
  BY <1>1, <1>8
<1>. HIDE DEF wh1, obs1, gb1, left
<1>12. Arranged(chunkSizes', freed', Where', objects')
  <2>1. Arranged(chunkSizes, gb1, [wh1 EXCEPT ![s] = wh1[t], ![t] = w],
                 [i \in DOMAIN obs1 |-> IF obs1[i].owner = t THEN [obs1[i] EXCEPT !.owner = s] ELSE obs1[i]])
    BY <1>1, <1>3, <1>4, <1>6, <1>9, ChunksMoved
  <2>. QED BY <1>1, <1>7, <1>10, <1>11, <2>1
<1>13. /\ DOMAIN objects' \subseteq DOMAIN objects
       /\ \A i \in DOMAIN objects : objects[i].owner = "arena" => i \in DOMAIN objects' /\ objects'[i] = objects[i]
  BY <1>1, <1>3 DEF left
<1>14. ArenasTyped'
  <2>1. /\ simple' \in [SimpleArenas -> ChunkPlaces] /\ simple'[t] = w /\ simple'[s] = simple[t]
        /\ \A r \in SimpleArenas : r # s /\ r # t => simple'[r] = simple[r]
    BY <1>1, <1>2, <1>4
  <2>2. \A r \in SimpleArenas : /\ simple'[r].end = ChunkHeader + ChunkSize
                                /\ simple'[r].current = 0 => simple'[r].p = simple'[r].end
    BY <1>2, <1>4, <2>1 DEF ArenasTyped
  <2>3. calls' \in Nat /\ DOMAIN objects' \subseteq 1 .. calls'
    BY <1>2, <1>13 DEF ArenasTyped
  <2>. QED BY <1>1, <1>2, <2>1, <2>2, <2>3 DEF ArenasTyped
<1>15. TrimsLast(arena', objects')
  BY <1>1, <1>2, <1>13 DEF TrimsLast
<1>16. BagHeld(bag, objects', arena.last)
  BY <1>2, <1>13, BagStays
<1>. QED BY <1>1, <1>12, <1>14, <1>15, <1>16 DEF ArenasInv


\* The inductive invariant holds of the initial states.
LEMMA ArenasStart == ASSUME Memory!Init PROVE ArenasInv
<1>1. /\ chunkSizes = <<>> /\ freed = <<>> /\ growth \in Growths /\ calls = 0
      /\ arena = [own |-> {}, current |-> 0, p |-> 0, end |-> 0, nextSize |-> ChunkSize, last |-> 0]
      /\ simple = [s \in SimpleArenas |-> Memory!NewSimple]
      /\ DOMAIN objects = {} /\ bag = [nodes |-> <<>>, count |-> 0]
  BY DEF Memory!Init, Memory!NewArena, Memory!NewBag, Memory!None
<1>2. growth \in Nat \ {0} /\ ChunkHeader \in Nat \ {0} /\ ChunkSize \in Nat \ {0}
  BY <1>1, ServicesAssumption, ArenaSizes DEF Memory!ArenasAssumption
<1>3. \A s \in SimpleArenas : /\ simple[s] \in ChunkPlaces /\ simple[s].own = {} /\ simple[s].current = 0
                              /\ simple[s].p = simple[s].end /\ simple[s].end = ChunkHeader + ChunkSize
  BY <1>1, <1>2 DEF Memory!NewSimple, Memory!None, ChunkPlaces
<1>4. \A o \in Owners : Where[o] \in ChunkPlaces /\ Where[o].own = {} /\ Where[o].current = 0
  <2>1. Where["arena"] = [own |-> {}, current |-> 0, p |-> 0, end |-> 0]
    BY <1>1, ArenaSizes DEF Where
  <2>2. \A s \in SimpleArenas : Where[s] = simple[s]
    BY ArenaSizes DEF Where
  <2>3. \A o \in Owners : o = "arena" \/ o \in SimpleArenas
    BY DEF Owners
  <2>4. Where["arena"] \in ChunkPlaces
    BY <2>1 DEF ChunkPlaces
  <2>. QED BY <1>3, <2>1, <2>2, <2>3, <2>4
<1>5. /\ chunkSizes \in Seq(Nat) /\ freed \in Seq(Nat) /\ Len(freed) = Len(chunkSizes) /\ DOMAIN chunkSizes = {}
      /\ DOMAIN Where = Owners
  BY <1>1, EmptySeq DEF Where
<1>6. Arranged(chunkSizes, freed, Where, objects)
  BY <1>1, <1>4, <1>5 DEF Arranged, CutsIn, OneOwner
<1>7. ArenasTyped
  <2>1. arena \in [own : SUBSET Nat, current : Nat, p : Nat, end : Nat, nextSize : Nat \ {0}, last : Nat]
    BY <1>1, <1>2
  <2>2. simple \in [SimpleArenas -> ChunkPlaces]
    BY <1>1, <1>3
  <2>. QED BY <1>1, <1>2, <1>3, <2>1, <2>2 DEF ArenasTyped
<1>8. BagHeld(bag, objects, arena.last)
  <2>1. /\ bag.nodes = <<>> /\ bag.count = 0 /\ bag \in [nodes : Seq(Nat), count : Nat] /\ Len(bag.nodes) = 0
    BY <1>1, EmptySeq
  <2>. QED BY <2>1 DEF BagHeld, NodesFilled
<1>. QED BY <1>1, <1>6, <1>7, <1>8 DEF ArenasInv, TrimsLast

\* It stays when nothing of the arenas changes.
LEMMA ArenasUnchanged == ASSUME ArenasInv, UNCHANGED <<arenasVars, calls>> PROVE ArenasInv'
<1>1. UNCHANGED <<chunkSizes, freed, growth, arena, simple, objects, bag, calls>>
  BY DEF arenasVars
<1>2. Where' = Where
  BY <1>1 DEF Where
<1>. QED BY <1>1, <1>2 DEF ArenasInv, ArenasTyped

\* It is kept by every step.
LEMMA ArenasSteps == ASSUME ArenasInv, Memory!Next PROVE ArenasInv'
<1>1. calls' = calls + 1
  BY DEF Memory!Next
<1>2. CASE Memory!AllocObject
  BY <1>1, <1>2, AllocObjectSteps
<1>3. CASE Memory!ReduceLastAlloc
  BY <1>1, <1>3, ReduceSteps
<1>4. CASE Memory!FreeLastAlloc
  BY <1>1, <1>4, FreeLastSteps
<1>5. CASE Memory!Clear
  BY <1>1, <1>5, ClearSteps
<1>6. CASE Memory!AddItem
  BY <1>1, <1>6, AddItemSteps
<1>7. CASE \E s \in SimpleArenas : Memory!AllocSimple(s)
  BY <1>1, <1>7, AllocSimpleSteps
<1>8. CASE \E s, t \in SimpleArenas : Memory!MoveSimple(s, t)
  BY <1>1, <1>8, MoveSimpleSteps
<1>. QED BY <1>2, <1>3, <1>4, <1>5, <1>6, <1>7, <1>8 DEF Memory!Next

\* It says that objects lie apart in chunks of their owners.
LEMMA ObjectsLieApart == ASSUME ArenasInv PROVE Memory!ObjectsApart
<1>1. /\ \A i \in DOMAIN objects : objects[i] \in ArenaObjects /\ LiesIn(objects[i], Where[objects[i].owner], chunkSizes)
      /\ \A i, j \in DOMAIN objects : i # j => LieApart(objects[i], objects[j])
      /\ OneOwner(chunkSizes, freed, Where) /\ \A o \in Owners : CutsIn(Where[o], chunkSizes)
  BY DEF ArenasInv, Arranged
<1>2. \A o \in Owners : Memory!OwnedBy(o) = Where[o].own
  <2>1. \A s \in SimpleArenas : Where[s] = simple[s] /\ s # "arena"
    BY ArenaSizes DEF Where
  <2>2. Where["arena"].own = arena.own
    BY ArenaSizes DEF Where
  <2>. QED BY <2>1, <2>2 DEF Memory!OwnedBy, Owners
<1>3. ASSUME NEW i \in DOMAIN objects
      PROVE  LET o == objects[i]
             IN  /\ o.from >= ChunkHeader /\ o.from + o.size <= chunkSizes[o.chunk] /\ o.from % o.align = 0
                 /\ freed[o.chunk] = 0 /\ o.chunk \in Memory!OwnedBy(o.owner)
  <2>1. /\ objects[i].owner \in Owners /\ objects[i].from \in Nat /\ LiesIn(objects[i], Where[objects[i].owner], chunkSizes)
        /\ CutsIn(Where[objects[i].owner], chunkSizes)
    BY <1>1 DEF ArenaObjects
  <2>2. objects[i].chunk \in DOMAIN chunkSizes /\ freed[objects[i].chunk] = 0
    BY <1>1, <2>1 DEF LiesIn, CutsIn, OneOwner
  <2>. QED BY <1>2, <2>1, <2>2, ArenaSizes DEF LiesIn
<1>. QED BY <1>1, <1>3 DEF Memory!ObjectsApart, LieApart

\* It says that each chunk has one owner or was given back once.
LEMMA ChunksHaveOwners == ASSUME ArenasInv PROVE Memory!ChunksOwned
<1>1. OneOwner(chunkSizes, freed, Where)
  BY DEF ArenasInv, Arranged
<1>2. \A s \in SimpleArenas : Where[s] = simple[s] /\ s # "arena" /\ s \in Owners
  BY ArenaSizes DEF Where
<1>3. Where["arena"].own = arena.own /\ "arena" \in Owners /\ \A o \in Owners : o = "arena" \/ o \in SimpleArenas
  BY ArenaSizes DEF Where, Owners
<1>4. ASSUME NEW c \in DOMAIN chunkSizes
      PROVE  freed[c] + Cardinality({s \in SimpleArenas : c \in simple[s].own}) + (IF c \in arena.own THEN 1 ELSE 0) = 1
  <2>. DEFINE S == {s \in SimpleArenas : c \in simple[s].own}
  <2>1. freed[c] = IF \E o \in Owners : c \in Where[o].own THEN 0 ELSE 1
    BY <1>1, <1>4 DEF OneOwner
  <2>2. CASE c \in arena.own
    <3>1. \A s \in SimpleArenas : c \notin simple[s].own
      BY <1>1, <1>2, <1>3, <2>2 DEF OneOwner
    <3>2. Cardinality(S) = 0
      BY <3>1, FS_EmptySet
    <3>. QED BY <1>3, <2>1, <2>2, <3>2
  <2>3. CASE c \notin arena.own /\ \E s \in SimpleArenas : c \in simple[s].own
    <3>1. PICK s \in SimpleArenas : c \in simple[s].own
      BY <2>3
    <3>2. \A t \in SimpleArenas : c \in simple[t].own => t = s
      BY <1>1, <1>2, <3>1 DEF OneOwner
    <3>3. S = {s}
      BY <3>1, <3>2
    <3>4. Cardinality(S) = 1
      BY <3>3, FS_Singleton
    <3>. QED BY <1>2, <2>1, <2>3, <3>1, <3>4
  <2>4. CASE c \notin arena.own /\ \A s \in SimpleArenas : c \notin simple[s].own
    <3>1. Cardinality(S) = 0
      BY <2>4, FS_EmptySet
    <3>2. \A o \in Owners : c \notin Where[o].own
      BY <1>2, <1>3, <2>4
    <3>. QED BY <2>1, <2>4, <3>1, <3>2
  <2>. QED BY <2>2, <2>3, <2>4
<1>5. ASSUME NEW c \in DOMAIN chunkSizes
      PROVE  Memory!Cardinality({s \in SimpleArenas : c \in simple[s].own}) = Cardinality({s \in SimpleArenas : c \in simple[s].own})
  BY DEF Memory!Cardinality, Cardinality
<1>. QED BY <1>4, <1>5 DEF Memory!ChunksOwned

\* It says that items have places of their own.
LEMMA ItemsLieApart == ASSUME ArenasInv PROVE Memory!ItemsApart
<1>. DEFINE k == ItemsPerChunk
            n == Len(bag.nodes)
            q(i) == (i - 1) \div k
            r(i) == (i - 1) % k
<1>1. /\ BagHeld(bag, objects, arena.last) /\ n \in Nat /\ bag.count \in Nat /\ NodesFilled(bag.nodes, bag.count)
      /\ bag.nodes \in Seq(Nat)
      /\ \A m \in 1 .. n : /\ bag.nodes[m] \in DOMAIN objects
                           /\ objects[bag.nodes[m]].owner = "arena" /\ objects[bag.nodes[m]].size = 1 + k
      /\ \A m, l \in 1 .. n : m # l => bag.nodes[m] # bag.nodes[l]
  BY LenProperties DEF ArenasInv, BagHeld
<1>2. k \in Nat \ {0}
  BY ArenaSizes
<1>. HIDE DEF k
<1>3. bag.count <= k * n
  <2>1. CASE bag.nodes = <<>> /\ bag.count = 0
    BY <1>1, <1>2, <2>1, EmptySeq
  <2>2. CASE \E filled \in 1 .. k : bag.count = (n - 1) * k + filled
    <3>1. PICK filled \in 1 .. k : bag.count = (n - 1) * k + filled
      BY <2>2
    <3>2. (n - 1) * k + k = k * n /\ (n - 1) * k \in Int
      BY <1>1, <1>2
    <3>. QED BY <1>1, <1>2, <3>1, <3>2
  <2>. QED BY <1>1, <2>1, <2>2 DEF NodesFilled, k
<1>4. ASSUME NEW i \in 1 .. bag.count
      PROVE  /\ q(i) \in Nat /\ r(i) \in 0 .. k - 1 /\ i = k * q(i) + r(i) + 1 /\ q(i) < n /\ q(i) + 1 \in 1 .. n
             /\ bag.nodes[q(i) + 1] \in DOMAIN objects /\ objects[bag.nodes[q(i) + 1]].from \in Nat
             /\ objects[bag.nodes[q(i) + 1]].owner = "arena" /\ objects[bag.nodes[q(i) + 1]].size = 1 + k
  <2>1. i - 1 \in Nat /\ q(i) \in Nat /\ r(i) \in 0 .. k - 1 /\ i - 1 = k * q(i) + r(i)
    <3>. DEFINE x == i - 1
    <3>1. x \in Nat
      BY <1>1, <1>4
    <3>. HIDE DEF x
    <3>2. x \div k \in Nat /\ x % k \in 0 .. k - 1 /\ x = k * (x \div k) + (x % k)
      BY <1>2, <3>1
    <3>. QED BY <3>1, <3>2 DEF x
  <2>. DEFINE a == q(i)
              b == r(i)
  <2>. HIDE DEF a, b
  <2>2. a < n
    <3>. SUFFICES ASSUME n <= a PROVE FALSE
      BY <1>1, <2>1 DEF a
    <3>1. k * n <= k * a /\ k * n \in Nat /\ k * a \in Nat
      BY <1>1, <1>2, <2>1, ProductGrows DEF a
    <3>. QED BY <1>1, <1>3, <1>4, <2>1, <3>1 DEF a, b
  <2>3. a + 1 \in 1 .. n
    BY <1>1, <2>1, <2>2 DEF a
  <2>4. objects[bag.nodes[a + 1]] \in ArenaObjects
    BY <1>1, <2>3 DEF ArenasInv, Arranged
  <2>. QED BY <1>1, <2>1, <2>2, <2>3, <2>4 DEF ArenaObjects, a
<1>5. \A i : Memory!ItemNode(i) = bag.nodes[q(i) + 1]
  BY DEF Memory!ItemNode, k
<1>6. \A i : Memory!ItemAddress(i) = <<objects[bag.nodes[q(i) + 1]].chunk, objects[bag.nodes[q(i) + 1]].from + 1 + r(i)>>
  BY <1>5 DEF Memory!ItemAddress, k
<1>. HIDE DEF q, r
<1>7. ASSUME NEW i \in 1 .. bag.count, NEW j \in 1 .. bag.count, i # j PROVE Memory!ItemAddress(i) # Memory!ItemAddress(j)
  <2>. DEFINE a == objects[bag.nodes[q(i) + 1]]
              b == objects[bag.nodes[q(j) + 1]]
  <2>1. /\ a.from \in Nat /\ b.from \in Nat /\ a.size = 1 + k /\ b.size = 1 + k /\ r(i) \in 0 .. k - 1 /\ r(j) \in 0 .. k - 1
        /\ q(i) \in Nat /\ q(j) \in Nat
    BY <1>4
  <2>2. CASE q(i) = q(j)
    <3>1. i = k * q(i) + r(i) + 1 /\ j = k * q(i) + r(j) + 1
      BY <1>4, <2>2
    <3>2. r(i) # r(j)
      BY <1>7, <3>1
    <3>3. a = b
      BY <2>2
    <3>. HIDE DEF a, b
    <3>. QED BY <1>2, <1>6, <2>1, <3>2, <3>3 DEF a, b
  <2>3. CASE q(i) # q(j)
    <3>1. q(i) + 1 \in 1 .. n /\ q(j) + 1 \in 1 .. n /\ q(i) + 1 # q(j) + 1
      BY <1>4, <2>1, <2>3
    <3>2. /\ bag.nodes[q(i) + 1] # bag.nodes[q(j) + 1]
          /\ bag.nodes[q(i) + 1] \in DOMAIN objects /\ bag.nodes[q(j) + 1] \in DOMAIN objects
      BY <1>1, <3>1
    <3>3. LieApart(a, b)
      BY <3>2 DEF ArenasInv, Arranged
    <3>. HIDE DEF a, b
    <3>4. a.chunk = b.chunk => a.from + 1 + r(i) # b.from + 1 + r(j)
      BY <1>2, <2>1, <3>3 DEF LieApart
    <3>. QED BY <1>6, <3>4 DEF a, b
  <2>. QED BY <2>2, <2>3
<1>8. ASSUME NEW i \in 1 .. bag.count
      PROVE  /\ (i - 1) \div ItemsPerChunk < Len(bag.nodes) /\ Memory!ItemNode(i) \in Memory!ObjectsOf("arena")
             /\ Memory!ItemAddress(i)[2] < objects[Memory!ItemNode(i)].from + objects[Memory!ItemNode(i)].size
  <2>1. q(i) < n /\ Memory!ItemNode(i) = bag.nodes[q(i) + 1]
    BY <1>4, <1>5
  <2>2. Memory!ItemNode(i) \in Memory!ObjectsOf("arena")
    BY <1>4, <2>1 DEF Memory!ObjectsOf
  <2>. DEFINE o == objects[bag.nodes[q(i) + 1]]
  <2>3. o.from \in Nat /\ o.size = 1 + k /\ r(i) \in 0 .. k - 1 /\ Memory!ItemAddress(i)[2] = o.from + 1 + r(i)
    BY <1>4, <1>6
  <2>. HIDE DEF o
  <2>4. Memory!ItemAddress(i)[2] < o.from + o.size
    BY <1>2, <2>3
  <2>. QED BY <2>1, <2>2, <2>4 DEF q, k, o
<1>. QED BY <1>7, <1>8 DEF Memory!ItemsApart

-----------------------------------------------------------------------------
(* Small vectors: the inductive invariant *)

VectorCell == Elements \union {Raw}
VectorRecords == [data : Nat, size : Nat, capacity : Nat, inline : [1 .. InlineCapacity -> VectorCell]]

\* Cells hold a sequence, and nothing behind it.
Hold(cells, room, xs) ==
  /\ cells \in [1 .. room -> VectorCell] /\ Len(xs) <= room
  /\ \A i \in 1 .. room : cells[i] = IF i <= Len(xs) THEN xs[i] ELSE Raw

\* The vectors hold x, the buffers are theirs but for the spare ones, and no
\* element was lost.
Fine(m, x, spare) ==
  /\ m \in [vectors : {m.vectors}, heap : {m.heap}, spoiled : {FALSE}]
  /\ m.vectors \in [Vectors -> VectorRecords] /\ x \in [Vectors -> Seq(Elements)]
  /\ \A v \in Vectors :
       /\ Hold(Cells!CellsOf(m, v), m.vectors[v].capacity, x[v])
       /\ m.vectors[v].data = 0 => m.vectors[v].capacity = InlineCapacity
       /\ m.vectors[v].data # 0 => m.vectors[v].inline = Cells!NoElements
  /\ DOMAIN m.heap = ({m.vectors[v].data : v \in Vectors} \ {0}) \union spare
  /\ \A v, w \in Vectors : v # w /\ m.vectors[v].data # 0 => m.vectors[v].data # m.vectors[w].data
  /\ \A b \in spare : b \in Nat \ {0} /\ \A v \in Vectors : m.vectors[v].data # b

VectorsInv ==
  /\ Fine(Cells!Memory, expected, {}) /\ calls \in Nat
  /\ \A v \in Vectors : vectors[v].size = Len(expected[v])

-----------------------------------------------------------------------------
(* Small vectors: memory *)

\* What is assumed of vectors.
LEMMA VectorConstants ==
  /\ IsFiniteSet(Vectors) /\ InlineCapacity \in Nat \ {0} /\ Raw \notin Elements /\ Default \in Elements
  /\ MaxElements \in Nat
BY ServicesAssumption DEF Cells!SmallVectorsAssumption, Cells!IsFiniteSet, IsFiniteSet

\* Where the elements are stays, and so do the spare buffers.
Stays(m, m2, spare) ==
  /\ \A v \in Vectors : /\ m2.vectors[v].data = m.vectors[v].data /\ m2.vectors[v].size = m.vectors[v].size
                        /\ m2.vectors[v].capacity = m.vectors[v].capacity
  /\ \A b \in spare : m2.heap[b] = m.heap[b]

\* One step of another leaves where the elements are.
LEMMA StaysStays ==
  ASSUME NEW m, NEW m1, NEW m2, NEW spare, Stays(m, m1, spare), Stays(m1, m2, spare)
  PROVE  Stays(m, m2, spare)
BY DEF Stays

\* The cells of a vector are written.
Written(m, v, cells, m2) ==
  /\ m2 \in [vectors : {Cells!WithCells(m, v, cells).vectors}, heap : {Cells!WithCells(m, v, cells).heap}, spoiled : {FALSE}]
LEMMA CellsWritten ==
  ASSUME NEW m, NEW x, NEW spare, Fine(m, x, spare), NEW v \in Vectors, NEW cells, NEW m2, Written(m, v, cells, m2),
         NEW xs \in Seq(Elements), Hold(cells, m.vectors[v].capacity, xs)
  PROVE  Fine(m2, [x EXCEPT ![v] = xs], spare) /\ Stays(m, m2, spare)
<1>. DEFINE d == m.vectors[v].data
            x2 == [x EXCEPT ![v] = xs]
<1>1. /\ m \in [vectors : {m.vectors}, heap : {m.heap}, spoiled : {FALSE}]
      /\ m.vectors \in [Vectors -> VectorRecords] /\ x \in [Vectors -> Seq(Elements)]
      /\ \A w \in Vectors :
           /\ Hold(Cells!CellsOf(m, w), m.vectors[w].capacity, x[w])
           /\ m.vectors[w].data = 0 => m.vectors[w].capacity = InlineCapacity
           /\ m.vectors[w].data # 0 => m.vectors[w].inline = Cells!NoElements
      /\ DOMAIN m.heap = ({m.vectors[w].data : w \in Vectors} \ {0}) \union spare
      /\ \A w, u \in Vectors : w # u /\ m.vectors[w].data # 0 => m.vectors[w].data # m.vectors[u].data
      /\ \A b \in spare : b \in Nat \ {0} /\ \A w \in Vectors : m.vectors[w].data # b
  BY DEF Fine
<1>2. m.vectors[v] \in VectorRecords /\ d \in Nat
  BY <1>1 DEF VectorRecords
<1>3. x2 \in [Vectors -> Seq(Elements)] /\ x2[v] = xs /\ \A w \in Vectors : w # v => x2[w] = x[w]
  BY <1>1
<1>. HIDE DEF x2
\* What is left to show in both cases.
<1>4. ASSUME m2 \in [vectors : {m2.vectors}, heap : {m2.heap}, spoiled : {FALSE}],
             m2.vectors \in [Vectors -> VectorRecords], DOMAIN m2.heap = DOMAIN m.heap,
             \A w \in Vectors : /\ m2.vectors[w].data = m.vectors[w].data /\ m2.vectors[w].size = m.vectors[w].size
                                /\ m2.vectors[w].capacity = m.vectors[w].capacity
                                /\ m2.vectors[w].data # 0 => m2.vectors[w].inline = m.vectors[w].inline,
             Cells!CellsOf(m2, v) = cells, \A w \in Vectors : w # v => Cells!CellsOf(m2, w) = Cells!CellsOf(m, w),
             \A b \in spare : m2.heap[b] = m.heap[b]
      PROVE  Fine(m2, x2, spare) /\ Stays(m, m2, spare)
  <2>1. {m2.vectors[w].data : w \in Vectors} = {m.vectors[w].data : w \in Vectors}
    BY <1>4
  <2>2. ASSUME NEW w \in Vectors
        PROVE  /\ Hold(Cells!CellsOf(m2, w), m2.vectors[w].capacity, x2[w])
               /\ m2.vectors[w].data = 0 => m2.vectors[w].capacity = InlineCapacity
               /\ m2.vectors[w].data # 0 => m2.vectors[w].inline = Cells!NoElements
    <3>1. CASE w = v
      BY <1>1, <1>3, <1>4, <3>1, ZenonT(30)
    <3>2. CASE w # v
      BY <1>1, <1>3, <1>4, <3>2
    <3>. QED BY <3>1, <3>2
  <2>3. DOMAIN m2.heap = ({m2.vectors[w].data : w \in Vectors} \ {0}) \union spare
    BY <1>1, <1>4, <2>1
  <2>4. /\ \A w, u \in Vectors : w # u /\ m2.vectors[w].data # 0 => m2.vectors[w].data # m2.vectors[u].data
        /\ \A b \in spare : b \in Nat \ {0} /\ \A w \in Vectors : m2.vectors[w].data # b
    <3>1. \A w \in Vectors : m2.vectors[w].data = m.vectors[w].data
      BY <1>4
    <3>2. ASSUME NEW w \in Vectors, NEW u \in Vectors, w # u, m2.vectors[w].data # 0
          PROVE  m2.vectors[w].data # m2.vectors[u].data
      BY <1>1, <3>1, <3>2
    <3>3. ASSUME NEW b \in spare PROVE b \in Nat \ {0} /\ \A w \in Vectors : m2.vectors[w].data # b
      BY <1>1, <3>1
    <3>. QED BY <3>2, <3>3
  <2>5. Fine(m2, x2, spare)
    BY <1>3, <1>4, <2>2, <2>3, <2>4 DEF Fine
  <2>. QED BY <1>4, <2>5 DEF Stays
<1>5. CASE d = 0
  <2>1. /\ m2.vectors = [m.vectors EXCEPT ![v].inline = cells] /\ m2.heap = m.heap
        /\ m2 \in [vectors : {m2.vectors}, heap : {m2.heap}, spoiled : {FALSE}]
    BY <1>1, <1>5 DEF Written, Cells!WithCells, Cells!Inline
  <2>2. cells \in [1 .. InlineCapacity -> VectorCell]
    BY <1>1, <1>5 DEF Hold
  <2>3. /\ m2.vectors \in [Vectors -> VectorRecords] /\ m2.vectors[v] = [m.vectors[v] EXCEPT !.inline = cells]
        /\ \A w \in Vectors : w # v => m2.vectors[w] = m.vectors[w]
    <3>. DEFINE vec == [m.vectors[v] EXCEPT !.inline = cells]
    <3>1. vec \in VectorRecords
      BY <1>2, <2>2 DEF VectorRecords
    <3>2. m2.vectors = [m.vectors EXCEPT ![v] = vec]
      BY <1>1, <2>1
    <3>. HIDE DEF vec
    <3>3. m2.vectors \in [Vectors -> VectorRecords] /\ m2.vectors[v] = vec /\ \A w \in Vectors : w # v => m2.vectors[w] = m.vectors[w]
      BY <1>1, <3>1, <3>2
    <3>. QED BY <3>3 DEF vec
  <2>4. /\ m2.vectors[v].data = 0 /\ m2.vectors[v].inline = cells /\ m2.vectors[v].size = m.vectors[v].size
        /\ m2.vectors[v].capacity = m.vectors[v].capacity
    BY <1>2, <1>5, <2>3 DEF VectorRecords
  <2>5. Cells!CellsOf(m2, v) = cells /\ \A w \in Vectors : w # v => Cells!CellsOf(m2, w) = Cells!CellsOf(m, w)
    BY <2>1, <2>3, <2>4 DEF Cells!CellsOf, Cells!Inline
  <2>. QED BY <1>4, <1>5, <2>1, <2>3, <2>4, <2>5 DEF x2
<1>6. CASE d # 0
  <2>1. /\ m2.vectors = m.vectors /\ m2.heap = [m.heap EXCEPT ![d] = cells]
        /\ m2 \in [vectors : {m2.vectors}, heap : {m2.heap}, spoiled : {FALSE}]
    BY <1>1, <1>6 DEF Written, Cells!WithCells, Cells!Inline
  <2>2. d \in DOMAIN m.heap
    BY <1>1, <1>6
  <2>3. DOMAIN m2.heap = DOMAIN m.heap /\ m2.heap[d] = cells /\ \A b \in DOMAIN m.heap : b # d => m2.heap[b] = m.heap[b]
    BY <2>1, <2>2
  <2>4. \A w \in Vectors : w # v => m.vectors[w].data # d
    BY <1>1, <1>6
  <2>5. \A w \in Vectors : m.vectors[w].data # 0 => m.vectors[w].data \in DOMAIN m.heap
    BY <1>1
  <2>6. Cells!CellsOf(m2, v) = cells /\ \A w \in Vectors : w # v => Cells!CellsOf(m2, w) = Cells!CellsOf(m, w)
    BY <1>6, <2>1, <2>3, <2>4, <2>5 DEF Cells!CellsOf, Cells!Inline
  <2>7. \A b \in spare : b \in DOMAIN m.heap /\ b # d
    BY <1>1
  <2>. QED BY <1>1, <1>4, <2>1, <2>3, <2>6, <2>7 DEF x2
<1>. QED BY <1>5, <1>6 DEF x2

\* Elements are constructed in raw cells behind those that there are.
LEMMA Constructs ==
  ASSUME NEW m, NEW x, NEW spare, Fine(m, x, spare), NEW v \in Vectors, NEW elements \in Seq(Elements),
         NEW from, from = Len(x[v]), from + Len(elements) <= m.vectors[v].capacity
  PROVE  /\ Fine(Cells!Construct(m, v, from, elements), [x EXCEPT ![v] = x[v] \o elements], spare)
         /\ Stays(m, Cells!Construct(m, v, from, elements), spare)
<1>. DEFINE m2 == Cells!Construct(m, v, from, elements)
            into == Cells!CellsOf(m, v)
            place == from + 1 .. from + Len(elements)
            cells == [i \in DOMAIN into |-> IF i \in place THEN elements[i - from] ELSE into[i]]
            room == m.vectors[v].capacity
            xs == x[v] \o elements
<1>1. /\ x[v] \in Seq(Elements) /\ Hold(into, room, x[v]) /\ m \in [vectors : {m.vectors}, heap : {m.heap}, spoiled : {FALSE}]
      /\ m.vectors[v] \in VectorRecords
  BY DEF Fine
<1>2. room \in Nat
  BY <1>1 DEF VectorRecords
<1>3. from \in Nat /\ Len(elements) \in Nat /\ \A i \in 1 .. Len(elements) : elements[i] \in Elements
  BY <1>1, LenProperties, ElementOfSeq
<1>4. /\ xs \in Seq(Elements) /\ Len(xs) = from + Len(elements)
      /\ \A i \in 1 .. Len(xs) : xs[i] = IF i <= from THEN x[v][i] ELSE elements[i - from]
  BY <1>1, <1>3, ConcatProperties
<1>5. /\ DOMAIN into = 1 .. room /\ into \in [1 .. room -> VectorCell] /\ from <= room
      /\ \A i \in 1 .. room : into[i] = IF i <= from THEN x[v][i] ELSE Raw
  BY <1>1 DEF Hold
<1>6. place \subseteq DOMAIN into /\ \A i \in place : into[i] = Raw
  BY <1>2, <1>3, <1>5
<1>7. Hold(cells, room, xs)
  <2>1. ASSUME NEW i \in 1 .. room
        PROVE  cells[i] = (IF i <= Len(xs) THEN xs[i] ELSE Raw) /\ cells[i] \in VectorCell
    <3>. HIDE DEF xs, into
    <3>1. CASE i \in place
      <4>1. cells[i] = elements[i - from] /\ i - from \in 1 .. Len(elements) /\ i <= Len(xs) /\ ~(i <= from) /\ i \in 1 .. Len(xs)
        BY <1>2, <1>3, <1>4, <1>5, <3>1
      <4>. HIDE DEF cells
      <4>. QED BY <1>3, <1>4, <4>1 DEF VectorCell
    <3>2. CASE i \notin place
      <4>1. cells[i] = into[i] /\ (i <= from \/ i > Len(xs))
        BY <1>2, <1>3, <1>4, <1>5, <3>2
      <4>. HIDE DEF cells
      <4>. QED BY <1>2, <1>3, <1>4, <1>5, <4>1
    <3>. QED BY <3>1, <3>2
  <2>2. DOMAIN cells = 1 .. room /\ cells = [i \in 1 .. room |-> cells[i]]
    BY <1>5
  <2>. HIDE DEF cells, xs
  <2>. QED BY <1>4, <2>1, <2>2 DEF Hold
<1>8. Written(m, v, cells, m2)
  <2>1. Cells!WithCells(m, v, cells) \in [vectors : {Cells!WithCells(m, v, cells).vectors},
                                          heap : {Cells!WithCells(m, v, cells).heap}, spoiled : {FALSE}]
    <3>. HIDE DEF cells
    <3>. QED BY <1>1 DEF Cells!WithCells
  <2>2. m2 = [Cells!WithCells(m, v, cells) EXCEPT
                !.spoiled = @ \/ ~(place \subseteq DOMAIN into) \/ \E i \in place \intersect DOMAIN into : into[i] # Raw]
    BY DEF Cells!Construct
  <2>3. ~(~(place \subseteq DOMAIN into) \/ \E i \in place \intersect DOMAIN into : into[i] # Raw)
    BY <1>6
  <2>. HIDE DEF cells, into, place
  <2>4. m2 = Cells!WithCells(m, v, cells)
    BY <2>1, <2>2, <2>3
  <2>. QED BY <2>1, <2>4 DEF Written
<1>. HIDE DEF m2, cells, xs
<1>9. Fine(m2, [x EXCEPT ![v] = xs], spare) /\ Stays(m, m2, spare)
  BY <1>4, <1>7, <1>8, CellsWritten
<1>. QED BY <1>9 DEF m2, xs

\* The last elements are destroyed.
LEMMA Destroys ==
  ASSUME NEW m, NEW x, NEW spare, Fine(m, x, spare), NEW v \in Vectors, NEW from \in Nat,
         NEW to, to = Len(x[v]), from <= to
  PROVE  /\ Fine(Cells!Destroy(m, v, from, to), [x EXCEPT ![v] = SubSeq(x[v], 1, from)], spare)
         /\ Stays(m, Cells!Destroy(m, v, from, to), spare)
<1>. DEFINE m2 == Cells!Destroy(m, v, from, to)
            into == Cells!CellsOf(m, v)
            cells == [i \in DOMAIN into |-> IF i \in from + 1 .. to THEN Raw ELSE into[i]]
            room == m.vectors[v].capacity
            xs == SubSeq(x[v], 1, from)
<1>1. /\ x[v] \in Seq(Elements) /\ Hold(into, room, x[v]) /\ m \in [vectors : {m.vectors}, heap : {m.heap}, spoiled : {FALSE}]
      /\ m.vectors[v] \in VectorRecords
  BY DEF Fine
<1>2. room \in Nat /\ to \in Nat /\ \A i \in 1 .. to : x[v][i] \in Elements
  BY <1>1, LenProperties, ElementOfSeq DEF VectorRecords
<1>3. xs \in Seq(Elements) /\ Len(xs) = from /\ \A i \in 1 .. from : xs[i] = x[v][i]
  BY <1>1, <1>2, SubSeqProperties
<1>4. /\ DOMAIN into = 1 .. room /\ into \in [1 .. room -> VectorCell] /\ to <= room
      /\ \A i \in 1 .. room : into[i] = IF i <= to THEN x[v][i] ELSE Raw
  BY <1>1 DEF Hold
<1>5. \A i \in from + 1 .. to : into[i] # Raw
  BY <1>2, <1>4, VectorConstants
<1>6. Hold(cells, room, xs)
  <2>1. ASSUME NEW i \in 1 .. room
        PROVE  cells[i] = (IF i <= from THEN xs[i] ELSE Raw) /\ cells[i] \in VectorCell
    <3>. HIDE DEF xs, into
    <3>1. CASE i \in from + 1 .. to
      BY <1>2, <1>4, <3>1 DEF VectorCell
    <3>2. CASE i \notin from + 1 .. to
      <4>1. cells[i] = into[i] /\ (i <= from \/ i > to)
        BY <1>2, <1>4, <3>2
      <4>. HIDE DEF cells
      <4>. QED BY <1>2, <1>3, <1>4, <4>1
    <3>. QED BY <3>1, <3>2
  <2>2. DOMAIN cells = 1 .. room /\ cells = [i \in 1 .. room |-> cells[i]] /\ from <= room
    BY <1>2, <1>4
  <2>. HIDE DEF cells, xs
  <2>. QED BY <1>3, <2>1, <2>2 DEF Hold
<1>7. Written(m, v, cells, m2)
  <2>1. Cells!WithCells(m, v, cells) \in [vectors : {Cells!WithCells(m, v, cells).vectors},
                                          heap : {Cells!WithCells(m, v, cells).heap}, spoiled : {FALSE}]
    <3>. HIDE DEF cells
    <3>. QED BY <1>1 DEF Cells!WithCells
  <2>2. m2 = [Cells!WithCells(m, v, cells) EXCEPT !.spoiled = @ \/ \E i \in from + 1 .. to : into[i] = Raw]
    BY DEF Cells!Destroy
  <2>3. ~(\E i \in from + 1 .. to : into[i] = Raw)
    BY <1>5
  <2>. HIDE DEF cells, into
  <2>4. m2 = Cells!WithCells(m, v, cells)
    BY <2>1, <2>2, <2>3
  <2>. QED BY <2>1, <2>4 DEF Written
<1>. HIDE DEF m2, cells, xs
<1>8. Fine(m2, [x EXCEPT ![v] = xs], spare) /\ Stays(m, m2, spare)
  BY <1>3, <1>6, <1>7, CellsWritten
<1>. QED BY <1>8 DEF m2, xs

\* What a vector holds is what it should.
LEMMA HeldByVector ==
  ASSUME NEW m, NEW x, NEW spare, Fine(m, x, spare), NEW v \in Vectors, m.vectors[v].size = Len(x[v])
  PROVE  Cells!Held(m, v) = x[v]
<1>. DEFINE into == Cells!CellsOf(m, v)
            n == Len(x[v])
            found == SubSeq(into, 1, n)
<1>1. /\ x[v] \in Seq(Elements) /\ Hold(into, m.vectors[v].capacity, x[v]) /\ m.vectors[v].capacity \in Nat
  BY DEF Fine, VectorRecords
<1>2. n \in Nat /\ n <= m.vectors[v].capacity /\ \A i \in 1 .. n : into[i] = x[v][i] /\ x[v][i] \in Elements
  BY <1>1, LenProperties, ElementOfSeq DEF Hold
<1>. HIDE DEF into, n
<1>3. found \in Seq(Elements) /\ Len(found) = n /\ \A i \in 1 .. n : found[i] = into[1 + i - 1]
  BY <1>2, SubSeqProperties
<1>4. \A i \in 1 .. n : found[i] = x[v][i]
  BY <1>2, <1>3
<1>. HIDE DEF found
<1>5. found = x[v]
  BY <1>1, <1>3, <1>4, SeqEqual DEF n
<1>. QED BY <1>5 DEF Cells!Held, found, into, n

\* The heap gives a buffer that no vector has, with raw cells.
LEMMA BufferTaken ==
  ASSUME NEW m, NEW x, Fine(m, x, {}), NEW c \in Nat
  PROVE  /\ Cells!Unused(m) \in Nat \ {0}
         /\ Fine([m EXCEPT !.heap = Cells!NewBuffer(m, c)], x, {Cells!Unused(m)})
         /\ [m EXCEPT !.heap = Cells!NewBuffer(m, c)].heap[Cells!Unused(m)] = [i \in 1 .. c |-> Raw]
         /\ Stays(m, [m EXCEPT !.heap = Cells!NewBuffer(m, c)], {})
<1>. DEFINE b == Cells!Unused(m)
            S == 1 .. Cardinality(Vectors) + 1
            m2 == [m EXCEPT !.heap = Cells!NewBuffer(m, c)]
<1>1. /\ m \in [vectors : {m.vectors}, heap : {m.heap}, spoiled : {FALSE}]
      /\ m.vectors \in [Vectors -> VectorRecords] /\ x \in [Vectors -> Seq(Elements)]
      /\ \A w \in Vectors :
           /\ Hold(Cells!CellsOf(m, w), m.vectors[w].capacity, x[w])
           /\ m.vectors[w].data = 0 => m.vectors[w].capacity = InlineCapacity
           /\ m.vectors[w].data # 0 => m.vectors[w].inline = Cells!NoElements
      /\ DOMAIN m.heap = {m.vectors[w].data : w \in Vectors} \ {0}
      /\ \A w, u \in Vectors : w # u /\ m.vectors[w].data # 0 => m.vectors[w].data # m.vectors[u].data
  BY DEF Fine
<1>2. Cardinality(Vectors) \in Nat
  BY VectorConstants, FS_CardinalityType
<1>3. \E d \in S : d \notin DOMAIN m.heap
  <2>. SUFFICES ASSUME \A d \in S : d \in DOMAIN m.heap PROVE FALSE
    OBVIOUS
  <2>. DEFINE f == [d \in S |-> CHOOSE w \in Vectors : m.vectors[w].data = d]
  <2>1. \A d \in S : \E w \in Vectors : m.vectors[w].data = d
    BY <1>1
  <2>2. f \in [S -> Vectors] /\ \A d \in S : m.vectors[f[d]].data = d
    BY <2>1
  <2>3. IsFiniteSet(S) /\ Cardinality(S) = Cardinality(Vectors) + 1
    BY <1>2, FS_Interval
  <2>. HIDE DEF f, S
  <2>4. \E d, e \in S : d # e /\ f[d] = f[e]
    BY <1>2, <2>2, <2>3, VectorConstants, FS_PigeonHole
  <2>. QED BY <2>2, <2>4
<1>4. b \in Nat \ {0} /\ b \notin DOMAIN m.heap
  <2>1. b = CHOOSE d \in S : d \notin DOMAIN m.heap
    BY DEF Cells!Unused, Cells!Cardinality, Cardinality
  <2>2. b \in S /\ b \notin DOMAIN m.heap
    BY <1>3, <2>1
  <2>. QED BY <1>2, <2>2
<1>. HIDE DEF b
<1>5. /\ m2.vectors = m.vectors /\ m2 \in [vectors : {m2.vectors}, heap : {m2.heap}, spoiled : {FALSE}]
      /\ m2.heap = [d \in DOMAIN m.heap \union {b} |-> IF d = b THEN [i \in 1 .. c |-> Raw] ELSE m.heap[d]]
  BY <1>1 DEF Cells!NewBuffer, b
<1>. HIDE DEF m2
<1>6. /\ DOMAIN m2.heap = DOMAIN m.heap \union {b} /\ m2.heap[b] = [i \in 1 .. c |-> Raw]
      /\ \A d \in DOMAIN m.heap : m2.heap[d] = m.heap[d]
  BY <1>4, <1>5
<1>7. \A w \in Vectors : Cells!CellsOf(m2, w) = Cells!CellsOf(m, w)
  BY <1>1, <1>5, <1>6 DEF Cells!CellsOf, Cells!Inline
<1>8. DOMAIN m2.heap = ({m2.vectors[w].data : w \in Vectors} \ {0}) \union {b}
  BY <1>1, <1>5, <1>6
<1>9. \A w \in Vectors : m2.vectors[w].data # b
  BY <1>1, <1>4, <1>5
<1>10. Fine(m2, x, {b})
  <2>1. \A w \in Vectors :
          /\ Hold(Cells!CellsOf(m2, w), m2.vectors[w].capacity, x[w])
          /\ m2.vectors[w].data = 0 => m2.vectors[w].capacity = InlineCapacity
          /\ m2.vectors[w].data # 0 => m2.vectors[w].inline = Cells!NoElements
    BY <1>1, <1>5, <1>7
  <2>2. \A w, u \in Vectors : w # u /\ m2.vectors[w].data # 0 => m2.vectors[w].data # m2.vectors[u].data
    BY <1>1, <1>5
  <2>3. \A d \in {b} : d \in Nat \ {0} /\ \A w \in Vectors : m2.vectors[w].data # d
    BY <1>4, <1>9
  <2>4. m2.vectors \in [Vectors -> VectorRecords] /\ x \in [Vectors -> Seq(Elements)]
    BY <1>1, <1>5
  <2>. QED BY <1>5, <1>8, <2>1, <2>2, <2>3, <2>4 DEF Fine
<1>11. Stays(m, m2, {})
  BY <1>5 DEF Stays
<1>. QED BY <1>4, <1>6, <1>10, <1>11 DEF b, m2

\* A vector without elements gives up its cells for those of a spare buffer, or
\* for those in itself.
Rebound(m, v, d, c, n, m2) ==
  m2 \in [vectors : {[m.vectors EXCEPT ![v] = [data |-> d, size |-> n, capacity |-> c, inline |-> m.vectors[v].inline]]},
          heap : {Cells!Free(m, v).heap}, spoiled : {FALSE}]
LEMMA CellsRebound ==
  ASSUME NEW m, NEW x, NEW spare, Fine(m, x, spare), NEW v \in Vectors, x[v] = <<>>, NEW d \in spare \union {0},
         NEW c \in Nat, NEW n \in Nat, NEW m2, Rebound(m, v, d, c, n, m2),
         d = 0 => c = InlineCapacity, d # 0 => m.heap[d] = [i \in 1 .. c |-> Raw]
  PROVE  Fine(m2, x, spare \ {d})
<1>. DEFINE old == m.vectors[v].data
            vec == [data |-> d, size |-> n, capacity |-> c, inline |-> m.vectors[v].inline]
<1>1. /\ m \in [vectors : {m.vectors}, heap : {m.heap}, spoiled : {FALSE}]
      /\ m.vectors \in [Vectors -> VectorRecords] /\ x \in [Vectors -> Seq(Elements)]
      /\ \A w \in Vectors :
           /\ Hold(Cells!CellsOf(m, w), m.vectors[w].capacity, x[w])
           /\ m.vectors[w].data = 0 => m.vectors[w].capacity = InlineCapacity
           /\ m.vectors[w].data # 0 => m.vectors[w].inline = Cells!NoElements
      /\ DOMAIN m.heap = ({m.vectors[w].data : w \in Vectors} \ {0}) \union spare
      /\ \A w, u \in Vectors : w # u /\ m.vectors[w].data # 0 => m.vectors[w].data # m.vectors[u].data
      /\ \A b \in spare : b \in Nat \ {0} /\ \A w \in Vectors : m.vectors[w].data # b
  BY DEF Fine
<1>2. d \in Nat /\ m.vectors[v].inline \in [1 .. InlineCapacity -> VectorCell]
  BY <1>1 DEF VectorRecords
<1>3. /\ m2.vectors = [m.vectors EXCEPT ![v] = vec] /\ m2.heap = Cells!Free(m, v).heap
      /\ m2 \in [vectors : {m2.vectors}, heap : {m2.heap}, spoiled : {FALSE}]
  BY DEF Rebound
<1>4. vec \in VectorRecords /\ vec.data = d /\ vec.capacity = c /\ vec.inline = m.vectors[v].inline
  BY <1>2 DEF VectorRecords
<1>. HIDE DEF vec
<1>5. /\ m2.vectors \in [Vectors -> VectorRecords] /\ m2.vectors[v] = vec
      /\ \A w \in Vectors : w # v => m2.vectors[w] = m.vectors[w]
  BY <1>1, <1>3, <1>4
<1>6. DOMAIN m2.heap = DOMAIN m.heap \ {old} /\ \A b \in DOMAIN m.heap : b # old => m2.heap[b] = m.heap[b]
  <2>1. CASE old = 0
    <3>1. m2.heap = m.heap /\ 0 \notin DOMAIN m.heap
      BY <1>1, <1>3, <2>1 DEF Cells!Free, Cells!Inline
    <3>. QED BY <2>1, <3>1
  <2>2. CASE old # 0
    <3>1. m2.heap = [b \in DOMAIN m.heap \ {old} |-> m.heap[b]]
      BY <1>1, <1>3, <2>2 DEF Cells!Free, Cells!Inline
    <3>. QED BY <3>1
  <2>. QED BY <2>1, <2>2
<1>. HIDE DEF old
<1>7. m.vectors[v].inline = Cells!NoElements
  <2>1. CASE old = 0
    <3>1. Hold(m.vectors[v].inline, InlineCapacity, <<>>)
      BY <1>1, <2>1 DEF Cells!CellsOf, Cells!Inline, old
    <3>2. \A i \in 1 .. InlineCapacity : m.vectors[v].inline[i] = Raw
      BY <3>1, VectorConstants, EmptySeq DEF Hold
    <3>. QED BY <1>2, <3>2 DEF Cells!NoElements
  <2>. QED BY <1>1, <2>1 DEF old
<1>8. Hold(Cells!CellsOf(m2, v), c, <<>>)
  <2>1. Cells!CellsOf(m2, v) = [i \in 1 .. c |-> Raw]
    <3>1. CASE d = 0
      BY <1>3, <1>4, <1>5, <1>7, <3>1 DEF Cells!CellsOf, Cells!Inline, Cells!NoElements
    <3>2. CASE d # 0
      <4>1. d \in DOMAIN m.heap /\ d # old
        BY <1>1, <3>2 DEF old
      <4>. QED BY <1>3, <1>4, <1>5, <1>6, <3>2, <4>1 DEF Cells!CellsOf, Cells!Inline
    <3>. QED BY <3>1, <3>2
  <2>. QED BY <2>1, EmptySeq DEF Hold, VectorCell
<1>9. ASSUME NEW w \in Vectors, w # v
      PROVE  Cells!CellsOf(m2, w) = Cells!CellsOf(m, w) /\ m2.vectors[w] = m.vectors[w]
  <2>1. m.vectors[w].data # 0 => m.vectors[w].data \in DOMAIN m.heap /\ m.vectors[w].data # old
    BY <1>1, <1>9 DEF old
  <2>. QED BY <1>5, <1>6, <1>9, <2>1 DEF Cells!CellsOf, Cells!Inline
<1>10. ASSUME NEW w \in Vectors
       PROVE  /\ Hold(Cells!CellsOf(m2, w), m2.vectors[w].capacity, x[w])
              /\ m2.vectors[w].data = 0 => m2.vectors[w].capacity = InlineCapacity
              /\ m2.vectors[w].data # 0 => m2.vectors[w].inline = Cells!NoElements
  <2>1. CASE w = v
    BY <1>4, <1>5, <1>7, <1>8, <2>1
  <2>2. CASE w # v
    BY <1>1, <1>9, <2>2
  <2>. QED BY <2>1, <2>2
<1>11. DOMAIN m2.heap = ({m2.vectors[w].data : w \in Vectors} \ {0}) \union (spare \ {d})
  <2>1. ASSUME NEW b \in DOMAIN m2.heap PROVE b \in ({m2.vectors[w].data : w \in Vectors} \ {0}) \union (spare \ {d})
    <3>1. b \in DOMAIN m.heap /\ b # old /\ b # 0
      BY <1>1, <1>6
    <3>2. CASE b = d
      BY <1>4, <1>5, <3>1, <3>2
    <3>3. CASE b # d /\ b \notin spare
      <4>1. PICK w \in Vectors : b = m.vectors[w].data
        BY <1>1, <3>1, <3>3
      <4>2. m2.vectors[w].data = b
        BY <1>5, <3>1, <4>1 DEF old
      <4>. QED BY <3>1, <4>2
    <3>. QED BY <3>2, <3>3
  <2>2. ASSUME NEW w \in Vectors, m2.vectors[w].data # 0 PROVE m2.vectors[w].data \in DOMAIN m2.heap
    <3>1. CASE w = v
      BY <1>1, <1>4, <1>5, <1>6, <2>2, <3>1 DEF old
    <3>2. CASE w # v
      BY <1>1, <1>5, <1>6, <2>2, <3>2 DEF old
    <3>. QED BY <3>1, <3>2
  <2>3. ASSUME NEW b \in spare PROVE b \in DOMAIN m2.heap
    BY <1>1, <1>6 DEF old
  <2>. QED BY <2>1, <2>2, <2>3
<1>12. ASSUME NEW w \in Vectors, NEW u \in Vectors, w # u, m2.vectors[w].data # 0
       PROVE  m2.vectors[w].data # m2.vectors[u].data
  <2>1. CASE w = v
    BY <1>1, <1>4, <1>5, <1>12, <2>1
  <2>2. CASE u = v
    BY <1>1, <1>4, <1>5, <1>12, <2>2
  <2>3. CASE w # v /\ u # v
    BY <1>1, <1>5, <1>12, <2>3
  <2>. QED BY <2>1, <2>2, <2>3
<1>13. ASSUME NEW b \in spare \ {d} PROVE b \in Nat \ {0} /\ \A w \in Vectors : m2.vectors[w].data # b
  BY <1>1, <1>4, <1>5
<1>. QED BY <1>1, <1>3, <1>5, <1>10, <1>11, <1>12, <1>13 DEF Fine

\* Only the size of a vector is written.
Sized(m, v, n, m2) ==
  m2 \in [vectors : {[m.vectors EXCEPT ![v].size = n]}, heap : {m.heap}, spoiled : {FALSE}]
LEMMA SizeWritten ==
  ASSUME NEW m, NEW x, NEW spare, Fine(m, x, spare), NEW v \in Vectors, NEW n \in Nat, NEW m2, Sized(m, v, n, m2)
  PROVE  /\ Fine(m2, x, spare) /\ m2.vectors[v].size = n /\ m2.vectors[v].capacity = m.vectors[v].capacity
         /\ m2.vectors[v].data = m.vectors[v].data
         /\ \A w \in Vectors : w # v => m2.vectors[w] = m.vectors[w]
<1>. DEFINE vec == [m.vectors[v] EXCEPT !.size = n]
<1>1. /\ m.vectors \in [Vectors -> VectorRecords] /\ x \in [Vectors -> Seq(Elements)]
      /\ \A w \in Vectors :
           /\ Hold(Cells!CellsOf(m, w), m.vectors[w].capacity, x[w])
           /\ m.vectors[w].data = 0 => m.vectors[w].capacity = InlineCapacity
           /\ m.vectors[w].data # 0 => m.vectors[w].inline = Cells!NoElements
      /\ DOMAIN m.heap = ({m.vectors[w].data : w \in Vectors} \ {0}) \union spare
      /\ \A w, u \in Vectors : w # u /\ m.vectors[w].data # 0 => m.vectors[w].data # m.vectors[u].data
      /\ \A b \in spare : b \in Nat \ {0} /\ \A w \in Vectors : m.vectors[w].data # b
  BY DEF Fine
<1>2. /\ m2.vectors = [m.vectors EXCEPT ![v] = vec] /\ m2.heap = m.heap
      /\ m2 \in [vectors : {m2.vectors}, heap : {m2.heap}, spoiled : {FALSE}]
  BY <1>1 DEF Sized
<1>3. /\ vec \in VectorRecords /\ vec.data = m.vectors[v].data /\ vec.capacity = m.vectors[v].capacity /\ vec.size = n
      /\ vec.inline = m.vectors[v].inline
  BY <1>1 DEF VectorRecords
<1>. HIDE DEF vec
<1>4. /\ m2.vectors \in [Vectors -> VectorRecords] /\ m2.vectors[v] = vec
      /\ \A w \in Vectors : w # v => m2.vectors[w] = m.vectors[w]
  BY <1>1, <1>2, <1>3
<1>5. \A w \in Vectors : /\ m2.vectors[w].data = m.vectors[w].data /\ m2.vectors[w].capacity = m.vectors[w].capacity
                         /\ m2.vectors[w].inline = m.vectors[w].inline
  BY <1>3, <1>4
<1>6. \A w \in Vectors : Cells!CellsOf(m2, w) = Cells!CellsOf(m, w)
  BY <1>2, <1>5 DEF Cells!CellsOf
<1>7. \A w \in Vectors :
        /\ Hold(Cells!CellsOf(m2, w), m2.vectors[w].capacity, x[w])
        /\ m2.vectors[w].data = 0 => m2.vectors[w].capacity = InlineCapacity
        /\ m2.vectors[w].data # 0 => m2.vectors[w].inline = Cells!NoElements
  BY <1>1, <1>5, <1>6
<1>8. {m2.vectors[w].data : w \in Vectors} = {m.vectors[w].data : w \in Vectors}
  BY <1>5
<1>9. DOMAIN m2.heap = ({m2.vectors[w].data : w \in Vectors} \ {0}) \union spare
  BY <1>1, <1>2, <1>8
<1>10. /\ \A w, u \in Vectors : w # u /\ m2.vectors[w].data # 0 => m2.vectors[w].data # m2.vectors[u].data
       /\ \A b \in spare : b \in Nat \ {0} /\ \A w \in Vectors : m2.vectors[w].data # b
  <2>1. ASSUME NEW w \in Vectors, NEW u \in Vectors, w # u, m2.vectors[w].data # 0
        PROVE  m2.vectors[w].data # m2.vectors[u].data
    BY <1>1, <1>5, <2>1
  <2>2. ASSUME NEW b \in spare PROVE b \in Nat \ {0} /\ \A w \in Vectors : m2.vectors[w].data # b
    BY <1>1, <1>5
  <2>. QED BY <2>1, <2>2
<1>11. Fine(m2, x, spare)
  BY <1>1, <1>2, <1>4, <1>7, <1>9, <1>10 DEF Fine
<1>. QED BY <1>3, <1>4, <1>11

-----------------------------------------------------------------------------
(* Small vectors: capacity *)

\* A vector that moves to a greater buffer holds what it held.
LEMMA Reallocates ==
  ASSUME NEW m, NEW x, Fine(m, x, {}), NEW v \in Vectors, m.vectors[v].size = Len(x[v]),
         NEW c \in Nat, Len(x[v]) <= c
  PROVE  /\ Fine(Cells!Reallocate(m, v, c), x, {}) /\ Cells!Reallocate(m, v, c).vectors[v].capacity = c
         /\ \A w \in Vectors : Cells!Reallocate(m, v, c).vectors[w].size = m.vectors[w].size
<1>. DEFINE b == Cells!Unused(m)
            n == m.vectors[v].size
            taken == [m EXCEPT !.heap = Cells!NewBuffer(m, c)]
            gone == Cells!Destroy(taken, v, 0, n)
            switched == [Cells!Free(gone, v) EXCEPT !.vectors[v].data = b, !.vectors[v].capacity = c]
            done == Cells!Construct(switched, v, 0, x[v])
            x0 == [x EXCEPT ![v] = SubSeq(x[v], 1, 0)]
<1>1. /\ x \in [Vectors -> Seq(Elements)] /\ x[v] \in Seq(Elements) /\ n \in Nat /\ n = Len(x[v])
      /\ m.vectors \in [Vectors -> VectorRecords]
  BY DEF Fine, VectorRecords
<1>2. Cells!Reallocate(m, v, c) = done
  BY HeldByVector DEF Cells!Reallocate
<1>3. SubSeq(x[v], 1, 0) = <<>>
  BY <1>1, SubSeqEmpty
<1>4. x0 \in [Vectors -> Seq(Elements)] /\ x0[v] = <<>> /\ x = [x0 EXCEPT ![v] = x[v]]
  BY <1>1, <1>3, EmptySeq
<1>5. b \in Nat \ {0} /\ Fine(taken, x, {b}) /\ taken.heap[b] = [i \in 1 .. c |-> Raw] /\ Stays(m, taken, {})
  BY BufferTaken
<1>. HIDE DEF taken, b
<1>6. Fine(gone, x0, {b}) /\ Stays(taken, gone, {b})
  <2>1. n = Len(x[v]) /\ 0 \in Nat /\ 0 <= n
    BY <1>1
  <2>. HIDE DEF n
  <2>. QED BY <1>5, <2>1, Destroys
<1>. HIDE DEF gone, x0
<1>7. gone.heap[b] = [i \in 1 .. c |-> Raw]
  BY <1>5, <1>6 DEF Stays
<1>8. \A w \in Vectors : gone.vectors[w].size = m.vectors[w].size
  BY <1>5, <1>6 DEF Stays
<1>9. /\ gone \in [vectors : {gone.vectors}, heap : {gone.heap}, spoiled : {FALSE}]
      /\ gone.vectors \in [Vectors -> VectorRecords]
  BY <1>6 DEF Fine
<1>10. /\ switched.vectors = [gone.vectors EXCEPT ![v] = [data |-> b, size |-> n, capacity |-> c, inline |-> gone.vectors[v].inline]]
       /\ switched.heap = Cells!Free(gone, v).heap
       /\ switched \in [vectors : {switched.vectors}, heap : {switched.heap}, spoiled : {FALSE}]
  <2>1. /\ Cells!Free(gone, v) \in [vectors : {gone.vectors}, heap : {Cells!Free(gone, v).heap}, spoiled : {FALSE}]
    BY <1>9 DEF Cells!Free
  <2>. DEFINE free == Cells!Free(gone, v)
              vec == [gone.vectors[v] EXCEPT !.data = b, !.capacity = c]
  <2>2. vec = [data |-> b, size |-> n, capacity |-> c, inline |-> gone.vectors[v].inline]
    <3>. DEFINE g == gone.vectors[v]
    <3>1. g \in VectorRecords /\ g.size = n
      BY <1>8, <1>9
    <3>. HIDE DEF g, n
    <3>2. [g EXCEPT !.data = b, !.capacity = c] = [data |-> b, size |-> n, capacity |-> c, inline |-> g.inline]
      <4>. DEFINE r == [g EXCEPT !.data = b, !.capacity = c]
      <4>1. r \in [data : {b}, size : {n}, capacity : {c}, inline : {g.inline}]
        BY <3>1 DEF VectorRecords
      <4>. HIDE DEF r
      <4>2. r = [data |-> b, size |-> n, capacity |-> c, inline |-> g.inline]
        BY <4>1
      <4>. QED BY <4>2 DEF r
    <3>. QED BY <3>2 DEF g
  <2>. HIDE DEF free
  <2>3. free.vectors = gone.vectors /\ free.spoiled = FALSE /\ free = [vectors |-> gone.vectors, heap |-> free.heap, spoiled |-> FALSE]
    BY <2>1 DEF free
  <2>4. switched = [free EXCEPT !.vectors = [gone.vectors EXCEPT ![v] = vec]]
    BY <1>9, <2>3 DEF free
  <2>. HIDE DEF vec, switched
  <2>5. switched = [vectors |-> [gone.vectors EXCEPT ![v] = vec], heap |-> free.heap, spoiled |-> FALSE]
    BY <2>3, <2>4
  <2>. QED BY <2>2, <2>5 DEF free
<1>. HIDE DEF switched
<1>11. Rebound(gone, v, b, c, n, switched)
  BY <1>10 DEF Rebound
<1>12. Fine(switched, x0, {b} \ {b})
  BY <1>1, <1>4, <1>5, <1>6, <1>7, <1>11, CellsRebound
<1>13. Fine(switched, x0, {})
  <2>1. {b} \ {b} = {}
    OBVIOUS
  <2>. QED BY <1>12, <2>1
<1>14. switched.vectors[v].capacity = c /\ \A w \in Vectors : switched.vectors[w].size = m.vectors[w].size
  BY <1>8, <1>9, <1>10
<1>15. /\ Fine(done, [x0 EXCEPT ![v] = x0[v] \o x[v]], {}) /\ Stays(switched, done, {})
  <2>1. 0 = Len(x0[v]) /\ 0 + Len(x[v]) <= switched.vectors[v].capacity
    BY <1>1, <1>4, <1>14, EmptySeq
  <2>. QED BY <1>1, <1>13, <2>1, Constructs
<1>16. [x0 EXCEPT ![v] = x0[v] \o x[v]] = x
  BY <1>1, <1>4, ConcatEmptySeq
<1>. HIDE DEF done
<1>. QED BY <1>2, <1>14, <1>15, <1>16 DEF Stays

\* A vector that has reserved room holds what it held.
LEMMA Reserves ==
  ASSUME NEW m, NEW x, Fine(m, x, {}), NEW v \in Vectors, m.vectors[v].size = Len(x[v]), NEW n \in Nat
  PROVE  /\ Fine(Cells!Reserve(m, v, n), x, {}) /\ n <= Cells!Reserve(m, v, n).vectors[v].capacity
         /\ \A w \in Vectors : Cells!Reserve(m, v, n).vectors[w].size = m.vectors[w].size
<1>1. /\ x[v] \in Seq(Elements) /\ m.vectors[v].capacity \in Nat /\ Len(x[v]) <= m.vectors[v].capacity
  BY DEF Fine, VectorRecords, Hold
<1>2. CASE n > m.vectors[v].capacity
  <2>1. Len(x[v]) \in Nat /\ Len(x[v]) <= n
    BY <1>1, <1>2, LenProperties
  <2>2. Cells!Reserve(m, v, n) = Cells!Reallocate(m, v, n)
    BY <1>2 DEF Cells!Reserve
  <2>. QED BY <2>1, <2>2, Reallocates
<1>3. CASE ~(n > m.vectors[v].capacity)
  BY <1>1, <1>3 DEF Cells!Reserve
<1>. QED BY <1>2, <1>3

-----------------------------------------------------------------------------
(* Small vectors: taking over *)

\* A vector that is destructed has no elements, and only the room in itself.
LEMMA Destructs ==
  ASSUME VectorsInv, NEW v \in Vectors
  PROVE  /\ Fine(Cells!Destructed(v), [expected EXCEPT ![v] = <<>>], {})
         /\ Cells!Destructed(v).vectors[v].data = 0
         /\ \A w \in Vectors : w # v => Cells!Destructed(v).vectors[w].size = vectors[w].size
<1>. DEFINE m == Cells!Memory
            n == vectors[v].size
            gone == Cells!Destroy(m, v, 0, n)
            x0 == [expected EXCEPT ![v] = <<>>]
            free == Cells!Free(gone, v)
            vec == [gone.vectors[v] EXCEPT !.data = 0, !.size = 0, !.capacity = InlineCapacity]
            last == [free EXCEPT !.vectors[v].data = 0, !.vectors[v].size = 0, !.vectors[v].capacity = InlineCapacity]
<1>1. Fine(m, expected, {}) /\ n = Len(expected[v]) /\ m.vectors = vectors
  BY DEF VectorsInv, Cells!Memory
<1>2. /\ expected \in [Vectors -> Seq(Elements)] /\ expected[v] \in Seq(Elements) /\ 0 \in Nat /\ 0 <= n
      /\ InlineCapacity \in Nat
  <2>1. expected \in [Vectors -> Seq(Elements)] /\ expected[v] \in Seq(Elements)
    BY <1>1 DEF Fine
  <2>. QED BY <1>1, <2>1, LenProperties, VectorConstants
<1>3. SubSeq(expected[v], 1, 0) = <<>>
  BY <1>2, SubSeqEmpty
<1>4. Cells!Destructed(v) = last
  BY DEF Cells!Destructed, Cells!Inline
<1>. HIDE DEF n, m
<1>5. Fine(gone, [expected EXCEPT ![v] = SubSeq(expected[v], 1, 0)], {}) /\ Stays(m, gone, {})
  BY <1>1, <1>2, Destroys
<1>6. Fine(gone, x0, {})
  BY <1>3, <1>5
<1>. HIDE DEF gone
<1>7. /\ gone \in [vectors : {gone.vectors}, heap : {gone.heap}, spoiled : {FALSE}]
      /\ gone.vectors \in [Vectors -> VectorRecords] /\ gone.vectors[v] \in VectorRecords
  BY <1>6 DEF Fine
<1>8. vec = [data |-> 0, size |-> 0, capacity |-> InlineCapacity, inline |-> gone.vectors[v].inline]
  <2>. DEFINE g == gone.vectors[v]
              r == [g EXCEPT !.data = 0, !.size = 0, !.capacity = InlineCapacity]
  <2>1. r \in [data : {0}, size : {0}, capacity : {InlineCapacity}, inline : {g.inline}]
    <3>. HIDE DEF g
    <3>1. g \in VectorRecords
      BY <1>7 DEF g
    <3>. QED BY <3>1 DEF VectorRecords
  <2>. HIDE DEF r
  <2>2. r = [data |-> 0, size |-> 0, capacity |-> InlineCapacity, inline |-> g.inline]
    BY <2>1
  <2>. QED BY <2>2 DEF r
<1>9. free = [vectors |-> gone.vectors, heap |-> free.heap, spoiled |-> FALSE]
  <2>1. free \in [vectors : {gone.vectors}, heap : {free.heap}, spoiled : {FALSE}]
    BY <1>7 DEF Cells!Free
  <2>. HIDE DEF free
  <2>. QED BY <2>1
<1>. HIDE DEF free
<1>10. free.vectors = gone.vectors /\ free.spoiled = FALSE
  BY <1>9
<1>11. last = [vectors |-> [gone.vectors EXCEPT ![v] = vec], heap |-> free.heap, spoiled |-> FALSE]
  <2>1. last = [free EXCEPT !.vectors = [gone.vectors EXCEPT ![v] = vec]]
    BY <1>7, <1>9, <1>10
  <2>. HIDE DEF vec, last
  <2>. QED BY <1>9, <1>10, <2>1
<1>. HIDE DEF vec, last
<1>12. Rebound(gone, v, 0, InlineCapacity, 0, last)
  BY <1>8, <1>11 DEF Rebound, free
<1>13. Fine(last, x0, {} \ {0})
  <2>1. x0[v] = <<>>
    BY <1>2
  <2>. HIDE DEF x0
  <2>. QED BY <1>2, <1>6, <1>12, <2>1, CellsRebound
<1>14. {} \ {0} = {}
  OBVIOUS
<1>15. last.vectors[v].data = 0
  BY <1>7, <1>8, <1>11
<1>16. \A w \in Vectors : w # v => last.vectors[w].size = vectors[w].size
  BY <1>1, <1>5, <1>7, <1>11 DEF Stays
<1>. HIDE DEF x0
<1>. QED BY <1>4, <1>13, <1>14, <1>15, <1>16 DEF x0

\* A buffer changes hands.
Handed(m, v, w, m2) ==
  /\ m2.heap = m.heap /\ m2 \in [vectors : {m2.vectors}, heap : {m2.heap}, spoiled : {FALSE}]
  /\ m2.vectors = [m.vectors EXCEPT
       ![v] = [m.vectors[v] EXCEPT !.data = m.vectors[w].data, !.capacity = m.vectors[w].capacity],
       ![w] = [m.vectors[w] EXCEPT !.data = 0, !.size = 0, !.capacity = InlineCapacity]]
LEMMA BufferHanded ==
  ASSUME NEW m, NEW x, Fine(m, x, {}), NEW v \in Vectors, NEW w \in Vectors, v # w, x[v] = <<>>,
         m.vectors[v].data = 0, m.vectors[w].data # 0, NEW m2, Handed(m, v, w, m2)
  PROVE  Fine(m2, [x EXCEPT ![v] = x[w], ![w] = <<>>], {})
<1>. DEFINE x2 == [x EXCEPT ![v] = x[w], ![w] = <<>>]
            d == m.vectors[w].data
            nv == [m.vectors[v] EXCEPT !.data = d, !.capacity = m.vectors[w].capacity]
            nw == [m.vectors[w] EXCEPT !.data = 0, !.size = 0, !.capacity = InlineCapacity]
<1>1. /\ m.vectors \in [Vectors -> VectorRecords] /\ x \in [Vectors -> Seq(Elements)]
      /\ \A u \in Vectors :
           /\ Hold(Cells!CellsOf(m, u), m.vectors[u].capacity, x[u])
           /\ m.vectors[u].data = 0 => m.vectors[u].capacity = InlineCapacity
           /\ m.vectors[u].data # 0 => m.vectors[u].inline = Cells!NoElements
      /\ DOMAIN m.heap = {m.vectors[u].data : u \in Vectors} \ {0}
      /\ \A t, u \in Vectors : t # u /\ m.vectors[t].data # 0 => m.vectors[t].data # m.vectors[u].data
  BY DEF Fine
<1>2. m.vectors[v] \in VectorRecords /\ m.vectors[w] \in VectorRecords
  BY <1>1
<1>3. /\ nv \in VectorRecords /\ nv.data = d /\ nv.capacity = m.vectors[w].capacity /\ nv.inline = m.vectors[v].inline
  BY <1>2 DEF VectorRecords
<1>4. /\ nw \in VectorRecords /\ nw.data = 0 /\ nw.capacity = InlineCapacity /\ nw.inline = m.vectors[w].inline
  BY <1>2, VectorConstants DEF VectorRecords
<1>5. /\ m2.heap = m.heap /\ m2 \in [vectors : {m2.vectors}, heap : {m2.heap}, spoiled : {FALSE}]
      /\ m2.vectors = [m.vectors EXCEPT ![v] = nv, ![w] = nw]
  BY DEF Handed
<1>. HIDE DEF nv, nw
<1>6. /\ m2.vectors \in [Vectors -> VectorRecords] /\ m2.vectors[v] = nv /\ m2.vectors[w] = nw
      /\ \A u \in Vectors : u # v /\ u # w => m2.vectors[u] = m.vectors[u]
  BY <1>1, <1>3, <1>4, <1>5
<1>7. /\ x2 \in [Vectors -> Seq(Elements)] /\ x2[v] = x[w] /\ x2[w] = <<>>
      /\ \A u \in Vectors : u # v /\ u # w => x2[u] = x[u]
  BY <1>1, EmptySeq
<1>. HIDE DEF x2
<1>8. m.vectors[v].inline = Cells!NoElements
  <2>1. Hold(m.vectors[v].inline, InlineCapacity, <<>>)
    BY <1>1 DEF Cells!CellsOf, Cells!Inline
  <2>2. \A i \in 1 .. InlineCapacity : m.vectors[v].inline[i] = Raw
    BY <2>1, VectorConstants, EmptySeq DEF Hold
  <2>3. m.vectors[v].inline \in [1 .. InlineCapacity -> VectorCell]
    BY <2>1 DEF Hold
  <2>. QED BY <2>2, <2>3 DEF Cells!NoElements
<1>9. Cells!CellsOf(m2, v) = Cells!CellsOf(m, w)
  BY <1>3, <1>5, <1>6 DEF Cells!CellsOf, Cells!Inline
<1>10. Hold(Cells!CellsOf(m2, w), InlineCapacity, <<>>)
  <2>1. Cells!CellsOf(m2, w) = Cells!NoElements
    BY <1>1, <1>4, <1>5, <1>6 DEF Cells!CellsOf, Cells!Inline
  <2>. QED BY <2>1, EmptySeq, VectorConstants DEF Hold, VectorCell, Cells!NoElements
<1>11. \A u \in Vectors : u # v /\ u # w => Cells!CellsOf(m2, u) = Cells!CellsOf(m, u)
  BY <1>5, <1>6 DEF Cells!CellsOf
<1>12. ASSUME NEW u \in Vectors
       PROVE  /\ Hold(Cells!CellsOf(m2, u), m2.vectors[u].capacity, x2[u])
              /\ m2.vectors[u].data = 0 => m2.vectors[u].capacity = InlineCapacity
              /\ m2.vectors[u].data # 0 => m2.vectors[u].inline = Cells!NoElements
  <2>1. CASE u = v
    BY <1>1, <1>3, <1>6, <1>7, <1>8, <1>9, <2>1
  <2>2. CASE u = w
    BY <1>4, <1>6, <1>7, <1>10, <2>2
  <2>3. CASE u # v /\ u # w
    BY <1>1, <1>6, <1>7, <1>11, <2>3
  <2>. QED BY <2>1, <2>2, <2>3
<1>13. DOMAIN m2.heap = ({m2.vectors[u].data : u \in Vectors} \ {0}) \union {}
  <2>1. ASSUME NEW u \in Vectors, m.vectors[u].data # 0 PROVE \E t \in Vectors : m2.vectors[t].data = m.vectors[u].data
    <3>1. CASE u = w
      BY <1>3, <1>6, <3>1
    <3>2. CASE u # w
      BY <1>6, <2>1, <3>2
    <3>. QED BY <3>1, <3>2
  <2>2. ASSUME NEW u \in Vectors, m2.vectors[u].data # 0 PROVE \E t \in Vectors : m.vectors[t].data = m2.vectors[u].data
    <3>1. CASE u = v
      BY <1>3, <1>6, <3>1
    <3>2. CASE u # v
      BY <1>4, <1>6, <2>2, <3>2
    <3>. QED BY <3>1, <3>2
  <2>3. {m2.vectors[u].data : u \in Vectors} \ {0} = {m.vectors[u].data : u \in Vectors} \ {0}
    BY <2>1, <2>2
  <2>. QED BY <1>1, <1>5, <2>3
<1>14. ASSUME NEW t \in Vectors, NEW u \in Vectors, t # u, m2.vectors[t].data # 0
       PROVE  m2.vectors[t].data # m2.vectors[u].data
  <2>1. CASE u = w
    BY <1>4, <1>6, <1>14, <2>1
  <2>2. CASE u = v
    <3>1. t # w
      BY <1>4, <1>6, <1>14
    <3>. QED BY <1>1, <1>3, <1>6, <1>14, <2>2, <3>1
  <2>3. CASE u # w /\ u # v /\ t = v
    BY <1>1, <1>3, <1>6, <1>14, <2>3
  <2>4. CASE u # w /\ u # v /\ t # v
    <3>1. t # w
      BY <1>4, <1>6, <1>14
    <3>. QED BY <1>1, <1>6, <1>14, <2>4, <3>1
  <2>. QED BY <2>1, <2>2, <2>3, <2>4
<1>15. Fine(m2, x2, {})
  BY <1>5, <1>6, <1>7, <1>12, <1>13, <1>14 DEF Fine
<1>. QED BY <1>15 DEF x2

\* An empty vector takes over what another holds.
LEMMA Adopts ==
  ASSUME NEW m, NEW x, Fine(m, x, {}), NEW v \in Vectors, NEW w \in Vectors, v # w, x[v] = <<>>,
         m.vectors[v].data = 0, m.vectors[w].size = Len(x[w])
  PROVE  /\ Fine(Cells!Adopt(m, v, w), [x EXCEPT ![v] = x[w], ![w] = <<>>], {})
         /\ Cells!Adopt(m, v, w).vectors[w].size = 0
         /\ \A u \in Vectors : u # v /\ u # w => Cells!Adopt(m, v, w).vectors[u].size = m.vectors[u].size
<1>1. /\ m \in [vectors : {m.vectors}, heap : {m.heap}, spoiled : {FALSE}] /\ m.vectors \in [Vectors -> VectorRecords]
      /\ x \in [Vectors -> Seq(Elements)] /\ x[w] \in Seq(Elements) /\ x[v] \in Seq(Elements)
      /\ m.vectors[v] \in VectorRecords /\ m.vectors[w] \in VectorRecords
      /\ m.vectors[v].capacity = InlineCapacity
  BY DEF Fine
<1>2. CASE m.vectors[w].data # 0
  <2>. DEFINE m2 == Cells!Adopt(m, v, w)
              vs == [m.vectors EXCEPT
                       ![v] = [m.vectors[v] EXCEPT !.data = m.vectors[w].data, !.capacity = m.vectors[w].capacity],
                       ![w] = [m.vectors[w] EXCEPT !.data = 0, !.size = 0, !.capacity = InlineCapacity]]
  <2>1. m2 = [m EXCEPT !.vectors = vs]
    BY <1>1, <1>2 DEF Cells!Adopt, Cells!LeftOf, Cells!Inline
  <2>. HIDE DEF m2
  <2>2. m2.vectors = vs /\ m2.heap = m.heap /\ m2 \in [vectors : {m2.vectors}, heap : {m2.heap}, spoiled : {FALSE}]
    <3>. HIDE DEF vs
    <3>. QED BY <1>1, <2>1
  <2>3. Handed(m, v, w, m2)
    BY <2>2 DEF Handed
  <2>4. Fine(m2, [x EXCEPT ![v] = x[w], ![w] = <<>>], {})
    BY <1>2, <2>3, BufferHanded
  <2>5. m2.vectors[w].size = 0 /\ \A u \in Vectors : u # v /\ u # w => m2.vectors[u].size = m.vectors[u].size
    BY <1>1, <2>2 DEF VectorRecords
  <2>. QED BY <2>4, <2>5 DEF m2
<1>3. CASE m.vectors[w].data = 0
  <2>. DEFINE xs == x[w]
              m1 == Cells!Construct(m, v, 0, xs)
              m2 == Cells!Destroy(m1, w, 0, Len(xs))
              m3 == [m2 EXCEPT !.vectors[w].size = 0]
              x1 == [x EXCEPT ![v] = x[v] \o xs]
              x2 == [x1 EXCEPT ![w] = SubSeq(x1[w], 1, 0)]
  <2>1. Cells!Adopt(m, v, w) = m3
    BY <1>3, HeldByVector DEF Cells!Adopt, Cells!Inline
  <2>2. 0 = Len(x[v]) /\ Len(xs) \in Nat /\ 0 + Len(xs) <= m.vectors[v].capacity
    <3>1. Hold(Cells!CellsOf(m, w), m.vectors[w].capacity, x[w]) /\ m.vectors[w].capacity = InlineCapacity
      BY <1>3 DEF Fine
    <3>2. Len(xs) <= InlineCapacity
      BY <3>1 DEF Hold
    <3>. QED BY <1>1, <3>2, EmptySeq, LenProperties
  <2>3. xs \in Seq(Elements)
    BY <1>1
  <2>. HIDE DEF xs
  <2>4. Fine(m1, x1, {}) /\ Stays(m, m1, {})
    BY <2>2, <2>3, Constructs
  <2>5. x1[w] = xs /\ x1[v] = xs /\ x1 \in [Vectors -> Seq(Elements)]
    BY <1>1, <2>3, ConcatEmptySeq DEF xs
  <2>6. SubSeq(x1[w], 1, 0) = <<>>
    BY <2>3, <2>5, SubSeqEmpty
  <2>. HIDE DEF x1, m1
  <2>7. Fine(m2, x2, {}) /\ Stays(m1, m2, {})
    <3>1. Len(xs) = Len(x1[w]) /\ 0 \in Nat /\ 0 <= Len(xs)
      BY <2>2, <2>5
    <3>. QED BY <2>4, <3>1, Destroys
  <2>8. x2 = [x EXCEPT ![v] = x[w], ![w] = <<>>]
    BY <1>1, <2>3, <2>5, <2>6, ConcatEmptySeq DEF x1, xs
  <2>. HIDE DEF x2, m2
  <2>9. Sized(m2, w, 0, m3)
    <3>1. m2 \in [vectors : {m2.vectors}, heap : {m2.heap}, spoiled : {FALSE}]
      BY <2>7 DEF Fine
    <3>. QED BY <3>1 DEF Sized
  <2>. HIDE DEF m3
  <2>10. Fine(m3, x2, {}) /\ m3.vectors[w].size = 0 /\ \A u \in Vectors : u # w => m3.vectors[u] = m2.vectors[u]
    BY <2>7, <2>9, SizeWritten
  <2>11. \A u \in Vectors : u # w => m3.vectors[u].size = m.vectors[u].size
    BY <2>4, <2>7, <2>10 DEF Stays
  <2>. QED BY <2>1, <2>8, <2>10, <2>11
<1>. QED BY <1>2, <1>3

-----------------------------------------------------------------------------
(* Small vectors: steps *)

\* An operation that leaves the memory fine, and a vector with its elements,
\* keeps the invariant.
Ready(m, x, v, elements) ==
  /\ Fine(m, x, {}) /\ x = [expected EXCEPT ![v] = elements]
  /\ \A w \in Vectors : w # v => m.vectors[w].size = vectors[w].size
LEMMA DoneKeeps ==
  ASSUME VectorsInv, NEW v \in Vectors, NEW elements \in Seq(Elements), NEW m, NEW x, Ready(m, x, v, elements),
         Cells!Done(m, v, elements)
  PROVE  VectorsInv'
<1>1. /\ vectors' = [m.vectors EXCEPT ![v].size = Len(elements)] /\ heap' = m.heap /\ spoiled' = m.spoiled
      /\ expected' = [expected EXCEPT ![v] = elements] /\ calls' = calls + 1
  BY DEF Cells!Done
<1>2. Fine(m, x, {}) /\ x = expected'
  BY <1>1 DEF Ready
<1>3. m.spoiled = FALSE /\ expected \in [Vectors -> Seq(Elements)]
  BY <1>2 DEF Fine, VectorsInv
<1>4. Sized(m, v, Len(elements), Cells!Memory')
  BY <1>1, <1>3 DEF Sized, Cells!Memory
<1>5. Len(elements) \in Nat
  BY LenProperties
<1>. DEFINE m2 == Cells!Memory'
<1>6. m2.vectors = vectors'
  BY DEF Cells!Memory
<1>7. /\ Fine(m2, x, {}) /\ m2.vectors[v].size = Len(elements)
      /\ \A w \in Vectors : w # v => m2.vectors[w] = m.vectors[w]
  <2>. HIDE DEF m2
  <2>. QED BY <1>2, <1>4, <1>5, SizeWritten DEF m2
<1>8. ASSUME NEW w \in Vectors PROVE vectors'[w].size = Len(expected'[w])
  <2>. HIDE DEF m2
  <2>1. CASE w = v
    BY <1>1, <1>3, <1>6, <1>7, <2>1
  <2>2. CASE w # v
    BY <1>1, <1>3, <1>6, <1>7, <2>2 DEF Ready, VectorsInv
  <2>. QED BY <2>1, <2>2
<1>9. calls' \in Nat
  BY <1>1 DEF VectorsInv
<1>10. Fine(Cells!Memory', expected', {})
  BY <1>2, <1>7
<1>. QED BY <1>8, <1>9, <1>10 DEF VectorsInv

\* What is known of the memory before a call.
LEMMA VectorsBefore ==
  ASSUME VectorsInv, NEW v \in Vectors
  PROVE  /\ Fine(Cells!Memory, expected, {}) /\ Cells!Memory.vectors = vectors
         /\ expected \in [Vectors -> Seq(Elements)] /\ expected[v] \in Seq(Elements)
         /\ vectors[v].size = Len(expected[v]) /\ vectors[v].size \in Nat
         /\ vectors[v].capacity \in Nat /\ vectors[v].size <= vectors[v].capacity
<1>1. Fine(Cells!Memory, expected, {}) /\ Cells!Memory.vectors = vectors /\ vectors[v].size = Len(expected[v])
  BY DEF VectorsInv, Cells!Memory
<1>2. expected \in [Vectors -> Seq(Elements)] /\ vectors \in [Vectors -> VectorRecords]
  BY <1>1 DEF Fine
<1>3. Len(expected[v]) <= vectors[v].capacity
  BY <1>1 DEF Fine, Hold
<1>. QED BY <1>1, <1>2, <1>3 DEF VectorRecords

\* Elements that are added go behind the others, after there is room for them.
LEMMA AddedKeeps ==
  ASSUME VectorsInv, NEW v \in Vectors, NEW more \in Seq(Elements), NEW m, Fine(m, expected, {}),
         \A w \in Vectors : m.vectors[w].size = vectors[w].size,
         vectors[v].size + Len(more) <= m.vectors[v].capacity,
         Cells!Done(Cells!Construct(m, v, vectors[v].size, more), v, expected[v] \o more)
  PROVE  VectorsInv'
<1>. DEFINE from == vectors[v].size
            m2 == Cells!Construct(m, v, from, more)
            xs == expected[v] \o more
            x2 == [expected EXCEPT ![v] = xs]
<1>1. from = Len(expected[v]) /\ expected[v] \in Seq(Elements)
  BY VectorsBefore
<1>2. xs \in Seq(Elements)
  BY <1>1, ConcatProperties
<1>3. from + Len(more) <= m.vectors[v].capacity /\ Cells!Done(m2, v, xs)
  OBVIOUS
<1>. HIDE DEF from
<1>4. Fine(m2, x2, {}) /\ Stays(m, m2, {})
  BY <1>1, <1>3, Constructs
<1>5. \A w \in Vectors : m2.vectors[w].size = vectors[w].size
  BY <1>4 DEF Stays
<1>. HIDE DEF m2, xs
<1>6. Ready(m2, x2, v, xs)
  BY <1>4, <1>5 DEF Ready
<1>. QED BY <1>2, <1>3, <1>6, DoneKeeps

\* The last elements go.
LEMMA RemovedKeeps ==
  ASSUME VectorsInv, NEW v \in Vectors, NEW n \in Nat, n <= vectors[v].size,
         Cells!Done(Cells!Destroy(Cells!Memory, v, n, vectors[v].size), v, SubSeq(expected[v], 1, n))
  PROVE  VectorsInv'
<1>. DEFINE to == vectors[v].size
            m == Cells!Memory
            m2 == Cells!Destroy(m, v, n, to)
            xs == SubSeq(expected[v], 1, n)
            x2 == [expected EXCEPT ![v] = xs]
<1>1. to = Len(expected[v]) /\ expected[v] \in Seq(Elements) /\ Fine(m, expected, {}) /\ m.vectors = vectors /\ n <= to
  BY VectorsBefore
<1>2. xs \in Seq(Elements)
  BY <1>1, SubSeqProperties
<1>3. Cells!Done(m2, v, xs)
  OBVIOUS
<1>. HIDE DEF to, m
<1>4. Fine(m2, x2, {}) /\ Stays(m, m2, {})
  BY <1>1, Destroys
<1>5. \A w \in Vectors : m2.vectors[w].size = vectors[w].size
  BY <1>1, <1>4 DEF Stays
<1>. HIDE DEF m2, xs
<1>6. Ready(m2, x2, v, xs)
  BY <1>4, <1>5 DEF Ready
<1>. QED BY <1>2, <1>3, <1>6, DoneKeeps

\* emplace_back() (SmallVector.h, lines 70-79)
LEMMA EmplaceBackSteps ==
  ASSUME VectorsInv, NEW v \in Vectors, NEW y \in Elements, Cells!EmplaceBack(v, y) PROVE VectorsInv'
<1>. DEFINE full == Cells!Full(vectors[v])
            c == Cells!NextCapacity(vectors[v].capacity, vectors[v].size + 1)
            m == IF full THEN Cells!Reallocate(Cells!Memory, v, c) ELSE Cells!Memory
<1>1. Cells!Done(Cells!Construct(m, v, vectors[v].size, <<y>>), v, Append(expected[v], y))
  BY DEF Cells!EmplaceBack
<1>2. /\ Fine(Cells!Memory, expected, {}) /\ Cells!Memory.vectors = vectors /\ expected[v] \in Seq(Elements)
      /\ vectors[v].size = Len(expected[v]) /\ vectors[v].size \in Nat
      /\ vectors[v].capacity \in Nat /\ vectors[v].size <= vectors[v].capacity
  BY VectorsBefore
<1>3. <<y>> \in Seq(Elements) /\ Len(<<y>>) = 1 /\ Append(expected[v], y) = expected[v] \o <<y>>
  BY <1>2, AppendIsConcat
<1>4. /\ Fine(m, expected, {}) /\ vectors[v].size + 1 <= m.vectors[v].capacity
      /\ \A w \in Vectors : m.vectors[w].size = vectors[w].size
  <2>1. CASE full
    <3>1. c \in Nat /\ vectors[v].size + 1 <= c
      BY <1>2 DEF Cells!NextCapacity
    <3>. DEFINE m0 == Cells!Memory
    <3>2. m = Cells!Reallocate(m0, v, c)
      BY <2>1
    <3>3. Fine(m0, expected, {}) /\ m0.vectors[v].size = Len(expected[v]) /\ Len(expected[v]) <= c /\ m0.vectors = vectors
      BY <1>2, <3>1
    <3>. HIDE DEF m0, m, c
    <3>4. /\ Fine(Cells!Reallocate(m0, v, c), expected, {}) /\ Cells!Reallocate(m0, v, c).vectors[v].capacity = c
          /\ \A w \in Vectors : Cells!Reallocate(m0, v, c).vectors[w].size = m0.vectors[w].size
      BY <3>1, <3>3, Reallocates
    <3>. QED BY <3>1, <3>2, <3>3, <3>4
  <2>2. CASE ~full
    BY <1>2, <2>2 DEF Cells!Full
  <2>. QED BY <2>1, <2>2
<1>. HIDE DEF m
<1>5. vectors[v].size + Len(<<y>>) <= m.vectors[v].capacity
  BY <1>3, <1>4
<1>6. Cells!Done(Cells!Construct(m, v, vectors[v].size, <<y>>), v, expected[v] \o <<y>>)
  BY <1>1, <1>3
<1>. QED BY <1>3, <1>4, <1>5, <1>6, AddedKeeps

\* pop_back()
LEMMA PopBackSteps == ASSUME VectorsInv, NEW v \in Vectors, Cells!PopBack(v) PROVE VectorsInv'
<1>. DEFINE n == vectors[v].size - 1
<1>1. vectors[v].size \in Nat /\ vectors[v].size = Len(expected[v]) /\ vectors[v].size > 0
  BY VectorsBefore DEF Cells!PopBack
<1>2. n \in Nat /\ n <= vectors[v].size
  BY <1>1
<1>3. Cells!Done(Cells!Destroy(Cells!Memory, v, n, vectors[v].size), v, SubSeq(expected[v], 1, n))
  BY DEF Cells!PopBack
<1>. HIDE DEF n
<1>. QED BY <1>2, <1>3, RemovedKeeps

\* resize() (SmallVector.h, lines 107-126)
LEMMA ResizeSteps ==
  ASSUME VectorsInv, NEW v \in Vectors, NEW n \in 0 .. MaxElements, Cells!Resize(v, n) PROVE VectorsInv'
<1>1. /\ Fine(Cells!Memory, expected, {}) /\ Cells!Memory.vectors = vectors
      /\ vectors[v].size = Len(expected[v]) /\ vectors[v].size \in Nat /\ n \in Nat
  BY VectorsBefore, VectorConstants
<1>2. CASE n > vectors[v].size
  <2>. DEFINE m0 == Cells!Memory
              m == Cells!Reserve(m0, v, n)
              more == [i \in 1 .. n - vectors[v].size |-> Default]
  <2>1. Cells!Done(Cells!Construct(m, v, vectors[v].size, more), v, expected[v] \o more)
    BY <1>2 DEF Cells!Resize
  <2>2. more \in Seq(Elements) /\ Len(more) = n - vectors[v].size
    BY <1>1, <1>2, VectorConstants
  <2>3. Fine(m0, expected, {}) /\ m0.vectors[v].size = Len(expected[v]) /\ m0.vectors = vectors
    BY <1>1
  <2>. HIDE DEF m0, more
  <2>4. /\ Fine(m, expected, {}) /\ n <= m.vectors[v].capacity
        /\ \A w \in Vectors : m.vectors[w].size = vectors[w].size
    BY <1>1, <2>3, Reserves
  <2>. HIDE DEF m
  <2>5. vectors[v].size + Len(more) <= m.vectors[v].capacity
    BY <1>1, <2>2, <2>4
  <2>. QED BY <2>1, <2>2, <2>4, <2>5, AddedKeeps
<1>3. CASE ~(n > vectors[v].size)
  <2>1. Cells!Done(Cells!Destroy(Cells!Memory, v, n, vectors[v].size), v, SubSeq(expected[v], 1, n))
    BY <1>3 DEF Cells!Resize
  <2>2. n <= vectors[v].size
    BY <1>1, <1>3
  <2>. QED BY <1>1, <2>1, <2>2, RemovedKeeps
<1>. QED BY <1>2, <1>3

\* clear()
LEMMA VectorClearSteps == ASSUME VectorsInv, NEW v \in Vectors, Cells!Clear(v) PROVE VectorsInv'
<1>1. expected[v] \in Seq(Elements) /\ vectors[v].size \in Nat
  BY VectorsBefore
<1>2. 0 \in Nat /\ 0 <= vectors[v].size /\ SubSeq(expected[v], 1, 0) = <<>>
  BY <1>1, SubSeqEmpty
<1>3. Cells!Done(Cells!Destroy(Cells!Memory, v, 0, vectors[v].size), v, SubSeq(expected[v], 1, 0))
  BY <1>2 DEF Cells!Clear
<1>. QED BY <1>2, <1>3, RemovedKeeps

\* assign() and the copy constructors (SmallVector.h, lines 186-214)
LEMMA AssignSteps ==
  ASSUME VectorsInv, NEW v \in Vectors, NEW w \in Vectors, Cells!Assign(v, w) PROVE VectorsInv'
<1>. DEFINE n == vectors[v].size
            m0 == Cells!Memory
            gone == Cells!Destroy(m0, v, 0, n)
            zero == [gone EXCEPT !.vectors[v].size = 0]
            m == Cells!Reserve(zero, v, vectors[w].size)
            m2 == Cells!Construct(m, v, 0, expected[w])
            x0 == [expected EXCEPT ![v] = SubSeq(expected[v], 1, 0)]
            x2 == [expected EXCEPT ![v] = expected[w]]
<1>1. /\ Fine(m0, expected, {}) /\ m0.vectors = vectors /\ expected \in [Vectors -> Seq(Elements)]
      /\ expected[v] \in Seq(Elements) /\ n = Len(expected[v]) /\ n \in Nat /\ 0 <= n /\ 0 \in Nat
      /\ expected[w] \in Seq(Elements) /\ vectors[w].size = Len(expected[w]) /\ vectors[w].size \in Nat
  BY VectorsBefore
<1>2. Cells!Held(m0, w) = expected[w]
  <2>. HIDE DEF m0
  <2>. QED BY <1>1, HeldByVector
<1>3. v # w /\ Cells!Done(m2, v, expected[w])
  BY <1>2 DEF Cells!Assign
<1>4. x0[v] = <<>> /\ 0 = Len(x0[v]) /\ x0 \in [Vectors -> Seq(Elements)] /\ \A u \in Vectors : u # v => x0[u] = expected[u]
  BY <1>1, SubSeqEmpty, EmptySeq
<1>. HIDE DEF m0, n
<1>5. Fine(gone, x0, {}) /\ Stays(m0, gone, {})
  BY <1>1, Destroys
<1>. HIDE DEF gone
<1>6. Sized(gone, v, 0, zero)
  <2>1. gone \in [vectors : {gone.vectors}, heap : {gone.heap}, spoiled : {FALSE}]
    BY <1>5 DEF Fine
  <2>. QED BY <2>1 DEF Sized
<1>. HIDE DEF zero
<1>7. Fine(zero, x0, {}) /\ zero.vectors[v].size = 0 /\ \A u \in Vectors : u # v => zero.vectors[u] = gone.vectors[u]
  BY <1>5, <1>6, SizeWritten
<1>8. /\ Fine(m, x0, {}) /\ vectors[w].size <= m.vectors[v].capacity
      /\ \A u \in Vectors : m.vectors[u].size = zero.vectors[u].size
  <2>. HIDE DEF x0
  <2>. QED BY <1>1, <1>4, <1>7, Reserves
<1>9. 0 + Len(expected[w]) <= m.vectors[v].capacity
  BY <1>1, <1>8
<1>. HIDE DEF m
<1>10. Fine(m2, [x0 EXCEPT ![v] = x0[v] \o expected[w]], {}) /\ Stays(m, m2, {})
  <2>. HIDE DEF x0
  <2>. QED BY <1>1, <1>4, <1>8, <1>9, Constructs
<1>11. [x0 EXCEPT ![v] = x0[v] \o expected[w]] = x2
  BY <1>1, <1>4, ConcatEmptySeq
<1>12. \A u \in Vectors : u # v => m2.vectors[u].size = vectors[u].size
  BY <1>1, <1>5, <1>7, <1>8, <1>10 DEF Stays
<1>. HIDE DEF m2, x0
<1>13. Ready(m2, x2, v, expected[w])
  BY <1>10, <1>11, <1>12 DEF Ready
<1>. QED BY <1>1, <1>3, <1>13, DoneKeeps

\* The destructor and a constructor
LEMMA RenewSteps == ASSUME VectorsInv, NEW v \in Vectors, Cells!Renew(v) PROVE VectorsInv'
<1>. DEFINE m == Cells!Destructed(v)
            x == [expected EXCEPT ![v] = <<>>]
<1>1. Fine(m, x, {}) /\ \A w \in Vectors : w # v => m.vectors[w].size = vectors[w].size
  BY Destructs
<1>2. Cells!Done(m, v, <<>>)
  BY DEF Cells!Renew
<1>. HIDE DEF m
<1>3. Ready(m, x, v, <<>>)
  BY <1>1 DEF Ready
<1>4. <<>> \in Seq(Elements)
  BY EmptySeq
<1>. QED BY <1>2, <1>3, <1>4, DoneKeeps

\* The move assignment and the move constructor (SmallVector.h, lines 216-241
\* and 305-333)
LEMMA MoveAssignSteps ==
  ASSUME VectorsInv, NEW v \in Vectors, NEW w \in Vectors, Cells!MoveAssign(v, w) PROVE VectorsInv'
<1>. DEFINE m0 == Cells!Destructed(v)
            m == Cells!Adopt(m0, v, w)
            x0 == [expected EXCEPT ![v] = <<>>]
            x2 == [x0 EXCEPT ![v] = x0[w], ![w] = <<>>]
            n == vectors[w].size
            m2 == Cells!Memory'
<1>1. /\ v # w /\ vectors' = [m.vectors EXCEPT ![v].size = n] /\ heap' = m.heap /\ spoiled' = m.spoiled
      /\ expected' = [expected EXCEPT ![v] = expected[w], ![w] = <<>>] /\ calls' = calls + 1
  BY DEF Cells!MoveAssign
<1>2. /\ expected \in [Vectors -> Seq(Elements)] /\ n = Len(expected[w]) /\ n \in Nat
      /\ \A u \in Vectors : vectors[u].size = Len(expected[u])
  BY VectorsBefore
<1>3. /\ Fine(m0, x0, {}) /\ m0.vectors[v].data = 0
      /\ \A u \in Vectors : u # v => m0.vectors[u].size = vectors[u].size
  BY Destructs
<1>4. x0[v] = <<>> /\ x0[w] = expected[w] /\ x0 \in [Vectors -> Seq(Elements)] /\ m0.vectors[w].size = Len(x0[w])
  BY <1>1, <1>2, <1>3, EmptySeq
<1>5. expected' = x2
  BY <1>1, <1>2, <1>4
<1>. HIDE DEF m0, x0
<1>6. /\ Fine(m, x2, {}) /\ m.vectors[w].size = 0
      /\ \A u \in Vectors : u # v /\ u # w => m.vectors[u].size = m0.vectors[u].size
  <2>1. v # w /\ x0[v] = <<>> /\ m0.vectors[v].data = 0 /\ m0.vectors[w].size = Len(x0[w]) /\ Fine(m0, x0, {})
    BY <1>1, <1>3, <1>4
  <2>2. /\ Fine(Cells!Adopt(m0, v, w), [x0 EXCEPT ![v] = x0[w], ![w] = <<>>], {})
        /\ Cells!Adopt(m0, v, w).vectors[w].size = 0
        /\ \A u \in Vectors : u # v /\ u # w => Cells!Adopt(m0, v, w).vectors[u].size = m0.vectors[u].size
    BY <2>1, Adopts
  <2>. QED BY <2>2
<1>. HIDE DEF m, x2
<1>7. Sized(m, v, n, m2)
  <2>1. m.spoiled = FALSE
    BY <1>6 DEF Fine
  <2>. QED BY <1>1, <2>1 DEF Sized, Cells!Memory
<1>8. m2.vectors = vectors'
  BY DEF Cells!Memory
<1>. HIDE DEF m2
<1>9. Fine(m2, x2, {}) /\ m2.vectors[v].size = n /\ \A u \in Vectors : u # v => m2.vectors[u] = m.vectors[u]
  BY <1>2, <1>6, <1>7, SizeWritten
<1>10. /\ x2[v] = expected[w] /\ x2[w] = <<>> /\ \A u \in Vectors : u # v /\ u # w => x2[u] = expected[u]
  BY <1>1, <1>2, <1>5
<1>11. ASSUME NEW u \in Vectors PROVE vectors'[u].size = Len(expected'[u])
  <2>1. CASE u = v
    BY <1>2, <1>5, <1>8, <1>9, <1>10, <2>1
  <2>2. CASE u = w
    BY <1>1, <1>5, <1>6, <1>8, <1>9, <1>10, <2>2, EmptySeq
  <2>3. CASE u # v /\ u # w
    BY <1>2, <1>3, <1>5, <1>6, <1>8, <1>9, <1>10, <2>3
  <2>. QED BY <2>1, <2>2, <2>3
<1>12. calls' \in Nat
  BY <1>1 DEF VectorsInv
<1>13. Fine(Cells!Memory', expected', {})
  BY <1>5, <1>9 DEF m2
<1>. QED BY <1>11, <1>12, <1>13 DEF VectorsInv

\* New vectors have no elements.
LEMMA VectorsStart == ASSUME Cells!Init PROVE VectorsInv
<1>1. /\ vectors = [v \in Vectors |-> Cells!Fresh] /\ heap = << >> /\ expected = [v \in Vectors |-> <<>>]
      /\ spoiled = FALSE /\ calls = 0
  BY DEF Cells!Init
<1>. DEFINE m == Cells!Memory
            fresh == Cells!Fresh
<1>2. m.vectors = vectors /\ m.heap = heap /\ m \in [vectors : {m.vectors}, heap : {m.heap}, spoiled : {FALSE}]
  BY <1>1 DEF Cells!Memory
<1>3. /\ fresh \in VectorRecords /\ fresh.data = 0 /\ fresh.size = 0 /\ fresh.capacity = InlineCapacity
      /\ fresh.inline = Cells!NoElements
  BY VectorConstants DEF Cells!Fresh, Cells!Inline, Cells!NoElements, VectorRecords, VectorCell
<1>. HIDE DEF m, fresh
<1>4. \A v \in Vectors : m.vectors[v] = fresh /\ expected[v] = <<>>
  BY <1>1, <1>2 DEF fresh
<1>5. m.vectors \in [Vectors -> VectorRecords] /\ expected \in [Vectors -> Seq(Elements)]
  <2>1. expected \in [Vectors -> Seq(Elements)]
    BY <1>1, EmptySeq
  <2>2. m.vectors \in [Vectors -> VectorRecords]
    BY <1>1, <1>2, <1>3 DEF fresh
  <2>. QED BY <2>1, <2>2
<1>6. Hold(Cells!NoElements, InlineCapacity, <<>>)
  BY EmptySeq, VectorConstants DEF Hold, VectorCell, Cells!NoElements
<1>7. \A v \in Vectors : Cells!CellsOf(m, v) = Cells!NoElements
  BY <1>3, <1>4 DEF Cells!CellsOf, Cells!Inline
<1>8. \A v \in Vectors :
        /\ Hold(Cells!CellsOf(m, v), m.vectors[v].capacity, expected[v])
        /\ m.vectors[v].data = 0 => m.vectors[v].capacity = InlineCapacity
        /\ m.vectors[v].data # 0 => m.vectors[v].inline = Cells!NoElements
  BY <1>3, <1>4, <1>6, <1>7
<1>9. DOMAIN m.heap = ({m.vectors[v].data : v \in Vectors} \ {0}) \union {}
  <2>1. DOMAIN m.heap = {}
    BY <1>1, <1>2
  <2>2. \A v \in Vectors : m.vectors[v].data = 0
    BY <1>3, <1>4
  <2>. QED BY <2>1, <2>2
<1>10. \A v, w \in Vectors : v # w /\ m.vectors[v].data # 0 => m.vectors[v].data # m.vectors[w].data
  BY <1>3, <1>4
<1>11. Fine(m, expected, {})
  BY <1>2, <1>5, <1>8, <1>9, <1>10 DEF Fine
<1>12. \A v \in Vectors : vectors[v].size = Len(expected[v])
  BY <1>2, <1>3, <1>4, EmptySeq
<1>. QED BY <1>1, <1>11, <1>12 DEF VectorsInv, m

\* Without a call, nothing changes.
LEMMA VectorsUnchanged == ASSUME VectorsInv, UNCHANGED <<vectorsVars, calls>> PROVE VectorsInv'
<1>1. UNCHANGED <<vectors, heap, expected, spoiled, calls>>
  BY DEF vectorsVars
<1>2. Cells!Memory' = Cells!Memory
  BY <1>1 DEF Cells!Memory
<1>. QED BY <1>1, <1>2 DEF VectorsInv

\* Every operation on vectors keeps the invariant.
LEMMA VectorsSteps == ASSUME VectorsInv, Cells!Next PROVE VectorsInv'
<1>1. PICK v \in Vectors :
        \/ \E y \in Elements : Cells!EmplaceBack(v, y)
        \/ Cells!PopBack(v) \/ Cells!Clear(v) \/ Cells!Renew(v)
        \/ \E n \in 0 .. MaxElements : Cells!Resize(v, n)
        \/ \E w \in Vectors : Cells!Assign(v, w) \/ Cells!MoveAssign(v, w)
  BY DEF Cells!Next
<1>2. CASE \E y \in Elements : Cells!EmplaceBack(v, y)
  BY <1>2, EmplaceBackSteps
<1>3. CASE Cells!PopBack(v)
  BY <1>3, PopBackSteps
<1>4. CASE Cells!Clear(v)
  BY <1>4, VectorClearSteps
<1>5. CASE Cells!Renew(v)
  BY <1>5, RenewSteps
<1>6. CASE \E n \in 0 .. MaxElements : Cells!Resize(v, n)
  BY <1>6, ResizeSteps
<1>7. CASE \E w \in Vectors : Cells!Assign(v, w)
  BY <1>7, AssignSteps
<1>8. CASE \E w \in Vectors : Cells!MoveAssign(v, w)
  BY <1>8, MoveAssignSteps
<1>. QED BY <1>1, <1>2, <1>3, <1>4, <1>5, <1>6, <1>7, <1>8

\* Vectors hold what sequences would.
LEMMA VectorsAreSequences == ASSUME VectorsInv PROVE Cells!VectorsHold /\ Cells!BuffersOwned
<1>. DEFINE m == Cells!Memory
<1>1. Fine(m, expected, {}) /\ m.vectors = vectors /\ m.heap = heap /\ m.spoiled = spoiled
  BY DEF VectorsInv, Cells!Memory
<1>2. /\ m \in [vectors : {m.vectors}, heap : {m.heap}, spoiled : {FALSE}]
      /\ m.vectors \in [Vectors -> VectorRecords]
      /\ \A v \in Vectors :
           /\ Hold(Cells!CellsOf(m, v), m.vectors[v].capacity, expected[v])
           /\ m.vectors[v].data # 0 => m.vectors[v].inline = Cells!NoElements
      /\ DOMAIN m.heap = ({m.vectors[v].data : v \in Vectors} \ {0}) \union {}
      /\ \A v, w \in Vectors : v # w /\ m.vectors[v].data # 0 => m.vectors[v].data # m.vectors[w].data
  BY <1>1 DEF Fine
<1>3. ASSUME NEW v \in Vectors
      PROVE  /\ vectors[v].size <= vectors[v].capacity /\ Len(Cells!CellsOf(m, v)) = vectors[v].capacity
             /\ Cells!Held(m, v) = expected[v] /\ ~spoiled
             /\ \A i \in vectors[v].size + 1 .. vectors[v].capacity : Cells!CellsOf(m, v)[i] = Raw
             /\ vectors[v].data # Cells!Inline => vectors[v].inline = Cells!NoElements
  <2>. DEFINE into == Cells!CellsOf(m, v)
              room == vectors[v].capacity
  <2>1. /\ vectors[v].size = Len(expected[v]) /\ expected[v] \in Seq(Elements) /\ vectors[v].size \in Nat
        /\ room \in Nat /\ vectors[v].size <= room
    BY VectorsBefore
  <2>2. /\ into \in [1 .. room -> VectorCell]
        /\ \A i \in 1 .. room : into[i] = IF i <= Len(expected[v]) THEN expected[v][i] ELSE Raw
    BY <1>1, <1>2 DEF Hold
  <2>3. Cells!Held(m, v) = expected[v]
    <3>. HIDE DEF m
    <3>. QED BY <1>1, <2>1, HeldByVector
  <2>. HIDE DEF into
  <2>4. Len(into) = room
    BY <2>1, <2>2
  <2>5. \A i \in vectors[v].size + 1 .. room : into[i] = Raw
    BY <2>1, <2>2
  <2>. HIDE DEF m
  <2>6. ~spoiled
    BY <1>1, <1>2
  <2>. QED BY <1>1, <1>2, <2>1, <2>3, <2>4, <2>5, <2>6 DEF into, Cells!Inline
<1>4. Cells!VectorsHold
  BY <1>3 DEF Cells!VectorsHold
<1>5. Cells!BuffersOwned
  <2>. HIDE DEF m
  <2>. QED BY <1>1, <1>2 DEF Cells!BuffersOwned, Cells!Inline
<1>. QED BY <1>4, <1>5

-----------------------------------------------------------------------------
(* Memory *)

\* For any number of objects, arenas, vectors and elements, and any sizes of
\* chunks: objects lie apart in chunks that one arena owns until it gives them
\* back, the items of a bag lie apart too, a vector holds what a sequence would,
\* and each buffer belongs to one vector (Arena.h, SimpleArena.h, ArenaBag.h,
\* SmallVector.h).
THEOREM MemoryAlwaysOwned == Spec => []MemoryOwned
<1>. DEFINE Inv == /\ subject = "arenas" => ArenasInv
                   /\ subject = "vectors" => VectorsInv
<1>1. Init => Inv
  BY ArenasStart, VectorsStart DEF Init
<1>2. Inv /\ [Next]_vars => Inv'
  <2>. SUFFICES ASSUME Inv, [Next]_vars PROVE Inv'
    OBVIOUS
  <2>1. CASE MemoryStep
    BY <2>1, ArenasSteps DEF MemoryStep
  <2>2. CASE CellsStep
    BY <2>2, VectorsSteps DEF CellsStep
  <2>3. CASE UNCHANGED vars
    <3>1. subject' = subject /\ UNCHANGED <<arenasVars, calls>> /\ UNCHANGED <<vectorsVars, calls>>
      BY <2>3 DEF vars, memoryVars
    <3>2. subject = "arenas" => ArenasInv'
      BY <3>1, ArenasUnchanged
    <3>3. subject = "vectors" => VectorsInv'
      BY <3>1, VectorsUnchanged
    <3>. QED BY <3>1, <3>2, <3>3
  <2>4. CASE HandlesStep \/ ConsoleStep \/ MappedStep \/ PileStep \/ RegistryStep \/ BufferStep
    BY <2>4 DEF HandlesStep, ConsoleStep, MappedStep, PileStep, RegistryStep, BufferStep
  <2>. QED BY <2>1, <2>2, <2>3, <2>4 DEF Next
<1>3. Inv => MemoryOwned
  BY ObjectsLieApart, ChunksHaveOwners, ItemsLieApart, VectorsAreSequences DEF MemoryOwned
<1>. HIDE DEF Inv
<1>. QED BY <1>1, <1>2, <1>3, PTL DEF Spec
=============================================================================
