--------------------------- MODULE QueryPipelineProofs ---------------------------
(***************************************************************************)
(* The pool's workers and the callers of the queries agree about which     *)
(* tiles are still to come, for every number of queries, workers and       *)
(* tiles and every size of the queue: pendingTiles_ is exact, a query is   *)
(* destroyed only when no worker has one of its tasks, and no wakeup is    *)
(* lost.                                                                   *)
(*                                                                         *)
(* The buckets that were offered make one sequence, cut into those handed  *)
(* out, those in hand, those deleted by the destructor and those that the  *)
(* workers link in a circle: none is lost, deleted twice or used after it  *)
(* was deleted, and a query keeps the promise of TileDelivery.             *)
(***************************************************************************)
EXTENDS QueryPipeline, FiniteSetTheorems, WellFoundedInduction, TLAPS

-----------------------------------------------------------------------------
(* The inductive invariant *)

Tasks == Queries \X DOMAIN index

\* What the threads read and write is of its type.
PoolTyped ==
  /\ index \in Indexes /\ queueSize \in Nat
  /\ queue \in Seq(Tasks) /\ Len(queue) =< queueSize
  /\ workers \in [Workers -> Tasks \cup {Ready, Asleep}]
CallersTyped ==
  /\ pc \in [Queries -> Places] /\ after \in [Queries -> {"idle", "taken"}]
  /\ walker \in [Queries -> DOMAIN index]
  /\ posted \in [Queries -> BOOLEAN] /\ allRequested \in [Queries -> BOOLEAN]
  /\ pending \in [Queries -> Nat] /\ completed \in [Queries -> Nat]
ListsTyped ==
  /\ queued \in [Queries -> Links] /\ current \in [Queries -> Links]
  /\ taken \in [Queries -> Links]
  /\ next \in [Queries -> [Links -> Links]]
  /\ delivered \in [Queries -> Seq(Buckets)]

\* Every tile before the walker's has been posted at most once, and nothing is
\* requested when all has been.
PostedOnce ==
  \A q \in Queries :
    /\ pending[q] =< IF allRequested[q] THEN walker[q] ELSE walker[q] - 1
    /\ pc[q] \in {"none", "request"} => ~ allRequested[q]

\* Where a caller waits, something is pending and nothing is completed; where
\* it has destroyed the query, nothing is pending.
Waiting ==
  \A q \in Queries :
    /\ pc[q] \in {"waiting", "waitingToDestroy"} => completed[q] = 0 /\ pending[q] > 0
    /\ pc[q] = "destroyed" => pending[q] = 0
    /\ pc[q] = "none" => pending[q] = 0

QueueSeen == queue # <<>> => \E w \in Workers : workers[w] # Asleep

Inv == /\ PoolTyped /\ CallersTyped /\ ListsTyped
       /\ PostedOnce /\ Waiting /\ QueueSeen /\ PendingCounts

-----------------------------------------------------------------------------
(* Counting tasks *)

\* The tasks of q in a queue s and in the hands ws of the workers.
InQueue(s, q) == {i \in DOMAIN s : s[i][1] = q}
InHands(ws, q) == {w \in Workers : Len(ws[w]) = 2 /\ ws[w][1] = q}
Count(s, ws, q) == Cardinality(InQueue(s, q)) + Cardinality(InHands(ws, q))

\* TasksOf counts these.
LEMMA TasksAreCounted == \A q : TasksOf(q) = Count(queue, workers, q)
  BY DEF TasksOf, Busy, Count, InQueue, InHands

\* Both sets are finite, so that they can be counted.
LEMMA QueueCountable ==
  ASSUME NEW T, NEW s \in Seq(T), NEW q
  PROVE  IsFiniteSet(InQueue(s, q)) /\ Cardinality(InQueue(s, q)) \in Nat
<1>1. Len(s) \in Int /\ DOMAIN s = 1 .. Len(s)
  OBVIOUS
<1>2. IsFiniteSet(1 .. Len(s))
  BY <1>1, FS_Interval
<1>3. InQueue(s, q) \in SUBSET (1 .. Len(s))
  BY <1>1 DEF InQueue
<1>. QED BY <1>2, <1>3, FS_Subset, FS_CardinalityType

\* So are those in the hands of the workers.
LEMMA HandsCountable ==
  ASSUME NEW ws, NEW q
  PROVE  IsFiniteSet(InHands(ws, q)) /\ Cardinality(InHands(ws, q)) \in Nat
<1>1. IsFiniteSet(Workers) /\ InHands(ws, q) \in SUBSET Workers
  BY PoolAssumption DEF InHands
<1>. QED BY <1>1, FS_Subset, FS_CardinalityType

\* A posted task is one more in the queue.
LEMMA AppendCounts ==
  ASSUME NEW T, NEW s \in Seq(T), NEW e \in T, NEW q
  PROVE  Cardinality(InQueue(Append(s, e), q)) =
           Cardinality(InQueue(s, q)) + IF e[1] = q THEN 1 ELSE 0
<1>. DEFINE n == Len(s) + 1
<1>1. /\ DOMAIN s = 1 .. Len(s) /\ Len(s) \in Nat
      /\ DOMAIN Append(s, e) = 1 .. n
      /\ \A i \in 1 .. Len(s) : Append(s, e)[i] = s[i]
      /\ Append(s, e)[n] = e
  OBVIOUS
<1>2. n \notin InQueue(s, q)
  BY <1>1 DEF InQueue
<1>3. CASE e[1] = q
  <2>1. InQueue(Append(s, e), q) = InQueue(s, q) \cup {n}
    BY <1>1, <1>3 DEF InQueue
  <2>2. IsFiniteSet(InQueue(s, q))
    BY QueueCountable
  <2>. QED BY <1>2, <1>3, <2>1, <2>2, FS_AddElement
<1>4. CASE e[1] # q
  <2>1. InQueue(Append(s, e), q) = InQueue(s, q)
    BY <1>1, <1>4 DEF InQueue
  <2>. QED BY <1>4, <2>1, QueueCountable
<1>. QED BY <1>3, <1>4

\* A task that a worker takes is one less.
LEMMA TailCounts ==
  ASSUME NEW T, NEW s \in Seq(T), s # <<>>, NEW q
  PROVE  Cardinality(InQueue(Tail(s), q)) =
           Cardinality(InQueue(s, q)) - IF Head(s)[1] = q THEN 1 ELSE 0
<1>. DEFINE rest == InQueue(s, q) \ {1}
            shift == [i \in rest |-> i - 1]
<1>1. /\ DOMAIN s = 1 .. Len(s) /\ Len(s) \in Nat \ {0} /\ Head(s) = s[1]
      /\ DOMAIN Tail(s) = 1 .. Len(s) - 1
      /\ \A i \in 1 .. Len(s) - 1 : Tail(s)[i] = s[i + 1]
  OBVIOUS
<1>2. rest = {i \in 2 .. Len(s) : s[i][1] = q}
  BY <1>1 DEF InQueue
<1>3. InQueue(Tail(s), q) = {i \in 1 .. Len(s) - 1 : s[i + 1][1] = q}
  BY <1>1 DEF InQueue
<1>4. shift \in Bijection(rest, InQueue(Tail(s), q))
  <2>1. shift \in [rest -> InQueue(Tail(s), q)]
    BY <1>1, <1>2, <1>3
  <2>2. \A i, j \in rest : shift[i] = shift[j] => i = j
    BY <1>1, <1>2
  <2>3. \A k \in InQueue(Tail(s), q) : k + 1 \in rest /\ shift[k + 1] = k
    <3>. SUFFICES ASSUME NEW k \in 1 .. Len(s) - 1, s[k + 1][1] = q
                  PROVE  k + 1 \in rest /\ (k + 1) - 1 = k
      BY <1>3
    <3>. QED BY <1>1, <1>2
  <2>. QED BY <2>1, <2>2, <2>3, Zenon DEF Bijection, Injection, Surjection, IsInjective
<1>5. IsFiniteSet(InQueue(s, q)) /\ Cardinality(InQueue(s, q)) \in Nat
  BY QueueCountable
<1>6. IsFiniteSet(rest)
      /\ Cardinality(rest) = IF 1 \in InQueue(s, q) THEN Cardinality(InQueue(s, q)) - 1
                             ELSE Cardinality(InQueue(s, q))
  BY <1>5, FS_RemoveElement
<1>7. Cardinality(InQueue(Tail(s), q)) = Cardinality(rest)
  BY <1>4, <1>6, FS_Bijection DEF ExistsBijection
<1>8. 1 \in InQueue(s, q) <=> Head(s)[1] = q
  BY <1>1 DEF InQueue
<1>. QED BY <1>5, <1>6, <1>7, <1>8

\* A worker that gets a task has one more of its query.
LEMMA HandsFill ==
  ASSUME NEW ws \in [Workers -> Tasks \cup {Ready, Asleep}], NEW w \in Workers, NEW task \in Tasks,
         ws[w] \in {Ready, Asleep}, NEW q
  PROVE  Cardinality(InHands([ws EXCEPT ![w] = task], q)) =
           Cardinality(InHands(ws, q)) + IF task[1] = q THEN 1 ELSE 0
<1>1. Len(task) = 2 /\ Len(ws[w]) # 2
  BY DEF Tasks, Ready, Asleep
<1>2. IsFiniteSet(InHands(ws, q)) /\ Cardinality(InHands(ws, q)) \in Nat /\ w \notin InHands(ws, q)
  BY <1>1, HandsCountable DEF InHands
<1>3. CASE task[1] = q
  <2>1. InHands([ws EXCEPT ![w] = task], q) = InHands(ws, q) \cup {w}
    BY <1>1, <1>3 DEF InHands
  <2>. QED BY <1>2, <1>3, <2>1, FS_AddElement
<1>4. CASE task[1] # q
  <2>1. InHands([ws EXCEPT ![w] = task], q) = InHands(ws, q)
    BY <1>1, <1>4 DEF InHands
  <2>. QED BY <1>2, <1>4, <2>1
<1>. QED BY <1>3, <1>4

\* One that has run its task has one less.
LEMMA HandsEmpty ==
  ASSUME NEW ws \in [Workers -> Tasks \cup {Ready, Asleep}], NEW w \in Workers, NEW q,
         NEW idle \in {Ready, Asleep}
  PROVE  Cardinality(InHands([ws EXCEPT ![w] = idle], q)) =
           Cardinality(InHands(ws, q)) - IF Len(ws[w]) = 2 /\ ws[w][1] = q THEN 1 ELSE 0
<1>1. Len(idle) # 2
  BY DEF Ready, Asleep
<1>2. IsFiniteSet(InHands(ws, q)) /\ Cardinality(InHands(ws, q)) \in Nat
  BY HandsCountable
<1>3. InHands([ws EXCEPT ![w] = idle], q) = InHands(ws, q) \ {w}
  BY <1>1 DEF InHands
<1>4. w \in InHands(ws, q) <=> Len(ws[w]) = 2 /\ ws[w][1] = q
  BY DEF InHands
<1>5. Cardinality(InHands(ws, q) \ {w}) =
        IF w \in InHands(ws, q) THEN Cardinality(InHands(ws, q)) - 1 ELSE Cardinality(InHands(ws, q))
  BY <1>2, FS_RemoveElement
<1>6. CASE w \in InHands(ws, q)
  BY <1>2, <1>3, <1>4, <1>5, <1>6
<1>7. CASE w \notin InHands(ws, q)
  <2>1. Cardinality(InHands([ws EXCEPT ![w] = idle], q)) = Cardinality(InHands(ws, q))
    BY <1>3, <1>5, <1>7
  <2>2. ~ (Len(ws[w]) = 2 /\ ws[w][1] = q)
    BY <1>4, <1>7
  <2>. QED BY <1>2, <2>1, <2>2
<1>. QED BY <1>6, <1>7

-----------------------------------------------------------------------------
(* What the steps have in common *)

\* Every nonempty set of naturals has a least element.
LEMMA LeastNat ==
  ASSUME NEW S, S \subseteq Nat, S # {}
  PROVE  \E m \in S : \A n \in S : m =< n
<1>. DEFINE R == OpToRel(<, Nat)
<1>1. \A m, n \in Nat : <<m, n>> \in R <=> m < n
  BY DEF OpToRel
<1>2. IsWellFoundedOn(R, Nat)
  BY NatLessThanWellFounded
<1>. HIDE DEF R
<1>3. \E m \in S : \A n \in S : ~ (<<n, m>> \in R)
  BY <1>2, WFMin
<1>4. PICK m \in S : \A n \in S : ~ (<<n, m>> \in R)
  BY <1>3
<1>5. \A n \in S : ~ (n < m)
  BY <1>1, <1>4, Zenon
<1>. QED BY <1>5

\* The tile index: its tiles are numbered from 1, and a scan finds at most
\* MaxBuckets buckets.
LEMMA IndexTyped ==
  ASSUME index \in Indexes
  PROVE  /\ DOMAIN index \subseteq 1 .. MaxTiles
         /\ 1 \in DOMAIN index
         /\ \A t \in DOMAIN index : index[t].buckets \in 0 .. MaxBuckets
<1>1. PICK n \in 1 .. MaxTiles : index \in [1 .. n -> Entry]
  BY DEF Indexes
<1>2. DOMAIN index = 1 .. n /\ \A t \in 1 .. n : index[t] \in Entry
  BY <1>1
<1>. QED BY <1>1, <1>2, BoundsAssumption DEF Entry

\* Linking lists keeps the links links.
LEMMA LinksTyped ==
  ASSUME index \in Indexes, NEW links \in [Links -> Links], NEW t \in DOMAIN index
  PROVE  /\ Found(t) \in Links
         /\ Circle(links, t) \in [Links -> Links]
         /\ \A old, new \in Links : Splice(Circle(links, t), old, new) \in [Links -> Links]
<1>1. /\ t \in 1 .. MaxTiles /\ index[t].buckets \in 0 .. MaxBuckets /\ MaxBuckets \in Nat
  BY IndexTyped, BoundsAssumption
<1>2. Found(t) \in Links
  BY <1>1 DEF Found, Links, Buckets
<1>3. ASSUME NEW b \in Links, b # EMPTY, b[1] = t, ~ (b[2] > index[t].buckets)
      PROVE  <<t, IF b[2] = index[t].buckets THEN 1 ELSE b[2] + 1>> \in Links
  <2>1. b[2] \in 1 .. MaxBuckets
    BY <1>3 DEF Links, Buckets
  <2>. QED BY <1>1, <1>3, <2>1 DEF Links, Buckets
<1>4. Circle(links, t) \in [Links -> Links]
  BY <1>3 DEF Circle
<1>. QED BY <1>2, <1>4 DEF Splice

\* offer() counts one tile more and appends to the list of one query.
LEMMA OfferTyped ==
  ASSUME PoolTyped, CallersTyped, ListsTyped, NEW q \in Queries, NEW t \in DOMAIN index, Offer(q, t)
  PROVE  /\ queued' \in [Queries -> Links] /\ next' \in [Queries -> [Links -> Links]]
         /\ completed' \in [Queries -> Nat] /\ completed' = [completed EXCEPT ![q] = completed[q] + 1]
<1>1. /\ Found(t) \in Links /\ Circle(next[q], t) \in [Links -> Links]
      /\ Splice(Circle(next[q], t), queued[q], Found(t)) \in [Links -> Links]
  BY LinksTyped DEF PoolTyped, ListsTyped
<1>. QED BY <1>1 DEF Offer, CallersTyped, ListsTyped

\* The walk goes forward or ends.
LEMMA AdvanceTyped ==
  ASSUME PoolTyped, CallersTyped, NEW q \in Queries, NEW skip \in BOOLEAN, Advance(q, skip)
  PROVE  /\ pc' = pc \/ pc' = [pc EXCEPT ![q] = after[q]]
         /\ walker' \in [Queries -> DOMAIN index] /\ allRequested' \in [Queries -> BOOLEAN]
         /\ \A r \in Queries \ {q} : walker'[r] = walker[r] /\ allRequested'[r] = allRequested[r]
         /\ \/ allRequested'[q] /\ walker'[q] = walker[q] /\ pc'[q] = after[q]
            \/ walker'[q] > walker[q] /\ allRequested'[q] = allRequested[q] /\ pc'[q] = pc[q]
<1>. DEFINE rest == Following(q, skip)
            least == CHOOSE i \in rest : \A j \in rest : i =< j
<1>1. DOMAIN index \subseteq 1 .. MaxTiles /\ rest \subseteq DOMAIN index
      /\ \A i \in rest : i > walker[q]
  BY IndexTyped DEF PoolTyped, Following
<1>2. CASE rest = {}
  BY <1>2 DEF Advance, CallersTyped
<1>3. CASE rest # {}
  <2>1. \E i \in rest : \A j \in rest : i =< j
    <3>. HIDE DEF rest
    <3>. QED BY <1>1, <1>3, LeastNat
  <2>2. least \in rest
    BY <2>1
  <2>3. /\ walker' = [walker EXCEPT ![q] = least]
        /\ UNCHANGED <<allRequested, pc>>
    BY <1>3 DEF Advance
  <2>. HIDE DEF least, rest
  <2>. QED BY <1>1, <2>2, <2>3 DEF CallersTyped
<1>. QED BY <1>2, <1>3

\* Steps that leave the pool alone do not change the number of tasks.
LEMMA PoolKept ==
  ASSUME UNCHANGED poolVars
  PROVE  \A q : TasksOf(q)' = TasksOf(q)
  BY TasksAreCounted DEF poolVars, TasksOf, Busy

\* The number of a query's tasks is a natural number.
LEMMA TasksNat ==
  ASSUME PoolTyped
  PROVE  \A q : TasksOf(q) \in Nat
<1>1. \A q : Cardinality(InQueue(queue, q)) \in Nat /\ Cardinality(InHands(workers, q)) \in Nat
  BY QueueCountable, HandsCountable DEF PoolTyped
<1>. QED BY <1>1, TasksAreCounted DEF Count

\* A post puts a task in the queue and wakes a worker.
LEMMA PostCounts ==
  ASSUME PoolTyped, NEW task \in Tasks, Post(task), Len(queue) < queueSize, UNCHANGED fixedVars
  PROVE  /\ PoolTyped' /\ QueueSeen'
         /\ \A q : TasksOf(q)' = TasksOf(q) + IF task[1] = q THEN 1 ELSE 0
<1>1. /\ queue \in Seq(Tasks) /\ workers \in [Workers -> Tasks \cup {Ready, Asleep}]
      /\ queue' = Append(queue, task) /\ Ready # Asleep
  BY DEF PoolTyped, Post, Ready, Asleep
<1>2. \/ workers' = workers /\ \A w \in Workers : workers[w] # Asleep
      \/ \E w \in Workers : workers[w] = Asleep /\ workers' = [workers EXCEPT ![w] = Ready]
  BY DEF Post
<1>3. PoolTyped'
  BY <1>1, <1>2 DEF PoolTyped, fixedVars, Tasks
<1>4. QueueSeen'
  BY <1>1, <1>2, PoolAssumption DEF QueueSeen
<1>5. \A q : Cardinality(InHands(workers', q)) = Cardinality(InHands(workers, q))
  <2>. TAKE q
  <2>1. Len(Asleep) # 2
    BY DEF Asleep
  <2>. QED BY <1>1, <1>2, <2>1, HandsEmpty, HandsCountable
<1>6. \A q : /\ TasksOf(q) = Count(queue, workers, q)
             /\ TasksOf(q)' = Count(queue', workers', q)
  BY TasksAreCounted DEF TasksOf, Count, InQueue, InHands, Busy
<1>7. \A q : /\ Cardinality(InQueue(queue, q)) \in Nat /\ Cardinality(InHands(workers, q)) \in Nat
             /\ Cardinality(InQueue(queue', q)) =
                  Cardinality(InQueue(queue, q)) + IF task[1] = q THEN 1 ELSE 0
  BY <1>1, AppendCounts, QueueCountable, HandsCountable
<1>. QED BY <1>3, <1>4, <1>5, <1>6, <1>7 DEF Count

-----------------------------------------------------------------------------
(* The workers *)

\* A worker that takes a task takes it out of the queue.
LEMMA DequeueStep ==
  ASSUME Inv, NEW w \in Workers, Dequeue(w)
  PROVE  Inv'
<1>1. PoolTyped /\ CallersTyped /\ ListsTyped /\ PostedOnce /\ Waiting /\ PendingCounts
  BY DEF Inv
<1>2. /\ queue \in Seq(Tasks) /\ workers \in [Workers -> Tasks \cup {Ready, Asleep}]
      /\ workers[w] = Ready /\ queue # <<>>
      /\ workers' = [workers EXCEPT ![w] = Head(queue)] /\ queue' = Tail(queue)
      /\ UNCHANGED <<fixedVars, pc, after, walkVars, pending, listVars, callerVars>>
  BY <1>1 DEF Dequeue, PoolTyped
<1>3. Head(queue) \in Tasks /\ Tail(queue) \in Seq(Tasks) /\ Len(Tail(queue)) =< Len(queue)
      /\ Head(queue) # Asleep
  <2>1. \A task \in Tasks : Len(task) = 2
    BY DEF Tasks
  <2>2. Len(Asleep) # 2
    BY DEF Asleep
  <2>3. Head(queue) \in Tasks /\ Tail(queue) \in Seq(Tasks) /\ Len(Tail(queue)) =< Len(queue)
    BY <1>2
  <2>4. Head(queue) # Asleep
    BY <2>1, <2>2, <2>3, Zenon
  <2>. QED BY <2>3, <2>4
<1>4. PoolTyped'
  BY <1>1, <1>2, <1>3 DEF PoolTyped, fixedVars, Tasks
<1>5. CallersTyped' /\ ListsTyped' /\ PostedOnce' /\ Waiting'
  BY <1>1, <1>2 DEF CallersTyped, ListsTyped, PostedOnce, Waiting, fixedVars, walkVars, listVars,
                    callerVars
<1>6. QueueSeen'
  BY <1>2, <1>3 DEF QueueSeen
<1>7. \A q : TasksOf(q)' = TasksOf(q)
  <2>. TAKE q
  <2>1. /\ TasksOf(q) = Count(queue, workers, q) /\ TasksOf(q)' = Count(queue', workers', q)
    BY TasksAreCounted DEF TasksOf, Count, InQueue, InHands, Busy
  <2>2. /\ Cardinality(InQueue(queue', q)) =
             Cardinality(InQueue(queue, q)) - IF Head(queue)[1] = q THEN 1 ELSE 0
        /\ Cardinality(InHands(workers', q)) =
             Cardinality(InHands(workers, q)) + IF Head(queue)[1] = q THEN 1 ELSE 0
    BY <1>2, <1>3, TailCounts, HandsFill
  <2>3. Cardinality(InQueue(queue, q)) \in Nat /\ Cardinality(InHands(workers, q)) \in Nat
    BY <1>2, QueueCountable, HandsCountable
  <2>. QED BY <2>1, <2>2, <2>3 DEF Count
<1>8. PendingCounts'
  BY <1>1, <1>2, <1>7 DEF PendingCounts, listVars
<1>. QED BY <1>4, <1>5, <1>6, <1>8 DEF Inv

\* Only workers that find nothing to do go to sleep.
LEMMA SleepStep ==
  ASSUME Inv, NEW w \in Workers, Sleep(w)
  PROVE  Inv'
<1>1. PoolTyped /\ CallersTyped /\ ListsTyped /\ PostedOnce /\ Waiting /\ PendingCounts
  BY DEF Inv
<1>2. /\ workers \in [Workers -> Tasks \cup {Ready, Asleep}] /\ queue \in Seq(Tasks)
      /\ workers[w] = Ready /\ queue = <<>>
      /\ workers' = [workers EXCEPT ![w] = Asleep]
      /\ UNCHANGED <<fixedVars, queue, pc, after, walkVars, pending, listVars, callerVars>>
  BY <1>1 DEF Sleep, PoolTyped
<1>4. PoolTyped'
  BY <1>1, <1>2 DEF PoolTyped, fixedVars, Tasks
<1>5. CallersTyped' /\ ListsTyped' /\ PostedOnce' /\ Waiting'
  BY <1>1, <1>2 DEF CallersTyped, ListsTyped, PostedOnce, Waiting, fixedVars, walkVars, listVars,
                    callerVars
<1>6. QueueSeen'
  BY <1>2 DEF QueueSeen
<1>7. \A q : TasksOf(q)' = TasksOf(q)
  <2>. TAKE q
  <2>1. /\ TasksOf(q) = Count(queue, workers, q) /\ TasksOf(q)' = Count(queue', workers', q)
    BY TasksAreCounted DEF TasksOf, Count, InQueue, InHands, Busy
  <2>2. Len(workers[w]) # 2
    BY <1>2 DEF Ready
  <2>3. Cardinality(InHands(workers, q)) \in Nat
    BY HandsCountable
  <2>4. Cardinality(InHands(workers', q)) = Cardinality(InHands(workers, q))
    <3>3. workers \in [Workers -> Tasks \cup {Ready, Asleep}] /\ Asleep \in {Ready, Asleep}
      BY <1>2
    <3>1. Cardinality(InHands([workers EXCEPT ![w] = Asleep], q)) =
            Cardinality(InHands(workers, q)) - IF Len(workers[w]) = 2 /\ workers[w][1] = q THEN 1 ELSE 0
      BY <3>3, HandsEmpty, Zenon
    <3>2. (IF Len(workers[w]) = 2 /\ workers[w][1] = q THEN 1 ELSE 0) = 0
      BY <2>2
    <3>. HIDE DEF Asleep
    <3>. QED BY <1>2, <2>3, <3>1, <3>2
  <2>. QED BY <1>2, <2>1, <2>4 DEF Count
<1>8. PendingCounts'
  BY <1>1, <1>2, <1>7 DEF PendingCounts, listVars
<1>. QED BY <1>4, <1>5, <1>6, <1>8 DEF Inv

\* What a worker has scanned is counted as completed in place of its task.
LEMMA RunTaskStep ==
  ASSUME Inv, NEW w \in Workers, RunTask(w)
  PROVE  Inv'
<1>. DEFINE q0 == workers[w][1]
            t == workers[w][2]
<1>1. PoolTyped /\ CallersTyped /\ ListsTyped /\ PostedOnce /\ Waiting /\ PendingCounts /\ QueueSeen
  BY DEF Inv
<1>2. /\ workers \in [Workers -> Tasks \cup {Ready, Asleep}] /\ queue \in Seq(Tasks)
      /\ Len(workers[w]) = 2
      /\ workers' = [workers EXCEPT ![w] = Ready]
      /\ Offer(q0, t) /\ Notify(q0)
      /\ UNCHANGED <<fixedVars, queue, after, walkVars, pending, callerVars>>
  BY <1>1 DEF RunTask, PoolTyped, Busy
<1>3. q0 \in Queries /\ t \in DOMAIN index
  BY <1>2 DEF Tasks, Ready, Asleep
<1>. HIDE DEF q0, t
<1>4. /\ queued' \in [Queries -> Links] /\ next' \in [Queries -> [Links -> Links]]
      /\ completed' \in [Queries -> Nat] /\ completed' = [completed EXCEPT ![q0] = completed[q0] + 1]
  BY <1>1, <1>2, <1>3, OfferTyped
<1>5. /\ pc' \in [Queries -> Places]
      /\ \A q \in Queries : \/ pc'[q] = pc[q] /\ (q = q0 => pc[q] \notin {"waiting", "waitingToDestroy"})
                            \/ pc'[q] \in {"drain", "destroy"}
  BY <1>1, <1>2, <1>3 DEF Notify, CallersTyped, Places
<1>6. PoolTyped'
  BY <1>1, <1>2 DEF PoolTyped, fixedVars, Tasks
<1>7. CallersTyped' /\ ListsTyped'
  BY <1>1, <1>2, <1>4, <1>5 DEF CallersTyped, ListsTyped, fixedVars, walkVars, callerVars
<1>8. PostedOnce'
  BY <1>1, <1>2, <1>5 DEF PostedOnce, walkVars
<1>9. Waiting'
  BY <1>1, <1>2, <1>3, <1>4, <1>5 DEF Waiting, CallersTyped
<1>10. QueueSeen'
  BY <1>2 DEF QueueSeen, Ready, Asleep
<1>11. PendingCounts'
  <2>. SUFFICES ASSUME NEW q \in Queries
                PROVE  pending'[q] = TasksOf(q)' + completed'[q]
    BY DEF PendingCounts
  <2>1. /\ TasksOf(q) = Count(queue, workers, q) /\ TasksOf(q)' = Count(queue', workers', q)
    BY TasksAreCounted DEF TasksOf, Count, InQueue, InHands, Busy
  <2>2. Cardinality(InQueue(queue, q)) \in Nat /\ Cardinality(InHands(workers, q)) \in Nat
    BY <1>2, QueueCountable, HandsCountable
  <2>3. Cardinality(InHands(workers', q)) =
          Cardinality(InHands(workers, q)) - IF q = q0 THEN 1 ELSE 0
    BY <1>2, HandsEmpty DEF q0
  <2>4. pending[q] = TasksOf(q) + completed[q] /\ completed[q] \in Nat /\ pending'[q] = pending[q]
    BY <1>1, <1>2 DEF PendingCounts, CallersTyped
  <2>. QED BY <1>2, <1>4, <2>1, <2>2, <2>3, <2>4 DEF Count, CallersTyped
<1>. QED BY <1>6, <1>7, <1>8, <1>9, <1>10, <1>11 DEF Inv

-----------------------------------------------------------------------------
(* The callers request tiles *)

\* A tile that is posted is pending before a worker can take it.
LEMMA RequestPostingStep ==
  ASSUME Inv, NEW q \in Queries, RequestPosting(q)
  PROVE  Inv'
<1>. DEFINE task == <<q, walker[q]>>
<1>1. PoolTyped /\ CallersTyped /\ ListsTyped /\ PostedOnce /\ Waiting /\ PendingCounts
  BY DEF Inv
<1>2. /\ pc[q] = "request" /\ Len(queue) # queueSize
      /\ Post(task) /\ Advance(q, FALSE)
      /\ pending' = [pending EXCEPT ![q] = pending[q] + 1]
      /\ posted' = [posted EXCEPT ![q] = TRUE]
      /\ UNCHANGED <<fixedVars, after, listVars, callerVars>>
  BY DEF RequestPosting, QueueFull
<1>3. task \in Tasks /\ Len(queue) < queueSize
  BY <1>1, <1>2 DEF PoolTyped, CallersTyped, Tasks
<1>4. PoolTyped' /\ QueueSeen' /\ \A r : TasksOf(r)' = TasksOf(r) + IF q = r THEN 1 ELSE 0
  BY <1>1, <1>2, <1>3, PostCounts
<1>5. /\ pc' = pc \/ pc' = [pc EXCEPT ![q] = after[q]]
      /\ walker' \in [Queries -> DOMAIN index] /\ allRequested' \in [Queries -> BOOLEAN]
      /\ \A r \in Queries \ {q} : walker'[r] = walker[r] /\ allRequested'[r] = allRequested[r]
      /\ \/ allRequested'[q] /\ walker'[q] = walker[q] /\ pc'[q] = after[q]
         \/ walker'[q] > walker[q] /\ allRequested'[q] = allRequested[q] /\ pc'[q] = pc[q]
  BY <1>1, <1>2, AdvanceTyped
<1>6. CallersTyped' /\ ListsTyped'
  <2>1. pc' \in [Queries -> Places]
    BY <1>1, <1>5 DEF CallersTyped, Places
  <2>2. pending' \in [Queries -> Nat] /\ posted' \in [Queries -> BOOLEAN]
    BY <1>1, <1>2 DEF CallersTyped
  <2>3. CallersTyped'
    BY <1>1, <1>2, <1>5, <2>1, <2>2 DEF CallersTyped, fixedVars, listVars
  <2>. QED BY <1>1, <1>2, <2>3 DEF ListsTyped, fixedVars, listVars, callerVars
<1>7. PostedOnce'
  <2>1. walker[q] \in Nat /\ walker'[q] \in Nat /\ pending[q] \in Nat
    BY <1>1, <1>5, IndexTyped DEF CallersTyped, PoolTyped
  <2>2. pending[q] =< walker[q] - 1 /\ ~ allRequested[q] /\ after[q] \in {"idle", "taken"}
    BY <1>1, <1>2 DEF PostedOnce, CallersTyped
  <2>. QED BY <1>1, <1>2, <1>5, <2>1, <2>2 DEF PostedOnce, CallersTyped
<1>8. Waiting'
  <2>1. pc'[q] \in {"request", "idle", "taken"} /\ completed' = completed
    BY <1>1, <1>2, <1>5 DEF CallersTyped, listVars
  <2>2. \A r \in Queries \ {q} : pc'[r] = pc[r] /\ pending'[r] = pending[r]
    BY <1>1, <1>2, <1>5 DEF CallersTyped
  <2>. QED BY <1>1, <2>1, <2>2 DEF Waiting
<1>9. PendingCounts'
  BY <1>1, <1>2, <1>4, TasksNat DEF PendingCounts, CallersTyped, listVars
<1>. QED BY <1>4, <1>6, <1>7, <1>8, <1>9 DEF Inv

\* With the queue full the caller goes on with what it has.
LEMMA RequestStoppingStep ==
  ASSUME Inv, NEW q \in Queries, RequestStopping(q)
  PROVE  Inv'
<1>1. PoolTyped /\ CallersTyped /\ ListsTyped /\ PostedOnce /\ Waiting /\ PendingCounts /\ QueueSeen
  BY DEF Inv
<1>2. /\ pc[q] = "request" /\ pc' = [pc EXCEPT ![q] = after[q]]
      /\ UNCHANGED <<fixedVars, poolVars, after, walkVars, pending, listVars, callerVars>>
  BY DEF RequestStopping
<1>3. PoolTyped' /\ ListsTyped' /\ QueueSeen'
  BY <1>1, <1>2 DEF PoolTyped, ListsTyped, QueueSeen, fixedVars, poolVars, listVars, callerVars, Tasks
<1>4. CallersTyped'
  BY <1>1, <1>2 DEF CallersTyped, fixedVars, walkVars, listVars, Places
<1>5. PostedOnce' /\ Waiting'
  BY <1>1, <1>2 DEF PostedOnce, Waiting, CallersTyped, walkVars, listVars
<1>6. PendingCounts'
  BY <1>1, <1>2, PoolKept DEF PendingCounts, listVars
<1>. QED BY <1>3, <1>4, <1>5, <1>6 DEF Inv

\* A tile that the caller scans itself is pending and completed at once.
LEMMA RequestRunningHereStep ==
  ASSUME Inv, NEW q \in Queries, RequestRunningHere(q)
  PROVE  Inv'
<1>1. PoolTyped /\ CallersTyped /\ ListsTyped /\ PostedOnce /\ Waiting /\ PendingCounts /\ QueueSeen
  BY DEF Inv
<1>2. /\ pc[q] = "request" /\ Offer(q, walker[q]) /\ Advance(q, FALSE)
      /\ pending' = [pending EXCEPT ![q] = pending[q] + 1]
      /\ posted' = [posted EXCEPT ![q] = TRUE]
      /\ UNCHANGED <<fixedVars, poolVars, after, callerVars>>
  BY DEF RequestRunningHere
<1>3. walker[q] \in DOMAIN index
  BY <1>1 DEF CallersTyped
<1>4. /\ queued' \in [Queries -> Links] /\ next' \in [Queries -> [Links -> Links]]
      /\ completed' \in [Queries -> Nat] /\ completed' = [completed EXCEPT ![q] = completed[q] + 1]
  BY <1>1, <1>2, <1>3, OfferTyped
<1>5. /\ pc' = pc \/ pc' = [pc EXCEPT ![q] = after[q]]
      /\ walker' \in [Queries -> DOMAIN index] /\ allRequested' \in [Queries -> BOOLEAN]
      /\ \A r \in Queries \ {q} : walker'[r] = walker[r] /\ allRequested'[r] = allRequested[r]
      /\ \/ allRequested'[q] /\ walker'[q] = walker[q] /\ pc'[q] = after[q]
         \/ walker'[q] > walker[q] /\ allRequested'[q] = allRequested[q] /\ pc'[q] = pc[q]
  BY <1>1, <1>2, AdvanceTyped
<1>6. PoolTyped' /\ QueueSeen'
  BY <1>1, <1>2 DEF PoolTyped, QueueSeen, fixedVars, poolVars, Tasks
<1>7. CallersTyped' /\ ListsTyped'
  <2>1. pc' \in [Queries -> Places]
    BY <1>1, <1>5 DEF CallersTyped, Places
  <2>2. pending' \in [Queries -> Nat] /\ posted' \in [Queries -> BOOLEAN]
    BY <1>1, <1>2 DEF CallersTyped
  <2>. QED BY <1>1, <1>2, <1>4, <1>5, <2>1, <2>2 DEF CallersTyped, ListsTyped, fixedVars, callerVars
<1>8. PostedOnce'
  <2>1. walker[q] \in Nat /\ walker'[q] \in Nat /\ pending[q] \in Nat
    BY <1>1, <1>5, IndexTyped DEF CallersTyped, PoolTyped
  <2>2. pending[q] =< walker[q] - 1 /\ ~ allRequested[q] /\ after[q] \in {"idle", "taken"}
    BY <1>1, <1>2 DEF PostedOnce, CallersTyped
  <2>. QED BY <1>1, <1>2, <1>5, <2>1, <2>2 DEF PostedOnce, CallersTyped
<1>9. Waiting'
  BY <1>1, <1>2, <1>4, <1>5 DEF Waiting, CallersTyped
<1>10. PendingCounts'
  BY <1>1, <1>2, <1>4, PoolKept, TasksNat DEF PendingCounts, CallersTyped
<1>. QED BY <1>6, <1>7, <1>8, <1>9, <1>10 DEF Inv

\* A tile that is not loaded is passed over.
LEMMA RequestSkippingStep ==
  ASSUME Inv, NEW q \in Queries, RequestSkipping(q)
  PROVE  Inv'
<1>1. PoolTyped /\ CallersTyped /\ ListsTyped /\ PostedOnce /\ Waiting /\ PendingCounts /\ QueueSeen
  BY DEF Inv
<1>2. /\ pc[q] = "request" /\ Advance(q, TRUE)
      /\ UNCHANGED <<fixedVars, poolVars, after, posted, pending, listVars, callerVars>>
  BY DEF RequestSkipping
<1>3. /\ pc' = pc \/ pc' = [pc EXCEPT ![q] = after[q]]
      /\ walker' \in [Queries -> DOMAIN index] /\ allRequested' \in [Queries -> BOOLEAN]
      /\ \A r \in Queries \ {q} : walker'[r] = walker[r] /\ allRequested'[r] = allRequested[r]
      /\ \/ allRequested'[q] /\ walker'[q] = walker[q] /\ pc'[q] = after[q]
         \/ walker'[q] > walker[q] /\ allRequested'[q] = allRequested[q] /\ pc'[q] = pc[q]
  BY <1>1, <1>2, AdvanceTyped
<1>4. PoolTyped' /\ QueueSeen' /\ ListsTyped'
  BY <1>1, <1>2 DEF PoolTyped, QueueSeen, ListsTyped, fixedVars, poolVars, listVars, callerVars, Tasks
<1>5. CallersTyped'
  BY <1>1, <1>2, <1>3 DEF CallersTyped, fixedVars, listVars, Places
<1>6. PostedOnce'
  <2>1. walker[q] \in Nat /\ walker'[q] \in Nat /\ pending[q] \in Nat
    BY <1>1, <1>3, IndexTyped DEF CallersTyped, PoolTyped
  <2>2. pending[q] =< walker[q] - 1 /\ ~ allRequested[q] /\ after[q] \in {"idle", "taken"}
    BY <1>1, <1>2 DEF PostedOnce, CallersTyped
  <2>. QED BY <1>1, <1>2, <1>3, <2>1, <2>2 DEF PostedOnce, CallersTyped
<1>7. Waiting'
  BY <1>1, <1>2, <1>3 DEF Waiting, CallersTyped, listVars
<1>8. PendingCounts'
  BY <1>1, <1>2, PoolKept DEF PendingCounts, listVars
<1>. QED BY <1>4, <1>5, <1>6, <1>7, <1>8 DEF Inv

-----------------------------------------------------------------------------
(* The callers take results *)

\* A caller that goes somewhere else, with nothing changed that the pool's
\* workers share with it.
LEMMA CallerGoes ==
  ASSUME Inv, NEW q \in Queries, NEW place \in Places, pc' = [pc EXCEPT ![q] = place],
         UNCHANGED <<fixedVars, poolVars, after, walkVars, pending, listVars>>, ListsTyped',
         place \in {"none", "request"} => ~ allRequested[q],
         place \in {"waiting", "waitingToDestroy"} => completed[q] = 0 /\ pending[q] > 0,
         place \in {"none", "destroyed"} => pending[q] = 0
  PROVE  Inv'
<1>1. PoolTyped /\ CallersTyped /\ PostedOnce /\ Waiting /\ PendingCounts /\ QueueSeen
  BY DEF Inv
<1>2. PoolTyped' /\ QueueSeen'
  BY <1>1 DEF PoolTyped, QueueSeen, fixedVars, poolVars, Tasks
<1>3. CallersTyped'
  BY <1>1 DEF CallersTyped, fixedVars, walkVars, listVars
<1>4. PostedOnce' /\ Waiting'
  BY <1>1 DEF PostedOnce, Waiting, CallersTyped, walkVars, listVars
<1>5. PendingCounts'
  BY <1>1, PoolKept DEF PendingCounts, listVars
<1>. QED BY <1>2, <1>3, <1>4, <1>5 DEF Inv

\* take() gives the caller all that is completed and leaves the tasks pending.
LEMMA TakeAllCounts ==
  ASSUME Inv, NEW q \in Queries, TakeAll(q), UNCHANGED poolVars
  PROVE  /\ queued' \in [Queries -> Links] /\ next' \in [Queries -> [Links -> Links]]
         /\ completed' \in [Queries -> Nat] /\ completed' = [completed EXCEPT ![q] = 0]
         /\ pending' \in [Queries -> Nat]
         /\ \A r \in Queries \ {q} : pending'[r] = pending[r]
         /\ pending'[q] =< pending[q]
         /\ PendingCounts'
<1>1. /\ ListsTyped /\ CallersTyped /\ PendingCounts /\ \A r : TasksOf(r) \in Nat
      /\ \A r : TasksOf(r)' = TasksOf(r)
  BY TasksNat, PoolKept DEF Inv
<1>2. /\ next' = [next EXCEPT ![q] = [next[q] EXCEPT ![queued[q]] = EMPTY]]
      /\ queued' = [queued EXCEPT ![q] = EMPTY]
      /\ pending' = [pending EXCEPT ![q] = pending[q] - completed[q]]
      /\ completed' = [completed EXCEPT ![q] = 0]
  BY DEF TakeAll
<1>3. EMPTY \in Links /\ [next[q] EXCEPT ![queued[q]] = EMPTY] \in [Links -> Links]
  BY <1>1 DEF Links, ListsTyped
<1>4. pending[q] = TasksOf(q) + completed[q] /\ pending[q] \in Nat /\ completed[q] \in Nat
  BY <1>1 DEF PendingCounts, CallersTyped
<1>5. pending[q] - completed[q] = TasksOf(q) /\ TasksOf(q) =< pending[q]
  BY <1>1, <1>4
<1>6. queued' \in [Queries -> Links] /\ next' \in [Queries -> [Links -> Links]]
  BY <1>1, <1>2, <1>3 DEF ListsTyped
<1>7. /\ completed' \in [Queries -> Nat] /\ pending' \in [Queries -> Nat]
      /\ \A r \in Queries \ {q} : pending'[r] = pending[r] /\ completed'[r] = completed[r]
      /\ pending'[q] = TasksOf(q) /\ completed'[q] = 0
  BY <1>1, <1>2, <1>5 DEF CallersTyped
<1>8. PendingCounts'
  BY <1>1, <1>7 DEF PendingCounts
<1>. QED BY <1>2, <1>5, <1>6, <1>7, <1>8

\* The caller takes the results and asks for more tiles.
LEMMA TakeStep ==
  ASSUME Inv, NEW q \in Queries, Take(q)
  PROVE  Inv'
<1>1. PoolTyped /\ CallersTyped /\ ListsTyped /\ PostedOnce /\ Waiting /\ QueueSeen
  BY DEF Inv
<1>2. /\ pc[q] = "drain" /\ TakeAll(q)
      /\ taken' = [taken EXCEPT ![q] = next[q][queued[q]]]
      /\ \/ pc' = [pc EXCEPT ![q] = "taken"] /\ after' = after /\ posted' = posted
         \/ /\ ~ allRequested[q] /\ pc' = [pc EXCEPT ![q] = "request"]
            /\ after' = [after EXCEPT ![q] = "taken"] /\ posted' = [posted EXCEPT ![q] = FALSE]
      /\ UNCHANGED <<fixedVars, poolVars, walker, allRequested, current, delivered, freed>>
  BY DEF Take
<1>3. /\ queued' \in [Queries -> Links] /\ next' \in [Queries -> [Links -> Links]]
      /\ completed' \in [Queries -> Nat] /\ completed' = [completed EXCEPT ![q] = 0]
      /\ pending' \in [Queries -> Nat]
      /\ \A r \in Queries \ {q} : pending'[r] = pending[r]
      /\ pending'[q] =< pending[q]
      /\ PendingCounts'
  BY <1>2, TakeAllCounts
<1>4. PoolTyped' /\ QueueSeen'
  BY <1>1, <1>2 DEF PoolTyped, QueueSeen, fixedVars, poolVars, Tasks
<1>5. ListsTyped'
  BY <1>1, <1>2, <1>3 DEF ListsTyped
<1>6. CallersTyped'
  <2>1. /\ pc' \in [Queries -> Places] /\ after' \in [Queries -> {"idle", "taken"}]
        /\ posted' \in [Queries -> BOOLEAN]
    BY <1>1, <1>2 DEF CallersTyped, Places
  <2>. QED BY <1>1, <1>2, <1>3, <2>1 DEF CallersTyped, fixedVars
<1>7. PostedOnce'
  <2>1. \A r \in Queries : /\ walker[r] \in Nat /\ pending[r] \in Nat
                           /\ pending'[r] \in Nat /\ pending'[r] =< pending[r]
    <3>. TAKE r \in Queries
    <3>1. walker[r] \in Nat /\ pending[r] \in Nat /\ pending'[r] \in Nat
      BY <1>1, <1>3, IndexTyped DEF CallersTyped, PoolTyped
    <3>2. CASE r = q
      BY <1>3, <3>1, <3>2
    <3>3. CASE r # q
      <4>1. pending'[r] = pending[r]
        BY <1>3, <3>3
      <4>. QED BY <3>1, <4>1
    <3>. QED BY <3>2, <3>3
  <2>2. \A r \in Queries : pc'[r] \in {"none", "request"} => ~ allRequested[r]
    BY <1>1, <1>2 DEF PostedOnce, CallersTyped
  <2>. QED BY <1>1, <1>2, <2>1, <2>2 DEF PostedOnce
<1>8. Waiting'
  BY <1>1, <1>2, <1>3 DEF Waiting, CallersTyped
<1>. QED BY <1>3, <1>4, <1>5, <1>6, <1>7, <1>8 DEF Inv

\* The destructor takes and deletes them.
LEMMA DestroyTakingStep ==
  ASSUME Inv, NEW q \in Queries, DestroyTaking(q)
  PROVE  Inv'
<1>1. PoolTyped /\ CallersTyped /\ ListsTyped /\ PostedOnce /\ Waiting /\ QueueSeen
  BY DEF Inv
<1>2. /\ pc[q] = "destroy" /\ TakeAll(q)
      /\ UNCHANGED <<fixedVars, poolVars, pc, after, walkVars, current, taken, delivered>>
  BY DEF DestroyTaking
<1>3. /\ queued' \in [Queries -> Links] /\ next' \in [Queries -> [Links -> Links]]
      /\ completed' \in [Queries -> Nat] /\ completed' = [completed EXCEPT ![q] = 0]
      /\ pending' \in [Queries -> Nat]
      /\ \A r \in Queries \ {q} : pending'[r] = pending[r]
      /\ pending'[q] =< pending[q]
      /\ PendingCounts'
  BY <1>2, TakeAllCounts
<1>4. PoolTyped' /\ QueueSeen'
  BY <1>1, <1>2 DEF PoolTyped, QueueSeen, fixedVars, poolVars, Tasks
<1>5. ListsTyped' /\ CallersTyped'
  BY <1>1, <1>2, <1>3 DEF ListsTyped, CallersTyped, fixedVars, walkVars
<1>6. PostedOnce'
  <2>1. \A r \in Queries : /\ walker[r] \in Nat /\ pending[r] \in Nat
                           /\ pending'[r] \in Nat /\ pending'[r] =< pending[r]
    <3>. TAKE r \in Queries
    <3>1. walker[r] \in Nat /\ pending[r] \in Nat /\ pending'[r] \in Nat
      BY <1>1, <1>3, IndexTyped DEF CallersTyped, PoolTyped
    <3>2. CASE r = q
      BY <1>3, <3>1, <3>2
    <3>3. CASE r # q
      <4>1. pending'[r] = pending[r]
        BY <1>3, <3>3
      <4>. QED BY <3>1, <4>1
    <3>. QED BY <3>2, <3>3
  <2>. QED BY <1>1, <1>2, <2>1 DEF PostedOnce, walkVars
<1>7. Waiting'
  BY <1>1, <1>2, <1>3 DEF Waiting, CallersTyped
<1>. QED BY <1>3, <1>4, <1>5, <1>6, <1>7 DEF Inv

\* A query is made.
LEMMA ConstructStep ==
  ASSUME Inv, Construct
  PROVE  Inv'
<1>1. PICK q \in Queries :
         /\ pc[q] = "none" /\ pc' = [pc EXCEPT ![q] = "request"]
         /\ UNCHANGED <<fixedVars, poolVars, after, walkVars, pending, listVars, callerVars>>
  BY DEF Construct
<1>2. ListsTyped' /\ ~ allRequested[q]
  BY <1>1 DEF Inv, ListsTyped, PostedOnce, listVars, callerVars
<1>. QED BY <1>1, <1>2, CallerGoes DEF Places

\* What a caller gets is a bucket.
LEMMA DeliverTyped ==
  ASSUME ListsTyped, NEW q \in Queries, NEW b \in Links, b # EMPTY, Deliver(q, b)
  PROVE  current' \in [Queries -> Links] /\ delivered' \in [Queries -> Seq(Buckets)]
<1>1. b \in Buckets
  BY DEF Links
<1>2. delivered[q] \in Seq(Buckets) /\ Append(delivered[q], b) \in Seq(Buckets)
  BY <1>1 DEF ListsTyped
<1>. QED BY <1>2 DEF Deliver, ListsTyped

\* next() goes on to the next bucket or starts to wait.
LEMMA NextBucketStep ==
  ASSUME Inv, NEW q \in Queries, NextBucket(q)
  PROVE  Inv'
<1>. DEFINE b == next[q][current[q]]
<1>1. PoolTyped /\ CallersTyped /\ ListsTyped
  BY DEF Inv
<1>2. /\ pc[q] = "idle" /\ b \in Links /\ EMPTY \in Links
      /\ UNCHANGED <<fixedVars, poolVars, after, walkVars, pending, listVars, taken>>
  BY <1>1 DEF NextBucket, ListsTyped, Links
<1>3. CASE b = EMPTY
  <2>1. pc' = [pc EXCEPT ![q] = "drain"] /\ current' = [current EXCEPT ![q] = EMPTY]
        /\ delivered' = delivered
    BY <1>3 DEF NextBucket
  <2>2. ListsTyped'
    BY <1>1, <1>2, <2>1 DEF ListsTyped, listVars
  <2>. QED BY <1>2, <2>1, <2>2, CallerGoes DEF Places
<1>4. CASE b # EMPTY
  <2>1. pc' = pc /\ Deliver(q, b)
    BY <1>4 DEF NextBucket
  <2>2. ListsTyped'
    BY <1>1, <1>2, <1>4, <2>1, DeliverTyped DEF ListsTyped, listVars
  <2>3. pc' = [pc EXCEPT ![q] = "idle"]
    BY <1>1, <1>2, <2>1 DEF CallersTyped
  <2>. QED BY <1>2, <2>2, <2>3, CallerGoes DEF Places
<1>. QED BY <1>3, <1>4

\* It hands out the first bucket of what it took.
LEMMA UseTakenStep ==
  ASSUME Inv, NEW q \in Queries, UseTaken(q)
  PROVE  Inv'
<1>1. PoolTyped /\ CallersTyped /\ ListsTyped
  BY DEF Inv
<1>2. /\ pc[q] = "taken" /\ EMPTY \in Links
      /\ taken' = [taken EXCEPT ![q] = EMPTY] /\ taken[q] \in Links
      /\ UNCHANGED <<fixedVars, poolVars, after, walkVars, pending, listVars, freed>>
  BY <1>1 DEF UseTaken, Links, ListsTyped
<1>3. CASE taken[q] = EMPTY
  <2>1. pc' = [pc EXCEPT ![q] = "drain"] /\ UNCHANGED <<current, delivered>>
    BY <1>3 DEF UseTaken
  <2>2. ListsTyped'
    BY <1>1, <1>2, <2>1 DEF ListsTyped, listVars
  <2>. QED BY <1>2, <2>1, <2>2, CallerGoes DEF Places
<1>4. CASE taken[q] # EMPTY
  <2>1. pc' = [pc EXCEPT ![q] = "idle"] /\ Deliver(q, taken[q])
    BY <1>4 DEF UseTaken
  <2>2. ListsTyped'
    BY <1>1, <1>2, <1>4, <2>1, DeliverTyped DEF ListsTyped, listVars
  <2>. QED BY <1>2, <2>1, <2>2, CallerGoes DEF Places
<1>. QED BY <1>3, <1>4

\* Steps that only change where the caller is: it waits for a tile only while
\* one is pending, and leaves the destructor only when none is.
LEMMA CallerSteps ==
  ASSUME Inv, NEW q \in Queries, ReturnNull(q) \/ Wait(q) \/ Destroy(q) \/ DestroyDone(q)
  PROVE  Inv'
<1>1. UNCHANGED <<fixedVars, poolVars, after, walkVars, pending, listVars, current, taken, delivered>>
  BY DEF ReturnNull, Wait, Destroy, DestroyDone, callerVars
<1>2. ListsTyped'
  BY <1>1 DEF Inv, ListsTyped, listVars
<1>3. CASE ReturnNull(q)
  BY <1>1, <1>2, <1>3, CallerGoes DEF ReturnNull, Places
<1>4. CASE Wait(q)
  <2>1. \E place \in {"waiting", "waitingToDestroy"} : pc' = [pc EXCEPT ![q] = place]
    BY <1>4 DEF Wait
  <2>2. pending[q] > 0 /\ completed[q] = 0
    BY <1>4 DEF Wait
  <2>. QED BY <1>1, <1>2, <2>1, <2>2, CallerGoes DEF Places
<1>5. CASE Destroy(q)
  BY <1>1, <1>2, <1>5, CallerGoes DEF Destroy, Places
<1>6. CASE DestroyDone(q)
  BY <1>1, <1>2, <1>6, CallerGoes DEF DestroyDone, Places
<1>. QED BY <1>3, <1>4, <1>5, <1>6

-----------------------------------------------------------------------------
(* The theorems *)

\* Before the first query everything is empty.
LEMMA InitInv ==
  ASSUME Init
  PROVE  Inv
<1>1. index \in Indexes /\ queueSize \in Nat
  BY PoolAssumption DEF Init
<1>2. 1 \in DOMAIN index /\ EMPTY \in Links /\ <<>> \in Seq(Tasks) /\ <<>> \in Seq(Buckets)
  BY <1>1, IndexTyped DEF Links
<1>3. PoolTyped
  BY <1>1, <1>2 DEF Init, PoolTyped
<1>4. CallersTyped
  BY <1>2 DEF Init, CallersTyped, Places
<1>5. ListsTyped
  BY <1>2 DEF Init, ListsTyped
<1>6. PostedOnce /\ Waiting /\ QueueSeen
  BY DEF Init, PostedOnce, Waiting, QueueSeen
<1>7. \A q : TasksOf(q) = 0
  <2>. TAKE q
  <2>1. queue = <<>> /\ \A w \in Workers : Len(workers[w]) = 0
    BY DEF Init, Ready
  <2>2. InQueue(queue, q) = {} /\ InHands(workers, q) = {}
    BY <2>1 DEF InQueue, InHands
  <2>. QED BY <2>2, TasksAreCounted, FS_EmptySet DEF Count
<1>8. PendingCounts
  BY <1>7 DEF Init, PendingCounts
<1>. QED BY <1>3, <1>4, <1>5, <1>6, <1>8 DEF Inv

\* Every step keeps the inductive invariant.
LEMMA StepInv ==
  ASSUME Inv, [Next]_vars
  PROVE  Inv'
<1>1. CASE UNCHANGED vars
  <2>1. PoolTyped' /\ CallersTyped' /\ ListsTyped' /\ PostedOnce' /\ Waiting' /\ QueueSeen'
    BY <1>1 DEF Inv, PoolTyped, CallersTyped, ListsTyped, PostedOnce, Waiting, QueueSeen, vars,
                fixedVars, poolVars, walkVars, listVars, callerVars, Tasks
  <2>2. PendingCounts'
    BY <1>1, PoolKept DEF Inv, PendingCounts, vars, poolVars, listVars
  <2>. QED BY <2>1, <2>2 DEF Inv
<1>2. ASSUME NEW q \in Queries, InCall(q)
      PROVE  Inv'
  BY <1>2, RequestPostingStep, RequestStoppingStep, RequestRunningHereStep, RequestSkippingStep,
     TakeStep, UseTakenStep, DestroyTakingStep, CallerSteps DEF InCall, Request
<1>3. ASSUME NEW w \in Workers, Work(w)
      PROVE  Inv'
  BY <1>3, DequeueStep, SleepStep, RunTaskStep DEF Work
<1>. QED BY <1>1, <1>2, <1>3, ConstructStep, NextBucketStep, CallerSteps DEF Next, Finished

\* The invariant holds in every reachable state.
THEOREM TilesAlwaysCounted == Spec => []Inv
<1>1. Init => Inv
  BY InitInv
<1>2. Inv /\ [Next]_vars => Inv'
  BY StepInv
<1>. QED BY <1>1, <1>2, PTL DEF Spec

\* pendingTiles_ counts the tiles that are posted and not taken.
THEOREM PendingExact == Spec => []PendingCounts
<1>1. Inv => PendingCounts
  BY DEF Inv
<1>. QED BY <1>1, TilesAlwaysCounted, PTL

\* A caller that waits has a task that will wake it, and the tasks in the queue
\* have a worker that is awake.
THEOREM WakeupsKept == Spec => []NoWakeupLost
<1>1. Inv => NoWakeupLost
  <2>. SUFFICES ASSUME Inv PROVE NoWakeupLost
    OBVIOUS
  <2>1. PoolTyped /\ Waiting /\ PendingCounts /\ QueueSeen
    BY DEF Inv
  <2>2. \A q : TasksOf(q) \in Nat
    BY <2>1, TasksNat
  <2>. QED BY <2>1, <2>2 DEF Waiting, PendingCounts, QueueSeen, NoWakeupLost
<1>. QED BY <1>1, TilesAlwaysCounted, PTL

\* When the destructor has returned no worker has, or will get, a task of the
\* query: the query's memory is not used after it is freed.
DestroyedUntouched ==
  \A q \in Queries : pc[q] = "destroyed" => TasksOf(q) = 0 /\ completed[q] = 0

\* It is so in every reachable state.
THEOREM NoTaskOfDestroyed == Spec => []DestroyedUntouched
<1>1. Inv => DestroyedUntouched
  <2>. SUFFICES ASSUME Inv, NEW q \in Queries, pc[q] = "destroyed"
                PROVE  TasksOf(q) = 0 /\ completed[q] = 0
    BY DEF DestroyedUntouched
  <2>1. pending[q] = 0 /\ pending[q] = TasksOf(q) + completed[q] /\ completed[q] \in Nat
    BY DEF Inv, Waiting, PendingCounts, CallersTyped
  <2>2. TasksOf(q) \in Nat
    BY TasksNat DEF Inv
  <2>. QED BY <2>1, <2>2
<1>. QED BY <1>1, TilesAlwaysCounted, PTL

\* Type correctness; no query has more tiles pending than the index has, and
\* the queue never outgrows its size.
THEOREM TypesKept == Spec => []TypeOK
<1>1. Inv => TypeOK
  <2>. SUFFICES ASSUME Inv PROVE TypeOK
    OBVIOUS
  <2>1. PoolTyped /\ CallersTyped /\ ListsTyped /\ PostedOnce /\ PendingCounts
    BY DEF Inv
  <2>2. DOMAIN index \subseteq 1 .. MaxTiles
    BY <2>1, IndexTyped DEF PoolTyped
  <2>3. \A w \in Workers : Busy(w) => workers[w] \in Queries \X DOMAIN index
    <3>1. Len(Ready) # 2 /\ Len(Asleep) # 2
      BY DEF Ready, Asleep
    <3>. QED BY <2>1, <3>1, Zenon DEF PoolTyped, Busy, Tasks
  <2>4. ASSUME NEW q \in Queries
        PROVE  pending[q] \in 0 .. MaxTiles /\ completed[q] \in 0 .. MaxTiles
    <3>1. /\ walker[q] \in 1 .. MaxTiles /\ pending[q] \in Nat /\ completed[q] \in Nat
          /\ pending[q] =< walker[q] /\ TasksOf(q) \in Nat
          /\ pending[q] = TasksOf(q) + completed[q]
      BY <2>1, <2>2, TasksNat DEF CallersTyped, PostedOnce, PendingCounts
    <3>. QED BY <3>1, BoundsAssumption
  <2>5. \A q \in Queries : pc[q] \in Places /\ after[q] \in Places /\ walker[q] \in DOMAIN index
    BY <2>1 DEF CallersTyped, Places
  <2>. QED BY <2>1, <2>2, <2>3, <2>4, <2>5 DEF TypeOK, PoolTyped, ListsTyped
<1>. QED BY <1>1, TilesAlwaysCounted, PTL

-----------------------------------------------------------------------------
(* Lists of buckets *)

\* There are finitely many buckets.
LEMMA BucketsCounted == IsFiniteSet(Buckets) /\ BucketCount \in Nat
<1>1. IsFiniteSet(1 .. MaxTiles) /\ IsFiniteSet(1 .. MaxBuckets)
  BY BoundsAssumption, FS_Interval
<1>2. IsFiniteSet((1 .. MaxTiles) \X (1 .. MaxBuckets))
  BY <1>1, FS_Product
<1>. QED BY <1>2, FS_CardinalityType DEF Buckets, BucketCount

\* A sequence without repetitions is no longer than there are buckets.
OneToOne(s) == \A i, j \in 1 .. Len(s) : s[i] = s[j] => i = j
LEMMA NoLongerThanBuckets ==
  ASSUME NEW s \in Seq(Buckets), OneToOne(s)
  PROVE  Len(s) =< BucketCount
<1>1. Len(s) \in Nat /\ s \in [1 .. Len(s) -> Buckets]
  OBVIOUS
<1>2. s \in Injection(1 .. Len(s), Buckets)
  BY <1>1, Zenon DEF OneToOne, Injection, IsInjective
<1>3. Cardinality(1 .. Len(s)) = Len(s)
  BY <1>1, FS_Interval
<1>. QED BY <1>2, <1>3, BucketsCounted, FS_Injection DEF BucketCount

\* The function that ListFrom defines exists: it follows n links.
Follows(f, n, links, b) ==
  f = [k \in 0 .. n |-> IF k = 0 THEN {b} ELSE f[k - 1] \cup {links[c] : c \in f[k - 1]}]
LEMMA FollowsExists ==
  ASSUME NEW links, NEW b, NEW n \in Nat
  PROVE  \E f : Follows(f, n, links, b)
<1>. DEFINE S == {m \in Nat : ~ \E f : Follows(f, m, links, b)}
<1>. SUFFICES ASSUME S # {} PROVE FALSE
  OBVIOUS
<1>1. PICK m \in S : \A k \in S : m =< k
  BY LeastNat
<1>2. CASE m = 0
  <2>1. Follows([k \in 0 .. 0 |-> {b}], 0, links, b)
    BY DEF Follows
  <2>. QED BY <1>1, <1>2, <2>1
<1>3. CASE m # 0
  <2>1. m \in Nat /\ m - 1 \in Nat /\ m - 1 \notin S
    BY <1>1, <1>3
  <2>2. PICK f : Follows(f, m - 1, links, b)
    BY <2>1
  <2>. DEFINE g == [k \in 0 .. m |-> IF k = m THEN f[m - 1] \cup {links[c] : c \in f[m - 1]} ELSE f[k]]
  <2>3. \A k \in 0 .. m : g[k] = IF k = 0 THEN {b} ELSE g[k - 1] \cup {links[c] : c \in g[k - 1]}
    <3>. TAKE k \in 0 .. m
    <3>1. CASE k = m
      <4>1. g[k - 1] = f[m - 1] /\ g[k] = f[m - 1] \cup {links[c] : c \in f[m - 1]}
        BY <2>1, <3>1
      <4>. QED BY <1>3, <3>1, <4>1
    <3>2. CASE k # m
      <4>1. k \in 0 .. m - 1 /\ g[k] = f[k] /\ (k # 0 => g[k - 1] = f[k - 1])
        BY <2>1, <3>2
      <4>2. f[k] = IF k = 0 THEN {b} ELSE f[k - 1] \cup {links[c] : c \in f[k - 1]}
        BY <2>2, <4>1 DEF Follows
      <4>. QED BY <4>1, <4>2
    <3>. QED BY <3>1, <3>2
  <2>4. Follows(g, m, links, b)
    <3>. DEFINE h == [k \in 0 .. m |-> IF k = 0 THEN {b} ELSE g[k - 1] \cup {links[c] : c \in g[k - 1]}]
    <3>1. \A k \in 0 .. m : g[k] = h[k]
      BY <2>3
    <3>2. g = h
      <4>. HIDE DEF g, h
      <4>1. DOMAIN g = 0 .. m /\ DOMAIN h = 0 .. m /\ g = [k \in 0 .. m |-> g[k]] /\ h = [k \in 0 .. m |-> h[k]]
        BY DEF g, h
      <4>. QED BY <3>1, <4>1
    <3>. QED BY <3>2 DEF Follows
  <2>. QED BY <1>1, <2>1, <2>4
<1>. QED BY <1>2, <1>3

\* ListFrom is what is found by following links once per bucket.
Lists(f, links, b) ==
  /\ ListFrom(links, b) = f[BucketCount] \ {EMPTY}
  /\ f[0] = {b}
  /\ \A n \in 1 .. BucketCount : f[n] = f[n - 1] \cup {links[c] : c \in f[n - 1]}
LEMMA ListFollows == \A links, b : \E f : Lists(f, links, b)
<1>. TAKE links, b
<1>. DEFINE F(f) == f = [n \in 0 .. BucketCount |->
                          IF n = 0 THEN {b} ELSE f[n - 1] \cup {links[c] : c \in f[n - 1]}]
            f == CHOOSE f : F(f)
<1>1. BucketCount \in Nat
  BY BucketsCounted
<1>2. F(f)
  <2>1. \E g : Follows(g, BucketCount, links, b)
    BY <1>1, FollowsExists
  <2>2. \E g : F(g)
    BY <2>1 DEF Follows
  <2>. QED BY <2>2, Zenon
<1>3. ListFrom(links, b) = f[BucketCount] \ {EMPTY}
  BY DEF ListFrom
<1>. HIDE DEF f
<1>4. f[0] = {b} /\ \A n \in 1 .. BucketCount : f[n] = f[n - 1] \cup {links[c] : c \in f[n - 1]}
  BY <1>1, <1>2
<1>. QED BY <1>3, <1>4 DEF Lists

\* A list stays within a set that links do not lead out of.
LEMMA ListWithin ==
  ASSUME NEW links, NEW S, NEW b \in S, \A c \in S : links[c] \in S
  PROVE  ListFrom(links, b) \subseteq S \ {EMPTY}
<1>0. PICK f : Lists(f, links, b)
  BY ListFollows
<1>1. /\ ListFrom(links, b) = f[BucketCount] \ {EMPTY}
      /\ f[0] = {b}
      /\ \A n \in 1 .. BucketCount : f[n] = f[n - 1] \cup {links[c] : c \in f[n - 1]}
  BY <1>0 DEF Lists
<1>. DEFINE Out == {n \in 0 .. BucketCount : ~ (f[n] \subseteq S)}
<1>2. Out = {}
  <2>. SUFFICES ASSUME Out # {} PROVE FALSE
    OBVIOUS
  <2>. Out \subseteq Nat
    BY BucketsCounted
  <2>1. PICK m \in Out : \A k \in Out : m =< k
    <3>. HIDE DEF Out
    <3>. QED BY LeastNat
  <2>2. m # 0
    BY <1>1, <2>1
  <2>3. m \in 1 .. BucketCount /\ m - 1 \in 0 .. BucketCount /\ m - 1 \notin Out
    BY <2>1, <2>2, BucketsCounted
  <2>4. f[m - 1] \subseteq S /\ f[m] = f[m - 1] \cup {links[c] : c \in f[m - 1]}
    BY <1>1, <2>3
  <2>. QED BY <2>1, <2>4
<1>3. BucketCount \in 0 .. BucketCount
  BY BucketsCounted
<1>. QED BY <1>1, <1>2, <1>3

\* It has all that linked buckets lead to.
LEMMA ListReaches ==
  ASSUME NEW links, NEW s \in Seq(Buckets), OneToOne(s), NEW lo \in 1 .. Len(s), NEW hi \in 1 .. Len(s),
         \A i \in lo .. hi - 1 : links[s[i]] = s[i + 1]
  PROVE  \A i \in lo .. hi : s[i] \in ListFrom(links, s[lo])
<1>0. PICK f : Lists(f, links, s[lo])
  BY ListFollows
<1>1. /\ ListFrom(links, s[lo]) = f[BucketCount] \ {EMPTY}
      /\ f[0] = {s[lo]}
      /\ \A n \in 1 .. BucketCount : f[n] = f[n - 1] \cup {links[c] : c \in f[n - 1]}
  BY <1>0 DEF Lists
<1>2. Len(s) \in Nat /\ BucketCount \in Nat /\ Len(s) =< BucketCount
  BY BucketsCounted, NoLongerThanBuckets
<1>. DEFINE Missed == {n \in 0 .. BucketCount : \E i \in lo .. hi : i - lo =< n /\ s[i] \notin f[n]}
<1>3. Missed = {}
  <2>. SUFFICES ASSUME Missed # {} PROVE FALSE
    OBVIOUS
  <2>. Missed \subseteq Nat
    BY <1>2
  <2>1. PICK m \in Missed : \A k \in Missed : m =< k
    <3>. HIDE DEF Missed
    <3>. QED BY LeastNat
  <2>2. PICK i \in lo .. hi : i - lo =< m /\ s[i] \notin f[m]
    BY <2>1
  <2>3. m # 0
    <3>1. m = 0 => i = lo
      BY <2>2
    <3>. QED BY <1>1, <2>2, <3>1
  <2>4. m \in 1 .. BucketCount /\ m - 1 \in 0 .. BucketCount /\ m - 1 \notin Missed
    BY <1>2, <2>1, <2>3
  <2>5. f[m] = f[m - 1] \cup {links[c] : c \in f[m - 1]}
    BY <1>1, <2>4
  <2>6. CASE i = lo
    <3>1. i - lo =< m - 1
      BY <2>4, <2>6
    <3>. QED BY <2>2, <2>4, <2>5, <3>1
  <2>7. CASE i # lo
    <3>1. i - 1 \in lo .. hi /\ i - 1 \in lo .. hi - 1 /\ (i - 1) - lo =< m - 1 /\ (i - 1) + 1 = i
      BY <2>2, <2>4, <2>7
    <3>2. s[i - 1] \in f[m - 1]
      BY <2>4, <3>1
    <3>3. links[s[i - 1]] = s[i]
      BY <3>1
    <3>. QED BY <2>2, <2>5, <3>2, <3>3
  <2>. QED BY <2>6, <2>7
<1>4. \A i \in lo .. hi : i - lo =< BucketCount /\ s[i] # EMPTY
  <2>. TAKE i \in lo .. hi
  <2>1. i \in 1 .. Len(s) /\ s[i] \in Buckets
    BY <1>2
  <2>2. EMPTY \notin Buckets
    BY DEF EMPTY, Buckets
  <2>. QED BY <1>2, <2>1, <2>2
<1>5. BucketCount \in 0 .. BucketCount
  BY <1>2
<1>. QED BY <1>1, <1>3, <1>4, <1>5

-----------------------------------------------------------------------------
(* Tiles that have been scanned *)

\* What is below a tile that is not loaded is skipped with it.
WalkInv ==
  \A q \in Queries : ~ allRequested[q] =>
    \A j \in 1 .. walker[q] - 1 :
      ~ index[j].loaded => \E k \in j + 1 .. walker[q] : index[k].depth =< index[j].depth

\* Each task is in one place.
TaskOnce(s, ws) ==
  /\ \A i, j \in 1 .. Len(s) : s[i] = s[j] => i = j
  /\ \A v, w \in Workers : ws[v] \in Tasks /\ ws[v] = ws[w] => v = w
  /\ \A i \in 1 .. Len(s), w \in Workers : s[i] # ws[w]

\* The tiles of q that a scan is still to find the results of.
Outstanding(s, ws, q) ==
  {t \in DOMAIN index : \/ \E i \in 1 .. Len(s) : s[i] = <<q, t>>
                        \/ \E w \in Workers : ws[w] = <<q, t>>}

\* The tiles that a walk has requested, and those of them that are scanned.
Before(all, at) == {t \in DOMAIN index : Reachable(t) /\ (all \/ t < at)}
Requested(q) == Before(allRequested[q], walker[q])
Scanned(q) == Requested(q) \ Outstanding(queue, workers, q)

TileInv ==
  /\ WalkInv
  /\ TaskOnce(queue, workers)
  /\ \A q \in Queries : Outstanding(queue, workers, q) \subseteq Requested(q)

\* The tiles are numbered without a gap.
LEMMA TilesNumbered ==
  ASSUME index \in Indexes
  PROVE  \E n \in Nat : /\ DOMAIN index = 1 .. n
                        /\ \A t \in 1 .. n : index[t].depth \in Nat /\ index[t].loaded \in BOOLEAN
<1>1. PICK n \in 1 .. MaxTiles : index \in [1 .. n -> Entry]
  BY DEF Indexes
<1>2. \A t \in 1 .. n : index[t] \in Entry
  BY <1>1
<1>. QED BY <1>1, <1>2, BoundsAssumption DEF Entry

\* A step of the walk requests the tile it was at, if it is loaded.
LEMMA WalkRequests ==
  ASSUME index \in Indexes, CallersTyped, WalkInv, NEW q \in Queries, ~ allRequested[q],
         Advance(q, ~ Here(q).loaded), UNCHANGED index
  PROVE  /\ WalkInv'
         /\ walker[q] \notin Requested(q)
         /\ Requested(q)' = Requested(q) \cup IF Here(q).loaded THEN {walker[q]} ELSE {}
         /\ \A r \in Queries \ {q} : Requested(r)' = Requested(r)
<1>. DEFINE at == walker[q]
            skip == ~ Here(q).loaded
            rest == Following(q, skip)
            least == CHOOSE i \in rest : \A j \in rest : i =< j
<1>1. PICK n \in Nat : /\ DOMAIN index = 1 .. n
                       /\ \A t \in 1 .. n : index[t].depth \in Nat /\ index[t].loaded \in BOOLEAN
  BY TilesNumbered
<1>2. at \in 1 .. n /\ \A r \in Queries : walker[r] \in 1 .. n
  BY <1>1 DEF CallersTyped
<1>3. rest = {i \in 1 .. n : i > at /\ (skip => \E j \in at + 1 .. i : index[j].depth =< index[at].depth)}
  BY <1>1 DEF Following, Here
<1>4. \A r \in Queries : Requested(r)' = Before(allRequested'[r], walker'[r])
  BY DEF Requested, Before, Reachable
<1>5. at \notin Requested(q)
  BY <1>2 DEF Requested, Before
<1>6. ~ skip => Reachable(at)
  <2>1. \A j \in 1 .. at - 1 :
          ~ index[j].loaded => \E k \in j + 1 .. at : index[k].depth =< index[j].depth
    BY DEF WalkInv
  <2>. QED BY <2>1 DEF Reachable, Here
<1>7. ASSUME NEW i \in 1 .. n, i > at, i \notin rest
      PROVE  ~ Reachable(i)
  <2>1. ~ index[at].loaded /\ ~ \E j \in at + 1 .. i : index[j].depth =< index[at].depth
    BY <1>2, <1>3, <1>7 DEF Here
  <2>2. at \in 1 .. i - 1
    BY <1>2, <1>7
  <2>. QED BY <2>1, <2>2 DEF Reachable
<1>8. ~ skip \/ ~ Reachable(at)
  BY DEF Reachable, Here
<1>9. CASE rest = {}
  <2>1. allRequested' = [allRequested EXCEPT ![q] = TRUE] /\ walker' = walker
    BY <1>9 DEF Advance
  <2>2. \A r \in Queries \ {q} : allRequested'[r] = allRequested[r]
    BY <2>1 DEF CallersTyped
  <2>3. allRequested'[q]
    BY <2>1 DEF CallersTyped
  <2>4. WalkInv'
    <3>. SUFFICES ASSUME NEW r \in Queries, ~ allRequested'[r], NEW j \in 1 .. walker[r] - 1, ~ index[j].loaded
                  PROVE  \E k \in j + 1 .. walker[r] : index[k].depth =< index[j].depth
      BY <2>1 DEF WalkInv
    <3>1. r # q
      BY <2>3
    <3>. QED BY <2>2, <3>1 DEF WalkInv
  <2>5. Requested(q)' = {t \in 1 .. n : Reachable(t)}
    BY <1>1, <1>4, <2>3 DEF Before
  <2>6. Requested(q) = {t \in 1 .. n : Reachable(t) /\ t < at}
    BY <1>1 DEF Requested, Before
  <2>7. \A t \in 1 .. n : Reachable(t) => t < at \/ t = at
    BY <1>2, <1>7, <1>9
  <2>8. \A r \in Queries \ {q} : Requested(r)' = Requested(r)
    BY <1>4, <2>1, <2>2 DEF Requested
  <2>. QED BY <1>2, <1>5, <1>6, <1>8, <2>4, <2>5, <2>6, <2>7, <2>8
<1>10. CASE rest # {}
  <2>1. walker' = [walker EXCEPT ![q] = least] /\ allRequested' = allRequested
    BY <1>10 DEF Advance
  <2>2. least \in rest /\ \A j \in rest : least =< j
    <3>1. rest \subseteq Nat
      BY <1>3
    <3>2. \E i \in rest : \A j \in rest : i =< j
      <4>. HIDE DEF rest
      <4>. QED BY <1>10, <3>1, LeastNat
    <3>. HIDE DEF rest
    <3>. QED BY <3>2
  <2>. HIDE DEF least
  <2>3. least \in 1 .. n /\ least > at
    BY <1>3, <2>2
  <2>4. walker'[q] = least /\ \A r \in Queries \ {q} : walker'[r] = walker[r]
    BY <2>1 DEF CallersTyped
  <2>5. \A i \in 1 .. n : i > at /\ i < least => i \notin rest /\ ~ Reachable(i)
    BY <1>2, <1>7, <2>2, <2>3
  <2>6. \A j \in 1 .. least - 1 :
          ~ index[j].loaded => \E k \in j + 1 .. least : index[k].depth =< index[j].depth
    <3>. TAKE j \in 1 .. least - 1
    <3>. HAVE ~ index[j].loaded
    <3>1. CASE j < at
      <4>1. PICK k \in j + 1 .. at : index[k].depth =< index[j].depth
        BY <1>2, <3>1 DEF WalkInv
      <4>. QED BY <1>2, <2>3, <4>1
    <3>2. CASE j = at
      <4>1. PICK k \in at + 1 .. least : index[k].depth =< index[at].depth
        BY <1>3, <2>2, <3>2 DEF Here
      <4>. QED BY <3>2, <4>1
    <3>3. CASE j > at
      <4>1. j \in 1 .. n /\ j \notin rest
        BY <2>3, <2>5, <3>3
      <4>2. skip /\ ~ \E k \in at + 1 .. j : index[k].depth =< index[at].depth
        BY <1>3, <3>3, <4>1
      <4>3. PICK k \in at + 1 .. least : index[k].depth =< index[at].depth
        BY <1>3, <2>2, <4>2
      <4>4. k > j /\ k \in 1 .. n
        BY <1>2, <2>3, <3>3, <4>2, <4>3
      <4>5. ~ (index[j].depth =< index[at].depth) /\ index[j].depth \in Nat /\ index[k].depth \in Nat
            /\ index[at].depth \in Nat
        BY <1>1, <1>2, <3>3, <4>1, <4>2, <4>4
      <4>6. index[k].depth =< index[j].depth
        BY <4>3, <4>5
      <4>. QED BY <2>3, <4>3, <4>4, <4>6
    <3>. QED BY <1>2, <2>3, <3>1, <3>2, <3>3
  <2>7. WalkInv'
    <3>. SUFFICES ASSUME NEW r \in Queries, ~ allRequested[r], NEW j \in 1 .. walker'[r] - 1, ~ index[j].loaded
                  PROVE  \E k \in j + 1 .. walker'[r] : index[k].depth =< index[j].depth
      BY <2>1 DEF WalkInv
    <3>. QED BY <2>4, <2>6 DEF WalkInv
  <2>8. Requested(q)' = {t \in 1 .. n : Reachable(t) /\ t < least}
    BY <1>1, <1>4, <2>1, <2>4 DEF Before
  <2>9. Requested(q) = {t \in 1 .. n : Reachable(t) /\ t < at}
    BY <1>1 DEF Requested, Before
  <2>10. \A t \in 1 .. n : Reachable(t) => (t < least <=> t < at \/ t = at)
    BY <1>2, <2>3, <2>5
  <2>11. \A r \in Queries \ {q} : Requested(r)' = Requested(r)
    BY <1>4, <2>1, <2>4 DEF Requested
  <2>. QED BY <1>2, <1>5, <1>6, <1>8, <2>7, <2>8, <2>9, <2>10, <2>11
<1>. QED BY <1>9, <1>10

\* Ready and Asleep are no tasks.
LEMMA NoTask ==
  /\ \A t \in Tasks : t # Ready /\ t # Asleep
  /\ \A q, t : <<q, t>> # Ready /\ <<q, t>> # Asleep
<1>1. Len(Ready) = 0 /\ Len(Asleep) = 1 /\ \A t \in Tasks : Len(t) = 2
  BY DEF Ready, Asleep, Tasks
<1>2. \A q, t : Len(<<q, t>>) = 2
  OBVIOUS
<1>. QED BY <1>1, <1>2

\* A task that a worker takes stays outstanding.
LEMMA TaskTaken ==
  ASSUME NEW s \in Seq(Tasks), NEW ws \in [Workers -> Tasks \cup {Ready, Asleep}], TaskOnce(s, ws),
         NEW w \in Workers, ws[w] = Ready, s # <<>>
  PROVE  /\ TaskOnce(Tail(s), [ws EXCEPT ![w] = Head(s)])
         /\ \A q : Outstanding(Tail(s), [ws EXCEPT ![w] = Head(s)], q) = Outstanding(s, ws, q)
<1>. DEFINE us == [ws EXCEPT ![w] = Head(s)]
<1>1. /\ Len(s) \in Nat \ {0} /\ Head(s) = s[1] /\ Len(Tail(s)) = Len(s) - 1
      /\ \A i \in 1 .. Len(s) - 1 : Tail(s)[i] = s[i + 1] /\ i + 1 \in 1 .. Len(s)
      /\ us[w] = s[1] /\ \A v \in Workers : v # w => us[v] = ws[v]
  OBVIOUS
<1>2. 1 \in 1 .. Len(s) /\ s[1] \in Tasks
  BY <1>1
<1>4. TaskOnce(Tail(s), us)
  <2>. HIDE DEF us
  <2>1. \A i, j \in 1 .. Len(Tail(s)) : Tail(s)[i] = Tail(s)[j] => i = j
    <3>. TAKE i, j \in 1 .. Len(Tail(s))
    <3>. HAVE Tail(s)[i] = Tail(s)[j]
    <3>1. s[i + 1] = s[j + 1]
      BY <1>1
    <3>2. i + 1 = j + 1
      BY <1>1, <3>1 DEF TaskOnce
    <3>. QED BY <1>1, <3>2
  <2>2. \A u, v \in Workers : us[u] \in Tasks /\ us[u] = us[v] => u = v
    BY <1>1, <1>2 DEF TaskOnce
  <2>3. \A i \in 1 .. Len(Tail(s)), v \in Workers : Tail(s)[i] # us[v]
    <3>. TAKE i \in 1 .. Len(Tail(s)), v \in Workers
    <3>1. Tail(s)[i] = s[i + 1] /\ i + 1 \in 1 .. Len(s) /\ i + 1 # 1
      BY <1>1
    <3>. QED BY <1>1, <1>2, <3>1 DEF TaskOnce
  <2>. QED BY <2>1, <2>2, <2>3 DEF TaskOnce
<1>5. ASSUME NEW q, NEW t \in DOMAIN index
      PROVE  t \in Outstanding(Tail(s), us, q) <=> t \in Outstanding(s, ws, q)
  <2>. HIDE DEF us
  <2>1. (\E v \in Workers : us[v] = <<q, t>>) <=> s[1] = <<q, t>> \/ \E v \in Workers : ws[v] = <<q, t>>
    <3>1. ws[w] # <<q, t>>
      BY NoTask
    <3>. QED BY <1>1, <3>1
  <2>2. (\E i \in 1 .. Len(s) : s[i] = <<q, t>>) <=>
          s[1] = <<q, t>> \/ \E i \in 1 .. Len(Tail(s)) : Tail(s)[i] = <<q, t>>
    <3>1. ASSUME NEW i \in 1 .. Len(s), s[i] = <<q, t>>, i # 1
          PROVE  \E j \in 1 .. Len(Tail(s)) : Tail(s)[j] = <<q, t>>
      <4>1. i - 1 \in 1 .. Len(Tail(s)) /\ (i - 1) + 1 = i
        BY <1>1, <3>1
      <4>2. Tail(s)[i - 1] = s[i]
        BY <1>1, <4>1
      <4>. QED BY <3>1, <4>1, <4>2
    <3>2. ASSUME NEW i \in 1 .. Len(Tail(s)), Tail(s)[i] = <<q, t>>
          PROVE  \E j \in 1 .. Len(s) : s[j] = <<q, t>>
      BY <1>1, <3>2
    <3>. QED BY <1>2, <3>1, <3>2
  <2>. QED BY <2>1, <2>2 DEF Outstanding
<1>6. \A q : Outstanding(Tail(s), us, q) = Outstanding(s, ws, q)
  BY <1>5 DEF Outstanding
<1>. QED BY <1>4, <1>6

\* A task that is done is no longer outstanding: ws and us are what the
\* workers have in hand before and after worker w has done it.
Undone(s, ws, us, w) ==
  /\ TaskOnce(s, us)
  /\ \A q : Outstanding(s, us, q) = Outstanding(s, ws, q) \ {t \in DOMAIN index : ws[w] = <<q, t>>}
LEMMA TaskDone ==
  ASSUME NEW s \in Seq(Tasks), NEW ws \in [Workers -> Tasks \cup {Ready, Asleep}], TaskOnce(s, ws),
         NEW w \in Workers, NEW idle \in {Ready, Asleep}
  PROVE  Undone(s, ws, [ws EXCEPT ![w] = idle], w)
<1>. DEFINE us == [ws EXCEPT ![w] = idle]
<1>1. us[w] = idle /\ \A v \in Workers : v # w => us[v] = ws[v]
  OBVIOUS
<1>2. \A t \in Tasks : t # idle
  BY NoTask
<1>3. \A i \in 1 .. Len(s) : s[i] \in Tasks
  OBVIOUS
<1>4. TaskOnce(s, us)
  <2>. HIDE DEF us
  <2>. QED BY <1>1, <1>2, <1>3 DEF TaskOnce
<1>5. ASSUME NEW q, NEW t \in DOMAIN index
      PROVE  t \in Outstanding(s, us, q) <=> t \in Outstanding(s, ws, q) /\ ws[w] # <<q, t>>
  <2>. HIDE DEF us
  <2>1. idle # <<q, t>>
    BY NoTask
  <2>2. \A v \in Workers : us[v] = <<q, t>> <=> v # w /\ ws[v] = <<q, t>>
    BY <1>1, <2>1
  <2>3. ws[w] = <<q, t>> => /\ \A i \in 1 .. Len(s) : s[i] # <<q, t>>
                            /\ \A v \in Workers : v # w => ws[v] # <<q, t>>
    <3>. HAVE ws[w] = <<q, t>>
    <3>1. ws[w] \in Tasks
      BY NoTask
    <3>. QED BY <3>1 DEF TaskOnce
  <2>. QED BY <2>2, <2>3 DEF Outstanding
<1>6. \A q : Outstanding(s, us, q) = Outstanding(s, ws, q) \ {t \in DOMAIN index : ws[w] = <<q, t>>}
  BY <1>5 DEF Outstanding
<1>. QED BY <1>4, <1>6 DEF Undone

\* A task that is posted is.
LEMMA TaskPosted ==
  ASSUME NEW s \in Seq(Tasks), NEW ws \in [Workers -> Tasks \cup {Ready, Asleep}], TaskOnce(s, ws),
         NEW p \in Queries, NEW at \in DOMAIN index, at \notin Outstanding(s, ws, p)
  PROVE  /\ TaskOnce(Append(s, <<p, at>>), ws)
         /\ \A q : Outstanding(Append(s, <<p, at>>), ws, q) =
                     Outstanding(s, ws, q) \cup IF q = p THEN {at} ELSE {}
<1>. DEFINE e == <<p, at>>
            long == Append(s, e)
<1>0. e \in Tasks
  BY DEF Tasks
<1>1. /\ Len(s) \in Nat /\ Len(long) = Len(s) + 1
      /\ \A i \in 1 .. Len(s) : long[i] = s[i]
      /\ long[Len(s) + 1] = e
  BY <1>0
<1>2. /\ \A i \in 1 .. Len(s) : s[i] # e
      /\ \A w \in Workers : ws[w] # e
  BY DEF Outstanding
<1>. HIDE DEF long, e
<1>3. TaskOnce(long, ws)
  BY <1>1, <1>2 DEF TaskOnce
<1>4. \A x : (\E i \in 1 .. Len(long) : long[i] = x) <=> (e = x \/ \E i \in 1 .. Len(s) : s[i] = x)
  <2>. TAKE x
  <2>1. 1 .. Len(long) = (1 .. Len(s)) \cup {Len(s) + 1}
    BY <1>1
  <2>. QED BY <1>1, <2>1
<1>5. \A q, t : e = <<q, t>> <=> q = p /\ t = at
  BY DEF e
<1>6. \A q : Outstanding(long, ws, q) = Outstanding(s, ws, q) \cup IF q = p THEN {at} ELSE {}
  <2>. TAKE q
  <2>1. \A t \in DOMAIN index : t \in Outstanding(long, ws, q) <=>
          t \in Outstanding(s, ws, q) \/ (q = p /\ t = at)
    BY <1>4, <1>5 DEF Outstanding
  <2>2. Outstanding(long, ws, q) \subseteq DOMAIN index /\ Outstanding(s, ws, q) \subseteq DOMAIN index
    BY DEF Outstanding
  <2>. QED BY <2>1, <2>2
<1>. QED BY <1>3, <1>6 DEF long, e

\* A step that scans no tile, and one that scans tile t of q.
NoScan == \A r \in Queries : Scanned(r)' = Scanned(r)
Scans(q, t) ==
  /\ t \in DOMAIN index /\ t \notin Scanned(q)
  /\ Scanned(q)' = Scanned(q) \cup {t}
  /\ \A r \in Queries \ {q} : Scanned(r)' = Scanned(r)

\* What Requested and Scanned are after a step.
LEMMA After ==
  ASSUME UNCHANGED index
  PROVE  /\ \A r : Requested(r)' = Before(allRequested'[r], walker'[r])
         /\ \A r : Scanned(r)' = Requested(r)' \ Outstanding(queue', workers', r)
  BY DEF Requested, Before, Reachable, Scanned, Outstanding

\* Together they make the invariant of a step.
LEMMA TilesAfter ==
  ASSUME UNCHANGED index, WalkInv', TaskOnce(queue', workers'),
         \A r \in Queries : Outstanding(queue', workers', r) \subseteq Requested(r)'
  PROVE  TileInv'
<1>1. TaskOnce(queue, workers)' = TaskOnce(queue', workers')
  BY DEF TaskOnce, Tasks
<1>2. \A r : Outstanding(queue, workers, r)' = Outstanding(queue', workers', r)
  BY DEF Outstanding
<1>. QED BY <1>1, <1>2 DEF TileInv

\* Steps of a caller that neither posts nor walks.
LEMMA TilesSame ==
  ASSUME TileInv, UNCHANGED <<fixedVars, poolVars, walker, allRequested>>
  PROVE  TileInv' /\ NoScan
<1>1. index' = index /\ queue' = queue /\ workers' = workers /\ walker' = walker /\ allRequested' = allRequested
  BY DEF fixedVars, poolVars
<1>2. \A r : Requested(r)' = Requested(r)
  BY <1>1, After DEF Requested
<1>3. WalkInv'
  BY <1>1 DEF TileInv, WalkInv
<1>4. TileInv'
  BY <1>1, <1>2, <1>3, TilesAfter DEF TileInv
<1>5. NoScan
  BY <1>1, <1>2, After DEF NoScan, Scanned
<1>. QED BY <1>4, <1>5

\* A worker that takes a task or falls asleep.
LEMMA WorkerTiles ==
  ASSUME PoolTyped, TileInv, NEW w \in Workers, Dequeue(w) \/ Sleep(w)
  PROVE  TileInv' /\ NoScan
<1>1. /\ queue \in Seq(Tasks) /\ workers \in [Workers -> Tasks \cup {Ready, Asleep}]
      /\ TaskOnce(queue, workers) /\ WalkInv
      /\ \A r \in Queries : Outstanding(queue, workers, r) \subseteq Requested(r)
  BY DEF PoolTyped, TileInv
<1>2. index' = index /\ walker' = walker /\ allRequested' = allRequested /\ workers[w] = Ready
  BY DEF Dequeue, Sleep, fixedVars, walkVars
<1>3. \A r : Requested(r)' = Requested(r)
  BY <1>2, After DEF Requested
<1>4. WalkInv'
  BY <1>1, <1>2 DEF WalkInv
<1>5. /\ TaskOnce(queue', workers')
      /\ \A r : Outstanding(queue', workers', r) = Outstanding(queue, workers, r)
  <2>1. CASE Dequeue(w)
    <3>1. queue # <<>> /\ queue' = Tail(queue) /\ workers' = [workers EXCEPT ![w] = Head(queue)]
      BY <2>1 DEF Dequeue
    <3>. QED BY <1>1, <1>2, <3>1, TaskTaken
  <2>2. CASE Sleep(w)
    <3>1. queue' = queue /\ workers' = [workers EXCEPT ![w] = Asleep]
      BY <2>2 DEF Sleep
    <3>2. \A r : {t \in DOMAIN index : workers[w] = <<r, t>>} = {}
      BY <1>2, NoTask
    <3>3. Asleep \in {Ready, Asleep}
      OBVIOUS
    <3>4. Undone(queue, workers, [workers EXCEPT ![w] = Asleep], w)
      BY <1>1, <3>3, TaskDone
    <3>. QED BY <3>1, <3>2, <3>4 DEF Undone
  <2>. QED BY <2>1, <2>2
<1>6. TileInv'
  BY <1>1, <1>2, <1>3, <1>4, <1>5, TilesAfter
<1>7. NoScan
  BY <1>2, <1>3, <1>5, After DEF NoScan, Scanned
<1>. QED BY <1>6, <1>7

\* A worker that has scanned a tile.
LEMMA RunTaskTiles ==
  ASSUME PoolTyped, TileInv, NEW w \in Workers, RunTask(w)
  PROVE  /\ TileInv' /\ workers[w] \in Tasks
         /\ Scans(workers[w][1], workers[w][2])
<1>1. /\ queue \in Seq(Tasks) /\ workers \in [Workers -> Tasks \cup {Ready, Asleep}]
      /\ TaskOnce(queue, workers) /\ WalkInv
      /\ \A r \in Queries : Outstanding(queue, workers, r) \subseteq Requested(r)
  BY DEF PoolTyped, TileInv
<1>2. /\ index' = index /\ walker' = walker /\ allRequested' = allRequested /\ queue' = queue
      /\ workers' = [workers EXCEPT ![w] = Ready] /\ Len(workers[w]) = 2
  BY DEF RunTask, fixedVars, walkVars, Busy
<1>3. workers[w] \in Tasks
  <2>1. Len(Ready) # 2 /\ Len(Asleep) # 2
    BY DEF Ready, Asleep
  <2>. QED BY <1>1, <1>2, <2>1
<1>4. PICK q \in Queries, t \in DOMAIN index : workers[w] = <<q, t>>
  BY <1>3 DEF Tasks
<1>5. \A r : Requested(r)' = Requested(r)
  BY <1>2, After DEF Requested
<1>6. WalkInv'
  BY <1>1, <1>2 DEF WalkInv
<1>7. /\ TaskOnce(queue', workers')
      /\ \A r : Outstanding(queue', workers', r) =
                  Outstanding(queue, workers, r) \ {u \in DOMAIN index : workers[w] = <<r, u>>}
  <2>1. Ready \in {Ready, Asleep}
    OBVIOUS
  <2>2. Undone(queue, workers, [workers EXCEPT ![w] = Ready], w)
    BY <1>1, <2>1, TaskDone
  <2>. QED BY <1>2, <2>2 DEF Undone
<1>8. TileInv'
  <2>1. \A r \in Queries : Outstanding(queue', workers', r) \subseteq Requested(r)'
    BY <1>1, <1>5, <1>7
  <2>. QED BY <1>2, <1>6, <1>7, <2>1, TilesAfter
<1>9. t \in Outstanding(queue, workers, q) /\ t \in Requested(q)
  <2>1. t \in Outstanding(queue, workers, q)
    BY <1>4 DEF Outstanding
  <2>. QED BY <1>1, <2>1
<1>10. \A r : {u \in DOMAIN index : workers[w] = <<r, u>>} = IF r = q THEN {t} ELSE {}
  BY <1>4
<1>11. \A r : Scanned(r)' = Requested(r) \ (Outstanding(queue, workers, r) \ IF r = q THEN {t} ELSE {})
  <2>. TAKE r
  <2>1. Scanned(r)' = Requested(r)' \ Outstanding(queue', workers', r)
    BY <1>2, After
  <2>2. Outstanding(queue', workers', r) = Outstanding(queue, workers, r) \ IF r = q THEN {t} ELSE {}
    BY <1>7, <1>10
  <2>. QED BY <1>5, <2>1, <2>2
<1>12. Scans(q, t)
  BY <1>9, <1>11 DEF Scans, Scanned
<1>. QED BY <1>3, <1>4, <1>8, <1>12

\* A caller that walks: it posts the tile it is at, scans it, or skips it.
LEMMA WalkTiles ==
  ASSUME Inv, TileInv, NEW q \in Queries,
         RequestPosting(q) \/ RequestRunningHere(q) \/ RequestSkipping(q)
  PROVE  /\ TileInv'
         /\ RequestRunningHere(q) => Scans(q, walker[q])
         /\ ~ RequestRunningHere(q) => NoScan
<1>1. /\ queue \in Seq(Tasks) /\ workers \in [Workers -> Tasks \cup {Ready, Asleep}]
      /\ TaskOnce(queue, workers) /\ WalkInv
      /\ \A r \in Queries : Outstanding(queue, workers, r) \subseteq Requested(r)
  BY DEF Inv, PoolTyped, TileInv
<1>2. /\ index \in Indexes /\ CallersTyped /\ ~ allRequested[q] /\ index' = index
      /\ walker[q] \in DOMAIN index
  BY DEF Inv, PoolTyped, CallersTyped, PostedOnce, RequestPosting, RequestRunningHere, RequestSkipping, fixedVars
<1>3. Advance(q, ~ Here(q).loaded)
  BY DEF RequestPosting, RequestRunningHere, RequestSkipping
<1>4. /\ WalkInv'
      /\ walker[q] \notin Requested(q)
      /\ Requested(q)' = Requested(q) \cup IF Here(q).loaded THEN {walker[q]} ELSE {}
      /\ \A r \in Queries \ {q} : Requested(r)' = Requested(r)
  BY <1>1, <1>2, <1>3, WalkRequests
<1>5. walker[q] \notin Outstanding(queue, workers, q)
  BY <1>1, <1>4
<1>6. CASE RequestPosting(q)
  <2>1. PICK ws : /\ \/ ws = workers
                     \/ \E v \in Workers : workers[v] = Asleep /\ ws = [workers EXCEPT ![v] = Ready]
                  /\ Here(q).loaded /\ queue' = Append(queue, <<q, walker[q]>>) /\ workers' = ws
    BY <1>6 DEF RequestPosting, Post
  <2>2. ws \in [Workers -> Tasks \cup {Ready, Asleep}] /\ TaskOnce(queue, ws)
        /\ \A r : Outstanding(queue, ws, r) = Outstanding(queue, workers, r)
    <3>1. CASE ws = workers
      BY <1>1, <3>1
    <3>2. CASE ws # workers
      <4>1. PICK v \in Workers : workers[v] = Asleep /\ ws = [workers EXCEPT ![v] = Ready]
        BY <2>1, <3>2
      <4>2. \A r : {t \in DOMAIN index : workers[v] = <<r, t>>} = {}
        BY <4>1, NoTask
      <4>3. Ready \in {Ready, Asleep} /\ ws \in [Workers -> Tasks \cup {Ready, Asleep}]
        BY <1>1, <4>1
      <4>4. Undone(queue, workers, [workers EXCEPT ![v] = Ready], v)
        BY <1>1, <4>3, TaskDone
      <4>. QED BY <4>1, <4>2, <4>3, <4>4 DEF Undone
    <3>. QED BY <3>1, <3>2
  <2>3. /\ TaskOnce(queue', workers')
        /\ \A r : Outstanding(queue', workers', r) =
                    Outstanding(queue, workers, r) \cup IF r = q THEN {walker[q]} ELSE {}
    BY <1>1, <1>2, <1>5, <2>1, <2>2, TaskPosted
  <2>4. \A r \in Queries : Outstanding(queue', workers', r) \subseteq Requested(r)'
    <3>. TAKE r \in Queries
    <3>1. CASE r = q
      BY <1>1, <1>4, <2>1, <2>3, <3>1
    <3>2. CASE r # q
      BY <1>1, <1>4, <2>3, <3>2
    <3>. QED BY <3>1, <3>2
  <2>5. TileInv'
    BY <1>2, <1>4, <2>3, <2>4, TilesAfter
  <2>6. \A r \in Queries : Scanned(r)' = Scanned(r)
    <3>. TAKE r \in Queries
    <3>1. Scanned(r)' = Requested(r)' \ Outstanding(queue', workers', r)
      BY <1>2, After
    <3>2. CASE r = q
      BY <1>4, <2>1, <2>3, <3>1, <3>2 DEF Scanned
    <3>3. CASE r # q
      BY <1>4, <2>3, <3>1, <3>3 DEF Scanned
    <3>. QED BY <3>2, <3>3
  <2>7. ~ RequestRunningHere(q)
    BY <1>6 DEF RequestPosting, RequestRunningHere
  <2>. QED BY <2>5, <2>6, <2>7 DEF NoScan
<1>7. CASE ~ RequestPosting(q)
  <2>1. queue' = queue /\ workers' = workers
    BY <1>7 DEF RequestRunningHere, RequestSkipping, poolVars
  <2>2. \A r \in Queries : Outstanding(queue', workers', r) \subseteq Requested(r)'
    BY <1>1, <1>4, <2>1
  <2>3. TileInv'
    BY <1>1, <1>2, <1>4, <2>1, <2>2, TilesAfter
  <2>4. \A r : Scanned(r)' = Requested(r)' \ Outstanding(queue, workers, r)
    BY <1>2, <2>1, After
  <2>5. CASE RequestRunningHere(q)
    <3>1. Here(q).loaded
      BY <2>5 DEF RequestRunningHere
    <3>. QED BY <1>2, <1>4, <1>5, <2>3, <2>4, <2>5, <3>1 DEF Scans, Scanned
  <2>6. CASE ~ RequestRunningHere(q)
    <3>1. ~ Here(q).loaded
      BY <1>7, <2>6 DEF RequestSkipping
    <3>. QED BY <1>4, <2>3, <2>4, <2>6, <3>1 DEF NoScan, Scanned
  <2>. QED BY <2>5, <2>6
<1>. QED BY <1>6, <1>7

-----------------------------------------------------------------------------
(* The buckets of a query, in the order in which they were offered *)

\* Those of one tile come in the order in which they were found.
TileOrder(s) == \A i, j \in 1 .. Len(s) : s[i][1] = s[j][1] /\ s[i][2] < s[j][2] => i < j

\* Of the buckets s, the first ones have been handed out (those of hist), then
\* come, up to number b, those that take() has cut off and that are still to be
\* handed out, up to c those that the destructor has taken and deleted, and
\* the rest is a circle to whose last bucket last points.
CutPoints(s, hist, b, c) ==
  /\ b \in Nat /\ c \in Nat /\ Len(hist) =< b /\ b =< c /\ c =< Len(s)
  /\ \A i \in 1 .. Len(hist) : hist[i] = s[i]
Chain(s, a, b, links) ==
  \A i \in a + 1 .. b : links[s[i]] = IF i = b THEN EMPTY ELSE s[i + 1]
Ring(s, c, links, last) ==
  /\ \A i \in c + 1 .. Len(s) : links[s[i]] = IF i = Len(s) THEN s[c + 1] ELSE s[i + 1]
  /\ last = IF c < Len(s) THEN s[Len(s)] ELSE EMPTY
Outside(s, links, fr) ==
  /\ \A x \in Links : (\A i \in 1 .. Len(s) : s[i] # x) => links[x] = EMPTY
  /\ \A x \in Buckets : (\A i \in 1 .. Len(s) : s[i] # x) => fr[x] = 0
Held(s, a, b, links, cur, tk) ==
  /\ (IF tk # EMPTY THEN tk ELSE links[cur]) = IF a < b THEN s[a + 1] ELSE EMPTY
  /\ cur # EMPTY => a > 0 /\ cur = s[a]
Deleted(s, a, b, c, cur, fr, gone) ==
  /\ fr \in [Buckets -> Nat]
  /\ \A i \in 1 .. Len(s) :
       fr[s[i]] = IF gone = 1 \/ i < a \/ (i = a /\ cur = EMPTY) \/ (b < i /\ i =< c) THEN 1 ELSE 0
Arranged(s, hist, b, c, links, cur, tk, last, fr, gone) ==
  /\ s \in Seq(Buckets) /\ OneToOne(s) /\ TileOrder(s)
  /\ CutPoints(s, hist, b, c)
  /\ Chain(s, Len(hist), b, links)
  /\ Ring(s, c, links, last)
  /\ Outside(s, links, fr)
  /\ Held(s, Len(hist), b, links, cur, tk)
  /\ Deleted(s, Len(hist), b, c, cur, fr, gone)

\* EMPTY is not a bucket.
LEMMA EmptyNoBucket ==
  /\ EMPTY \in Links /\ EMPTY \notin Buckets /\ Buckets \subseteq Links
  /\ \A s \in Seq(Buckets) : \A i \in 1 .. Len(s) : s[i] \in Buckets /\ s[i] # EMPTY
<1>1. EMPTY \notin Buckets
  BY DEF EMPTY, Buckets
<1>. QED BY <1>1 DEF Links

\* Nothing follows EMPTY, so that with no bucket in hand nothing is left.
LEMMA NothingInHand ==
  ASSUME NEW s, NEW hist \in Seq(Buckets), NEW b, NEW c, NEW links, NEW last, NEW fr, NEW gone,
         Arranged(s, hist, b, c, links, EMPTY, EMPTY, last, fr, gone)
  PROVE  Len(hist) = b /\ links[EMPTY] = EMPTY
<1>1. s \in Seq(Buckets) /\ Len(s) \in Nat /\ CutPoints(s, hist, b, c) /\ Outside(s, links, fr)
      /\ Held(s, Len(hist), b, links, EMPTY, EMPTY)
  BY DEF Arranged
<1>2. links[EMPTY] = EMPTY
  BY <1>1, EmptyNoBucket DEF Outside
<1>3. Len(hist) \in Nat /\ (Len(hist) < b => Len(hist) + 1 \in 1 .. Len(s))
  BY <1>1 DEF CutPoints
<1>4. ~ (Len(hist) < b)
  <2>. SUFFICES ASSUME Len(hist) < b PROVE FALSE
    OBVIOUS
  <2>1. s[Len(hist) + 1] # EMPTY
    BY <1>1, <1>3, EmptyNoBucket
  <2>. QED BY <1>1, <1>2, <2>1 DEF Held
<1>. QED BY <1>1, <1>2, <1>3, <1>4 DEF CutPoints

\* take(): what was the circle is now the chain.
LEMMA TakenArranged ==
  ASSUME NEW s, NEW hist \in Seq(Buckets), NEW c, NEW links \in [Links -> Links], NEW last, NEW fr,
         Arranged(s, hist, c, c, links, EMPTY, EMPTY, last, fr, 0)
  PROVE  Arranged(s, hist, Len(s), Len(s), [links EXCEPT ![last] = EMPTY], EMPTY, links[last], EMPTY, fr, 0)
<1>. DEFINE cut == [links EXCEPT ![last] = EMPTY]
            n == Len(s)
<1>1. /\ s \in Seq(Buckets) /\ n \in Nat /\ OneToOne(s) /\ TileOrder(s)
      /\ CutPoints(s, hist, c, c) /\ Ring(s, c, links, last) /\ Outside(s, links, fr)
      /\ Deleted(s, Len(hist), c, c, EMPTY, fr, 0)
  <2>1. s \in Seq(Buckets)
    BY DEF Arranged
  <2>2. n \in Nat
    BY <2>1
  <2>. QED BY <2>1, <2>2, Zenon DEF Arranged
<1>2. Len(hist) = c /\ links[EMPTY] = EMPTY /\ c \in Nat /\ c =< n
  BY <1>1, NothingInHand DEF CutPoints
<1>3. \A i \in 1 .. n : s[i] \in Links /\ s[i] # EMPTY
  BY <1>1, EmptyNoBucket
<1>4. last \in Links /\ \A x \in Links : cut[x] = IF x = last THEN EMPTY ELSE links[x]
  BY <1>1, <1>2, <1>3, EmptyNoBucket DEF Ring
<1>. HIDE DEF cut
<1>5. CutPoints(s, hist, n, n)
  BY <1>1, <1>2 DEF CutPoints
<1>6. Chain(s, Len(hist), n, cut)
  <2>. SUFFICES ASSUME NEW i \in c + 1 .. n PROVE cut[s[i]] = IF i = n THEN EMPTY ELSE s[i + 1]
    BY <1>2 DEF Chain
  <2>1. i \in 1 .. n /\ n \in 1 .. n /\ c < n
    BY <1>1, <1>2
  <2>2. last = s[n]
    BY <1>1, <2>1 DEF Ring
  <2>3. s[i] = last <=> i = n
    BY <1>1, <2>1, <2>2 DEF OneToOne
  <2>4. links[s[i]] = IF i = n THEN s[c + 1] ELSE s[i + 1]
    BY <1>1 DEF Ring
  <2>. QED BY <1>3, <1>4, <2>1, <2>3, <2>4
<1>7. Ring(s, n, cut, EMPTY)
  BY <1>1 DEF Ring
<1>8. Outside(s, cut, fr)
  BY <1>1, <1>4 DEF Outside
<1>9. Held(s, Len(hist), n, cut, EMPTY, links[last])
  <2>1. CASE c < n
    <3>1. last = s[n] /\ links[s[n]] = s[c + 1] /\ s[c + 1] # EMPTY
      BY <1>1, <1>2, <1>3, <2>1 DEF Ring
    <3>. QED BY <1>2, <2>1, <3>1 DEF Held
  <2>2. CASE ~ (c < n)
    <3>1. last = EMPTY
      BY <1>1, <2>2 DEF Ring
    <3>. QED BY <1>2, <1>4, <2>2, <3>1, EmptyNoBucket DEF Held
  <2>. QED BY <2>1, <2>2
<1>10. Deleted(s, Len(hist), n, n, EMPTY, fr, 0)
  BY <1>1, <1>2 DEF Deleted
<1>. QED BY <1>1, <1>5, <1>6, <1>7, <1>8, <1>9, <1>10 DEF Arranged, cut

\* The deletion counts after the buckets bs have been deleted.
Freeing(fr, bs) == [x \in Buckets |-> IF x \in bs THEN fr[x] + 1 ELSE fr[x]]

\* A bucket of the sequence that is deleted is counted once more, others are not.
LEMMA FreeingCounts ==
  ASSUME NEW fr \in [Buckets -> Nat], NEW bs
  PROVE  /\ Freeing(fr, bs) \in [Buckets -> Nat]
         /\ \A x \in Buckets : Freeing(fr, bs)[x] = IF x \in bs THEN fr[x] + 1 ELSE fr[x]
  BY DEF Freeing

\* The bucket that is handed out next, if there is one.
InHand(links, cur, tk) == IF tk # EMPTY THEN tk ELSE links[cur]
NextIs(s, hist, x) == Len(hist) + 1 \in 1 .. Len(s) /\ x = s[Len(hist) + 1]

\* next() goes on to the next bucket and deletes the one before.
LEMMA DeliverArranged ==
  ASSUME NEW s, NEW hist \in Seq(Buckets), NEW b, NEW c, NEW links, NEW cur, NEW tk, NEW last, NEW fr,
         Arranged(s, hist, b, c, links, cur, tk, last, fr, 0),
         NEW x, x = InHand(links, cur, tk), x # EMPTY, tk # EMPTY => cur = EMPTY
  PROVE  /\ NextIs(s, hist, x)
         /\ Arranged(s, Append(hist, x), b, c, links, x, EMPTY, last, Freeing(fr, {cur} \ {EMPTY}), 0)
<1>. DEFINE n == Len(s)
            a == Len(hist)
            long == Append(hist, x)
            fr2 == Freeing(fr, {cur} \ {EMPTY})
<1>1. s \in Seq(Buckets) /\ n \in Nat /\ a \in Nat
  <2>1. s \in Seq(Buckets)
    BY DEF Arranged
  <2>. QED BY <2>1
<1>2. /\ OneToOne(s) /\ TileOrder(s) /\ CutPoints(s, hist, b, c) /\ Chain(s, a, b, links)
      /\ Ring(s, c, links, last) /\ Outside(s, links, fr) /\ Held(s, a, b, links, cur, tk)
      /\ Deleted(s, a, b, c, cur, fr, 0)
  BY Zenon DEF Arranged
<1>3. /\ b \in Nat /\ c \in Nat /\ a =< b /\ b =< c /\ c =< n
      /\ \A i \in 1 .. a : hist[i] = s[i]
  BY <1>2 DEF CutPoints
<1>4. a < b /\ x = s[a + 1] /\ a + 1 \in 1 .. n
  BY <1>1, <1>2, <1>3 DEF Held, InHand
<1>5. \A i \in 1 .. n : s[i] \in Buckets /\ s[i] # EMPTY
  BY <1>1, EmptyNoBucket
<1>6. Len(long) = a + 1 /\ \A i \in 1 .. a + 1 : long[i] = IF i = a + 1 THEN x ELSE hist[i]
  BY <1>4, <1>5
<1>7. /\ fr2 \in [Buckets -> Nat]
      /\ \A y \in Buckets : fr2[y] = IF y = cur /\ cur # EMPTY THEN fr[y] + 1 ELSE fr[y]
  <2>1. fr \in [Buckets -> Nat]
    BY <1>2 DEF Deleted
  <2>. QED BY <2>1, FreeingCounts
<1>. HIDE DEF long, fr2
<1>8. CutPoints(s, long, b, c)
  <2>1. \A i \in 1 .. a + 1 : long[i] = s[i]
    BY <1>1, <1>3, <1>4, <1>6
  <2>. QED BY <1>1, <1>3, <1>4, <1>6, <2>1 DEF CutPoints
<1>9. Chain(s, a + 1, b, links)
  BY <1>1, <1>2, <1>3 DEF Chain
<1>10. cur # EMPTY => a \in 1 .. n /\ cur = s[a]
  BY <1>1, <1>2, <1>3 DEF Held
<1>11. Outside(s, links, fr2)
  <2>1. ASSUME NEW y \in Buckets, \A i \in 1 .. n : s[i] # y
        PROVE  fr2[y] = 0
    BY <1>2, <1>7, <1>10, <2>1 DEF Outside
  <2>. QED BY <1>2, <2>1 DEF Outside
<1>12. Held(s, a + 1, b, links, x, EMPTY)
  <2>1. links[x] = IF a + 1 = b THEN EMPTY ELSE s[(a + 1) + 1]
    BY <1>1, <1>2, <1>3, <1>4 DEF Chain
  <2>. QED BY <1>1, <1>3, <1>4, <2>1 DEF Held
<1>13. Deleted(s, a + 1, b, c, x, fr2, 0)
  <2>. SUFFICES ASSUME NEW i \in 1 .. n
                PROVE  fr2[s[i]] = IF i < a + 1 \/ (b < i /\ i =< c) THEN 1 ELSE 0
    BY <1>4, <1>5, <1>7 DEF Deleted
  <2>1. fr[s[i]] = IF i < a \/ (i = a /\ cur = EMPTY) \/ (b < i /\ i =< c) THEN 1 ELSE 0
    BY <1>2 DEF Deleted
  <2>2. fr2[s[i]] = IF s[i] = cur /\ cur # EMPTY THEN fr[s[i]] + 1 ELSE fr[s[i]]
    BY <1>5, <1>7
  <2>3. cur # EMPTY => (s[i] = cur <=> i = a)
    BY <1>2, <1>10 DEF OneToOne
  <2>. QED BY <1>1, <1>3, <1>4, <2>1, <2>2, <2>3
<1>14. Arranged(s, long, b, c, links, x, EMPTY, last, fr2, 0)
  BY <1>1, <1>2, <1>6, <1>8, <1>9, <1>11, <1>12, <1>13, Zenon DEF Arranged
<1>. QED BY <1>4, <1>14 DEF NextIs, long, fr2

\* next() deletes the last bucket that it has.
LEMMA LastArranged ==
  ASSUME NEW s, NEW hist \in Seq(Buckets), NEW b, NEW c, NEW links, NEW cur, NEW last, NEW fr,
         Arranged(s, hist, b, c, links, cur, EMPTY, last, fr, 0), links[cur] = EMPTY
  PROVE  Arranged(s, hist, b, c, links, EMPTY, EMPTY, last, Freeing(fr, {cur} \ {EMPTY}), 0)
<1>. DEFINE n == Len(s)
            a == Len(hist)
            fr2 == Freeing(fr, {cur} \ {EMPTY})
<1>1. s \in Seq(Buckets) /\ n \in Nat /\ a \in Nat
  <2>1. s \in Seq(Buckets)
    BY DEF Arranged
  <2>. QED BY <2>1
<1>2. /\ OneToOne(s) /\ TileOrder(s) /\ CutPoints(s, hist, b, c) /\ Chain(s, a, b, links)
      /\ Ring(s, c, links, last) /\ Outside(s, links, fr) /\ Held(s, a, b, links, cur, EMPTY)
      /\ Deleted(s, a, b, c, cur, fr, 0)
  BY Zenon DEF Arranged
<1>3. b \in Nat /\ c \in Nat /\ a =< b /\ b =< c /\ c =< n
  BY <1>2 DEF CutPoints
<1>5. \A i \in 1 .. n : s[i] \in Buckets /\ s[i] # EMPTY
  BY <1>1, EmptyNoBucket
<1>7. /\ fr2 \in [Buckets -> Nat]
      /\ \A y \in Buckets : fr2[y] = IF y = cur /\ cur # EMPTY THEN fr[y] + 1 ELSE fr[y]
  <2>1. fr \in [Buckets -> Nat]
    BY <1>2 DEF Deleted
  <2>. QED BY <2>1, FreeingCounts
<1>. HIDE DEF fr2
<1>10. cur # EMPTY => a \in 1 .. n /\ cur = s[a]
  BY <1>1, <1>2, <1>3 DEF Held
<1>11. Outside(s, links, fr2)
  <2>1. ASSUME NEW y \in Buckets, \A i \in 1 .. n : s[i] # y
        PROVE  fr2[y] = 0
    BY <1>2, <1>7, <1>10, <2>1 DEF Outside
  <2>. QED BY <1>2, <2>1 DEF Outside
<1>12. Held(s, a, b, links, EMPTY, EMPTY)
  <2>1. links[EMPTY] = EMPTY
    BY <1>2, <1>5, EmptyNoBucket DEF Outside
  <2>. QED BY <1>2, <2>1 DEF Held
<1>13. Deleted(s, a, b, c, EMPTY, fr2, 0)
  <2>. SUFFICES ASSUME NEW i \in 1 .. n
                PROVE  fr2[s[i]] = IF i < a \/ i = a \/ (b < i /\ i =< c) THEN 1 ELSE 0
    BY <1>7 DEF Deleted
  <2>1. fr[s[i]] = IF i < a \/ (i = a /\ cur = EMPTY) \/ (b < i /\ i =< c) THEN 1 ELSE 0
    BY <1>2 DEF Deleted
  <2>2. fr2[s[i]] = IF s[i] = cur /\ cur # EMPTY THEN fr[s[i]] + 1 ELSE fr[s[i]]
    BY <1>5, <1>7
  <2>3. cur # EMPTY => (s[i] = cur <=> i = a)
    BY <1>2, <1>10 DEF OneToOne
  <2>. QED BY <1>1, <1>3, <2>1, <2>2, <2>3
<1>. QED BY <1>1, <1>2, <1>11, <1>12, <1>13, Zenon DEF Arranged, fr2

\* Buckets lo to hi of a sequence.
Stretch(s, lo, hi) == {s[i] : i \in lo .. hi}

\* The list that begins with bucket lo and ends with bucket hi.
LEMMA StretchList ==
  ASSUME NEW s \in Seq(Buckets), OneToOne(s), NEW lo \in 1 .. Len(s), NEW hi \in 1 .. Len(s), lo =< hi,
         NEW links, links[EMPTY] = EMPTY,
         \A i \in lo .. hi : links[s[i]] = IF i = hi THEN EMPTY ELSE s[i + 1]
  PROVE  ListFrom(links, s[lo]) = {s[i] : i \in lo .. hi}
<1>. DEFINE S == {s[i] : i \in lo .. hi} \cup {EMPTY}
<1>1. \A i \in lo .. hi : s[i] # EMPTY
  BY EmptyNoBucket
<1>2. s[lo] \in S /\ \A x \in S : links[x] \in S
  <2>1. lo \in lo .. hi
    OBVIOUS
  <2>2. ASSUME NEW i \in lo .. hi PROVE links[s[i]] \in S
    <3>1. i # hi => i + 1 \in lo .. hi
      OBVIOUS
    <3>. QED BY <3>1
  <2>. QED BY <2>1, <2>2
<1>3. ListFrom(links, s[lo]) \subseteq S \ {EMPTY}
  <2>. HIDE DEF S
  <2>. QED BY <1>2, ListWithin
<1>4. \A i \in lo .. hi - 1 : links[s[i]] = s[i + 1]
  OBVIOUS
<1>5. \A i \in lo .. hi : s[i] \in ListFrom(links, s[lo])
  BY <1>4, ListReaches
<1>. QED BY <1>1, <1>3, <1>5

\* Nothing is in the list that begins with EMPTY.
LEMMA EmptyList ==
  ASSUME NEW links, links[EMPTY] = EMPTY
  PROVE  ListFrom(links, EMPTY) = {}
<1>1. ListFrom(links, EMPTY) \subseteq {EMPTY} \ {EMPTY}
  BY ListWithin
<1>. QED BY <1>1

\* The buckets that the caller has in hand.
LEMMA CurrentList ==
  ASSUME NEW s \in Seq(Buckets), NEW hist \in Seq(Buckets), NEW b, NEW c, NEW links, NEW cur, NEW fr,
         OneToOne(s), CutPoints(s, hist, b, c), Chain(s, Len(hist), b, links), Outside(s, links, fr),
         Held(s, Len(hist), b, links, cur, EMPTY)
  PROVE  /\ cur = EMPTY => ListFrom(links, cur) = {}
         /\ cur # EMPTY => ListFrom(links, cur) = Stretch(s, Len(hist), b)
<1>. DEFINE a == Len(hist)
<1>1. Len(s) \in Nat /\ a \in Nat
  OBVIOUS
<1>2. /\ OneToOne(s) /\ CutPoints(s, hist, b, c) /\ Chain(s, a, b, links) /\ Outside(s, links, fr)
      /\ Held(s, a, b, links, cur, EMPTY)
  OBVIOUS
<1>3. b \in Nat /\ c \in Nat /\ a =< b /\ b =< Len(s)
  BY <1>1, <1>2 DEF CutPoints
<1>4. links[EMPTY] = EMPTY
  BY <1>1, <1>2, EmptyNoBucket DEF Outside
<1>5. CASE cur = EMPTY
  BY <1>4, <1>5, EmptyList
<1>6. CASE cur # EMPTY
  <2>1. a \in 1 .. Len(s) /\ b \in 1 .. Len(s) /\ cur = s[a] /\ links[cur] = IF a < b THEN s[a + 1] ELSE EMPTY
    BY <1>1, <1>2, <1>3, <1>6 DEF Held
  <2>2. \A i \in a .. b : links[s[i]] = IF i = b THEN EMPTY ELSE s[i + 1]
    <3>. TAKE i \in a .. b
    <3>1. CASE i = a
      BY <1>3, <2>1, <3>1
    <3>2. CASE i # a
      <4>1. i \in a + 1 .. b
        BY <1>1, <1>3, <3>2
      <4>. QED BY <1>2, <4>1 DEF Chain
    <3>. QED BY <3>1, <3>2
  <2>3. ListFrom(links, s[a]) = {s[i] : i \in a .. b}
    <3>. HIDE DEF a
    <3>. QED BY <1>1, <1>2, <1>3, <1>4, <2>1, <2>2, StretchList
  <2>. QED BY <1>6, <2>1, <2>3 DEF Stretch
<1>. QED BY <1>5, <1>6

\* The destructor takes the circle and deletes it.
LEMMA DestroyedRing ==
  ASSUME NEW s, NEW hist \in Seq(Buckets), NEW b, NEW c, NEW links \in [Links -> Links], NEW cur, NEW last, NEW fr,
         Arranged(s, hist, b, c, links, cur, EMPTY, last, fr, 0)
  PROVE  LET cut == [links EXCEPT ![last] = EMPTY]
         IN  Arranged(s, hist, b, Len(s), cut, cur, EMPTY, EMPTY, Freeing(fr, ListFrom(cut, links[last])), 0)
<1>. DEFINE n == Len(s)
            a == Len(hist)
            cut == [links EXCEPT ![last] = EMPTY]
            list == ListFrom(cut, links[last])
            fr2 == Freeing(fr, list)
<1>1. s \in Seq(Buckets) /\ n \in Nat /\ a \in Nat
  <2>1. s \in Seq(Buckets)
    BY DEF Arranged
  <2>. QED BY <2>1
<1>2. /\ OneToOne(s) /\ TileOrder(s) /\ CutPoints(s, hist, b, c) /\ Chain(s, a, b, links)
      /\ Ring(s, c, links, last) /\ Outside(s, links, fr) /\ Held(s, a, b, links, cur, EMPTY)
      /\ Deleted(s, a, b, c, cur, fr, 0)
  BY Zenon DEF Arranged
<1>3. /\ b \in Nat /\ c \in Nat /\ a =< b /\ b =< c /\ c =< n
      /\ \A i \in 1 .. a : hist[i] = s[i]
  BY <1>2 DEF CutPoints
<1>4. \A i \in 1 .. n : s[i] \in Buckets /\ s[i] \in Links /\ s[i] # EMPTY
  BY <1>1, EmptyNoBucket
<1>5. links[EMPTY] = EMPTY
  BY <1>2, <1>4, EmptyNoBucket DEF Outside
<1>6. /\ last \in Links /\ \A x \in Links : cut[x] = IF x = last THEN EMPTY ELSE links[x]
      /\ cut[EMPTY] = EMPTY
  <2>1. last \in Links
    BY <1>1, <1>2, <1>3, <1>4, EmptyNoBucket DEF Ring
  <2>. QED BY <1>5, <2>1, EmptyNoBucket
<1>. HIDE DEF cut
<1>7. \A i \in 1 .. n : s[i] = last <=> i = n /\ c < n
  BY <1>1, <1>2, <1>3, <1>4 DEF Ring, OneToOne
<1>8. list = {s[i] : i \in c + 1 .. n}
  <2>1. CASE c < n
    <3>1. c + 1 \in 1 .. n /\ n \in 1 .. n /\ c + 1 =< n
      BY <1>1, <1>3, <2>1
    <3>2. last = s[n] /\ links[s[n]] = s[c + 1]
      BY <1>2, <2>1, <3>1 DEF Ring
    <3>3. \A i \in c + 1 .. n : cut[s[i]] = IF i = n THEN EMPTY ELSE s[i + 1]
      <4>. TAKE i \in c + 1 .. n
      <4>1. i \in 1 .. n /\ links[s[i]] = IF i = n THEN s[c + 1] ELSE s[i + 1]
        BY <1>1, <1>2, <1>3 DEF Ring
      <4>. QED BY <1>4, <1>6, <1>7, <2>1, <4>1
    <3>4. ListFrom(cut, s[c + 1]) = {s[i] : i \in c + 1 .. n}
      <4>1. PICK lo \in 1 .. Len(s), hi \in 1 .. Len(s) : lo = c + 1 /\ hi = Len(s)
        BY <3>1
      <4>2. /\ lo =< hi
            /\ \A i \in lo .. hi : cut[s[i]] = IF i = hi THEN EMPTY ELSE s[i + 1]
        BY <3>1, <3>3, <4>1
      <4>3. ListFrom(cut, s[lo]) = {s[i] : i \in lo .. hi}
        BY <1>1, <1>2, <1>6, <4>2, StretchList
      <4>. QED BY <4>1, <4>3
    <3>. QED BY <3>2, <3>4
  <2>2. CASE ~ (c < n)
    <3>1. last = EMPTY /\ c = n
      BY <1>2, <1>3, <2>2 DEF Ring
    <3>2. ListFrom(cut, EMPTY) = {}
      BY <1>6, EmptyList
    <3>3. c + 1 .. n = {}
      BY <1>1, <3>1
    <3>. QED BY <1>5, <3>1, <3>2, <3>3
  <2>. QED BY <2>1, <2>2
<1>. HIDE DEF list
<1>9. /\ fr2 \in [Buckets -> Nat]
      /\ \A y \in Buckets : fr2[y] = IF y \in list THEN fr[y] + 1 ELSE fr[y]
  BY <1>2, FreeingCounts DEF Deleted
<1>. HIDE DEF fr2
<1>10. CutPoints(s, hist, b, n)
  BY <1>1, <1>3 DEF CutPoints
<1>11. Chain(s, a, b, cut)
  <2>. SUFFICES ASSUME NEW i \in a + 1 .. b PROVE cut[s[i]] = IF i = b THEN EMPTY ELSE s[i + 1]
    BY DEF Chain
  <2>1. i \in 1 .. n /\ ~ (i = n /\ c < n)
    BY <1>1, <1>3
  <2>2. cut[s[i]] = links[s[i]]
    BY <1>4, <1>6, <1>7, <2>1
  <2>. QED BY <1>2, <2>2 DEF Chain
<1>12. Ring(s, n, cut, EMPTY)
  BY <1>1 DEF Ring
<1>13. Outside(s, cut, fr2)
  <2>1. ASSUME NEW x \in Links, \A i \in 1 .. n : s[i] # x
        PROVE  cut[x] = EMPTY
    BY <1>2, <1>6, <2>1 DEF Outside
  <2>2. ASSUME NEW x \in Buckets, \A i \in 1 .. n : s[i] # x
        PROVE  fr2[x] = 0
    <3>1. x \notin list
      BY <1>1, <1>3, <1>8, <2>2
    <3>. QED BY <1>2, <1>9, <2>2, <3>1 DEF Outside
  <2>. QED BY <2>1, <2>2 DEF Outside
<1>14. Held(s, a, b, cut, cur, EMPTY)
  <2>1. cut[cur] = links[cur]
    <3>1. CASE cur = EMPTY
      BY <1>5, <1>6, <3>1
    <3>2. CASE cur # EMPTY
      <4>1. a \in 1 .. n /\ cur = s[a] /\ ~ (a = n /\ c < n)
        BY <1>1, <1>2, <1>3, <3>2 DEF Held
      <4>. QED BY <1>4, <1>6, <1>7, <4>1
    <3>. QED BY <3>1, <3>2
  <2>. QED BY <1>2, <2>1 DEF Held
<1>15. Deleted(s, a, b, n, cur, fr2, 0)
  <2>. SUFFICES ASSUME NEW i \in 1 .. n
                PROVE  fr2[s[i]] = IF i < a \/ (i = a /\ cur = EMPTY) \/ b < i THEN 1 ELSE 0
    BY <1>9 DEF Deleted
  <2>1. fr[s[i]] = IF i < a \/ (i = a /\ cur = EMPTY) \/ (b < i /\ i =< c) THEN 1 ELSE 0
    BY <1>2 DEF Deleted
  <2>2. s[i] \in list <=> i > c
    <3>1. s[i] \in list <=> \E j \in c + 1 .. n : s[i] = s[j]
      BY <1>8
    <3>2. \A j \in c + 1 .. n : j \in 1 .. n /\ (s[i] = s[j] => i = j)
      BY <1>1, <1>2, <1>3 DEF OneToOne
    <3>3. i > c <=> i \in c + 1 .. n
      BY <1>1, <1>3
    <3>. QED BY <1>1, <1>3, <3>1, <3>2, <3>3
  <2>. QED BY <1>1, <1>3, <1>4, <1>9, <2>1, <2>2
<1>16. Arranged(s, hist, b, n, cut, cur, EMPTY, EMPTY, fr2, 0)
  BY <1>1, <1>2, <1>10, <1>11, <1>12, <1>13, <1>14, <1>15, Zenon DEF Arranged
<1>. QED BY <1>16 DEF cut, list, fr2

\* The destructor ends by deleting what the caller had in hand.
LEMMA DestroyedChain ==
  ASSUME NEW s, NEW hist \in Seq(Buckets), NEW b, NEW links, NEW cur, NEW fr,
         Arranged(s, hist, b, Len(s), links, cur, EMPTY, EMPTY, fr, 0)
  PROVE  Arranged(s, hist, b, Len(s), links, cur, EMPTY, EMPTY, Freeing(fr, ListFrom(links, cur)), 1)
<1>. DEFINE n == Len(s)
            a == Len(hist)
            list == ListFrom(links, cur)
            fr2 == Freeing(fr, list)
<1>1. s \in Seq(Buckets) /\ n \in Nat /\ a \in Nat
  <2>1. s \in Seq(Buckets)
    BY DEF Arranged
  <2>. QED BY <2>1
<1>2. /\ OneToOne(s) /\ TileOrder(s) /\ CutPoints(s, hist, b, n) /\ Chain(s, a, b, links)
      /\ Ring(s, n, links, EMPTY) /\ Outside(s, links, fr) /\ Held(s, a, b, links, cur, EMPTY)
      /\ Deleted(s, a, b, n, cur, fr, 0)
  BY Zenon DEF Arranged
<1>3. b \in Nat /\ a =< b /\ b =< n
  BY <1>2 DEF CutPoints
<1>4. \A i \in 1 .. n : s[i] \in Buckets
  BY <1>1, EmptyNoBucket
<1>5. list = IF cur = EMPTY THEN {} ELSE {s[i] : i \in a .. b}
  <2>2. /\ cur = EMPTY => ListFrom(links, cur) = {}
        /\ cur # EMPTY => ListFrom(links, cur) = Stretch(s, Len(hist), b)
    BY <1>1, <1>2, CurrentList
  <2>. QED BY <2>2 DEF Stretch
<1>6. cur = EMPTY => a = b
  BY NothingInHand
<1>7. cur # EMPTY => a \in 1 .. n /\ b \in 1 .. n
  BY <1>1, <1>2, <1>3 DEF Held
<1>. HIDE DEF list
<1>9. /\ fr2 \in [Buckets -> Nat]
      /\ \A y \in Buckets : fr2[y] = IF y \in list THEN fr[y] + 1 ELSE fr[y]
  BY <1>2, FreeingCounts DEF Deleted
<1>. HIDE DEF fr2
<1>13. Outside(s, links, fr2)
  <2>2. ASSUME NEW x \in Buckets, \A i \in 1 .. n : s[i] # x
        PROVE  fr2[x] = 0
    <3>1. x \notin list
      BY <1>1, <1>3, <1>5, <1>7, <2>2
    <3>. QED BY <1>2, <1>9, <2>2, <3>1 DEF Outside
  <2>. QED BY <1>2, <2>2 DEF Outside
<1>15. Deleted(s, a, b, n, cur, fr2, 1)
  <2>. SUFFICES ASSUME NEW i \in 1 .. n PROVE fr2[s[i]] = 1
    BY <1>9 DEF Deleted
  <2>1. fr[s[i]] = IF i < a \/ (i = a /\ cur = EMPTY) \/ (b < i /\ i =< n) THEN 1 ELSE 0
    BY <1>2 DEF Deleted
  <2>2. s[i] \in list <=> cur # EMPTY /\ i >= a /\ i =< b
    <3>1. s[i] \in list <=> cur # EMPTY /\ \E j \in a .. b : s[i] = s[j]
      BY <1>5
    <3>2. cur # EMPTY => \A j \in a .. b : j \in 1 .. n /\ (s[i] = s[j] => i = j)
      BY <1>1, <1>2, <1>3, <1>7 DEF OneToOne
    <3>3. i >= a /\ i =< b <=> i \in a .. b
      BY <1>1, <1>3
    <3>. QED BY <1>1, <1>3, <3>1, <3>2, <3>3
  <2>. QED BY <1>1, <1>3, <1>4, <1>6, <1>9, <2>1, <2>2
<1>16. Arranged(s, hist, b, n, links, cur, EMPTY, EMPTY, fr2, 1)
  BY <1>1, <1>2, <1>13, <1>15, Zenon DEF Arranged
<1>. QED BY <1>16 DEF list, fr2

\* The buckets of tile t, of which there are k, after those of s.
Longer(s, t, k) == [i \in 1 .. Len(s) + k |-> IF i =< Len(s) THEN s[i] ELSE <<t, i - Len(s)>>]

\* What is in the longer sequence, at which place.
Continues(long, s, t, k) ==
  /\ long \in Seq(Buckets)
  /\ Len(long) = Len(s) + k
  /\ \A i \in 1 .. Len(s) + k : long[i] = IF i =< Len(s) THEN s[i] ELSE <<t, i - Len(s)>>
  /\ \A x : (\E i \in 1 .. Len(long) : long[i] = x)
              <=> (\E i \in 1 .. Len(s) : s[i] = x) \/ (\E j \in 1 .. k : x = <<t, j>>)
LEMMA LongerPlaces ==
  ASSUME NEW s \in Seq(Buckets), NEW t \in 1 .. MaxTiles, NEW k \in 0 .. MaxBuckets
  PROVE  Continues(Longer(s, t, k), s, t, k)
<1>. DEFINE long == Longer(s, t, k)
            n == Len(s)
<1>1. k \in Nat /\ n \in Nat /\ MaxBuckets \in Nat
  BY BoundsAssumption
<1>2. \A i \in 1 .. k : <<t, i>> \in Buckets
  BY <1>1 DEF Buckets
<1>3. \A i \in 1 .. n : s[i] \in Buckets
  OBVIOUS
<1>. HIDE DEF n
<1>4. long = [i \in 1 .. n + k |-> IF i =< n THEN s[i] ELSE <<t, i - n>>]
  BY DEF Longer, n
<1>. HIDE DEF long
<1>5. \A i \in 1 .. n + k : long[i] = IF i =< n THEN s[i] ELSE <<t, i - n>>
  BY <1>4
<1>7. long \in Seq(Buckets) /\ Len(long) = n + k
  <2>1. \A i \in 1 .. n + k : (IF i =< n THEN s[i] ELSE <<t, i - n>>) \in Buckets
    <3>. TAKE i \in 1 .. n + k
    <3>1. i > n => i - n \in 1 .. k
      BY <1>1
    <3>2. i =< n => i \in 1 .. n
      BY <1>1
    <3>. QED BY <1>1, <1>2, <1>3, <3>1, <3>2
  <2>2. long \in [1 .. n + k -> Buckets]
    BY <1>4, <2>1
  <2>3. n + k \in Nat
    BY <1>1
  <2>. QED BY <2>2, <2>3
<1>6. ASSUME NEW x
      PROVE  (\E i \in 1 .. n + k : long[i] = x)
               <=> (\E i \in 1 .. n : s[i] = x) \/ (\E j \in 1 .. k : x = <<t, j>>)
  <2>1. ASSUME NEW i \in 1 .. n + k, long[i] = x
        PROVE  (\E l \in 1 .. n : s[l] = x) \/ (\E j \in 1 .. k : x = <<t, j>>)
    <3>0. x = IF i =< n THEN s[i] ELSE <<t, i - n>>
      BY <1>5, <2>1
    <3>1. CASE i =< n
      <4>1. i \in 1 .. n
        BY <1>1, <3>1
      <4>. QED BY <3>0, <3>1, <4>1
    <3>2. CASE i > n
      <4>1. i - n \in 1 .. k /\ ~ (i =< n)
        BY <1>1, <3>2
      <4>. QED BY <3>0, <4>1
    <3>. QED BY <1>1, <3>1, <3>2
  <2>2. ASSUME NEW i \in 1 .. n, s[i] = x PROVE \E l \in 1 .. n + k : long[l] = x
    <3>1. i \in 1 .. n + k /\ i =< n
      BY <1>1
    <3>2. long[i] = s[i]
      BY <1>5, <3>1
    <3>. QED BY <2>2, <3>1, <3>2
  <2>3. ASSUME NEW j \in 1 .. k, x = <<t, j>> PROVE \E l \in 1 .. n + k : long[l] = x
    <3>1. n + j \in 1 .. n + k /\ ~ (n + j =< n) /\ (n + j) - n = j
      BY <1>1
    <3>2. long[n + j] = <<t, j>>
      BY <1>5, <3>1
    <3>. QED BY <2>3, <3>1, <3>2
  <2>. QED BY <2>1, <2>2, <2>3
<1>. QED BY <1>5, <1>6, <1>7 DEF Continues, long, n

\* The links after the results of tile t are linked.
Spliced(links, last, t) ==
  IF EMPTY \in {last, Found(t)} THEN Circle(links, t) ELSE Splice(Circle(links, t), last, Found(t))

\* The buckets of the tile come in a circle, the last one of which leads to
\* where the last one of the other circle has led.
LEMMA SplicedLinks ==
  ASSUME index \in Indexes, NEW t \in DOMAIN index, NEW links \in [Links -> Links], NEW last \in Links,
         last # EMPTY => last[1] # t
  PROVE  /\ \A x \in Links : (x # last /\ ~ \E j \in 1 .. index[t].buckets : x = <<t, j>>)
                               => Spliced(links, last, t)[x] = links[x]
         /\ \A j \in 1 .. index[t].buckets - 1 : Spliced(links, last, t)[<<t, j>>] = <<t, j + 1>>
         /\ index[t].buckets > 0 =>
              LET end == <<t, index[t].buckets>>
              IN  IF last = EMPTY THEN Spliced(links, last, t)[end] = <<t, 1>>
                  ELSE /\ Spliced(links, last, t)[end] = links[last]
                       /\ Spliced(links, last, t)[last] = <<t, 1>>
         /\ index[t].buckets = 0 => Spliced(links, last, t)[last] = links[last]
         /\ Spliced(links, last, t)[EMPTY] = links[EMPTY]
<1>. DEFINE k == index[t].buckets
            circle == Circle(links, t)
            end == <<t, k>>
            spliced == Spliced(links, last, t)
<1>1. t \in 1 .. MaxTiles /\ k \in 0 .. MaxBuckets /\ k \in Nat /\ MaxBuckets \in Nat
  BY IndexTyped, BoundsAssumption
<1>2. \A x \in Links : x # EMPTY => x[1] \in 1 .. MaxTiles /\ x[2] \in 1 .. MaxBuckets /\ x = <<x[1], x[2]>>
  BY DEF Links, Buckets
<1>3. \A j \in 1 .. k : <<t, j>> \in Links /\ <<t, j>> # EMPTY
  <2>1. \A j \in 1 .. k : <<t, j>> \in Buckets
    BY <1>1 DEF Buckets
  <2>. QED BY <2>1, EmptyNoBucket
<1>4. ASSUME NEW x \in Links, ~ \E j \in 1 .. k : x = <<t, j>>
      PROVE  circle[x] = links[x]
  <2>1. x = EMPTY \/ x[1] # t \/ x[2] > k
    BY <1>1, <1>2, <1>4
  <2>. QED BY <2>1 DEF Circle
<1>5. ASSUME NEW j \in 1 .. k
      PROVE  circle[<<t, j>>] = <<t, IF j = k THEN 1 ELSE j + 1>>
  <2>1. <<t, j>> \in Links /\ <<t, j>> # EMPTY /\ <<t, j>>[1] = t /\ <<t, j>>[2] = j /\ ~ (j > k)
    BY <1>1, <1>3
  <2>. QED BY <2>1 DEF Circle
<1>6. DOMAIN circle = Links
  BY DEF Circle
<1>7. ~ \E j \in 1 .. k : last = <<t, j>>
  BY <1>3
<1>8. ~ \E j \in 1 .. k : EMPTY = <<t, j>>
  BY <1>3
<1>9. circle[last] = links[last] /\ circle[EMPTY] = links[EMPTY] /\ EMPTY \in Links
  BY <1>4, <1>7, <1>8, EmptyNoBucket
<1>. HIDE DEF circle
<1>10. CASE k = 0
  <2>1. spliced = circle
    BY <1>10 DEF Spliced, Found, circle
  <2>2. \A j : j \notin 1 .. k /\ j \notin 1 .. k - 1
    BY <1>10
  <2>. HIDE DEF spliced
  <2>3. \A x \in Links : spliced[x] = links[x]
    BY <1>4, <2>1, <2>2
  <2>. QED BY <1>9, <1>10, <2>1, <2>2, <2>3 DEF spliced
<1>11. CASE k > 0
  <2>1. Found(t) = end /\ end \in Links /\ end # EMPTY /\ circle[end] = <<t, 1>>
    BY <1>1, <1>3, <1>5, <1>11 DEF Found
  <2>2. spliced = IF last = EMPTY THEN circle ELSE [circle EXCEPT ![last] = circle[end], ![end] = circle[last]]
    BY <2>1 DEF Spliced, Splice, circle
  <2>3. end # last
    BY <1>1, <1>7, <1>11
  <2>4. \A j \in 1 .. k - 1 : j \in 1 .. k /\ j # k /\ <<t, j>> # end /\ <<t, j>> # last
    BY <1>1, <1>7
  <2>. HIDE DEF spliced, end
  <2>5. \A x \in Links : x # end /\ x # last => spliced[x] = circle[x]
    BY <1>6, <2>2
  <2>6. \A x \in Links : (x # last /\ ~ \E j \in 1 .. k : x = <<t, j>>) => spliced[x] = links[x]
    <3>1. \A x \in Links : (~ \E j \in 1 .. k : x = <<t, j>>) => x # end
      BY <1>1, <1>11 DEF end
    <3>. QED BY <1>4, <2>5, <3>1
  <2>7. \A j \in 1 .. k - 1 : spliced[<<t, j>>] = <<t, j + 1>>
    BY <1>3, <1>5, <2>4, <2>5
  <2>8. spliced[EMPTY] = links[EMPTY]
    <3>1. CASE last = EMPTY
      BY <1>9, <2>2, <3>1
    <3>2. CASE last # EMPTY
      BY <1>9, <2>1, <2>5, <3>2
    <3>. QED BY <3>1, <3>2
  <2>9. IF last = EMPTY THEN spliced[end] = <<t, 1>>
        ELSE spliced[end] = links[last] /\ spliced[last] = <<t, 1>>
    BY <1>6, <1>9, <2>1, <2>2, <2>3
  <2>. QED BY <1>11, <2>6, <2>7, <2>8, <2>9 DEF spliced, end
<1>. QED BY <1>1, <1>10, <1>11

\* offer(): the buckets of a tile come to the end of the circle.
LEMMA OfferedArranged ==
  ASSUME index \in Indexes, NEW t \in DOMAIN index, NEW links \in [Links -> Links],
         NEW s, NEW hist \in Seq(Buckets), NEW b, NEW c, NEW cur, NEW tk, NEW last, NEW fr,
         Arranged(s, hist, b, c, links, cur, tk, last, fr, 0), \A i \in 1 .. Len(s) : s[i][1] # t
  PROVE  Arranged(Longer(s, t, index[t].buckets), hist, b, c, Spliced(links, last, t), cur, tk,
                  IF Found(t) = EMPTY THEN last ELSE Found(t), fr, 0)
<1>. DEFINE n == Len(s)
            a == Len(hist)
            k == index[t].buckets
            long == Longer(s, t, k)
            links2 == Spliced(links, last, t)
            last2 == IF Found(t) = EMPTY THEN last ELSE Found(t)
<1>1. s \in Seq(Buckets) /\ n \in Nat /\ a \in Nat
  <2>1. s \in Seq(Buckets)
    BY DEF Arranged
  <2>. QED BY <2>1
<1>2. /\ OneToOne(s) /\ TileOrder(s) /\ CutPoints(s, hist, b, c) /\ Chain(s, a, b, links)
      /\ Ring(s, c, links, last) /\ Outside(s, links, fr) /\ Held(s, a, b, links, cur, tk)
      /\ Deleted(s, a, b, c, cur, fr, 0)
  BY Zenon DEF Arranged
<1>3. /\ b \in Nat /\ c \in Nat /\ a =< b /\ b =< c /\ c =< n
      /\ \A i \in 1 .. a : hist[i] = s[i]
  BY <1>2 DEF CutPoints
<1>4. t \in 1 .. MaxTiles /\ k \in 0 .. MaxBuckets /\ k \in Nat
  BY IndexTyped, BoundsAssumption
<1>5. /\ long \in Seq(Buckets) /\ Len(long) = n + k
      /\ \A i \in 1 .. n + k : long[i] = IF i =< n THEN s[i] ELSE <<t, i - n>>
      /\ \A x : (\E i \in 1 .. Len(long) : long[i] = x)
                  <=> (\E i \in 1 .. n : s[i] = x) \/ (\E j \in 1 .. k : x = <<t, j>>)
  <2>. HIDE DEF k
  <2>1. Continues(Longer(s, t, k), s, t, k)
    BY <1>1, <1>4, LongerPlaces
  <2>. QED BY <2>1, Zenon DEF Continues, long, n
<1>6. \A i \in 1 .. n : s[i] \in Buckets /\ s[i] \in Links /\ s[i] # EMPTY
  BY <1>1, EmptyNoBucket
<1>7. \A i \in 1 .. n : \A j : s[i] # <<t, j>>
  OBVIOUS
<1>8. /\ last \in Links /\ (last # EMPTY => last[1] # t)
      /\ \A i \in 1 .. n : s[i] = last <=> i = n /\ c < n
  <2>1. CASE c < n
    <3>1. n \in 1 .. n /\ last = s[n]
      BY <1>1, <1>2, <1>3, <2>1 DEF Ring
    <3>. QED BY <1>2, <1>6, <2>1, <3>1 DEF OneToOne
  <2>2. CASE ~ (c < n)
    <3>1. last = EMPTY
      BY <1>2, <2>2 DEF Ring
    <3>. QED BY <1>6, <2>2, <3>1, EmptyNoBucket
  <2>. QED BY <2>1, <2>2
<1>. DEFINE end == <<t, k>>
<1>9. /\ \A x \in Links : (x # last /\ ~ \E j \in 1 .. k : x = <<t, j>>) => links2[x] = links[x]
      /\ \A j \in 1 .. k - 1 : links2[<<t, j>>] = <<t, j + 1>>
      /\ (k > 0 /\ last = EMPTY) => links2[end] = <<t, 1>>
      /\ (k > 0 /\ last # EMPTY) => links2[end] = links[last] /\ links2[last] = <<t, 1>>
      /\ k = 0 => links2[last] = links[last]
      /\ links2[EMPTY] = links[EMPTY]
  BY <1>8, SplicedLinks
<1>10. last2 = IF k = 0 THEN last ELSE end
  <2>1. k # 0 => end \in Buckets
    BY <1>4, BoundsAssumption DEF Buckets
  <2>. QED BY <2>1, EmptyNoBucket DEF Found
<1>. HIDE DEF n, a, k, long, links2, last2
<1>11. \A i \in 1 .. n : ~ (i = n /\ c < n) => links2[s[i]] = links[s[i]]
  BY <1>6, <1>7, <1>8, <1>9
<1>12. \A i \in 1 .. n : i \in 1 .. n + k /\ long[i] = s[i]
  <2>. TAKE i \in 1 .. n
  <2>1. i \in 1 .. n + k /\ i =< n
    BY <1>1, <1>4
  <2>. QED BY <1>5, <2>1
<1>13. \A i \in n + 1 .. n + k : i - n \in 1 .. k /\ long[i] = <<t, i - n>>
  <2>. TAKE i \in n + 1 .. n + k
  <2>1. i \in 1 .. n + k /\ ~ (i =< n) /\ i - n \in 1 .. k
    BY <1>1, <1>4
  <2>. QED BY <1>5, <2>1
<1>14. \A i \in 1 .. n + k : i \in 1 .. n \/ i \in n + 1 .. n + k
  BY <1>1, <1>4
<1>15. OneToOne(long)
  <2>. SUFFICES ASSUME NEW i \in 1 .. n + k, NEW j \in 1 .. n + k, long[i] = long[j] PROVE i = j
    BY <1>5 DEF OneToOne
  <2>1. CASE i \in 1 .. n /\ j \in 1 .. n
    BY <1>2, <1>12, <2>1 DEF OneToOne, n
  <2>2. CASE i \in 1 .. n /\ j \in n + 1 .. n + k
    BY <1>7, <1>12, <1>13, <2>2
  <2>3. CASE i \in n + 1 .. n + k /\ j \in 1 .. n
    BY <1>7, <1>12, <1>13, <2>3
  <2>4. CASE i \in n + 1 .. n + k /\ j \in n + 1 .. n + k
    <3>1. i - n = j - n
      BY <1>13, <2>4
    <3>. QED BY <1>1, <2>4, <3>1
  <2>. QED BY <1>14, <2>1, <2>2, <2>3, <2>4
<1>16. TileOrder(long)
  <2>. SUFFICES ASSUME NEW i \in 1 .. n + k, NEW j \in 1 .. n + k,
                       long[i][1] = long[j][1], long[i][2] < long[j][2]
                PROVE  i < j
    BY <1>5 DEF TileOrder
  <2>1. CASE i \in 1 .. n /\ j \in 1 .. n
    BY <1>2, <1>12, <2>1 DEF TileOrder, n
  <2>2. CASE i \in 1 .. n /\ j \in n + 1 .. n + k
    BY <1>1, <2>2
  <2>3. CASE i \in n + 1 .. n + k /\ j \in 1 .. n
    <3>1. long[i][1] = t /\ long[j] = s[j]
      BY <1>12, <1>13, <2>3
    <3>. QED BY <2>3, <3>1 DEF n
  <2>4. CASE i \in n + 1 .. n + k /\ j \in n + 1 .. n + k
    <3>1. long[i][2] = i - n /\ long[j][2] = j - n
      BY <1>13, <2>4
    <3>. QED BY <1>1, <2>4, <3>1
  <2>. QED BY <1>14, <2>1, <2>2, <2>3, <2>4
<1>17. CutPoints(long, hist, b, c)
  <2>1. \A i \in 1 .. a : i \in 1 .. n
    BY <1>1, <1>3
  <2>2. \A i \in 1 .. a : hist[i] = long[i]
    BY <1>3, <1>12, <2>1
  <2>. QED BY <1>1, <1>3, <1>4, <1>5, <2>2 DEF CutPoints, a
<1>18. Chain(long, a, b, links2)
  <2>. SUFFICES ASSUME NEW i \in a + 1 .. b PROVE links2[long[i]] = IF i = b THEN EMPTY ELSE long[i + 1]
    BY DEF Chain
  <2>1. i \in 1 .. n /\ ~ (i = n /\ c < n) /\ (i # b => i + 1 \in 1 .. n)
    BY <1>1, <1>3
  <2>2. links[s[i]] = IF i = b THEN EMPTY ELSE s[i + 1]
    BY <1>2 DEF Chain
  <2>. QED BY <1>11, <1>12, <2>1, <2>2
<1>19. Ring(long, c, links2, last2)
  <2>1. \A i \in c + 1 .. n : links[s[i]] = IF i = n THEN s[c + 1] ELSE s[i + 1]
    BY <1>2 DEF Ring, n
  <2>2. last = IF c < n THEN s[n] ELSE EMPTY
    BY <1>2 DEF Ring, n
  <2>3. \A i \in c + 1 .. n + k : links2[long[i]] = IF i = n + k THEN long[c + 1] ELSE long[i + 1]
    <3>. TAKE i \in c + 1 .. n + k
    <3>1. CASE i < n
      <4>1. i \in 1 .. n /\ i + 1 \in 1 .. n /\ i \in c + 1 .. n /\ i # n + k
        BY <1>1, <1>3, <1>4, <3>1
      <4>. QED BY <1>11, <1>12, <2>1, <3>1, <4>1
    <3>2. CASE i = n /\ k = 0
      <4>1. i \in 1 .. n /\ c + 1 \in 1 .. n /\ i \in c + 1 .. n /\ c < n /\ n + k = n
        BY <1>1, <1>3, <3>2
      <4>2. links2[s[n]] = s[c + 1]
        BY <1>9, <2>1, <2>2, <3>2, <4>1
      <4>. QED BY <1>12, <3>2, <4>1, <4>2
    <3>3. CASE i = n /\ k > 0
      <4>1. i \in 1 .. n /\ n + 1 \in n + 1 .. n + k /\ (n + 1) - n = 1 /\ c < n /\ n # n + k
        BY <1>1, <1>3, <1>4, <3>3
      <4>2. last = s[n] /\ last # EMPTY
        BY <1>6, <2>2, <3>3, <4>1
      <4>3. links2[s[n]] = <<t, 1>> /\ long[n + 1] = <<t, 1>>
        BY <1>9, <1>13, <3>3, <4>1, <4>2
      <4>. QED BY <1>12, <3>3, <4>1, <4>3
    <3>4. CASE i > n /\ i < n + k
      <4>1. /\ i \in n + 1 .. n + k /\ i + 1 \in n + 1 .. n + k /\ i - n \in 1 .. k - 1
            /\ (i + 1) - n = (i - n) + 1
        BY <1>1, <1>3, <1>4, <3>4
      <4>2. long[i] = <<t, i - n>> /\ long[i + 1] = <<t, (i - n) + 1>>
        BY <1>13, <4>1
      <4>3. links2[<<t, i - n>>] = <<t, (i - n) + 1>>
        BY <1>9, <4>1
      <4>. QED BY <3>4, <4>2, <4>3
    <3>5. CASE i > n /\ i = n + k
      <4>1. i \in n + 1 .. n + k /\ i - n = k /\ k > 0
        BY <1>1, <1>3, <1>4, <3>5
      <4>2. long[i] = end
        BY <1>13, <4>1
      <4>3. CASE c < n
        <5>1. c + 1 \in 1 .. n /\ n \in c + 1 .. n /\ n \in 1 .. n
          BY <1>1, <1>3, <4>3
        <5>2. last = s[n] /\ last # EMPTY /\ links[last] = s[c + 1]
          BY <1>6, <2>1, <2>2, <4>3, <5>1
        <5>3. links2[end] = s[c + 1]
          BY <1>9, <4>1, <5>2
        <5>. QED BY <1>12, <3>5, <4>2, <5>1, <5>3
      <4>4. CASE ~ (c < n)
        <5>1. last = EMPTY /\ c + 1 \in n + 1 .. n + k /\ (c + 1) - n = 1
          BY <1>1, <1>3, <1>4, <2>2, <4>1, <4>4
        <5>2. links2[end] = <<t, 1>> /\ long[c + 1] = <<t, 1>>
          BY <1>9, <1>13, <4>1, <5>1
        <5>. QED BY <3>5, <4>2, <5>2
      <4>. QED BY <4>3, <4>4
    <3>. QED BY <1>1, <1>3, <1>4, <3>1, <3>2, <3>3, <3>4, <3>5
  <2>4. last2 = IF c < n + k THEN long[n + k] ELSE EMPTY
    <3>1. CASE k = 0
      <4>1. c < n => n \in 1 .. n
        BY <1>1, <1>3
      <4>2. n + k = n
        BY <1>1, <3>1
      <4>. QED BY <1>10, <1>12, <2>2, <3>1, <4>1, <4>2
    <3>2. CASE k # 0
      <4>1. n + k \in n + 1 .. n + k /\ (n + k) - n = k /\ c < n + k
        BY <1>1, <1>3, <1>4, <3>2
      <4>2. long[n + k] = end
        BY <1>13, <4>1
      <4>. QED BY <1>10, <3>2, <4>1, <4>2
    <3>. QED BY <3>1, <3>2
  <2>. QED BY <1>5, <2>3, <2>4 DEF Ring
<1>20. Outside(long, links2, fr)
  <2>1. ASSUME NEW x, \A i \in 1 .. Len(long) : long[i] # x
        PROVE  (\A i \in 1 .. n : s[i] # x) /\ ~ \E j \in 1 .. k : x = <<t, j>>
    BY <1>5, <2>1
  <2>2. ASSUME NEW x \in Links, \A i \in 1 .. Len(long) : long[i] # x
        PROVE  links2[x] = EMPTY
    <3>1. (\A i \in 1 .. n : s[i] # x) /\ ~ \E j \in 1 .. k : x = <<t, j>>
      BY <2>1, <2>2
    <3>2. links[x] = EMPTY
      BY <1>2, <2>2, <3>1 DEF Outside, n
    <3>3. CASE x = last
      <4>1. last = EMPTY
        <5>1. c < n => n \in 1 .. n /\ last = s[n]
          BY <1>1, <1>2, <1>3 DEF Ring, n
        <5>2. ~ (c < n)
          BY <3>1, <3>3, <5>1
        <5>. QED BY <1>2, <5>2 DEF Ring, n
      <4>. QED BY <1>9, <3>2, <3>3, <4>1
    <3>4. CASE x # last
      BY <1>9, <2>2, <3>1, <3>2, <3>4
    <3>. QED BY <3>3, <3>4
  <2>3. ASSUME NEW x \in Buckets, \A i \in 1 .. Len(long) : long[i] # x
        PROVE  fr[x] = 0
    BY <1>2, <2>1, <2>3 DEF Outside, n
  <2>. QED BY <2>2, <2>3 DEF Outside
<1>21. Held(long, a, b, links2, cur, tk)
  <2>1. links2[cur] = links[cur] /\ (cur # EMPTY => a \in 1 .. n)
    <3>1. CASE cur = EMPTY
      BY <1>9, <3>1
    <3>2. CASE cur # EMPTY
      <4>1. a \in 1 .. n /\ cur = s[a] /\ ~ (a = n /\ c < n)
        BY <1>1, <1>2, <1>3, <3>2 DEF Held
      <4>. QED BY <1>11, <4>1
    <3>. QED BY <3>1, <3>2
  <2>2. a < b => a + 1 \in 1 .. n
    BY <1>1, <1>3
  <2>. QED BY <1>2, <1>12, <2>1, <2>2 DEF Held
<1>22. Deleted(long, a, b, c, cur, fr, 0)
  <2>1. ASSUME NEW i \in 1 .. n + k
        PROVE  fr[long[i]] = IF i < a \/ (i = a /\ cur = EMPTY) \/ (b < i /\ i =< c) THEN 1 ELSE 0
    <3>1. CASE i \in 1 .. n
      <4>1. fr[s[i]] = IF i < a \/ (i = a /\ cur = EMPTY) \/ (b < i /\ i =< c) THEN 1 ELSE 0
        BY <1>2, <3>1 DEF Deleted, n
      <4>. QED BY <1>12, <3>1, <4>1
    <3>2. CASE i \in n + 1 .. n + k
      <4>1. /\ long[i] = <<t, i - n>> /\ i \in 1 .. Len(long) /\ long[i] \in Buckets
            /\ \A j \in 1 .. n : s[j] # <<t, i - n>>
        BY <1>5, <1>7, <1>13, <3>2
      <4>2. fr[long[i]] = 0
        BY <1>2, <4>1 DEF Outside, n
      <4>3. ~ (i < a) /\ i # a /\ ~ (i =< c)
        BY <1>1, <1>3, <3>2
      <4>. QED BY <4>2, <4>3
    <3>. QED BY <1>14, <3>1, <3>2
  <2>2. fr \in [Buckets -> Nat]
    BY <1>2 DEF Deleted
  <2>. QED BY <1>5, <2>1, <2>2 DEF Deleted
<1>23. Arranged(long, hist, b, c, links2, cur, tk, last2, fr, 0)
  BY <1>5, <1>15, <1>16, <1>17, <1>18, <1>19, <1>20, <1>21, <1>22, Zenon DEF Arranged, a
<1>. QED BY <1>23 DEF long, links2, last2, k

-----------------------------------------------------------------------------
(* Every bucket that was offered is in one place *)

Destroying == {"destroy", "waitingToDestroy", "destroyed"}

\* The buckets of the tiles of q that have been scanned.
Offered(q) == {x \in Buckets : x[1] \in Scanned(q) /\ x[2] =< index[x[1]].buckets}

\* Between b and c there is something only if the destructor runs.
Holds(q, s, b, c) ==
  /\ Arranged(s, delivered[q], b, c, next[q], current[q], taken[q], queued[q], freed[q],
              IF pc[q] = "destroyed" THEN 1 ELSE 0)
  /\ \A x \in Buckets : x \in Offered(q) <=> \E i \in 1 .. Len(s) : s[i] = x
  /\ pc[q] \notin Destroying => b = c
  /\ pc[q] = "destroyed" => c = Len(s)
ListInv ==
  /\ freed \in [Queries -> [Buckets -> Nat]]
  /\ \A q \in Queries : \E s, b, c : Holds(q, s, b, c)

\* While there are tiles to request, a caller between two requests waits for
\* some; what it has in hand depends on where it is.
CallerOf(q) ==
  /\ pc[q] \in {"drain", "waiting", "taken", "idle"} /\ ~ allRequested[q] => pending[q] > 0
  /\ pc[q] = "request" /\ posted[q] => pending[q] > 0
  /\ pc[q] = "none" => ~ posted[q]
  /\ completed[q] = 0 => queued[q] = EMPTY
  /\ current[q] # EMPTY => pc[q] \in {"idle"} \cup Destroying
  /\ taken[q] # EMPTY => pc[q] = "taken" \/ (pc[q] = "request" /\ after[q] = "taken")
CallerInv == \A q \in Queries : CallerOf(q)

\* Holds after a step.
LEMMA HoldsNext ==
  ASSUME NEW q, NEW s, NEW b, NEW c,
         Arranged(s, delivered'[q], b, c, next'[q], current'[q], taken'[q], queued'[q], freed'[q],
                  IF pc'[q] = "destroyed" THEN 1 ELSE 0),
         \A x \in Buckets : x \in Offered(q)' <=> \E i \in 1 .. Len(s) : s[i] = x,
         pc'[q] \notin Destroying => b = c,
         pc'[q] = "destroyed" => c = Len(s)
  PROVE  Holds(q, s, b, c)'
<1>1. Arranged(s, delivered[q], b, c, next[q], current[q], taken[q], queued[q], freed[q],
               IF pc[q] = "destroyed" THEN 1 ELSE 0)'
  BY DEF Arranged, OneToOne, TileOrder, CutPoints, Chain, Ring, Outside, Held, Deleted, Buckets, Links, EMPTY
<1>2. (\A x \in Buckets : x \in Offered(q) <=> \E i \in 1 .. Len(s) : s[i] = x)'
  BY DEF Buckets
<1>3. (pc[q] \notin Destroying => b = c)' /\ (pc[q] = "destroyed" => c = Len(s))'
  BY DEF Destroying
<1>. QED BY <1>1, <1>2, <1>3 DEF Holds

\* What a scan adds to the buckets that were offered.
LEMMA OfferedAfter ==
  ASSUME index \in Indexes, UNCHANGED index, NEW q
  PROVE  /\ Scanned(q)' = Scanned(q) => \A x \in Buckets : x \in Offered(q)' <=> x \in Offered(q)
         /\ \A t \in DOMAIN index :
              Scanned(q)' = Scanned(q) \cup {t} =>
                \A x \in Buckets : x \in Offered(q)' <=>
                  x \in Offered(q) \/ \E j \in 1 .. index[t].buckets : x = <<t, j>>
<1>1. \A x \in Buckets : x \in Offered(q)' <=> x[1] \in Scanned(q)' /\ x[2] =< index[x[1]].buckets
  BY DEF Offered, Buckets
<1>2. \A x \in Buckets : x \in Offered(q) <=> x[1] \in Scanned(q) /\ x[2] =< index[x[1]].buckets
  BY DEF Offered
<1>3. ASSUME NEW t \in DOMAIN index, NEW x \in Buckets
      PROVE  (x[1] = t /\ x[2] =< index[t].buckets) <=> \E j \in 1 .. index[t].buckets : x = <<t, j>>
  <2>1. index[t].buckets \in Nat /\ x[2] \in Nat \ {0} /\ x = <<x[1], x[2]>>
    BY IndexTyped, BoundsAssumption DEF Buckets
  <2>2. x[1] = t /\ x[2] =< index[t].buckets => x[2] \in 1 .. index[t].buckets /\ x = <<t, x[2]>>
    BY <2>1
  <2>3. ASSUME NEW j \in 1 .. index[t].buckets, x = <<t, j>> PROVE x[1] = t /\ x[2] =< index[t].buckets
    BY <2>1, <2>3
  <2>. QED BY <2>2, <2>3
<1>4. Scanned(q)' = Scanned(q) => \A x \in Buckets : x \in Offered(q)' <=> x \in Offered(q)
  BY <1>1, <1>2
<1>5. ASSUME NEW t \in DOMAIN index, Scanned(q)' = Scanned(q) \cup {t}, NEW x \in Buckets
      PROVE  x \in Offered(q)' <=> x \in Offered(q) \/ \E j \in 1 .. index[t].buckets : x = <<t, j>>
  <2>1. x[1] \in Scanned(q)' <=> x[1] \in Scanned(q) \/ x[1] = t
    BY <1>5
  <2>. QED BY <1>1, <1>2, <1>3, <2>1
<1>. QED BY <1>4, <1>5

\* A step that does not concern r.
Same(r) ==
  /\ delivered'[r] = delivered[r] /\ next'[r] = next[r] /\ current'[r] = current[r]
  /\ taken'[r] = taken[r] /\ queued'[r] = queued[r] /\ freed'[r] = freed[r]
  /\ Scanned(r)' = Scanned(r)
  /\ pc[r] \in Destroying => pc'[r] \in Destroying
  /\ pc'[r] = "destroyed" <=> pc[r] = "destroyed"

\* What r has stays.
LEMMA SameHolds ==
  ASSUME index \in Indexes, UNCHANGED index, NEW r, Same(r), NEW s, NEW b, NEW c, Holds(r, s, b, c)
  PROVE  Holds(r, s, b, c)'
<1>1. (IF pc'[r] = "destroyed" THEN 1 ELSE 0) = (IF pc[r] = "destroyed" THEN 1 ELSE 0)
  BY DEF Same
<1>2. Arranged(s, delivered'[r], b, c, next'[r], current'[r], taken'[r], queued'[r], freed'[r],
               IF pc'[r] = "destroyed" THEN 1 ELSE 0)
  BY <1>1 DEF Same, Holds
<1>3. \A x \in Buckets : x \in Offered(r)' <=> \E i \in 1 .. Len(s) : s[i] = x
  <2>1. \A x \in Buckets : x \in Offered(r)' <=> x \in Offered(r)
    BY OfferedAfter DEF Same
  <2>. QED BY <2>1 DEF Holds
<1>4. (pc'[r] \notin Destroying => b = c) /\ (pc'[r] = "destroyed" => c = Len(s))
  BY DEF Same, Holds
<1>. QED BY <1>2, <1>3, <1>4, HoldsNext

\* A step of one query, or of none.
LEMMA ListsOfOne ==
  ASSUME index \in Indexes, UNCHANGED index, ListInv, freed' \in [Queries -> [Buckets -> Nat]], NEW q,
         \A r \in Queries \ {q} : Same(r), q \in Queries => \E s, b, c : Holds(q, s, b, c)'
  PROVE  ListInv'
<1>1. ASSUME NEW r \in Queries PROVE \E s, b, c : Holds(r, s, b, c)'
  <2>1. CASE r = q
    BY <1>1, <2>1
  <2>2. CASE r # q
    <3>1. PICK s, b, c : Holds(r, s, b, c)
      BY <1>1 DEF ListInv
    <3>2. Same(r)
      BY <1>1, <2>2
    <3>3. Holds(r, s, b, c)'
      BY <3>1, <3>2, SameHolds
    <3>. QED BY <3>3
  <2>. QED BY <2>1, <2>2
<1>2. (freed \in [Queries -> [Buckets -> Nat]])'
  BY DEF Buckets
<1>3. (\A r \in Queries : \E s, b, c : Holds(r, s, b, c))'
  BY <1>1
<1>. QED BY <1>2, <1>3 DEF ListInv

\* What a caller does within requestTiles.
LEMMA CallerRequests ==
  ASSUME Inv, CallerInv, NEW q \in Queries, Request(q)
  PROVE  CallerInv'
<1>1. PoolTyped /\ CallersTyped /\ ListsTyped
  BY DEF Inv
<1>2. pc[q] = "request" /\ after' = after /\ UNCHANGED callerVars
  BY DEF Request, RequestPosting, RequestStopping, RequestRunningHere, RequestSkipping
<1>3. /\ pc' = pc \/ pc' = [pc EXCEPT ![q] = after[q]]
      /\ \A r \in Queries \ {q} : allRequested'[r] = allRequested[r]
      /\ \/ allRequested'[q] /\ pc'[q] = after[q]
         \/ allRequested'[q] = allRequested[q] /\ pc'[q] = pc[q]
         \/ allRequested'[q] = allRequested[q] /\ pc'[q] = after[q] /\ posted[q] /\ RequestStopping(q)
  <2>1. CASE RequestStopping(q)
    <3>1. pc' = [pc EXCEPT ![q] = after[q]] /\ allRequested' = allRequested /\ posted[q]
      BY <2>1 DEF RequestStopping, walkVars
    <3>. QED BY <1>1, <2>1, <3>1 DEF CallersTyped
  <2>2. CASE ~ RequestStopping(q)
    <3>1. PICK skip \in BOOLEAN : Advance(q, skip)
      BY <2>2 DEF Request, RequestPosting, RequestRunningHere, RequestSkipping
    <3>. QED BY <1>1, <3>1, AdvanceTyped
  <2>. QED BY <2>1, <2>2
<1>4. after[q] \in {"idle", "taken"}
  BY <1>1 DEF CallersTyped
<1>5. /\ \A r \in Queries \ {q} : pending'[r] = pending[r] /\ posted'[r] = posted[r]
      /\ \/ pending'[q] = pending[q] /\ posted'[q] = posted[q]
         \/ pending'[q] = pending[q] + 1
  BY <1>1 DEF Request, RequestPosting, RequestStopping, RequestRunningHere, RequestSkipping, walkVars, CallersTyped
<1>6. \A r \in Queries : (completed'[r] = 0 => queued'[r] = EMPTY)
  <2>1. CASE RequestRunningHere(q)
    <3>1. Offer(q, walker[q])
      BY <2>1 DEF RequestRunningHere
    <3>2. /\ \A r \in Queries \ {q} : completed'[r] = completed[r] /\ queued'[r] = queued[r]
          /\ completed'[q] = completed[q] + 1 /\ completed[q] \in Nat
      BY <1>1, <3>1 DEF Offer, CallersTyped, ListsTyped
    <3>. QED BY <3>2 DEF CallerInv, CallerOf
  <2>2. CASE ~ RequestRunningHere(q)
    <3>1. completed' = completed /\ queued' = queued
      BY <2>2 DEF Request, RequestPosting, RequestStopping, RequestSkipping, listVars
    <3>. QED BY <3>1 DEF CallerInv, CallerOf
  <2>. QED BY <2>1, <2>2
<1>7. ASSUME NEW r \in Queries PROVE CallerOf(r)'
  <2>0. CallerOf(r) /\ pending[r] \in Nat /\ (pc[r] = "request" => pc[r] \notin Destroying)
    BY <1>1, <1>7 DEF CallerInv, CallersTyped, Destroying
  <2>1. CASE r # q
    <3>1. pc'[r] = pc[r]
      BY <1>1, <1>3, <2>1 DEF CallersTyped
    <3>. QED BY <1>2, <1>3, <1>5, <1>6, <1>7, <2>0, <2>1, <3>1 DEF CallerOf, callerVars, Destroying, EMPTY
  <2>2. CASE r = q
    <3>1. current'[q] = EMPTY /\ taken' = taken /\ (taken[q] # EMPTY => after[q] = "taken")
      BY <1>2, <2>0, <2>2 DEF CallerOf, callerVars
    <3>2. pc'[q] = "request" \/ pc'[q] = after[q]
      BY <1>2, <1>3
    <3>3. pc'[q] # "request" => allRequested'[q] \/ posted[q]
      BY <1>2, <1>3, <1>4
    <3>4. pending[q] \in Nat /\ (posted[q] => pending[q] > 0)
      BY <1>2, <2>0, <2>2, Zenon DEF CallerOf
    <3>5. pending'[q] = pending[q] + 1 => pending'[q] > 0
      BY <3>4
    <3>6. (posted[q] => pending'[q] > 0) /\ (posted'[q] => pending'[q] > 0)
      BY <1>5, <3>4, <3>5
    <3>. QED BY <1>2, <1>4, <1>6, <2>2, <3>1, <3>2, <3>3, <3>6 DEF CallerOf, Destroying, EMPTY
  <2>. QED BY <2>1, <2>2
<1>. QED BY <1>7 DEF CallerInv

\* A worker's scan wakes the caller.
LEMMA CallerWoken ==
  ASSUME Inv, CallerInv, NEW w \in Workers, RunTask(w), workers[w] \in Tasks
  PROVE  CallerInv'
<1>. DEFINE q == workers[w][1]
<1>1. CallersTyped /\ ListsTyped /\ q \in Queries
  BY DEF Inv, Tasks
<1>2. Offer(q, workers[w][2]) /\ Notify(q) /\ UNCHANGED <<after, walkVars, pending, callerVars>>
  BY DEF RunTask
<1>. HIDE DEF q
<1>3. /\ \A r \in Queries \ {q} : completed'[r] = completed[r] /\ queued'[r] = queued[r] /\ pc'[r] = pc[r]
      /\ completed'[q] = completed[q] + 1 /\ completed[q] \in Nat
  BY <1>1, <1>2 DEF Offer, Notify, CallersTyped, ListsTyped
<1>4. \/ pc'[q] = pc[q]
      \/ pc[q] = "waiting" /\ pc'[q] = "drain"
      \/ pc[q] = "waitingToDestroy" /\ pc'[q] = "destroy"
  BY <1>1, <1>2 DEF Notify, CallersTyped
<1>5. ASSUME NEW r \in Queries PROVE CallerOf(r)'
  <2>1. CallerOf(r)
    BY <1>5 DEF CallerInv
  <2>2. CASE r # q
    BY <1>2, <1>3, <1>5, <2>1, <2>2 DEF CallerOf, callerVars, walkVars, Destroying, EMPTY
  <2>3. CASE r = q
    BY <1>1, <1>2, <1>3, <1>4, <2>1, <2>3 DEF CallerOf, callerVars, walkVars, Destroying, EMPTY
  <2>. QED BY <2>2, <2>3
<1>. QED BY <1>5 DEF CallerInv

\* Other steps of a caller.
LEMMA CallerOther ==
  ASSUME Inv, CallerInv, NEW q \in Queries,
         \/ ReturnNull(q) \/ Wait(q) \/ Take(q) \/ UseTaken(q) \/ DestroyTaking(q) \/ DestroyDone(q)
         \/ NextBucket(q) \/ Destroy(q)
  PROVE  CallerInv'
<1>1. CallersTyped /\ ListsTyped
  BY DEF Inv
<1>2. ASSUME NEW r \in Queries \ {q} PROVE CallerOf(r)'
  <2>1. CallerOf(r)
    BY <1>2 DEF CallerInv
  <2>2. /\ pc'[r] = pc[r] /\ allRequested'[r] = allRequested[r] /\ posted'[r] = posted[r]
        /\ pending'[r] = pending[r] /\ completed'[r] = completed[r] /\ queued'[r] = queued[r]
        /\ current'[r] = current[r] /\ taken'[r] = taken[r] /\ after'[r] = after[r]
    BY <1>1, <1>2 DEF ReturnNull, Wait, Take, TakeAll, UseTaken, DestroyTaking, DestroyDone, NextBucket, Destroy,
       Deliver, CallersTyped, ListsTyped, callerVars, walkVars, listVars
  <2>. QED BY <2>1, <2>2 DEF CallerOf, Destroying, EMPTY
<1>3. CallerOf(q) /\ pending[q] \in Nat
  BY <1>1 DEF CallerInv, CallersTyped
<1>4. ASSUME ReturnNull(q) \/ Wait(q) \/ Destroy(q) \/ DestroyDone(q)
      PROVE  CallerOf(q)'
  <2>1. /\ UNCHANGED <<after, walkVars, pending, listVars, current, taken>>
        /\ \/ pc[q] = "drain" /\ pc'[q] \in {"ended", "waiting"} /\ (pc'[q] = "waiting" => pending[q] > 0)
           \/ pc[q] = "destroy" /\ pc'[q] \in {"waitingToDestroy", "destroyed"}
           \/ pc[q] \in {"idle", "ended"} /\ pc'[q] = "destroy"
    BY <1>1, <1>4 DEF ReturnNull, Wait, Destroy, DestroyDone, CallersTyped, callerVars
  <2>. QED BY <1>3, <2>1 DEF CallerOf, walkVars, listVars, Destroying, EMPTY
<1>5. ASSUME Take(q) \/ DestroyTaking(q)
      PROVE  CallerOf(q)'
  <2>1. completed'[q] = 0 /\ queued'[q] = EMPTY
    BY <1>1, <1>5 DEF Take, DestroyTaking, TakeAll, CallersTyped, ListsTyped
  <2>2. CASE Take(q)
    <3>1. /\ pc[q] = "drain" /\ current' = current /\ allRequested' = allRequested
          /\ \/ pc'[q] = "taken" /\ allRequested[q]
             \/ pc'[q] = "request" /\ after'[q] = "taken" /\ ~ posted'[q]
      BY <1>1, <2>2 DEF Take, CallersTyped
    <3>. QED BY <1>3, <2>1, <3>1 DEF CallerOf, Destroying, EMPTY
  <2>3. CASE DestroyTaking(q)
    <3>1. pc[q] = "destroy" /\ UNCHANGED <<pc, after, walkVars, current, taken>>
      BY <2>3 DEF DestroyTaking
    <3>. QED BY <1>3, <2>1, <3>1 DEF CallerOf, walkVars, Destroying, EMPTY
  <2>. QED BY <1>5, <2>2, <2>3
<1>6. ASSUME UseTaken(q)
      PROVE  CallerOf(q)'
  <2>1. /\ pc[q] = "taken" /\ taken'[q] = EMPTY /\ UNCHANGED <<after, walkVars, pending, listVars>>
        /\ \/ pc'[q] = "drain" /\ current' = current
           \/ pc'[q] = "idle"
    BY <1>1, <1>6 DEF UseTaken, CallersTyped, ListsTyped
  <2>. QED BY <1>3, <2>1 DEF CallerOf, walkVars, listVars, Destroying, EMPTY
<1>7. ASSUME NextBucket(q)
      PROVE  CallerOf(q)'
  <2>1. /\ pc[q] = "idle" /\ UNCHANGED <<after, walkVars, pending, listVars, taken>>
        /\ \/ pc'[q] = "drain" /\ current'[q] = EMPTY
           \/ pc'[q] = "idle"
    BY <1>1, <1>7 DEF NextBucket, CallersTyped, ListsTyped
  <2>. QED BY <1>3, <2>1 DEF CallerOf, walkVars, listVars, Destroying, EMPTY
<1>8. CallerOf(q)'
  BY <1>4, <1>5, <1>6, <1>7
<1>. QED BY <1>2, <1>8 DEF CallerInv

\* All steps.
LEMMA CallerStep ==
  ASSUME Inv, CallerInv, TileInv, [Next]_vars
  PROVE  CallerInv'
<1>1. CASE UNCHANGED vars
  BY <1>1 DEF CallerInv, CallerOf, vars, walkVars, listVars, callerVars, Destroying, EMPTY
<1>2. CASE Construct
  <2>1. PICK q \in Queries :
         /\ pc[q] = "none" /\ pc' = [pc EXCEPT ![q] = "request"]
         /\ UNCHANGED <<fixedVars, poolVars, after, walkVars, pending, listVars, callerVars>>
    BY <1>2 DEF Construct
  <2>2. ASSUME NEW r \in Queries PROVE CallerOf(r)'
    <3>1. CallerOf(r) /\ pc \in [Queries -> Places]
      BY <2>2 DEF CallerInv, Inv, CallersTyped
    <3>2. pc'[r] = IF r = q THEN "request" ELSE pc[r]
      BY <2>1, <2>2, <3>1
    <3>. QED BY <2>1, <3>1, <3>2 DEF CallerOf, walkVars, listVars, callerVars, Destroying, EMPTY
  <2>. QED BY <2>2 DEF CallerInv
<1>3. ASSUME NEW q \in Queries, InCall(q) \/ NextBucket(q) \/ Destroy(q)
      PROVE  CallerInv'
  BY <1>3, CallerRequests, CallerOther DEF InCall
<1>4. ASSUME NEW w \in Workers, Work(w)
      PROVE  CallerInv'
  <2>1. CASE RunTask(w)
    <3>1. workers[w] \in Tasks
      BY <1>4, <2>1, RunTaskTiles DEF Inv
    <3>. QED BY <1>4, <2>1, <3>1, CallerWoken
  <2>2. CASE Dequeue(w) \/ Sleep(w)
    BY <2>2 DEF Dequeue, Sleep, CallerInv, CallerOf, walkVars, listVars, callerVars, Destroying, EMPTY
  <2>. QED BY <1>4, <2>1, <2>2 DEF Work
<1>. QED BY <1>1, <1>2, <1>3, <1>4 DEF Next, Finished

\* The inductive invariant of the lists.
BucketInv == Inv /\ TileInv /\ CallerInv /\ ListInv

\* The worker or the caller that has scanned a tile links its buckets.
LEMMA OfferLists ==
  ASSUME PoolTyped, ListsTyped, CallersTyped, ListInv, NEW q \in Queries, NEW t, Offer(q, t), Scans(q, t),
         UNCHANGED <<index, callerVars>>, pc[q] # "destroyed", pc'[q] # "destroyed",
         pc[q] \in Destroying => pc'[q] \in Destroying,
         \A r \in Queries \ {q} : pc'[r] = pc[r]
  PROVE  ListInv'
<1>1. index \in Indexes /\ t \in DOMAIN index /\ next[q] \in [Links -> Links] /\ delivered[q] \in Seq(Buckets)
      /\ UNCHANGED <<current, taken, delivered, freed>>
  BY DEF PoolTyped, ListsTyped, Scans, callerVars
<1>2. PICK s, b, c : Holds(q, s, b, c)
  BY DEF ListInv
<1>3. Arranged(s, delivered[q], b, c, next[q], current[q], taken[q], queued[q], freed[q], 0)
  BY <1>2 DEF Holds
<1>. DEFINE k == index[t].buckets
            long == Longer(s, t, k)
            last2 == IF Found(t) = EMPTY THEN queued[q] ELSE Found(t)
<1>4. \A i \in 1 .. Len(s) : s[i][1] # t
  <2>. TAKE i \in 1 .. Len(s)
  <2>0. s \in Seq(Buckets)
    BY <1>3 DEF Arranged
  <2>1. s[i] \in Buckets
    BY <2>0, EmptyNoBucket
  <2>2. s[i] \in Offered(q)
    BY <1>2, <2>1 DEF Holds
  <2>. QED BY <2>2 DEF Offered, Scans
<1>5. /\ next'[q] = Spliced(next[q], queued[q], t) /\ queued'[q] = last2
      /\ \A r \in Queries \ {q} : next'[r] = next[r] /\ queued'[r] = queued[r]
  BY DEF Offer, Spliced, ListsTyped
<1>6. Arranged(long, delivered[q], b, c, Spliced(next[q], queued[q], t), current[q], taken[q], last2, freed[q], 0)
  BY <1>1, <1>3, <1>4, OfferedArranged
<1>7. Arranged(long, delivered'[q], b, c, next'[q], current'[q], taken'[q], queued'[q], freed'[q],
               IF pc'[q] = "destroyed" THEN 1 ELSE 0)
  <2>. HIDE DEF long, last2
  <2>. QED BY <1>1, <1>5, <1>6
<1>8. \A x \in Buckets : x \in Offered(q)' <=> \E i \in 1 .. Len(long) : long[i] = x
  <2>1. \A x \in Buckets : x \in Offered(q)' <=> x \in Offered(q) \/ \E j \in 1 .. k : x = <<t, j>>
    BY <1>1, OfferedAfter DEF Scans
  <2>2. s \in Seq(Buckets)
    BY <1>3 DEF Arranged
  <2>3. t \in 1 .. MaxTiles /\ k \in 0 .. MaxBuckets
    BY <1>1, IndexTyped
  <2>4. Continues(long, s, t, k)
    <3>. HIDE DEF k
    <3>. QED BY <2>2, <2>3, LongerPlaces
  <2>5. \A x \in Buckets : x \in Offered(q) <=> \E i \in 1 .. Len(s) : s[i] = x
    BY <1>2 DEF Holds
  <2>. HIDE DEF long, k
  <2>6. \A x : (\E i \in 1 .. Len(long) : long[i] = x)
                 <=> (\E i \in 1 .. Len(s) : s[i] = x) \/ (\E j \in 1 .. k : x = <<t, j>>)
    BY <2>4 DEF Continues
  <2>. QED BY <2>1, <2>5, <2>6
<1>9. pc'[q] \notin Destroying => b = c
  BY <1>2 DEF Holds
<1>10. \E z : Holds(q, z, b, c)'
  <2>1. PICK z : z = long
    OBVIOUS
  <2>. HIDE DEF long
  <2>2. Arranged(z, delivered'[q], b, c, next'[q], current'[q], taken'[q], queued'[q], freed'[q],
                 IF pc'[q] = "destroyed" THEN 1 ELSE 0)
    BY <1>7, <2>1
  <2>3. \A x \in Buckets : x \in Offered(q)' <=> \E i \in 1 .. Len(z) : z[i] = x
    BY <1>8, <2>1
  <2>4. pc'[q] = "destroyed" => c = Len(z)
    OBVIOUS
  <2>5. Holds(q, z, b, c)'
    BY <1>9, <2>2, <2>3, <2>4, HoldsNext
  <2>. QED BY <2>5
<1>11. \A r \in Queries \ {q} : Same(r)
  BY <1>1, <1>5 DEF Same, Scans
<1>12. freed' \in [Queries -> [Buckets -> Nat]]
  BY <1>1 DEF ListInv
<1>. QED BY <1>1, <1>10, <1>11, <1>12, ListsOfOne

\* Steps that change no list.
LEMMA ListsKept ==
  ASSUME PoolTyped, ListInv, NoScan, UNCHANGED <<index, next, queued, callerVars>>,
         \A r \in Queries : /\ pc[r] \in Destroying => pc'[r] \in Destroying
                            /\ pc'[r] = "destroyed" <=> pc[r] = "destroyed"
  PROVE  ListInv'
<1>1. index \in Indexes /\ UNCHANGED <<current, taken, delivered, freed>>
  BY DEF PoolTyped, callerVars
<1>2. \A r \in Queries : Same(r)
  BY <1>1 DEF Same, NoScan
<1>3. freed' \in [Queries -> [Buckets -> Nat]]
  BY <1>1 DEF ListInv
<1>4. \A r \in Queries : \E s, b, c : Holds(r, s, b, c)'
  BY <1>1, <1>2, SameHolds DEF ListInv
<1>5. (freed \in [Queries -> [Buckets -> Nat]])' /\ (\A r \in Queries : \E s, b, c : Holds(r, s, b, c))'
  BY <1>3, <1>4 DEF Buckets
<1>. QED BY <1>5 DEF ListInv

\* Freeing nothing changes nothing.
LEMMA FreeingNone ==
  ASSUME NEW fr \in [Buckets -> Nat]
  PROVE  Freeing(fr, {}) = fr
  BY DEF Freeing

\* What Free does.
LEMMA FreeCounts ==
  ASSUME NEW q \in Queries, NEW bs, freed \in [Queries -> [Buckets -> Nat]], Free(q, bs)
  PROVE  /\ freed' \in [Queries -> [Buckets -> Nat]]
         /\ freed'[q] = Freeing(freed[q], bs)
         /\ \A r \in Queries \ {q} : freed'[r] = freed[r]
<1>1. freed' = [freed EXCEPT ![q] = Freeing(freed[q], bs)]
  BY DEF Free, Freeing
<1>2. Freeing(freed[q], bs) \in [Buckets -> Nat]
  BY FreeingCounts
<1>. QED BY <1>1, <1>2

\* take() and, if there is more to request, the way to requestTiles.
LEMMA TakeLists ==
  ASSUME BucketInv, NEW q \in Queries, Take(q)
  PROVE  ListInv'
<1>1. /\ PoolTyped /\ CallersTyped /\ ListsTyped /\ ListInv /\ TileInv /\ CallerOf(q)
      /\ index \in Indexes /\ next[q] \in [Links -> Links] /\ delivered[q] \in Seq(Buckets)
  BY DEF BucketInv, Inv, CallerInv, PoolTyped, ListsTyped
<1>2. /\ pc[q] = "drain" /\ TakeAll(q) /\ taken' = [taken EXCEPT ![q] = next[q][queued[q]]]
      /\ UNCHANGED <<fixedVars, poolVars, walker, allRequested, current, delivered, freed>>
      /\ \/ pc' = [pc EXCEPT ![q] = "taken"]
         \/ pc' = [pc EXCEPT ![q] = "request"]
  BY DEF Take
<1>3. NoScan /\ index' = index
  BY <1>1, <1>2, TilesSame DEF fixedVars
<1>4. /\ next'[q] = [next[q] EXCEPT ![queued[q]] = EMPTY] /\ queued'[q] = EMPTY
      /\ taken'[q] = next[q][queued[q]] /\ pc'[q] \in {"taken", "request"}
      /\ \A r \in Queries \ {q} : /\ next'[r] = next[r] /\ queued'[r] = queued[r]
                                  /\ taken'[r] = taken[r] /\ pc'[r] = pc[r]
  BY <1>1, <1>2 DEF TakeAll, CallersTyped, ListsTyped
<1>5. current[q] = EMPTY /\ taken[q] = EMPTY
  BY <1>1, <1>2 DEF CallerOf, Destroying
<1>6. PICK s, b, c : Holds(q, s, b, c)
  BY <1>1 DEF ListInv
<1>7. Arranged(s, delivered[q], c, c, next[q], EMPTY, EMPTY, queued[q], freed[q], 0)
  BY <1>2, <1>5, <1>6 DEF Holds, Destroying
<1>8. Arranged(s, delivered[q], Len(s), Len(s), [next[q] EXCEPT ![queued[q]] = EMPTY], EMPTY,
               next[q][queued[q]], EMPTY, freed[q], 0)
  BY <1>1, <1>7, TakenArranged
<1>9. Arranged(s, delivered'[q], Len(s), Len(s), next'[q], current'[q], taken'[q], queued'[q], freed'[q],
               IF pc'[q] = "destroyed" THEN 1 ELSE 0)
  BY <1>2, <1>4, <1>5, <1>8
<1>10. \A x \in Buckets : x \in Offered(q)' <=> \E i \in 1 .. Len(s) : s[i] = x
  <2>1. \A x \in Buckets : x \in Offered(q)' <=> x \in Offered(q)
    BY <1>1, <1>3, OfferedAfter DEF NoScan
  <2>. QED BY <1>6, <2>1 DEF Holds
<1>11. Holds(q, s, Len(s), Len(s))'
  <2>1. pc'[q] \notin Destroying => Len(s) = Len(s)
    OBVIOUS
  <2>2. pc'[q] = "destroyed" => Len(s) = Len(s)
    OBVIOUS
  <2>. QED BY <1>9, <1>10, <2>1, <2>2, HoldsNext
<1>12. \A r \in Queries \ {q} : Same(r)
  BY <1>2, <1>3, <1>4 DEF Same, NoScan
<1>13. freed' \in [Queries -> [Buckets -> Nat]]
  BY <1>1, <1>2 DEF ListInv
<1>. QED BY <1>1, <1>3, <1>11, <1>12, <1>13, ListsOfOne

\* next() goes on to the next bucket, or to the first one that take() has returned.
LEMMA NextLists ==
  ASSUME BucketInv, NEW q \in Queries, NextBucket(q) \/ (UseTaken(q) /\ taken[q] # EMPTY)
  PROVE  /\ ListInv'
         /\ delivered' # delivered =>
              \E s \in Seq(Buckets) : \E b, c : /\ Holds(q, s, b, c) /\ Len(delivered[q]) + 1 \in 1 .. Len(s)
                     /\ delivered' = [delivered EXCEPT ![q] = Append(@, s[Len(delivered[q]) + 1])]
<1>1. /\ PoolTyped /\ CallersTyped /\ ListsTyped /\ ListInv /\ TileInv /\ CallerOf(q)
      /\ index \in Indexes /\ delivered[q] \in Seq(Buckets)
      /\ freed \in [Queries -> [Buckets -> Nat]]
  BY DEF BucketInv, Inv, CallerInv, PoolTyped, ListsTyped, ListInv
<1>2. UNCHANGED <<fixedVars, poolVars, walker, allRequested, next, queued>>
  BY DEF NextBucket, UseTaken, walkVars, listVars
<1>3. NoScan /\ index' = index
  BY <1>1, <1>2, TilesSame DEF fixedVars
<1>4. PICK s, b, c : Holds(q, s, b, c)
  BY <1>1 DEF ListInv
<1>. DEFINE x == InHand(next[q], current[q], taken[q])
<1>5. pc[q] \in {"idle", "taken"} /\ (taken[q] # EMPTY => current[q] = EMPTY)
  BY <1>1 DEF NextBucket, UseTaken, CallerOf, Destroying
<1>6. Arranged(s, delivered[q], b, c, next[q], current[q], taken[q], queued[q], freed[q], 0)
  BY <1>4, <1>5 DEF Holds
<1>7. /\ freed'[q] = Freeing(freed[q], {current[q]} \ {EMPTY})
      /\ freed' \in [Queries -> [Buckets -> Nat]]
      /\ \A r \in Queries \ {q} : freed'[r] = freed[r]
  <2>1. CASE NextBucket(q)
    <3>1. Free(q, {current[q]} \ {EMPTY})
      BY <2>1 DEF NextBucket
    <3>. QED BY <1>1, <3>1, FreeCounts
  <2>2. CASE UseTaken(q) /\ taken[q] # EMPTY
    <3>1. freed' = freed /\ {current[q]} \ {EMPTY} = {} /\ freed[q] \in [Buckets -> Nat]
      BY <1>1, <1>5, <2>2 DEF UseTaken
    <3>2. Freeing(freed[q], {}) = freed[q]
      BY <3>1, FreeingNone
    <3>. QED BY <1>1, <3>1, <3>2
  <2>. QED BY <2>1, <2>2
<1>8. \A y \in Buckets : y \in Offered(q)' <=> \E i \in 1 .. Len(s) : s[i] = y
  <2>1. \A y \in Buckets : y \in Offered(q)' <=> y \in Offered(q)
    BY <1>1, <1>3, OfferedAfter DEF NoScan
  <2>. QED BY <1>4, <2>1 DEF Holds
<1>9. taken'[q] = EMPTY /\ \A r \in Queries \ {q} : taken'[r] = taken[r]
  BY <1>1, <1>5 DEF NextBucket, UseTaken, ListsTyped, CallerOf
<1>10. /\ pc'[q] \in {"idle", "drain"}
       /\ \A r \in Queries \ {q} : pc'[r] = pc[r] /\ current'[r] = current[r] /\ delivered'[r] = delivered[r]
  BY <1>1 DEF NextBucket, UseTaken, Deliver, ListsTyped, CallersTyped
<1>11. \A r \in Queries \ {q} : Same(r)
  BY <1>2, <1>3, <1>7, <1>9, <1>10 DEF Same, NoScan
<1>12. b = c
  BY <1>4, <1>5 DEF Holds, Destroying
<1>13. CASE x # EMPTY
  <2>1. Deliver(q, x)
    BY <1>1, <1>13 DEF InHand, NextBucket, UseTaken, CallerOf
  <2>0. x = InHand(next[q], current[q], taken[q])
    OBVIOUS
  <2>. HIDE DEF x
  <2>2. /\ NextIs(s, delivered[q], x)
        /\ Arranged(s, Append(delivered[q], x), b, c, next[q], x, EMPTY, queued[q],
                    Freeing(freed[q], {current[q]} \ {EMPTY}), 0)
    <3>1. delivered[q] \in Seq(Buckets) /\ (taken[q] # EMPTY => current[q] = EMPTY)
      BY <1>1, <1>5
    <3>. QED BY <1>6, <1>13, <2>0, <3>1, DeliverArranged
  <2>3. current'[q] = x /\ delivered'[q] = Append(delivered[q], x)
        /\ delivered' = [delivered EXCEPT ![q] = Append(@, x)]
    BY <1>1, <2>1 DEF Deliver, ListsTyped
  <2>4. Arranged(s, delivered'[q], b, c, next'[q], current'[q], taken'[q], queued'[q], freed'[q],
                 IF pc'[q] = "destroyed" THEN 1 ELSE 0)
    BY <1>2, <1>7, <1>9, <1>10, <2>2, <2>3
  <2>5. (pc'[q] \notin Destroying => b = c) /\ (pc'[q] = "destroyed" => c = Len(s))
    BY <1>10, <1>12
  <2>6. Holds(q, s, b, c)'
    BY <1>8, <2>4, <2>5, HoldsNext
  <2>7. ListInv'
    BY <1>1, <1>3, <1>7, <1>11, <2>6, ListsOfOne
  <2>8. s \in Seq(Buckets)
    BY <1>6 DEF Arranged
  <2>. QED BY <1>4, <2>2, <2>3, <2>7, <2>8 DEF NextIs
<1>14. CASE x = EMPTY
  <2>1. taken[q] = EMPTY /\ next[q][current[q]] = EMPTY /\ NextBucket(q)
    BY <1>14 DEF InHand
  <2>2. current'[q] = EMPTY /\ delivered' = delivered
    BY <1>1, <2>1 DEF NextBucket, ListsTyped
  <2>3. Arranged(s, delivered[q], b, c, next[q], EMPTY, EMPTY, queued[q],
                 Freeing(freed[q], {current[q]} \ {EMPTY}), 0)
    BY <1>1, <1>6, <2>1, LastArranged
  <2>4. Arranged(s, delivered'[q], b, c, next'[q], current'[q], taken'[q], queued'[q], freed'[q],
                 IF pc'[q] = "destroyed" THEN 1 ELSE 0)
    BY <1>2, <1>7, <1>9, <1>10, <2>2, <2>3
  <2>5. (pc'[q] \notin Destroying => b = c) /\ (pc'[q] = "destroyed" => c = Len(s))
    BY <1>10, <1>12
  <2>6. Holds(q, s, b, c)'
    BY <1>8, <2>4, <2>5, HoldsNext
  <2>. QED BY <1>1, <1>3, <1>7, <1>11, <2>2, <2>6, ListsOfOne
<1>. QED BY <1>13, <1>14

\* The destructor deletes what take() would return, and in the end what the
\* caller had in hand.
LEMMA DestroyLists ==
  ASSUME BucketInv, NEW q \in Queries, DestroyTaking(q) \/ DestroyDone(q)
  PROVE  ListInv'
<1>1. /\ PoolTyped /\ CallersTyped /\ ListsTyped /\ ListInv /\ TileInv /\ CallerOf(q)
      /\ index \in Indexes /\ next[q] \in [Links -> Links] /\ delivered[q] \in Seq(Buckets)
      /\ freed \in [Queries -> [Buckets -> Nat]]
  BY DEF BucketInv, Inv, CallerInv, PoolTyped, ListsTyped, ListInv
<1>2. /\ pc[q] = "destroy"
      /\ UNCHANGED <<fixedVars, poolVars, walker, allRequested, current, taken, delivered>>
  BY DEF DestroyTaking, DestroyDone, walkVars
<1>3. NoScan /\ index' = index
  BY <1>1, <1>2, TilesSame DEF fixedVars
<1>4. PICK s, b, c : Holds(q, s, b, c)
  BY <1>1 DEF ListInv
<1>5. taken[q] = EMPTY
  BY <1>1, <1>2 DEF CallerOf
<1>6. Arranged(s, delivered[q], b, c, next[q], current[q], EMPTY, queued[q], freed[q], 0)
  BY <1>2, <1>4, <1>5 DEF Holds
<1>7. \A y \in Buckets : y \in Offered(q)' <=> \E i \in 1 .. Len(s) : s[i] = y
  <2>1. \A y \in Buckets : y \in Offered(q)' <=> y \in Offered(q)
    BY <1>1, <1>3, OfferedAfter DEF NoScan
  <2>. QED BY <1>4, <2>1 DEF Holds
<1>8. CASE DestroyTaking(q)
  <2>. DEFINE cut == [next[q] EXCEPT ![queued[q]] = EMPTY]
              list == ListFrom(cut, next[q][queued[q]])
  <2>1. /\ next'[q] = cut /\ queued'[q] = EMPTY /\ pc' = pc
        /\ \A r \in Queries \ {q} : next'[r] = next[r] /\ queued'[r] = queued[r]
    BY <1>1, <1>8 DEF DestroyTaking, TakeAll, ListsTyped
  <2>2. Arranged(s, delivered[q], b, Len(s), cut, current[q], EMPTY, EMPTY, Freeing(freed[q], list), 0)
    BY <1>1, <1>6, DestroyedRing
  <2>. HIDE DEF cut
  <2>3. Free(q, list)
    BY <1>8, <2>1 DEF DestroyTaking
  <2>. HIDE DEF list
  <2>4. /\ freed' \in [Queries -> [Buckets -> Nat]] /\ freed'[q] = Freeing(freed[q], list)
        /\ \A r \in Queries \ {q} : freed'[r] = freed[r]
    BY <1>1, <2>3, FreeCounts
  <2>5. Arranged(s, delivered'[q], b, Len(s), next'[q], current'[q], taken'[q], queued'[q], freed'[q],
                 IF pc'[q] = "destroyed" THEN 1 ELSE 0)
    BY <1>2, <1>5, <2>1, <2>2, <2>4
  <2>6. (pc'[q] \notin Destroying => b = Len(s)) /\ (pc'[q] = "destroyed" => Len(s) = Len(s))
    BY <1>2, <2>1 DEF Destroying
  <2>7. Holds(q, s, b, Len(s))'
    BY <1>7, <2>5, <2>6, HoldsNext
  <2>8. \A r \in Queries \ {q} : Same(r)
    BY <1>2, <1>3, <2>1, <2>4 DEF Same, NoScan
  <2>. QED BY <1>1, <1>3, <2>4, <2>7, <2>8, ListsOfOne
<1>9. CASE DestroyDone(q)
  <2>. DEFINE list == ListFrom(next[q], current[q])
  <2>1. pending[q] = 0 /\ Free(q, list) /\ pc' = [pc EXCEPT ![q] = "destroyed"]
        /\ next' = next /\ queued' = queued
    BY <1>9 DEF DestroyDone, listVars
  <2>2. completed[q] = 0
    <3>1. pending[q] = TasksOf(q) + completed[q] /\ TasksOf(q) \in Nat /\ completed[q] \in Nat
      BY <1>1, TasksNat DEF BucketInv, Inv, PendingCounts, CallersTyped
    <3>. QED BY <2>1, <3>1
  <2>3. queued[q] = EMPTY
    BY <1>1, <2>2 DEF CallerOf
  <2>4. c = Len(s)
    <3>1. s \in Seq(Buckets) /\ CutPoints(s, delivered[q], b, c) /\ Ring(s, c, next[q], queued[q])
      BY <1>6 DEF Arranged
    <3>2. c \in Nat /\ c =< Len(s) /\ Len(s) \in Nat
      BY <3>1 DEF CutPoints
    <3>3. c < Len(s) => Len(s) \in 1 .. Len(s) /\ queued[q] = s[Len(s)]
      BY <3>1, <3>2 DEF Ring
    <3>4. ~ (c < Len(s))
      BY <2>3, <3>1, <3>3, EmptyNoBucket
    <3>. QED BY <3>2, <3>4
  <2>5. Arranged(s, delivered[q], b, Len(s), next[q], current[q], EMPTY, EMPTY, freed[q], 0)
    BY <1>6, <2>3, <2>4
  <2>6. Arranged(s, delivered[q], b, Len(s), next[q], current[q], EMPTY, EMPTY, Freeing(freed[q], list), 1)
    BY <1>1, <2>5, DestroyedChain
  <2>. HIDE DEF list
  <2>7. /\ freed' \in [Queries -> [Buckets -> Nat]] /\ freed'[q] = Freeing(freed[q], list)
        /\ \A r \in Queries \ {q} : freed'[r] = freed[r]
    BY <1>1, <2>1, FreeCounts
  <2>8. pc'[q] = "destroyed" /\ \A r \in Queries \ {q} : pc'[r] = pc[r]
    BY <1>1, <2>1 DEF CallersTyped
  <2>9. Arranged(s, delivered'[q], b, Len(s), next'[q], current'[q], taken'[q], queued'[q], freed'[q],
                 IF pc'[q] = "destroyed" THEN 1 ELSE 0)
    BY <1>2, <1>5, <2>1, <2>3, <2>6, <2>7, <2>8
  <2>10. (pc'[q] \notin Destroying => b = Len(s)) /\ (pc'[q] = "destroyed" => Len(s) = Len(s))
    BY <2>8 DEF Destroying
  <2>11. Holds(q, s, b, Len(s))'
    BY <1>7, <2>9, <2>10, HoldsNext
  <2>12. \A r \in Queries \ {q} : Same(r)
    BY <1>2, <1>3, <2>1, <2>7, <2>8 DEF Same, NoScan
  <2>. QED BY <1>1, <1>3, <2>7, <2>11, <2>12, ListsOfOne
<1>. QED BY <1>8, <1>9

\* A query with a task is not destroyed.
LEMMA TaskAlive ==
  ASSUME Inv, NEW w \in Workers, NEW q \in Queries, Len(workers[w]) = 2, workers[w][1] = q
  PROVE  pc[q] # "destroyed"
<1>1. w \in InHands(workers, q)
  BY DEF InHands
<1>2. IsFiniteSet(InHands(workers, q)) /\ Cardinality(InHands(workers, q)) \in Nat
  BY HandsCountable
<1>3. Cardinality(InHands(workers, q)) # 0
  BY <1>1, <1>2, FS_EmptySet
<1>4. Cardinality(InQueue(queue, q)) \in Nat
  BY QueueCountable DEF Inv, PoolTyped
<1>5. TasksOf(q) > 0
  BY <1>2, <1>3, <1>4, TasksAreCounted DEF Count
<1>6. pending[q] = TasksOf(q) + completed[q] /\ completed[q] \in Nat
  BY DEF Inv, PendingCounts, CallersTyped
<1>7. TasksOf(q) \in Nat
  BY TasksNat DEF Inv
<1>. QED BY <1>5, <1>6, <1>7 DEF Inv, Waiting

\* A worker's step.
LEMMA WorkLists ==
  ASSUME BucketInv, NEW w \in Workers, Work(w)
  PROVE  TileInv' /\ ListInv'
<1>1. Inv /\ TileInv /\ ListInv /\ PoolTyped /\ CallersTyped /\ ListsTyped
  BY DEF BucketInv, Inv
<1>2. CASE Dequeue(w) \/ Sleep(w)
  <2>1. TileInv' /\ NoScan
    BY <1>1, <1>2, WorkerTiles
  <2>2. UNCHANGED <<index, next, queued, callerVars, pc>>
    BY <1>2 DEF Dequeue, Sleep, fixedVars, listVars
  <2>. QED BY <1>1, <2>1, <2>2, ListsKept
<1>3. CASE RunTask(w)
  <2>. DEFINE q == workers[w][1]
              t == workers[w][2]
  <2>1. TileInv' /\ workers[w] \in Tasks /\ Scans(q, t)
    BY <1>1, <1>3, RunTaskTiles
  <2>2. Offer(q, t) /\ Notify(q) /\ UNCHANGED <<fixedVars, callerVars>> /\ Len(workers[w]) = 2
    BY <1>3 DEF RunTask, Busy
  <2>3. q \in Queries
    BY <2>1 DEF Tasks
  <2>4. pc[q] # "destroyed"
    BY <1>1, <2>2, <2>3, TaskAlive
  <2>. HIDE DEF q, t
  <2>5. /\ pc'[q] = pc[q] \/ (pc[q] = "waiting" /\ pc'[q] = "drain")
           \/ (pc[q] = "waitingToDestroy" /\ pc'[q] = "destroy")
        /\ \A r \in Queries \ {q} : pc'[r] = pc[r]
    BY <1>1, <2>2, <2>3 DEF Notify, CallersTyped
  <2>6. pc'[q] # "destroyed" /\ (pc[q] \in Destroying => pc'[q] \in Destroying)
    BY <2>4, <2>5 DEF Destroying
  <2>7. UNCHANGED <<index, callerVars>>
    BY <2>2 DEF fixedVars
  <2>8. ListInv'
    BY <1>1, <2>1, <2>2, <2>3, <2>4, <2>5, <2>6, <2>7, OfferLists
  <2>. QED BY <2>1, <2>8
<1>. QED BY <1>2, <1>3 DEF Work

\* A step of requestTiles.
LEMMA RequestLists ==
  ASSUME BucketInv, NEW q \in Queries, Request(q)
  PROVE  TileInv' /\ ListInv'
<1>1. Inv /\ TileInv /\ ListInv /\ PoolTyped /\ CallersTyped /\ ListsTyped
  BY DEF BucketInv, Inv
<1>2. pc[q] = "request" /\ after[q] \in {"idle", "taken"} /\ UNCHANGED <<index, callerVars>>
  BY <1>1 DEF Request, RequestPosting, RequestStopping, RequestRunningHere, RequestSkipping, CallersTyped, fixedVars
<1>3. pc' = pc \/ pc' = [pc EXCEPT ![q] = after[q]]
  <2>1. CASE RequestStopping(q)
    BY <2>1 DEF RequestStopping
  <2>2. CASE ~ RequestStopping(q)
    <3>1. PICK skip \in BOOLEAN : Advance(q, skip)
      BY <2>2 DEF Request, RequestPosting, RequestRunningHere, RequestSkipping
    <3>. QED BY <1>1, <3>1, AdvanceTyped
  <2>. QED BY <2>1, <2>2
<1>4. /\ \A r \in Queries \ {q} : pc'[r] = pc[r]
      /\ pc[q] \notin Destroying /\ pc'[q] # "destroyed" /\ pc[q] # "destroyed"
  BY <1>1, <1>2, <1>3 DEF CallersTyped, Destroying
<1>5. CASE RequestRunningHere(q)
  <2>1. TileInv' /\ Scans(q, walker[q]) /\ Offer(q, walker[q])
    BY <1>1, <1>5, WalkTiles DEF RequestRunningHere
  <2>2. ListInv'
    BY <1>1, <1>2, <1>4, <2>1, OfferLists
  <2>. QED BY <2>1, <2>2
<1>6. CASE ~ RequestRunningHere(q)
  <2>1. TileInv' /\ NoScan
    <3>1. CASE RequestStopping(q)
      <4>1. UNCHANGED <<fixedVars, poolVars, walker, allRequested>>
        BY <3>1 DEF RequestStopping, walkVars
      <4>. QED BY <1>1, <4>1, TilesSame
    <3>2. CASE ~ RequestStopping(q)
      BY <1>1, <1>6, <3>2, WalkTiles DEF Request
    <3>. QED BY <3>1, <3>2
  <2>2. UNCHANGED <<next, queued>>
    BY <1>6 DEF Request, RequestPosting, RequestStopping, RequestSkipping, listVars
  <2>. QED BY <1>1, <1>2, <1>4, <2>1, <2>2, ListsKept
<1>. QED BY <1>5, <1>6

\* Any other step of a caller, the constructor and no step.
LEMMA OtherLists ==
  ASSUME BucketInv,
         \/ Construct \/ UNCHANGED vars
         \/ \E q \in Queries : \/ ReturnNull(q) \/ Wait(q) \/ Take(q) \/ UseTaken(q) \/ DestroyTaking(q)
                               \/ DestroyDone(q) \/ NextBucket(q) \/ Destroy(q)
  PROVE  TileInv' /\ ListInv'
<1>1. Inv /\ TileInv /\ ListInv /\ PoolTyped /\ CallersTyped /\ ListsTyped
  BY DEF BucketInv, Inv
<1>2. UNCHANGED <<fixedVars, poolVars, walker, allRequested>>
  BY DEF Construct, vars, ReturnNull, Wait, Take, UseTaken, DestroyTaking, DestroyDone, NextBucket, Destroy, walkVars
<1>3. TileInv' /\ NoScan /\ index' = index
  BY <1>1, <1>2, TilesSame DEF fixedVars
<1>4. CASE \/ Construct \/ UNCHANGED vars
           \/ \E q \in Queries : ReturnNull(q) \/ Wait(q) \/ Destroy(q) \/ (UseTaken(q) /\ taken[q] = EMPTY)
  <2>1. UNCHANGED <<next, queued, current, delivered, freed>>
    BY <1>4 DEF Construct, vars, ReturnNull, Wait, Destroy, UseTaken, listVars, callerVars
  <2>2. taken' = taken
    <3>1. ASSUME NEW q \in Queries, UseTaken(q), taken[q] = EMPTY PROVE taken' = taken
      BY <1>1, <3>1 DEF UseTaken, ListsTyped
    <3>. QED BY <1>4, <3>1 DEF Construct, vars, ReturnNull, Wait, Destroy, callerVars
  <2>3. \/ pc' = pc
        \/ \E q \in Queries : \/ pc[q] \in {"none", "drain", "idle", "ended", "taken"}
                                 /\ pc' = [pc EXCEPT ![q] = pc'[q]] /\ pc'[q] # "destroyed"
                              \/ pc[q] = "destroy" /\ pc' = [pc EXCEPT ![q] = "waitingToDestroy"]
    <3>1. ASSUME Construct PROVE \E q \in Queries : pc[q] = "none" /\ pc' = [pc EXCEPT ![q] = "request"]
      BY <3>1 DEF Construct
    <3>2. ASSUME NEW q \in Queries, ReturnNull(q) \/ Wait(q) \/ Destroy(q) \/ (UseTaken(q) /\ taken[q] = EMPTY)
          PROVE  \/ pc[q] \in {"drain", "idle", "ended", "taken"}
                    /\ \E p \in {"ended", "waiting", "destroy", "drain"} : pc' = [pc EXCEPT ![q] = p]
                 \/ pc[q] = "destroy" /\ pc' = [pc EXCEPT ![q] = "waitingToDestroy"]
      BY <3>2 DEF ReturnNull, Wait, Destroy, UseTaken
    <3>3. ASSUME NEW q \in Queries, NEW p, pc' = [pc EXCEPT ![q] = p]
          PROVE  pc'[q] = p
      BY <1>1, <3>3 DEF CallersTyped
    <3>4. CASE Construct
      BY <3>1, <3>3, <3>4
    <3>5. CASE UNCHANGED vars
      BY <3>5 DEF vars
    <3>6. ASSUME NEW q \in Queries, ReturnNull(q) \/ Wait(q) \/ Destroy(q) \/ (UseTaken(q) /\ taken[q] = EMPTY)
          PROVE  \/ pc[q] \in {"none", "drain", "idle", "ended", "taken"}
                    /\ pc' = [pc EXCEPT ![q] = pc'[q]] /\ pc'[q] # "destroyed"
                 \/ pc[q] = "destroy" /\ pc' = [pc EXCEPT ![q] = "waitingToDestroy"]
      BY <3>2, <3>3, <3>6
    <3>. QED BY <1>4, <3>4, <3>5, <3>6
  <2>4. \A r \in Queries : /\ pc[r] \in Destroying => pc'[r] \in Destroying
                           /\ pc'[r] = "destroyed" <=> pc[r] = "destroyed"
    BY <1>1, <2>3 DEF CallersTyped, Destroying
  <2>. QED BY <1>1, <1>3, <2>1, <2>2, <2>4, ListsKept DEF callerVars
<1>5. ASSUME NEW q \in Queries, Take(q) \/ DestroyTaking(q) \/ DestroyDone(q) \/ NextBucket(q)
                                \/ (UseTaken(q) /\ taken[q] # EMPTY)
      PROVE  ListInv'
  BY <1>5, TakeLists, DestroyLists, NextLists
<1>. QED BY <1>3, <1>4, <1>5

\* Every step keeps the lists.
LEMMA BucketStep ==
  ASSUME BucketInv, [Next]_vars
  PROVE  BucketInv'
<1>1. Inv' /\ CallerInv'
  BY StepInv, CallerStep DEF BucketInv
<1>2. TileInv' /\ ListInv'
  <2>1. CASE Construct \/ UNCHANGED vars
    BY <2>1, OtherLists
  <2>2. ASSUME NEW q \in Queries, InCall(q) \/ NextBucket(q) \/ Destroy(q) PROVE TileInv' /\ ListInv'
    <3>1. CASE Request(q)
      BY <3>1, RequestLists
    <3>2. CASE ~ Request(q)
      BY <2>2, <3>2, OtherLists DEF InCall
    <3>. QED BY <3>1, <3>2
  <2>3. ASSUME NEW w \in Workers, Work(w) PROVE TileInv' /\ ListInv'
    BY <2>3, WorkLists
  <2>. QED BY <2>1, <2>2, <2>3 DEF Next, Finished
<1>. QED BY <1>1, <1>2 DEF BucketInv

\* Before the first query there is no tile and no bucket.
LEMMA InitBuckets ==
  ASSUME Init
  PROVE  BucketInv
<1>1. Inv
  BY InitInv
<1>2. index \in Indexes /\ queue = <<>> /\ workers = [w \in Workers |-> Ready]
      /\ \E n \in Nat : DOMAIN index = 1 .. n
  <2>1. index \in Indexes
    BY <1>1 DEF Inv, PoolTyped
  <2>. QED BY <2>1, TilesNumbered DEF Init
<1>3. \A q \in Queries : Outstanding(queue, workers, q) = {} /\ Requested(q) = {}
  <2>. TAKE q \in Queries
  <2>1. Outstanding(queue, workers, q) = {}
    BY <1>2, NoTask DEF Outstanding
  <2>2. walker[q] = 1 /\ allRequested[q] = FALSE
    BY DEF Init
  <2>. QED BY <1>2, <2>1, <2>2 DEF Requested, Before
<1>4. TileInv
  <2>1. WalkInv
    BY DEF Init, WalkInv
  <2>2. TaskOnce(queue, workers)
    BY <1>2, NoTask DEF TaskOnce
  <2>. QED BY <1>3, <2>1, <2>2 DEF TileInv
<1>5. CallerInv
  BY DEF Init, CallerInv, CallerOf, Destroying
<1>6. freed \in [Queries -> [Buckets -> Nat]]
  BY DEF Init
<1>7. ASSUME NEW q \in Queries PROVE Holds(q, <<>>, 0, 0)
  <2>1. /\ pc[q] = "none" /\ delivered[q] = <<>> /\ next[q] = [b \in Links |-> EMPTY]
        /\ current[q] = EMPTY /\ taken[q] = EMPTY /\ queued[q] = EMPTY
        /\ freed[q] = [b \in Buckets |-> 0]
    BY DEF Init
  <2>2. <<>> \in Seq(Buckets) /\ Len(<<>>) = 0
    OBVIOUS
  <2>3. OneToOne(<<>>) /\ TileOrder(<<>>)
    BY <2>2 DEF OneToOne, TileOrder
  <2>4. CutPoints(<<>>, <<>>, 0, 0) /\ Chain(<<>>, 0, 0, next[q]) /\ Ring(<<>>, 0, next[q], EMPTY)
    BY <2>2 DEF CutPoints, Chain, Ring
  <2>5. Outside(<<>>, next[q], freed[q]) /\ Held(<<>>, 0, 0, next[q], EMPTY, EMPTY)
    BY <2>1, EmptyNoBucket DEF Outside, Held
  <2>6. Deleted(<<>>, 0, 0, 0, EMPTY, freed[q], 0)
    BY <2>1, <2>2 DEF Deleted
  <2>7. Arranged(<<>>, <<>>, 0, 0, next[q], EMPTY, EMPTY, EMPTY, freed[q], 0)
    BY <2>2, <2>3, <2>4, <2>5, <2>6, Zenon DEF Arranged
  <2>8. \A x \in Buckets : x \in Offered(q) <=> \E i \in 1 .. Len(<<>>) : <<>>[i] = x
    BY <1>3, <2>2 DEF Offered, Scanned
  <2>. QED BY <2>1, <2>7, <2>8 DEF Holds
<1>8. ListInv
  BY <1>6, <1>7 DEF ListInv
<1>. QED BY <1>1, <1>4, <1>5, <1>8 DEF BucketInv

\* In every reachable state every bucket that was offered is in one place.
THEOREM BucketsAlwaysArranged == Spec => []BucketInv
<1>1. Init => BucketInv
  BY InitBuckets
<1>2. BucketInv /\ [Next]_vars => BucketInv'
  BY BucketStep
<1>. QED BY <1>1, <1>2, PTL DEF Spec

\* The buckets of a list end with EMPTY, and none of them is deleted, if it is
\* that of a circle, of what take() has returned, or of what is in hand.
LEMMA ListsUndeleted ==
  ASSUME NEW s, NEW hist \in Seq(Buckets), NEW b, NEW c, NEW links, NEW cur, NEW tk, NEW last, NEW fr,
         Arranged(s, hist, b, c, links, cur, tk, last, fr, 0), tk # EMPTY => cur = EMPTY
  PROVE  \A x \in ListFrom(links, last) \cup ListFrom(links, cur) \cup ListFrom(links, tk) : fr[x] = 0
<1>. DEFINE n == Len(s)
            a == Len(hist)
<1>1. s \in Seq(Buckets) /\ n \in Nat /\ a \in Nat
  <2>1. s \in Seq(Buckets)
    BY DEF Arranged
  <2>. QED BY <2>1
<1>2. /\ OneToOne(s) /\ CutPoints(s, hist, b, c) /\ Chain(s, a, b, links)
      /\ Ring(s, c, links, last) /\ Outside(s, links, fr) /\ Held(s, a, b, links, cur, tk)
      /\ Deleted(s, a, b, c, cur, fr, 0)
  BY Zenon DEF Arranged
<1>3. b \in Nat /\ c \in Nat /\ a =< b /\ b =< c /\ c =< n
  BY <1>2 DEF CutPoints
<1>4. \A i \in 1 .. n : s[i] \in Buckets /\ s[i] # EMPTY
  BY <1>1, EmptyNoBucket
<1>5. links[EMPTY] = EMPTY
  BY <1>2, <1>4, EmptyNoBucket DEF Outside
<1>6. \A i \in c + 1 .. n : fr[s[i]] = 0
  BY <1>1, <1>2, <1>3 DEF Deleted
<1>7. \A i \in a + 1 .. b : fr[s[i]] = 0
  <2>. TAKE i \in a + 1 .. b
  <2>1. i \in 1 .. n /\ ~ (i < a) /\ i # a /\ ~ (b < i)
    BY <1>1, <1>3
  <2>. QED BY <1>2, <2>1 DEF Deleted
<1>8. ASSUME NEW x \in ListFrom(links, last) PROVE fr[x] = 0
  <2>1. CASE c < n
    <3>. DEFINE S == {s[i] : i \in c + 1 .. n}
    <3>1. last \in S
      BY <1>1, <1>2, <1>3, <2>1 DEF Ring
    <3>2. \A y \in S : links[y] \in S
      <4>. SUFFICES ASSUME NEW i \in c + 1 .. n PROVE links[s[i]] \in S
        OBVIOUS
      <4>1. links[s[i]] = IF i = n THEN s[c + 1] ELSE s[i + 1]
        BY <1>2 DEF Ring
      <4>2. c + 1 \in c + 1 .. n /\ (i # n => i + 1 \in c + 1 .. n)
        BY <1>1, <1>3, <2>1
      <4>. QED BY <4>1, <4>2
    <3>. HIDE DEF S
    <3>3. x \in S
      BY <1>8, <3>1, <3>2, ListWithin
    <3>. QED BY <1>6, <3>3 DEF S
  <2>2. CASE ~ (c < n)
    <3>1. last = EMPTY
      BY <1>2, <2>2 DEF Ring
    <3>. QED BY <1>5, <1>8, <3>1, EmptyList
  <2>. QED BY <2>1, <2>2
<1>9. ASSUME NEW x \in ListFrom(links, cur) PROVE fr[x] = 0
  <2>1. cur # EMPTY
    BY <1>5, <1>9, EmptyList
  <2>2. tk = EMPTY /\ Held(s, a, b, links, cur, EMPTY)
    BY <1>2, <2>1
  <2>3. ListFrom(links, cur) = Stretch(s, a, b)
    BY <1>1, <1>2, <2>1, <2>2, CurrentList
  <2>4. PICK i \in a .. b : x = s[i]
    BY <1>9, <2>3 DEF Stretch
  <2>5. a > 0 /\ cur = s[a]
    BY <2>1, <2>2 DEF Held
  <2>. QED BY <1>1, <1>2, <1>3, <2>1, <2>4, <2>5 DEF Deleted
<1>10. ASSUME NEW x \in ListFrom(links, tk) PROVE fr[x] = 0
  <2>1. tk # EMPTY
    BY <1>5, <1>10, EmptyList
  <2>2. a < b /\ tk = s[a + 1]
    BY <1>2, <2>1 DEF Held
  <2>. DEFINE S == {s[i] : i \in a + 1 .. b} \cup {EMPTY}
  <2>3. tk \in S
    BY <1>1, <1>3, <2>2
  <2>4. \A y \in S : links[y] \in S
    <3>1. ASSUME NEW i \in a + 1 .. b PROVE links[s[i]] \in S
      <4>1. links[s[i]] = IF i = b THEN EMPTY ELSE s[i + 1]
        BY <1>2 DEF Chain
      <4>2. i # b => i + 1 \in a + 1 .. b
        BY <1>1, <1>3
      <4>. QED BY <4>1, <4>2
    <3>. QED BY <1>5, <3>1
  <2>. HIDE DEF S
  <2>5. x \in S \ {EMPTY}
    BY <1>10, <2>3, <2>4, ListWithin
  <2>. QED BY <1>7, <2>5 DEF S
<1>. QED BY <1>8, <1>9, <1>10

\* No bucket is deleted twice or while it is in a list, and what was destroyed
\* has no bucket left.
LEMMA BucketsFreed ==
  ASSUME BucketInv
  PROVE  NoDanglingBucket /\ \A q \in Queries : pc[q] = "destroyed" =>
                                \A x \in Buckets : next[q][x] # EMPTY => freed[q][x] = 1
<1>. SUFFICES ASSUME NEW q \in Queries
              PROVE  /\ \A x \in Buckets : freed[q][x] =< 1
                     /\ pc[q] # "destroyed" =>
                          \A x \in ListFrom(next[q], queued[q]) \cup ListFrom(next[q], current[q])
                                   \cup ListFrom(next[q], taken[q]) : freed[q][x] = 0
                     /\ pc[q] = "destroyed" => \A x \in Buckets : next[q][x] # EMPTY => freed[q][x] = 1
  BY DEF NoDanglingBucket
<1>. DEFINE gone == IF pc[q] = "destroyed" THEN 1 ELSE 0
<1>1. PICK s, b, c : Holds(q, s, b, c)
  BY DEF BucketInv, ListInv
<1>2. CallerOf(q) /\ delivered[q] \in Seq(Buckets)
  BY DEF BucketInv, Inv, CallerInv, ListsTyped
<1>3. Arranged(s, delivered[q], b, c, next[q], current[q], taken[q], queued[q], freed[q], gone)
  BY <1>1 DEF Holds
<1>. HIDE DEF gone
<1>4. /\ Outside(s, next[q], freed[q])
      /\ Deleted(s, Len(delivered[q]), b, c, current[q], freed[q], gone)
  BY <1>3, Zenon DEF Arranged
<1>5. ASSUME NEW x \in Buckets PROVE freed[q][x] =< 1
  <2>1. CASE \A i \in 1 .. Len(s) : s[i] # x
    <3>1. freed[q][x] = 0
      BY <1>4, <2>1 DEF Outside
    <3>. QED BY <3>1
  <2>2. ASSUME NEW i \in 1 .. Len(s), s[i] = x PROVE freed[q][x] =< 1
    <3>1. freed[q][s[i]] = 1 \/ freed[q][s[i]] = 0
      BY <1>4 DEF Deleted
    <3>. QED BY <2>2, <3>1
  <2>. QED BY <2>1, <2>2
<1>6. ASSUME pc[q] # "destroyed"
      PROVE  \A x \in ListFrom(next[q], queued[q]) \cup ListFrom(next[q], current[q])
                       \cup ListFrom(next[q], taken[q]) : freed[q][x] = 0
  <2>1. Arranged(s, delivered[q], b, c, next[q], current[q], taken[q], queued[q], freed[q], 0)
    BY <1>3, <1>6 DEF gone
  <2>2. taken[q] # EMPTY => current[q] = EMPTY
    BY <1>2 DEF CallerOf, Destroying
  <2>. QED BY <1>2, <2>1, <2>2, ListsUndeleted
<1>7. ASSUME pc[q] = "destroyed", NEW x \in Buckets, next[q][x] # EMPTY PROVE freed[q][x] = 1
  <2>1. x \in Links
    BY EmptyNoBucket
  <2>2. PICK i \in 1 .. Len(s) : s[i] = x
    BY <1>4, <1>7, <2>1 DEF Outside
  <2>. QED BY <1>4, <1>7, <2>2 DEF Deleted, gone
<1>. QED BY <1>5, <1>6, <1>7

\* Tiles are counted, and buckets linked and deleted, exactly once, and nobody
\* waits for what has happened.
THEOREM BucketsAlwaysSafe == Spec => []BucketsSafe
<1>1. BucketInv /\ PendingCounts /\ NoWakeupLost /\ DestroyedUntouched => BucketsSafe
  <2>. SUFFICES ASSUME BucketInv, DestroyedUntouched PROVE DestroyedQuietly /\ NoDanglingBucket
    BY DEF BucketsSafe
  <2>. QED BY BucketsFreed DEF DestroyedQuietly, DestroyedUntouched
<1>. QED BY <1>1, BucketsAlwaysArranged, PendingExact, WakeupsKept, NoTaskOfDestroyed, PTL

-----------------------------------------------------------------------------
(* A query keeps the promise of TileDelivery *)

\* What the caller sees of where a query is.
StateOf(p) ==
  CASE p \in {"none", "ended"} -> p
    [] p \in {"destroy", "waitingToDestroy", "destroyed"} -> "destroyed"
    [] OTHER -> "open"

\* Which place is which state.
LEMMA StateAt ==
  /\ StateOf("none") = "none" /\ StateOf("ended") = "ended"
  /\ \A p \in Destroying : StateOf(p) = "destroyed"
  /\ \A p \in {"request", "idle", "drain", "waiting", "taken"} : StateOf(p) = "open"
  BY DEF StateOf, Destroying

\* The tile index does not change while queries run.
LEMMA ExpectedKept ==
  ASSUME UNCHANGED index
  PROVE  Expected' = Expected
  BY DEF Expected, Reachable, Buckets

\* A step that neither hands out anything nor changes what the caller sees.
LEMMA Stutters ==
  ASSUME UNCHANGED <<index, delivered>>, \A r \in Queries : StateOf(pc'[r]) = StateOf(pc[r])
  PROVE  UNCHANGED Delivery!vars
<1>1. Expected' = Expected
  BY ExpectedKept
<1>2. \A r \in Queries :
        (CASE pc'[r] \in {"none", "ended"} -> pc'[r]
           [] pc'[r] \in {"destroy", "waitingToDestroy", "destroyed"} -> "destroyed"
           [] OTHER -> "open") =
        (CASE pc[r] \in {"none", "ended"} -> pc[r]
           [] pc[r] \in {"destroy", "waitingToDestroy", "destroyed"} -> "destroyed"
           [] OTHER -> "open")
  BY DEF StateOf
<1>. QED BY <1>1, <1>2 DEF Delivery!vars

\* A step of one query that the caller sees, and that hands out nothing.
LEMMA Shows ==
  ASSUME CallersTyped, UNCHANGED <<index, delivered>>, NEW q \in Queries, NEW p, pc' = [pc EXCEPT ![q] = p]
  PROVE  /\ pc[q] = "none" /\ p = "request" => Delivery!Open(q)
         /\ pc[q] \in {"idle", "ended"} /\ p = "destroy" => Delivery!Destroy(q)
         /\ StateOf(p) = StateOf(pc[q]) => UNCHANGED Delivery!vars
<1>1. Expected' = Expected
  BY ExpectedKept
<1>2. pc'[q] = p /\ \A r \in Queries \ {q} : pc'[r] = pc[r]
  BY DEF CallersTyped
<1>3. ASSUME pc[q] = "none", p = "request" PROVE Delivery!Open(q)
  BY <1>1, <1>2, <1>3 DEF Delivery!Open
<1>4. ASSUME pc[q] \in {"idle", "ended"}, p = "destroy" PROVE Delivery!Destroy(q)
  BY <1>1, <1>2, <1>4 DEF Delivery!Destroy
<1>5. ASSUME StateOf(p) = StateOf(pc[q]) PROVE UNCHANGED Delivery!vars
  BY <1>2, <1>5, Stutters
<1>. QED BY <1>3, <1>4, <1>5

\* A result that was offered is one to hand out, and those of its tile were
\* offered with it.
LEMMA OfferedExpected ==
  ASSUME NEW q
  PROVE  /\ Offered(q) \subseteq Expected
         /\ \A x, y \in Expected : x \in Offered(q) /\ x[1] = y[1] => y \in Offered(q)
  BY DEF Offered, Expected, Scanned, Requested, Before

\* The next bucket of the sequence is the first of its tile that is left.
LEMMA NextIsLeast ==
  ASSUME ListsTyped, NEW q \in Queries, NEW s, NEW b, NEW c, Holds(q, s, b, c),
         Len(delivered[q]) + 1 \in 1 .. Len(s)
  PROVE  LET x == s[Len(delivered[q]) + 1]
         IN  /\ x \in Delivery!Left(q)
             /\ \A y \in Delivery!Left(q) : y[1] = x[1] => x[2] =< y[2]
<1>. DEFINE a == Len(delivered[q])
            x == s[a + 1]
<1>1. /\ delivered[q] \in Seq(Buckets) /\ s \in Seq(Buckets) /\ OneToOne(s) /\ TileOrder(s)
      /\ CutPoints(s, delivered[q], b, c)
      /\ \A y \in Buckets : y \in Offered(q) <=> \E i \in 1 .. Len(s) : s[i] = y
  BY DEF Holds, Arranged, ListsTyped
<1>2. a \in Nat /\ Len(s) \in Nat /\ \A i \in 1 .. a : delivered[q][i] = s[i]
  BY <1>1 DEF CutPoints
<1>3. \A y : y \in Delivery!Left(q) <=> y \in Expected /\ \A i \in 1 .. a : delivered[q][i] # y
  <2>1. Delivery!Left(q) = Expected \ {delivered[q][i] : i \in 1 .. a}
    BY <1>1 DEF Delivery!Left, Delivery!Range
  <2>. QED BY <2>1
<1>4. x \in Buckets /\ x \in Offered(q) /\ x \in Expected
  BY <1>1, EmptyNoBucket, OfferedExpected
<1>5. \A i \in 1 .. a : delivered[q][i] # x
  BY <1>1, <1>2 DEF OneToOne
<1>6. ASSUME NEW y \in Delivery!Left(q), y[1] = x[1] PROVE x[2] =< y[2]
  <2>1. y \in Expected /\ y \in Buckets
    BY <1>3 DEF Expected
  <2>2. y \in Offered(q)
    BY <1>4, <1>6, <2>1, OfferedExpected
  <2>3. PICK j \in 1 .. Len(s) : s[j] = y
    BY <1>1, <2>1, <2>2
  <2>4. ~ (j < a + 1)
    BY <1>2, <1>3, <2>3
  <2>5. x[2] \in Int /\ y[2] \in Int
    BY <1>4, <2>1 DEF Buckets
  <2>6. ~ (y[2] < x[2])
    BY <1>1, <1>6, <2>3, <2>4 DEF TileOrder
  <2>. QED BY <2>5, <2>6
<1>. QED BY <1>3, <1>4, <1>5, <1>6

\* next() hands out a result that is left, or goes on.
LEMMA NextDelivers ==
  ASSUME BucketInv, NEW q \in Queries, NextBucket(q) \/ UseTaken(q)
  PROVE  Delivery!Deliver(q) \/ UNCHANGED Delivery!vars
<1>1. CallersTyped /\ ListsTyped
  BY DEF BucketInv, Inv
<1>2. pc[q] \in {"idle", "taken"} /\ index' = index
      /\ (pc' = pc \/ \E p \in {"idle", "drain"} : pc' = [pc EXCEPT ![q] = p])
  BY DEF NextBucket, UseTaken, fixedVars
<1>3. \A r \in Queries : StateOf(pc'[r]) = StateOf(pc[r])
  <2>1. StateOf(pc[q]) = "open" /\ StateOf(pc'[q]) = "open"
    BY <1>1, <1>2, StateAt DEF CallersTyped
  <2>2. \A r \in Queries \ {q} : pc'[r] = pc[r]
    BY <1>1, <1>2 DEF CallersTyped
  <2>. QED BY <2>1, <2>2
<1>4. CASE delivered' = delivered
  BY <1>2, <1>3, <1>4, Stutters
<1>5. CASE delivered' # delivered
  <2>1. NextBucket(q) \/ (UseTaken(q) /\ taken[q] # EMPTY)
    BY <1>5 DEF UseTaken
  <2>2. PICK s \in Seq(Buckets) : \E b, c : /\ Holds(q, s, b, c) /\ Len(delivered[q]) + 1 \in 1 .. Len(s)
                     /\ delivered' = [delivered EXCEPT ![q] = Append(@, s[Len(delivered[q]) + 1])]
    BY <1>5, <2>1, NextLists
  <2>3. PICK b, c : /\ Holds(q, s, b, c) /\ Len(delivered[q]) + 1 \in 1 .. Len(s)
                    /\ delivered' = [delivered EXCEPT ![q] = Append(@, s[Len(delivered[q]) + 1])]
    BY <2>2
  <2>. DEFINE x == s[Len(delivered[q]) + 1]
  <2>4. x \in Delivery!Left(q) /\ \A y \in Delivery!Left(q) : y[1] = x[1] => x[2] =< y[2]
    BY <1>1, <2>3, NextIsLeast
  <2>5. delivered' = [delivered EXCEPT ![q] = Append(@, x)]
    BY <2>3
  <2>. HIDE DEF x
  <2>6. Expected' = Expected
    BY <1>2, ExpectedKept
  <2>7. Delivery!Deliver(q)
    BY <1>2, <1>3, <2>4, <2>5, <2>6 DEF Delivery!Deliver, StateOf
  <2>. QED BY <2>7
<1>. QED BY <1>4, <1>5

\* next() returns null only when everything has been handed out.
LEMMA NullEnds ==
  ASSUME BucketInv, NEW q \in Queries, ReturnNull(q)
  PROVE  Delivery!End(q)
<1>1. /\ Inv /\ PoolTyped /\ CallersTyped /\ ListsTyped /\ CallerOf(q)
      /\ delivered[q] \in Seq(Buckets) /\ pc[q] = "drain" /\ pending[q] = 0
      /\ pc' = [pc EXCEPT ![q] = "ended"] /\ index' = index /\ delivered' = delivered
  BY DEF BucketInv, Inv, CallerInv, ListsTyped, ReturnNull, fixedVars, callerVars
<1>2. allRequested[q]
  BY <1>1 DEF CallerOf, CallersTyped
<1>3. TasksOf(q) = 0 /\ completed[q] = 0
  <2>1. pending[q] = TasksOf(q) + completed[q] /\ TasksOf(q) \in Nat /\ completed[q] \in Nat
    BY <1>1, TasksNat DEF Inv, PendingCounts, CallersTyped
  <2>. QED BY <1>1, <2>1
<1>4. queued[q] = EMPTY /\ current[q] = EMPTY /\ taken[q] = EMPTY
  BY <1>1, <1>3 DEF CallerOf, Destroying
<1>5. Outstanding(queue, workers, q) = {}
  <2>1. IsFiniteSet(InQueue(queue, q)) /\ Cardinality(InQueue(queue, q)) \in Nat
        /\ IsFiniteSet(InHands(workers, q)) /\ Cardinality(InHands(workers, q)) \in Nat
    BY <1>1, QueueCountable, HandsCountable DEF PoolTyped
  <2>2. Cardinality(InQueue(queue, q)) = 0 /\ Cardinality(InHands(workers, q)) = 0
    BY <1>3, <2>1, TasksAreCounted DEF Count
  <2>3. InQueue(queue, q) = {} /\ InHands(workers, q) = {}
    BY <2>1, <2>2, FS_EmptySet
  <2>4. ASSUME NEW t, NEW i \in 1 .. Len(queue), queue[i] = <<q, t>> PROVE FALSE
    <3>1. i \in DOMAIN queue /\ queue[i][1] = q
      BY <1>1, <2>4 DEF PoolTyped
    <3>. QED BY <2>3, <3>1 DEF InQueue
  <2>5. ASSUME NEW t, NEW w \in Workers, workers[w] = <<q, t>> PROVE FALSE
    <3>1. Len(workers[w]) = 2 /\ workers[w][1] = q
      BY <2>5
    <3>. QED BY <2>3, <3>1 DEF InHands
  <2>. QED BY <2>4, <2>5 DEF Outstanding
<1>6. Expected \subseteq Offered(q)
  BY <1>2, <1>5 DEF Expected, Offered, Scanned, Requested, Before
<1>7. PICK s, b, c : Holds(q, s, b, c)
  BY DEF BucketInv, ListInv
<1>8. Arranged(s, delivered[q], b, c, next[q], EMPTY, EMPTY, EMPTY, freed[q], 0) /\ b = c
  BY <1>1, <1>4, <1>7 DEF Holds, Destroying
<1>9. s \in Seq(Buckets) /\ CutPoints(s, delivered[q], b, c) /\ Ring(s, c, next[q], EMPTY)
      /\ Len(delivered[q]) = b
  BY <1>1, <1>8, NothingInHand DEF Arranged
<1>10. Len(delivered[q]) = Len(s) /\ \A i \in 1 .. Len(s) : delivered[q][i] = s[i]
  <2>1. c \in Nat /\ c =< Len(s) /\ Len(s) \in Nat
    BY <1>9 DEF CutPoints
  <2>2. c < Len(s) => Len(s) \in 1 .. Len(s) /\ EMPTY = s[Len(s)]
    BY <1>9, <2>1 DEF Ring
  <2>3. c = Len(s)
    BY <1>9, <2>1, <2>2, EmptyNoBucket
  <2>. QED BY <1>8, <1>9, <2>3 DEF CutPoints
<1>11. Delivery!Left(q) = {}
  <2>1. Delivery!Left(q) = Expected \ {delivered[q][i] : i \in 1 .. Len(delivered[q])}
    BY <1>1 DEF Delivery!Left, Delivery!Range
  <2>2. ASSUME NEW y \in Expected PROVE \E i \in 1 .. Len(s) : s[i] = y
    <3>1. y \in Offered(q) /\ y \in Buckets
      BY <1>6 DEF Expected
    <3>. QED BY <1>7, <3>1 DEF Holds
  <2>. QED BY <1>10, <2>1, <2>2
<1>12. Expected' = Expected
  BY <1>1, ExpectedKept
<1>13. pc'[q] = "ended" /\ \A r \in Queries \ {q} : pc'[r] = pc[r]
  BY <1>1 DEF CallersTyped
<1>. QED BY <1>1, <1>11, <1>12, <1>13 DEF Delivery!End

\* What goes on within a call, and what the workers do, the caller does not see.
LEMMA WithinCall ==
  ASSUME BucketInv, NEW q \in Queries,
         Request(q) \/ Wait(q) \/ Take(q) \/ DestroyTaking(q) \/ DestroyDone(q)
  PROVE  UNCHANGED Delivery!vars
<1>1. CallersTyped /\ PoolTyped
  BY DEF BucketInv, Inv
<1>2. index' = index /\ delivered' = delivered
  BY DEF Request, RequestPosting, RequestStopping, RequestRunningHere, RequestSkipping, Wait, Take,
         DestroyTaking, DestroyDone, fixedVars, callerVars
<1>3. CASE Request(q)
  <2>1. pc[q] = "request" /\ after[q] \in {"idle", "taken"}
    BY <1>1, <1>3 DEF Request, RequestPosting, RequestStopping, RequestRunningHere, RequestSkipping, CallersTyped
  <2>2. pc' = pc \/ pc' = [pc EXCEPT ![q] = after[q]]
    <3>1. CASE RequestStopping(q)
      BY <3>1 DEF RequestStopping
    <3>2. CASE ~ RequestStopping(q)
      <4>1. PICK skip \in BOOLEAN : Advance(q, skip)
        BY <1>3, <3>2 DEF Request, RequestPosting, RequestRunningHere, RequestSkipping
      <4>. QED BY <1>1, <4>1, AdvanceTyped
    <3>. QED BY <3>1, <3>2
  <2>3. StateOf(after[q]) = StateOf(pc[q])
    BY <2>1, StateAt
  <2>. QED BY <1>1, <1>2, <2>2, <2>3, Shows, Stutters
<1>4. CASE Wait(q) \/ Take(q) \/ DestroyTaking(q) \/ DestroyDone(q)
  <2>1. \/ pc' = pc
        \/ pc[q] = "drain" /\ \E p \in {"waiting", "taken", "request"} : pc' = [pc EXCEPT ![q] = p]
        \/ pc[q] = "destroy" /\ \E p \in {"waitingToDestroy", "destroyed"} : pc' = [pc EXCEPT ![q] = p]
    BY <1>4 DEF Wait, Take, DestroyTaking, DestroyDone
  <2>2. CASE pc' = pc
    BY <1>2, <2>2, Stutters
  <2>3. ASSUME NEW p, pc' = [pc EXCEPT ![q] = p], StateOf(p) = StateOf(pc[q]) PROVE UNCHANGED Delivery!vars
    BY <1>1, <1>2, <2>3, Shows
  <2>. QED BY <2>1, <2>2, <2>3, StateAt DEF Destroying
<1>. QED BY <1>3, <1>4

\* Nor what the workers do.
LEMMA WorkUnseen ==
  ASSUME BucketInv, NEW w \in Workers, Work(w)
  PROVE  UNCHANGED Delivery!vars
<1>1. CallersTyped
  BY DEF BucketInv, Inv
<1>2. index' = index /\ delivered' = delivered
  BY DEF Work, Dequeue, Sleep, RunTask, fixedVars, callerVars
<1>3. \/ pc' = pc
      \/ \E q : Notify(q)
  BY DEF Work, Dequeue, Sleep, RunTask
<1>4. CASE pc' = pc
  BY <1>2, <1>4, Stutters
<1>5. ASSUME NEW q, Notify(q) PROVE UNCHANGED Delivery!vars
  <2>1. \A r \in Queries : \/ pc'[r] = pc[r]
                           \/ pc[r] = "waiting" /\ pc'[r] = "drain"
                           \/ pc[r] = "waitingToDestroy" /\ pc'[r] = "destroy"
    BY <1>1, <1>5 DEF Notify, CallersTyped
  <2>2. \A r \in Queries : StateOf(pc'[r]) = StateOf(pc[r])
    BY <2>1, StateAt DEF Destroying
  <2>. QED BY <1>2, <2>2, Stutters
<1>. QED BY <1>3, <1>4, <1>5

\* Every step is one of TileDelivery, or unseen.
LEMMA StepDelivers ==
  ASSUME BucketInv, [Next]_vars
  PROVE  [Delivery!Next]_(Delivery!vars)
<1>1. CallersTyped
  BY DEF BucketInv, Inv
<1>2. CASE UNCHANGED vars
  BY <1>2, Stutters DEF vars, fixedVars, callerVars
<1>3. CASE Construct
  <2>1. PICK q \in Queries : pc[q] = "none" /\ pc' = [pc EXCEPT ![q] = "request"]
    BY <1>3 DEF Construct
  <2>2. index' = index /\ delivered' = delivered
    BY <1>3 DEF Construct, fixedVars, callerVars
  <2>3. Delivery!Open(q)
    BY <1>1, <2>1, <2>2, Shows
  <2>. QED BY <2>3 DEF Delivery!Next
<1>4. ASSUME NEW q \in Queries, Destroy(q) PROVE Delivery!Next
  <2>1. /\ pc[q] \in {"idle", "ended"} /\ pc' = [pc EXCEPT ![q] = "destroy"]
        /\ index' = index /\ delivered' = delivered
    BY <1>4 DEF Destroy, fixedVars, callerVars
  <2>2. Delivery!Destroy(q)
    BY <1>1, <2>1, Shows
  <2>. QED BY <2>2 DEF Delivery!Next
<1>5. ASSUME NEW q \in Queries, InCall(q) \/ NextBucket(q) PROVE Delivery!Next \/ UNCHANGED Delivery!vars
  <2>1. CASE NextBucket(q) \/ UseTaken(q)
    BY <2>1, NextDelivers DEF Delivery!Next
  <2>2. CASE ReturnNull(q)
    BY <2>2, NullEnds DEF Delivery!Next
  <2>3. CASE Request(q) \/ Wait(q) \/ Take(q) \/ DestroyTaking(q) \/ DestroyDone(q)
    BY <2>3, WithinCall
  <2>. QED BY <1>5, <2>1, <2>2, <2>3 DEF InCall
<1>6. ASSUME NEW w \in Workers, Work(w) PROVE UNCHANGED Delivery!vars
  BY <1>6, WorkUnseen
<1>. QED BY <1>2, <1>3, <1>4, <1>5, <1>6 DEF Next, Finished

\* At first nothing is handed out.
LEMMA InitDelivers ==
  ASSUME Init
  PROVE  Delivery!Init
<1>1. Expected \in SUBSET Buckets
  BY DEF Expected
<1>. QED BY <1>1 DEF Init, Delivery!Init

\* A query hands out every result of every tile that the walk reaches exactly
\* once, those of a tile in the order in which they were found, and says that
\* it has ended only when nothing is left.
THEOREM EveryResultOnce == Spec => ImplementsTileDelivery
<1>1. Init => Delivery!Init
  BY InitDelivers
<1>2. BucketInv /\ [Next]_vars => [Delivery!Next]_(Delivery!vars)
  BY StepDelivers
<1>. QED BY <1>1, <1>2, BucketsAlwaysArranged, PTL DEF Spec, ImplementsTileDelivery, Delivery!Spec
=============================================================================
