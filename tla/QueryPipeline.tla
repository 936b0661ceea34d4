------------------------------ MODULE QueryPipeline ------------------------------
(***************************************************************************)
(* Queries on a feature store: each runs in its caller's thread, asks the  *)
(* store's thread pool to scan tiles and takes the results from a list     *)
(* that the pool's workers append to.                                      *)
(*                                                                         *)
(* A step is what a thread does under one mutex, or between two of them.   *)
(* Results come in buckets, linked by next pointers: a worker offers a     *)
(* circular list and points to its last bucket.  A bucket is handed out as *)
(* a whole.  Tiles are numbered in the order of the tile index walk.       *)
(***************************************************************************)
EXTENDS Integers, Sequences, FiniteSets, FiniteSetsExt

CONSTANTS Queries, Workers,
          QueueSizes,   \* what queueSize_ of the pool may be; 0 if the number
                        \* of hardware threads is unknown
          MaxTiles,     \* bound: tiles the walk may visit
          MaxBuckets,   \* bound: buckets of results in all tiles
          MaxWork       \* bound: tiles and buckets of a query, times three if there are two

ASSUME PoolAssumption == QueueSizes \subseteq Nat /\ Workers # {} /\ IsFiniteSet(Workers)
ASSUME BoundsAssumption ==
  MaxTiles \in Nat \ {0} /\ MaxBuckets \in Nat /\ MaxWork \in Nat

Ready == <<>>
Asleep == <<"asleep">>

EMPTY == <<0, 0>>
Buckets == (1 .. MaxTiles) \X (1 .. MaxBuckets)
Links == Buckets \cup {EMPTY}

\* A tile index: depth of each tile below the root, whether it is loaded and
\* current, and how many buckets a scan finds.  The root is always loaded.
Entry == [depth : 0 .. MaxTiles, loaded : BOOLEAN, buckets : 0 .. MaxBuckets]
BucketsOf(entries) == MapThenSumSet(LAMBDA i : entries[i].buckets, DOMAIN entries)
Indexes ==
  {index \in UNION {[1 .. n -> Entry] : n \in 1 .. MaxTiles} :
     /\ index[1].depth = 0 /\ index[1].loaded
     /\ \A i \in DOMAIN index :
          /\ i > 1 => index[i].depth \in 1 .. index[i - 1].depth + 1
          /\ ~ index[i].loaded => index[i].buckets = 0
     /\ BucketsOf(index) =< MaxBuckets}

VARIABLES
  index,      \* the tile index
  queueSize,  \* queueSize_
  queue,      \* tasks in the pool's ring buffer: query and tile
  workers,    \* each worker: Ready, Asleep (on notEmpty_) or its task
  pc,         \* where the caller is: "idle" between two calls of next()
  after,      \* where requestTiles returns to
  walker,     \* the tile the walk is at
  posted,     \* postedAny
  allRequested, pending,   \* allTilesRequested_, pendingTiles_
  completed, queued,       \* completedTiles_, queuedResults_ (under mutex_)
  next,       \* the buckets' next pointers
  current,    \* currentResults_
  taken,      \* what take() has returned
  delivered,  \* buckets handed out, in that order
  freed       \* buckets deleted, and how often

poolVars == <<queue, workers>>
walkVars == <<walker, posted, allRequested>>
listVars == <<completed, queued, next>>
callerVars == <<current, taken, delivered, freed>>
fixedVars == <<index, queueSize>>
vars == <<fixedVars, poolVars, pc, after, walkVars, pending, listVars, callerVars>>

Init ==
  /\ index \in Indexes
  /\ queueSize \in QueueSizes
  /\ queue = <<>>
  /\ workers = [w \in Workers |-> Ready]
  /\ pc = [q \in Queries |-> "none"]
  /\ after = [q \in Queries |-> "idle"]
  /\ walker = [q \in Queries |-> 1]
  /\ posted = [q \in Queries |-> FALSE]
  /\ allRequested = [q \in Queries |-> FALSE]
  /\ pending = [q \in Queries |-> 0]
  /\ completed = [q \in Queries |-> 0]
  /\ queued = [q \in Queries |-> EMPTY]
  /\ next = [q \in Queries |-> [b \in Links |-> EMPTY]]
  /\ current = [q \in Queries |-> EMPTY]
  /\ taken = [q \in Queries |-> EMPTY]
  /\ delivered = [q \in Queries |-> <<>>]
  /\ freed = [q \in Queries |-> [b \in Buckets |-> 0]]

-----------------------------------------------------------------------------
(* Lists of buckets *)

\* What a scan of tile t leaves in results_: the last bucket of a circular list.
Found(t) == IF index[t].buckets = 0 THEN EMPTY ELSE <<t, index[t].buckets>>
Circle(links, t) ==
  [b \in Links |->
     IF b = EMPTY \/ b[1] # t \/ b[2] > index[t].buckets THEN links[b]
     ELSE <<t, IF b[2] = index[t].buckets THEN 1 ELSE b[2] + 1>>]

\* Wrong: the lists are not spliced, the new one is put in place of the old.
SpliceLost(links, old, new) == [links EXCEPT ![old] = links[new]]

\* The circular list of old followed by that of new.
Splice(links, old, new) == [links EXCEPT ![old] = links[new], ![new] = links[old]]

\* offer(), under mutex_: the results of tile t are appended.
Offer(q, t) ==
  LET links == Circle(next[q], t)
      found == Found(t)
  IN  /\ queued' = [queued EXCEPT ![q] = IF found = EMPTY THEN @ ELSE found]
      /\ next' = [next EXCEPT ![q] = IF EMPTY \in {queued[q], found} THEN links
                                     ELSE Splice(links, queued[q], found)]
      /\ completed' = [completed EXCEPT ![q] = @ + 1]

\* Wrong: the caller is woken by a tile that has results only.
NotifyResults(q) ==
  pc' = [pc EXCEPT ![q] = CASE @ = "waiting" /\ queued'[q] # EMPTY -> "drain"
                            [] @ = "waitingToDestroy" /\ queued'[q] # EMPTY -> "destroy"
                            [] OTHER -> @]

\* resultsReady_.notify_one(), under the same lock: wakes the caller from take().
Notify(q) ==
  pc' = [pc EXCEPT ![q] = CASE @ = "waiting" -> "drain"
                            [] @ = "waitingToDestroy" -> "destroy"
                            [] OTHER -> @]

\* No list is longer.
BucketCount == Cardinality(Buckets)

\* The buckets of a list, which ends with EMPTY or is a circle.
ListFrom(links, b) ==
  LET Within[n \in 0 .. BucketCount] ==
        IF n = 0 THEN {b} ELSE Within[n - 1] \cup {links[c] : c \in Within[n - 1]}
  IN  Within[BucketCount] \ {EMPTY}

Free(q, bs) == freed' = [freed EXCEPT ![q] = [b \in Buckets |-> IF b \in bs THEN @[b] + 1 ELSE @[b]]]

-----------------------------------------------------------------------------
(* The pool's workers *)

Dequeue(w) ==
  /\ workers[w] = Ready
  /\ queue # <<>>
  /\ workers' = [workers EXCEPT ![w] = Head(queue)]
  /\ queue' = Tail(queue)
  /\ UNCHANGED <<fixedVars, pc, after, walkVars, pending, listVars, callerVars>>

Sleep(w) ==
  /\ workers[w] = Ready
  /\ queue = <<>>
  /\ workers' = [workers EXCEPT ![w] = Asleep]
  /\ UNCHANGED <<fixedVars, queue, pc, after, walkVars, pending, listVars, callerVars>>

Busy(w) == Len(workers[w]) = 2

\* The task: the scan, then offer().
RunTask(w) ==
  /\ Busy(w)
  /\ Offer(workers[w][1], workers[w][2])
  /\ Notify(workers[w][1])
  /\ workers' = [workers EXCEPT ![w] = Ready]
  /\ UNCHANGED <<fixedVars, queue, after, walkVars, pending, callerVars>>

\* tryPost of a task when there is room: notify_one wakes a worker, if any sleeps.
Post(task) ==
  /\ queue' = Append(queue, task)
  /\ IF \E w \in Workers : workers[w] = Asleep
     THEN \E w \in Workers : workers[w] = Asleep
            /\ workers' = [workers EXCEPT ![w] = Ready]
     ELSE UNCHANGED workers

-----------------------------------------------------------------------------
(* requestTiles(), one tile at a time *)

Here(q) == index[walker[q]]

\* Wrong: one task more than the buffer holds.
QueueFullLate == Len(queue) > queueSize

QueueFull == Len(queue) = queueSize

\* skipChildren(): the next tile is not below this one.
Following(q, skip) ==
  {i \in DOMAIN index :
     /\ i > walker[q]
     /\ skip => \E j \in walker[q] + 1 .. i : index[j].depth =< Here(q).depth}

\* TileIndexWalker::next(); at the end of the walk requestTiles returns.
Advance(q, skip) ==
  LET rest == Following(q, skip)
  IN  IF rest = {}
      THEN /\ allRequested' = [allRequested EXCEPT ![q] = TRUE]
           /\ pc' = [pc EXCEPT ![q] = after[q]]
           /\ UNCHANGED walker
      ELSE /\ walker' = [walker EXCEPT ![q] = CHOOSE i \in rest : \A j \in rest : i =< j]
           /\ UNCHANGED <<allRequested, pc>>

RequestPosting(q) ==
  /\ pc[q] = "request"
  /\ Here(q).loaded
  /\ ~ QueueFull
  /\ Post(<<q, walker[q]>>)
  /\ pending' = [pending EXCEPT ![q] = @ + 1]
  /\ posted' = [posted EXCEPT ![q] = TRUE]
  /\ Advance(q, FALSE)
  /\ UNCHANGED <<fixedVars, after, listVars, callerVars>>

\* The queue is full: the rest is requested later, starting with this tile.
RequestStopping(q) ==
  /\ pc[q] = "request"
  /\ Here(q).loaded
  /\ QueueFull
  /\ posted[q]
  /\ pc' = [pc EXCEPT ![q] = after[q]]
  /\ UNCHANGED <<fixedVars, poolVars, after, walkVars, pending, listVars, callerVars>>

\* The queue is full and nothing has been posted: the caller scans the tile.
RequestRunningHere(q) ==
  /\ pc[q] = "request"
  /\ Here(q).loaded
  /\ QueueFull
  /\ ~ posted[q]
  /\ pending' = [pending EXCEPT ![q] = @ + 1]
  /\ posted' = [posted EXCEPT ![q] = TRUE]
  /\ Offer(q, walker[q])
  /\ Advance(q, FALSE)
  /\ UNCHANGED <<fixedVars, poolVars, after, callerVars>>

RequestSkipping(q) ==
  /\ pc[q] = "request"
  /\ ~ Here(q).loaded
  /\ Advance(q, TRUE)
  /\ UNCHANGED <<fixedVars, poolVars, after, posted, pending, listVars, callerVars>>

-----------------------------------------------------------------------------
(* The constructor, next() and the destructor *)

\* Which of the queries is made next makes no difference.
Construct ==
  LET unmade == {q \in Queries : pc[q] = "none"}
      q      == CHOOSE r \in unmade : TRUE
  IN  /\ unmade # {}
      /\ (1 + 2 * Cardinality(Queries \ unmade)) * (Len(index) + BucketsOf(index)) =< MaxWork
      /\ pc' = [pc EXCEPT ![q] = "request"]
      /\ UNCHANGED <<fixedVars, poolVars, after, walkVars, pending, listVars, callerVars>>

\* Hands out the first item of bucket b.
Deliver(q, b) ==
  /\ current' = [current EXCEPT ![q] = b]
  /\ delivered' = [delivered EXCEPT ![q] = Append(@, b)]

\* All of the current bucket has been handed out.
NextBucket(q) ==
  /\ pc[q] = "idle"
  /\ LET b == next[q][current[q]]
     IN  IF b = EMPTY
         THEN /\ pc' = [pc EXCEPT ![q] = "drain"]
              /\ current' = [current EXCEPT ![q] = EMPTY]
              /\ UNCHANGED delivered
         ELSE UNCHANGED pc /\ Deliver(q, b)
  /\ Free(q, {current[q]} \ {EMPTY})
  /\ UNCHANGED <<fixedVars, poolVars, after, walkVars, pending, listVars, taken>>

\* There are no more tiles.
ReturnNull(q) ==
  /\ pc[q] = "drain"
  /\ pending[q] = 0
  /\ pc' = [pc EXCEPT ![q] = "ended"]
  /\ UNCHANGED <<fixedVars, poolVars, after, walkVars, pending, listVars, callerVars>>

\* take() waits for a tile to be completed.
Wait(q) ==
  /\ pc[q] \in {"drain", "destroy"}
  /\ pending[q] > 0
  /\ completed[q] = 0
  /\ pc' = [pc EXCEPT ![q] = IF @ = "drain" THEN "waiting" ELSE "waitingToDestroy"]
  /\ UNCHANGED <<fixedVars, poolVars, after, walkVars, pending, listVars, callerVars>>

\* Wrong: only one tile is counted however many are completed.
TakeAllCountOne(q) ==
  /\ completed[q] > 0
  /\ next' = [next EXCEPT ![q][queued[q]] = EMPTY]
  /\ queued' = [queued EXCEPT ![q] = EMPTY]
  /\ pending' = [pending EXCEPT ![q] = @ - 1]
  /\ completed' = [completed EXCEPT ![q] = 0]

\* Wrong: the circular list is not cut.
TakeAllCircular(q) ==
  /\ completed[q] > 0
  /\ queued' = [queued EXCEPT ![q] = EMPTY]
  /\ pending' = [pending EXCEPT ![q] = @ - completed[q]]
  /\ completed' = [completed EXCEPT ![q] = 0]
  /\ UNCHANGED next

\* take(): the circular list is cut after its last bucket.
TakeAll(q) ==
  /\ completed[q] > 0
  /\ next' = [next EXCEPT ![q][queued[q]] = EMPTY]
  /\ queued' = [queued EXCEPT ![q] = EMPTY]
  /\ pending' = [pending EXCEPT ![q] = @ - completed[q]]
  /\ completed' = [completed EXCEPT ![q] = 0]

Take(q) ==
  /\ pc[q] = "drain"
  /\ pending[q] > 0
  /\ TakeAll(q)
  /\ taken' = [taken EXCEPT ![q] = next[q][queued[q]]]
  /\ IF allRequested[q]
     THEN /\ pc' = [pc EXCEPT ![q] = "taken"]
          /\ UNCHANGED <<after, posted>>
     ELSE /\ pc' = [pc EXCEPT ![q] = "request"]
          /\ after' = [after EXCEPT ![q] = "taken"]
          /\ posted' = [posted EXCEPT ![q] = FALSE]
  /\ UNCHANGED <<fixedVars, poolVars, walker, allRequested, current, delivered, freed>>

UseTaken(q) ==
  /\ pc[q] = "taken"
  /\ taken' = [taken EXCEPT ![q] = EMPTY]
  /\ IF taken[q] = EMPTY
     THEN pc' = [pc EXCEPT ![q] = "drain"] /\ UNCHANGED <<current, delivered>>
     ELSE pc' = [pc EXCEPT ![q] = "idle"] /\ Deliver(q, taken[q])
  /\ UNCHANGED <<fixedVars, poolVars, after, walkVars, pending, listVars, freed>>

\* The caller may destroy the query between two calls.
Destroy(q) ==
  /\ pc[q] \in {"idle", "ended"}
  /\ pc' = [pc EXCEPT ![q] = "destroy"]
  /\ UNCHANGED <<fixedVars, poolVars, after, walkVars, pending, listVars, callerVars>>

DestroyTaking(q) ==
  /\ pc[q] = "destroy"
  /\ pending[q] > 0
  /\ TakeAll(q)
  /\ Free(q, ListFrom(next'[q], next[q][queued[q]]))
  /\ UNCHANGED <<fixedVars, poolVars, pc, after, walkVars, current, taken, delivered>>

\* Wrong: tiles still pending are not waited for.
DestroyDoneEarly(q) ==
  /\ pc[q] = "destroy"
  /\ completed[q] = 0
  /\ Free(q, ListFrom(next[q], current[q]))
  /\ pc' = [pc EXCEPT ![q] = "destroyed"]
  /\ UNCHANGED <<fixedVars, poolVars, after, walkVars, pending, listVars, current, taken,
                 delivered>>

DestroyDone(q) ==
  /\ pc[q] = "destroy"
  /\ pending[q] = 0
  /\ Free(q, ListFrom(next[q], current[q]))
  /\ pc' = [pc EXCEPT ![q] = "destroyed"]
  /\ UNCHANGED <<fixedVars, poolVars, after, walkVars, pending, listVars, current, taken,
                 delivered>>

-----------------------------------------------------------------------------
Request(q) ==
  RequestPosting(q) \/ RequestStopping(q) \/ RequestRunningHere(q) \/ RequestSkipping(q)

\* What the caller's thread does within a call.
InCall(q) ==
  \/ Request(q) \/ ReturnNull(q) \/ Wait(q) \/ Take(q) \/ UseTaken(q)
  \/ DestroyTaking(q) \/ DestroyDone(q)

Work(w) == Dequeue(w) \/ Sleep(w) \/ RunTask(w)

\* All queries are gone and all workers wait for more.
Finished ==
  /\ \A q \in Queries : pc[q] \in {"none", "destroyed"}
  /\ \A w \in Workers : workers[w] = Asleep
  /\ UNCHANGED vars

Next ==
  \/ Construct
  \/ \E q \in Queries : InCall(q) \/ NextBucket(q) \/ Destroy(q)
  \/ \E w \in Workers : Work(w)
  \/ Finished

\* Threads are scheduled; whether the caller calls next() is its own affair.
Fairness ==
  /\ \A q \in Queries : WF_vars(InCall(q))
  /\ \A w \in Workers : WF_vars(Work(w))

Spec == Init /\ [][Next]_vars /\ Fairness

-----------------------------------------------------------------------------
Places == {"none", "request", "idle", "drain", "waiting", "taken", "ended", "destroy",
           "waitingToDestroy", "destroyed"}

TypeOK ==
  /\ DOMAIN index \subseteq 1 .. MaxTiles
  /\ Len(queue) =< queueSize
  /\ \A w \in Workers : Busy(w) => workers[w] \in Queries \X DOMAIN index
  /\ \A q \in Queries :
       /\ pc[q] \in Places /\ after[q] \in Places
       /\ walker[q] \in DOMAIN index
       /\ pending[q] \in 0 .. MaxTiles /\ completed[q] \in 0 .. MaxTiles
       /\ {queued[q], current[q], taken[q]} \subseteq Links
       /\ next[q] \in [Links -> Links]
       /\ delivered[q] \in Seq(Buckets)

\* Tasks of q in the queue and in the workers' hands.
TasksOf(q) ==
  Cardinality({i \in DOMAIN queue : queue[i][1] = q}) +
  Cardinality({w \in Workers : Busy(w) /\ workers[w][1] = q})

\* pendingTiles_ counts the tiles posted and not taken, though the caller's
\* thread and the workers change it and its counterpart under no common lock.
PendingCounts == \A q \in Queries : pending[q] = TasksOf(q) + completed[q]

\* A caller that waits for results has a task that will wake it, and while
\* there are tasks in the queue not all workers sleep: no wakeup is lost.
NoWakeupLost ==
  /\ \A q \in Queries :
       pc[q] \in {"waiting", "waitingToDestroy"} => completed[q] = 0 /\ TasksOf(q) > 0
  /\ queue # <<>> => \E w \in Workers : workers[w] # Asleep

\* No worker has a task of a destroyed query, and its buckets are all gone.
DestroyedQuietly ==
  \A q \in Queries :
    pc[q] = "destroyed" =>
      /\ TasksOf(q) = 0
      /\ \A b \in Buckets : next[q][b] # EMPTY => freed[q][b] = 1

\* No bucket is deleted twice, and none that is deleted is in a list.
NoDanglingBucket ==
  \A q \in Queries :
    /\ \A b \in Buckets : freed[q][b] =< 1
    /\ pc[q] # "destroyed" =>
         \A b \in ListFrom(next[q], queued[q]) \cup ListFrom(next[q], current[q])
                  \cup ListFrom(next[q], taken[q]) : freed[q][b] = 0

\* Tiles are counted and their results linked and deleted by the caller and
\* the workers under no common lock: each is counted, linked and deleted once,
\* and nobody waits for what has happened.
BucketsSafe == PendingCounts /\ NoWakeupLost /\ DestroyedQuietly /\ NoDanglingBucket

\* The results that a query is to hand out: those of the loaded tiles that are
\* not below one that is not loaded.
Reachable(i) ==
  /\ index[i].loaded
  /\ \A j \in 1 .. i - 1 :
       ~ index[j].loaded => \E k \in j + 1 .. i : index[k].depth =< index[j].depth
Expected == {b \in Buckets : b[1] \in DOMAIN index /\ Reachable(b[1])
                             /\ b[2] =< index[b[1]].buckets}

Delivery ==
  INSTANCE TileDelivery WITH
    Results <- Buckets,
    expected <- [q \in Queries |-> Expected],
    handedOut <- delivered,
    state <- [q \in Queries |->
                CASE pc[q] \in {"none", "ended"} -> pc[q]
                  [] pc[q] \in {"destroy", "waitingToDestroy", "destroyed"} -> "destroyed"
                  [] OTHER -> "open"]

\* Every result of every tile is handed out exactly once.
ImplementsTileDelivery == Delivery!Spec

\* Every call of next(), the constructor and the destructor return.
AtRest == {"none", "idle", "ended", "destroyed"}
CallsReturn == \A q \in Queries : pc[q] \notin AtRest ~> pc[q] \in AtRest

\* Both: a query hands out every result once, and none of its calls hangs.
DeliveryCompletes == ImplementsTileDelivery /\ CallsReturn
=============================================================================
