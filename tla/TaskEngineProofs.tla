---------------------------- MODULE TaskEngineProofs ----------------------------
(***************************************************************************)
(* The task engine loses, repeats and reorders nothing, for every number   *)
(* of workers, every size of the queues and any number of tasks.           *)
(*                                                                         *)
(* Inv follows every task on its way: a work task is in the queue, in the  *)
(* hands of one worker, or processed; an output task is in the queue, in   *)
(* the hand of the output thread, or written, and the output tasks of one  *)
(* work task are behind each other in that order.                          *)
(***************************************************************************)
EXTENDS TaskEngine, SequenceTheorems, TLAPS

-----------------------------------------------------------------------------
(* The inductive invariant *)

\* Main has shut the work stage down; it has joined the workers.
Closing == {"joinWorkers", "awaitOutput", "shutdownOutput", "joinOutput", "done"}
Joined == {"awaitOutput", "shutdownOutput", "joinOutput", "done"}

Holds(w) == hand[w] # NoTask
Untaken == submitted - Len(work.tasks)

\* Which places a thread can be at, and what it has in its hand there.
PlacesInv ==
  /\ \A w \in Workers :
       /\ pc[w] \in {"loop", "busy", "posting", "ended"}
       /\ pc[w] \in {"busy", "posting"} => \E i \in Tasks : hand[w] = <<i>>
       /\ pc[w] \in {"loop", "ended"} => hand[w] = NoTask
       /\ pc[w] = "posting" => outputs[hand[w][1]] < MaxOutputs
  /\ pc[Output] \in {"loop", "busy", "ended"}
  /\ pc[Output] = "busy" => hand[Output] \in OutputTask
  /\ pc[Output] # "busy" => hand[Output] = NoTask
  /\ pc[Main] \in {"outside", "posting", "awaitWork", "shutdownWork"} \cup Closing
  /\ pc[Main] = "posting" => submitted < MaxTasks

\* A stage is shut down when nothing is left in its queue; the workers are
\* joined before the output stage is shut down.
StagesInv ==
  /\ pc[Main] \in {"shutdownWork"} \cup Closing => work.tasks = <<>>
  /\ ~ work.running => pc[Main] \in Closing
  /\ \A w \in Workers : pc[w] = "ended" => ~ work.running
  /\ pc[Main] \in Joined => \A w \in Workers : pc[w] = "ended"
  /\ pc[Main] \in {"shutdownOutput", "joinOutput", "done"} => output.tasks = <<>>
  /\ ~ output.running => pc[Main] \in {"joinOutput", "done"}
  /\ pc[Output] = "ended" => ~ output.running
  /\ pc[Main] = "done" => pc[Output] = "ended"

\* Where the work tasks are.
WorkQueued ==
  /\ Untaken >= 0
  /\ \A n \in 1 .. Len(work.tasks) : work.tasks[n] = <<Untaken + n>>
WorkHeld ==
  /\ \A w \in Workers, i \in Tasks : hand[w] = <<i>> => i =< Untaken /\ processed[i] = 0
  /\ \A v, w \in Workers : Holds(v) /\ hand[v] = hand[w] => v = w
WorkTaken ==
  \A i \in Tasks :
    /\ processed[i] = 1 => i =< Untaken
    /\ i =< Untaken => processed[i] = 1 \/ \E w \in Workers : hand[w] = <<i>>

WorkInv == WorkQueued /\ WorkHeld /\ WorkTaken

\* Where the output tasks are: those submitted, and no others.
Submitted(o, count) == o[2] =< count[o[1]]
OutputSubmitted ==
  /\ \A n \in 1 .. Len(output.tasks) : Submitted(output.tasks[n], outputs)
  /\ pc[Output] = "busy" => Submitted(hand[Output], outputs)
  /\ \A n \in 1 .. Len(written) : Submitted(written[n], outputs)
Queued(o) == \E n \in 1 .. Len(output.tasks) : output.tasks[n] = o
InHand(o) == pc[Output] = "busy" /\ hand[Output] = o
Written(o) == \E n \in 1 .. Len(written) : written[n] = o
OutputSomewhere ==
  \A i \in Tasks : \A k \in 1 .. outputs[i] :
    Queued(<<i, k>>) \/ InHand(<<i, k>>) \/ Written(<<i, k>>)

OutputInv == OutputSubmitted /\ OutputSomewhere

\* Output task e is behind output task d of the same work task.
Behind(d, e) == d[1] = e[1] => d[2] < e[2]

WrittenInOrder == \A n \in 1 .. Len(written) : \A m \in 1 .. n - 1 : Behind(written[m], written[n])
QueuedInOrder ==
  \A n \in 1 .. Len(output.tasks) : \A m \in 1 .. n - 1 : Behind(output.tasks[m], output.tasks[n])
QueuedBehind ==
  \A m \in 1 .. Len(written) : \A n \in 1 .. Len(output.tasks) :
    Behind(written[m], output.tasks[n])
HandBetween ==
  pc[Output] = "busy" =>
    /\ \A m \in 1 .. Len(written) : Behind(written[m], hand[Output])
    /\ \A n \in 1 .. Len(output.tasks) : Behind(hand[Output], output.tasks[n])

OrderInv == WrittenInOrder /\ QueuedInOrder /\ QueuedBehind /\ HandBetween

Inv == TypeOK /\ PlacesInv /\ StagesInv /\ WorkInv /\ OutputInv /\ OrderInv

-----------------------------------------------------------------------------
(* The queues *)

\* A call to post() adds one task at the end.
LEMMA PutQueue ==
  ASSUME NEW E, NEW A, NEW B, NEW q \in QueueOf(E, A, B), NEW e \in E, NEW r \in Put(q, e)
  PROVE  /\ r \in QueueOf(E, A, B)
         /\ r.running = q.running
         /\ r.tasks = Append(q.tasks, e)
         /\ Len(r.tasks) = Len(q.tasks) + 1
         /\ \A n \in 1 .. Len(q.tasks) : r.tasks[n] = q.tasks[n]
         /\ r.tasks[Len(q.tasks) + 1] = e
<1>1. PICK left \in WakeOne(q.notEmpty) :
        r = [q EXCEPT !.tasks = Append(@, e), !.notEmpty = left]
  BY DEF Put
<1>2. left \subseteq q.notEmpty
  BY <1>1 DEF WakeOne
<1>3. q.tasks \in Seq(E)
  BY DEF QueueOf
<1>4. Append(q.tasks, e) \in Seq(E)
  BY <1>3, AppendProperties
<1>5. r \in QueueOf(E, A, B) /\ r.running = q.running /\ r.tasks = Append(q.tasks, e)
  BY <1>1, <1>2, <1>4 DEF QueueOf
<1>. QED BY <1>3, <1>5, AppendProperties

\* process() takes one task from the front.
LEMMA TakeQueue ==
  ASSUME NEW E, NEW A, NEW B, NEW q \in QueueOf(E, A, B), q.tasks # <<>>, NEW r \in Take(q)
  PROVE  /\ r \in QueueOf(E, A, B)
         /\ r.running = q.running
         /\ Head(q.tasks) = q.tasks[1]
         /\ Head(q.tasks) \in E
         /\ Len(q.tasks) > 0
         /\ Len(r.tasks) = Len(q.tasks) - 1
         /\ \A n \in 1 .. Len(r.tasks) : r.tasks[n] = q.tasks[n + 1]
<1>1. PICK left \in WakeOne(q.notFull) :
        r = [q EXCEPT !.tasks = Tail(@), !.notFull = left]
  BY DEF Take
<1>2. left \subseteq q.notFull
  BY <1>1 DEF WakeOne
<1>3. q.tasks \in Seq(E)
  BY DEF QueueOf
<1>4. Tail(q.tasks) \in Seq(E)
  BY <1>3, HeadTailProperties
<1>5. r \in QueueOf(E, A, B) /\ r.running = q.running /\ r.tasks = Tail(q.tasks)
  BY <1>1, <1>2, <1>4 DEF QueueOf
<1>6. Head(q.tasks) = q.tasks[1] /\ Len(q.tasks) > 0
  BY <1>3, EmptySeq
<1>. QED BY <1>3, <1>5, <1>6, HeadTailProperties

-----------------------------------------------------------------------------
(* The steps *)

\* What the types say, in the form the lemmas about the queues want.
LEMMA TypeFacts ==
  ASSUME TypeOK
  PROVE  /\ work \in QueueOf(WorkTask, Workers, {Main})
         /\ output \in QueueOf(OutputTask, {Output}, Workers \cup {Main})
         /\ Len(work.tasks) \in Nat /\ Len(output.tasks) \in Nat /\ Len(written) \in Nat
         /\ DOMAIN written = 1 .. Len(written)
         /\ \A n \in 1 .. Len(work.tasks) : work.tasks[n] \in WorkTask
         /\ \A n \in 1 .. Len(output.tasks) : output.tasks[n] \in OutputTask
         /\ \A n \in 1 .. Len(written) : written[n] \in OutputTask
<1>1. work.tasks \in Seq(WorkTask) /\ output.tasks \in Seq(OutputTask)
  BY DEF TypeOK, QueueOf
<1>. QED BY <1>1, LenProperties, ElementOfSeq DEF TypeOK

\* What a step must leave alone to disturb neither the output tasks nor their order.
LEMMA OutputUntouched ==
  ASSUME OutputInv, OrderInv, output'.tasks = output.tasks, UNCHANGED <<outputs, written>>,
         (pc'[Output] = "busy") <=> (pc[Output] = "busy"), hand'[Output] = hand[Output]
  PROVE  OutputInv' /\ OrderInv'
<1>1. OutputInv'
  BY DEF OutputInv, OutputSubmitted, OutputSomewhere, Submitted, Queued, InHand, Written
<1>2. OrderInv'
  BY DEF OrderInv, WrittenInOrder, QueuedInOrder, QueuedBehind, HandBetween, Behind
<1>. QED BY <1>1, <1>2

\* The same for the work tasks.
LEMMA WorkUntouched ==
  ASSUME WorkInv, work'.tasks = work.tasks, UNCHANGED <<submitted, processed>>,
         \A w \in Workers : hand'[w] = hand[w]
  PROVE  WorkInv'
  BY DEF WorkInv, WorkQueued, WorkHeld, WorkTaken, Untaken, Holds

\* A hand that holds a work task is not empty.
LEMMA TaskInHand == \A i : <<i>> # NoTask
  BY DEF NoTask

\* The threads are different ones.
LEMMA Threaded ==
  /\ Main \in Threads /\ Output \in Threads /\ Main # Output
  /\ \A w \in Workers : w \in Threads /\ w # Main /\ w # Output
  BY ThreadAssumption DEF Threads

\* A step that moves no task.
LEMMA QuietStep ==
  ASSUME Inv, pc' \in [Threads -> Places], (pc'[Output] = "busy") <=> (pc[Output] = "busy"),
         UNCHANGED <<hand, submitted, outputs, processed, written>>,
         work' \in QueueOf(WorkTask, Workers, {Main}), work'.tasks = work.tasks,
         output' \in QueueOf(OutputTask, {Output}, Workers \cup {Main}),
         output'.tasks = output.tasks
  PROVE  TypeOK' /\ WorkInv' /\ OutputInv' /\ OrderInv'
<1>1. TypeOK'
  BY DEF Inv, TypeOK
<1>2. WorkInv'
  BY WorkUntouched, Threaded DEF Inv
<1>. QED BY <1>1, <1>2, OutputUntouched DEF Inv

\* What the calls that move no task do to the two queues.
LEMMA QuietCalls ==
  ASSUME TypeOK
  PROVE  /\ \A t \in Workers : /\ WaitForTask(work, t) \in QueueOf(WorkTask, Workers, {Main})
                               /\ WaitForTask(work, t).tasks = work.tasks
                               /\ WaitForTask(work, t).running = work.running
                               /\ WaitForRoom(output, t) \in QueueOf(OutputTask, {Output}, Workers \cup {Main})
                               /\ WaitForRoom(output, t).tasks = output.tasks
                               /\ WaitForRoom(output, t).running = output.running
         /\ WaitForRoom(work, Main) \in QueueOf(WorkTask, Workers, {Main})
         /\ WaitForRoom(work, Main).tasks = work.tasks
         /\ WaitForRoom(work, Main).running = work.running
         /\ WaitForTask(output, Output) \in QueueOf(OutputTask, {Output}, Workers \cup {Main})
         /\ WaitForTask(output, Output).tasks = output.tasks
         /\ WaitForTask(output, Output).running = output.running
         /\ WaitForRoom(output, Main) \in QueueOf(OutputTask, {Output}, Workers \cup {Main})
         /\ WaitForRoom(output, Main).tasks = output.tasks
         /\ WaitForRoom(output, Main).running = output.running
         /\ \A r \in Shutdown(work) : /\ r \in QueueOf(WorkTask, Workers, {Main})
                                      /\ r.tasks = work.tasks /\ r.running = FALSE
         /\ \A r \in Shutdown(output) :
              /\ r \in QueueOf(OutputTask, {Output}, Workers \cup {Main})
              /\ r.tasks = output.tasks /\ r.running = FALSE
<1>1. work \in QueueOf(WorkTask, Workers, {Main})
  BY DEF TypeOK
<1>2. output \in QueueOf(OutputTask, {Output}, Workers \cup {Main})
  BY DEF TypeOK
<1>. QED BY <1>1, <1>2 DEF QueueOf, WaitForTask, WaitForRoom, Shutdown

\* The task at the front of the queue goes into the hand of w.
LEMMA WorkerTakeStep ==
  ASSUME Inv, NEW w \in Workers, WorkerTake(w)
  PROVE  Inv'
<1>0. TypeOK /\ PlacesInv /\ StagesInv /\ WorkInv /\ OutputInv /\ OrderInv
  BY DEF Inv
<1>1. /\ work.tasks # <<>> /\ work' \in Take(work) /\ work.running
      /\ hand' = [hand EXCEPT ![w] = Head(work.tasks)]
      /\ pc' = [pc EXCEPT ![w] = "busy"] /\ pc[w] = "loop"
      /\ UNCHANGED <<output, submitted, outputs, processed, written>>
  BY DEF WorkerTake, Goto, resultVars
<1>2. /\ work' \in QueueOf(WorkTask, Workers, {Main})
      /\ work'.running = work.running
      /\ Len(work.tasks) > 0
      /\ Len(work'.tasks) = Len(work.tasks) - 1
      /\ \A n \in 1 .. Len(work'.tasks) : work'.tasks[n] = work.tasks[n + 1]
      /\ Head(work.tasks) = work.tasks[1]
      /\ work.tasks[1] \in WorkTask
  <2>1. work \in QueueOf(WorkTask, Workers, {Main})
    BY <1>0 DEF TypeOK
  <2>2. work' \in Take(work) /\ work.tasks # <<>>
    BY <1>1
  <2>3. \A r \in Take(work) :
         /\ r \in QueueOf(WorkTask, Workers, {Main})
         /\ r.running = work.running
         /\ Head(work.tasks) = work.tasks[1]
         /\ Head(work.tasks) \in WorkTask
         /\ Len(work.tasks) > 0
         /\ Len(r.tasks) = Len(work.tasks) - 1
         /\ \A n \in 1 .. Len(r.tasks) : r.tasks[n] = work.tasks[n + 1]
    BY <2>1, <2>2, TakeQueue
  <2>. QED BY <2>2, <2>3
<1>3. w # Main /\ w # Output /\ w \in Threads /\ Main \in Threads /\ Output \in Threads
  BY ThreadAssumption DEF Threads
<1>4. Untaken' = Untaken + 1 /\ work.tasks[1] = <<Untaken + 1>> /\ Untaken \in Int
  <2>1. submitted \in Int /\ Len(work.tasks) \in Nat
    BY <1>0, TypeFacts DEF TypeOK
  <2>2. work.tasks[1] = <<Untaken + 1>>
    BY <2>1, <1>0, <1>2 DEF WorkInv, WorkQueued
  <2>. QED BY <2>1, <2>2, <1>1, <1>2 DEF Untaken
<1>5. TypeOK'
  <2>1. pc' \in [Threads -> Places]
    BY <1>0, <1>1, <1>3 DEF TypeOK, Places
  <2>2. hand' \in [Threads -> {NoTask} \cup WorkTask \cup OutputTask]
    BY <1>0, <1>1, <1>2, <1>3 DEF TypeOK
  <2>3. Len(work'.tasks) =< WorkSize
    BY <1>0, <1>2, SizeAssumption, TypeFacts DEF TypeOK
  <2>. QED BY <1>0, <1>1, <1>2, <2>1, <2>2, <2>3 DEF TypeOK
<1>6. PlacesInv'
  BY <1>0, <1>1, <1>2, <1>3 DEF PlacesInv, TypeOK, WorkTask, NoTask
<1>7. StagesInv'
  BY <1>0, <1>1, <1>2, <1>3, TypeFacts DEF StagesInv, TypeOK, PlacesInv
<1>8. WorkInv'
  <2>1. submitted \in Int /\ Len(work.tasks) \in Nat /\ hand \in [Threads -> {NoTask} \cup WorkTask \cup OutputTask]
    BY <1>0, TypeFacts DEF TypeOK
  <2>2. hand' = [hand EXCEPT ![w] = <<Untaken + 1>>] /\ hand[w] = NoTask
    BY <1>0, <1>1, <1>2, <1>4 DEF PlacesInv
  <2>3. ASSUME NEW n \in 1 .. Len(work'.tasks)
        PROVE  work'.tasks[n] = <<Untaken' + n>>
    <3>1. n + 1 \in 1 .. Len(work.tasks) /\ work'.tasks[n] = work.tasks[n + 1]
      BY <1>2, <2>1
    <3>2. work.tasks[n + 1] = <<Untaken + (n + 1)>>
      BY <3>1, <1>0 DEF WorkInv, WorkQueued
    <3>3. Untaken + (n + 1) = Untaken' + n
      BY <1>4, <2>1, <1>2
    <3>. QED BY <3>1, <3>2, <3>3
  <2>. WorkQueued /\ WorkHeld /\ WorkTaken
    BY <1>0 DEF WorkInv
  <2>4. WorkQueued'
    BY <2>3, <1>4, <2>1 DEF WorkQueued
  <2>5. processed \in [Tasks -> {0, 1}] /\ processed' = processed /\ Tasks \subseteq Nat /\ w \in Threads
    BY <1>0, <1>1, <1>3 DEF TypeOK, Tasks
  <2>6. ASSUME NEW v \in Workers, NEW i \in Tasks, hand'[v] = <<i>>
        PROVE  i =< Untaken' /\ processed'[i] = 0
    <3>1. CASE v = w
      BY <3>1, <1>4, <2>1, <2>2, <2>5, <2>6 DEF WorkTaken, WorkQueued
    <3>2. CASE v # w
      BY <3>2, <1>4, <2>1, <2>2, <2>5, <2>6 DEF WorkHeld
    <3>. QED BY <3>1, <3>2
  <2>7. ASSUME NEW u \in Workers, NEW v \in Workers, hand'[u] # NoTask, hand'[u] = hand'[v]
        PROVE  u = v
    <3>1. Untaken + 1 \in Tasks
      BY <1>2, <1>4 DEF WorkTask
    <3>2. \A x \in Workers : hand[x] # <<Untaken + 1>>
      BY <3>1, <1>4 DEF WorkHeld
    <3>3. \A x \in Workers : hand'[x] = IF x = w THEN <<Untaken + 1>> ELSE hand[x]
      BY <2>1, <2>2, <2>5 DEF Threads
    <3>. QED BY <2>7, <3>2, <3>3 DEF WorkHeld, Holds
  <2>8. ASSUME NEW i \in Tasks
        PROVE  /\ processed'[i] = 1 => i =< Untaken'
               /\ i =< Untaken' => processed'[i] = 1 \/ \E v \in Workers : hand'[v] = <<i>>
    <3>1. \A x \in Workers : hand'[x] = IF x = w THEN <<Untaken + 1>> ELSE hand[x]
      BY <2>1, <2>2, <2>5 DEF Threads
    <3>2. <<i>> # NoTask
      BY DEF NoTask
    <3>3. CASE i = Untaken + 1
      BY <3>1, <3>3, <1>4, <2>5 DEF WorkTaken
    <3>4. CASE i # Untaken + 1
      <4>1. i =< Untaken' => i =< Untaken
        BY <3>4, <1>4, <2>5
      <4>2. \A v \in Workers : hand[v] = <<i>> => hand'[v] = <<i>>
        BY <3>1, <3>2, <2>2
      <4>. QED BY <4>1, <4>2, <1>4, <2>5 DEF WorkTaken
    <3>. QED BY <3>3, <3>4
  <2>. QED BY <2>4, <2>6, <2>7, <2>8 DEF WorkInv, WorkHeld, WorkTaken, Holds
<1>9. OutputInv' /\ OrderInv'
  BY <1>0, <1>1, <1>3, OutputUntouched DEF TypeOK
<1>. QED BY <1>5, <1>6, <1>7, <1>8, <1>9 DEF Inv

-----------------------------------------------------------------------------
(* Steps that move no task *)

\* A worker ends when the work queue is shut down.
LEMMA WorkerEndStep ==
  ASSUME Inv, NEW w \in Workers, WorkerEnd(w)
  PROVE  Inv'
<1>1. pc' \in [Threads -> Places] /\ ((pc'[Output] = "busy") <=> (pc[Output] = "busy"))
  BY Threaded DEF WorkerEnd, resultVars, Goto, Inv, TypeOK, Places, PlacesInv
<1>2. TypeOK' /\ WorkInv' /\ OutputInv' /\ OrderInv'
  BY <1>1, QuietStep DEF WorkerEnd, resultVars, Inv, TypeOK
<1>3. PlacesInv'
  BY Threaded DEF WorkerEnd, resultVars, Goto, Inv, TypeOK, PlacesInv
<1>4. StagesInv'
  BY Threaded DEF WorkerEnd, resultVars, Goto, Inv, TypeOK, PlacesInv, StagesInv, Closing, Joined
<1>. QED BY <1>2, <1>3, <1>4 DEF Inv

\* A worker posts only what MaxOutputs leaves room for.
LEMMA WorkerCallsPostStep ==
  ASSUME Inv, NEW w \in Workers, WorkerCallsPost(w)
  PROVE  Inv'
<1>1. pc' \in [Threads -> Places] /\ ((pc'[Output] = "busy") <=> (pc[Output] = "busy"))
  BY Threaded DEF WorkerCallsPost, resultVars, Goto, Inv, TypeOK, Places, PlacesInv
<1>2. TypeOK' /\ WorkInv' /\ OutputInv' /\ OrderInv'
  BY <1>1, QuietStep DEF WorkerCallsPost, resultVars, Inv, TypeOK
<1>3. PlacesInv'
  BY Threaded DEF WorkerCallsPost, resultVars, Goto, Inv, TypeOK, PlacesInv
<1>4. StagesInv'
  BY Threaded DEF WorkerCallsPost, resultVars, Goto, Inv, TypeOK, PlacesInv, StagesInv, Closing, Joined
<1>. QED BY <1>2, <1>3, <1>4 DEF Inv

\* Waiting for a task changes nothing but who waits.
LEMMA WorkerSleepStep ==
  ASSUME Inv, NEW w \in Workers, WorkerSleep(w)
  PROVE  Inv'
<1>1. pc' \in [Threads -> Places] /\ ((pc'[Output] = "busy") <=> (pc[Output] = "busy"))
  BY Threaded DEF WorkerSleep, resultVars, Inv, TypeOK, Places, PlacesInv
<1>2. TypeOK' /\ WorkInv' /\ OutputInv' /\ OrderInv'
  BY <1>1, QuietStep, QuietCalls DEF WorkerSleep, resultVars, Inv, TypeOK
<1>3. PlacesInv'
  BY Threaded DEF WorkerSleep, resultVars, Inv, TypeOK, PlacesInv
<1>4. StagesInv'
  BY Threaded, QuietCalls DEF WorkerSleep, resultVars, Inv, TypeOK, PlacesInv, StagesInv, Closing, Joined
<1>. QED BY <1>2, <1>3, <1>4 DEF Inv

\* Waiting for room in the output queue changes nothing but who waits.
LEMMA WorkerWaitsStep ==
  ASSUME Inv, NEW w \in Workers, WorkerWaits(w)
  PROVE  Inv'
<1>1. pc' \in [Threads -> Places] /\ ((pc'[Output] = "busy") <=> (pc[Output] = "busy"))
  BY Threaded DEF WorkerWaits, resultVars, Inv, TypeOK, Places, PlacesInv
<1>2. TypeOK' /\ WorkInv' /\ OutputInv' /\ OrderInv'
  BY <1>1, QuietStep, QuietCalls DEF WorkerWaits, resultVars, Inv, TypeOK
<1>3. PlacesInv'
  BY Threaded DEF WorkerWaits, resultVars, Inv, TypeOK, PlacesInv
<1>4. StagesInv'
  BY Threaded, QuietCalls DEF WorkerWaits, resultVars, Inv, TypeOK, PlacesInv, StagesInv, Closing, Joined
<1>. QED BY <1>2, <1>3, <1>4 DEF Inv

\* The output thread ends when its queue is shut down.
LEMMA OutputEndStep ==
  ASSUME Inv, OutputEnd
  PROVE  Inv'
<1>1. pc' \in [Threads -> Places] /\ ((pc'[Output] = "busy") <=> (pc[Output] = "busy"))
  BY Threaded DEF OutputEnd, resultVars, Goto, Inv, TypeOK, Places, PlacesInv
<1>2. TypeOK' /\ WorkInv' /\ OutputInv' /\ OrderInv'
  BY <1>1, QuietStep DEF OutputEnd, resultVars, Inv, TypeOK
<1>3. PlacesInv'
  BY Threaded DEF OutputEnd, resultVars, Goto, Inv, TypeOK, PlacesInv
<1>4. StagesInv'
  BY Threaded DEF OutputEnd, resultVars, Goto, Inv, TypeOK, PlacesInv, StagesInv, Closing, Joined
<1>. QED BY <1>2, <1>3, <1>4 DEF Inv

\* Waiting for an output task changes nothing but who waits.
LEMMA OutputSleepStep ==
  ASSUME Inv, OutputSleep
  PROVE  Inv'
<1>1. pc' \in [Threads -> Places] /\ ((pc'[Output] = "busy") <=> (pc[Output] = "busy"))
  BY Threaded DEF OutputSleep, resultVars, Inv, TypeOK, Places, PlacesInv
<1>2. TypeOK' /\ WorkInv' /\ OutputInv' /\ OrderInv'
  BY <1>1, QuietStep, QuietCalls DEF OutputSleep, resultVars, Inv, TypeOK
<1>3. PlacesInv'
  BY Threaded DEF OutputSleep, resultVars, Inv, TypeOK, PlacesInv
<1>4. StagesInv'
  BY Threaded, QuietCalls DEF OutputSleep, resultVars, Inv, TypeOK, PlacesInv, StagesInv, Closing, Joined
<1>. QED BY <1>2, <1>3, <1>4 DEF Inv

\* The owner posts only while tasks are left.
LEMMA MainCallsPostStep ==
  ASSUME Inv, MainCallsPost
  PROVE  Inv'
<1>1. pc' \in [Threads -> Places] /\ ((pc'[Output] = "busy") <=> (pc[Output] = "busy"))
  BY Threaded DEF MainCallsPost, resultVars, Goto, Inv, TypeOK, Places, PlacesInv
<1>2. TypeOK' /\ WorkInv' /\ OutputInv' /\ OrderInv'
  BY <1>1, QuietStep DEF MainCallsPost, resultVars, Inv, TypeOK
<1>3. PlacesInv'
  BY Threaded DEF MainCallsPost, resultVars, Goto, Inv, TypeOK, PlacesInv, Closing
<1>4. StagesInv'
  BY Threaded DEF MainCallsPost, resultVars, Goto, Inv, TypeOK, PlacesInv, StagesInv, Closing, Joined
<1>. QED BY <1>2, <1>3, <1>4 DEF Inv

\* end() begins.
LEMMA MainCallsEndStep ==
  ASSUME Inv, MainCallsEnd
  PROVE  Inv'
<1>1. pc' \in [Threads -> Places] /\ ((pc'[Output] = "busy") <=> (pc[Output] = "busy"))
  BY Threaded DEF MainCallsEnd, resultVars, Goto, Inv, TypeOK, Places, PlacesInv
<1>2. TypeOK' /\ WorkInv' /\ OutputInv' /\ OrderInv'
  BY <1>1, QuietStep DEF MainCallsEnd, resultVars, Inv, TypeOK
<1>3. PlacesInv'
  BY Threaded DEF MainCallsEnd, resultVars, Goto, Inv, TypeOK, PlacesInv, Closing
<1>4. StagesInv'
  BY Threaded DEF MainCallsEnd, resultVars, Goto, Inv, TypeOK, PlacesInv, StagesInv, Closing, Joined
<1>. QED BY <1>2, <1>3, <1>4 DEF Inv

\* Waiting for room in the work queue changes nothing but who waits.
LEMMA MainWaitsStep ==
  ASSUME Inv, MainWaits
  PROVE  Inv'
<1>1. pc' \in [Threads -> Places] /\ ((pc'[Output] = "busy") <=> (pc[Output] = "busy"))
  BY Threaded DEF MainWaits, resultVars, Inv, TypeOK, Places, PlacesInv
<1>2. TypeOK' /\ WorkInv' /\ OutputInv' /\ OrderInv'
  BY <1>1, QuietStep, QuietCalls DEF MainWaits, resultVars, Inv, TypeOK
<1>3. PlacesInv'
  BY Threaded DEF MainWaits, resultVars, Inv, TypeOK, PlacesInv, Closing
<1>4. StagesInv'
  BY Threaded, QuietCalls DEF MainWaits, resultVars, Inv, TypeOK, PlacesInv, StagesInv, Closing, Joined
<1>. QED BY <1>2, <1>3, <1>4 DEF Inv

\* The work queue is empty when the wait for it ends.
LEMMA AwaitWorkStep ==
  ASSUME Inv, AwaitWork
  PROVE  Inv'
<1>1. pc' \in [Threads -> Places] /\ ((pc'[Output] = "busy") <=> (pc[Output] = "busy"))
  BY Threaded DEF AwaitWork, resultVars, Goto, Inv, TypeOK, Places, PlacesInv
<1>2. TypeOK' /\ WorkInv' /\ OutputInv' /\ OrderInv'
  BY <1>1, QuietStep, QuietCalls DEF AwaitWork, resultVars, Inv, TypeOK
<1>3. PlacesInv'
  BY Threaded DEF AwaitWork, resultVars, Goto, Inv, TypeOK, PlacesInv, Closing
<1>4. StagesInv'
  BY Threaded, QuietCalls DEF AwaitWork, resultVars, Goto, Inv, TypeOK, PlacesInv, StagesInv, Closing, Joined
<1>. QED BY <1>2, <1>3, <1>4 DEF Inv

\* The output queue is empty when the wait for it ends, and no worker is left to fill it.
LEMMA AwaitOutputStep ==
  ASSUME Inv, AwaitOutput
  PROVE  Inv'
<1>1. pc' \in [Threads -> Places] /\ ((pc'[Output] = "busy") <=> (pc[Output] = "busy"))
  BY Threaded DEF AwaitOutput, resultVars, Goto, Inv, TypeOK, Places, PlacesInv
<1>2. TypeOK' /\ WorkInv' /\ OutputInv' /\ OrderInv'
  BY <1>1, QuietStep, QuietCalls DEF AwaitOutput, resultVars, Inv, TypeOK
<1>3. PlacesInv'
  BY Threaded DEF AwaitOutput, resultVars, Goto, Inv, TypeOK, PlacesInv, Closing
<1>4. StagesInv'
  BY Threaded, QuietCalls DEF AwaitOutput, resultVars, Goto, Inv, TypeOK, PlacesInv, StagesInv, Closing, Joined
<1>. QED BY <1>2, <1>3, <1>4 DEF Inv

\* All workers have ended when they are joined.
LEMMA JoinWorkersStep ==
  ASSUME Inv, JoinWorkers
  PROVE  Inv'
<1>1. pc' \in [Threads -> Places] /\ ((pc'[Output] = "busy") <=> (pc[Output] = "busy"))
  BY Threaded DEF JoinWorkers, resultVars, Goto, Inv, TypeOK, Places, PlacesInv
<1>2. TypeOK' /\ WorkInv' /\ OutputInv' /\ OrderInv'
  BY <1>1, QuietStep DEF JoinWorkers, resultVars, Inv, TypeOK
<1>3. PlacesInv'
  BY Threaded DEF JoinWorkers, resultVars, Goto, Inv, TypeOK, PlacesInv, Closing
<1>4. StagesInv'
  BY Threaded DEF JoinWorkers, resultVars, Goto, Inv, TypeOK, PlacesInv, StagesInv, Closing, Joined
<1>. QED BY <1>2, <1>3, <1>4 DEF Inv

\* The output thread has ended when it is joined.
LEMMA JoinOutputStep ==
  ASSUME Inv, JoinOutput
  PROVE  Inv'
<1>1. pc' \in [Threads -> Places] /\ ((pc'[Output] = "busy") <=> (pc[Output] = "busy"))
  BY Threaded DEF JoinOutput, resultVars, Goto, Inv, TypeOK, Places, PlacesInv
<1>2. TypeOK' /\ WorkInv' /\ OutputInv' /\ OrderInv'
  BY <1>1, QuietStep DEF JoinOutput, resultVars, Inv, TypeOK
<1>3. PlacesInv'
  BY Threaded DEF JoinOutput, resultVars, Goto, Inv, TypeOK, PlacesInv, Closing
<1>4. StagesInv'
  BY Threaded DEF JoinOutput, resultVars, Goto, Inv, TypeOK, PlacesInv, StagesInv, Closing, Joined
<1>. QED BY <1>2, <1>3, <1>4 DEF Inv

\* The work queue is empty when it is shut down.
LEMMA ShutdownWorkStep ==
  ASSUME Inv, ShutdownWork
  PROVE  Inv'
<1>1. pc' \in [Threads -> Places] /\ ((pc'[Output] = "busy") <=> (pc[Output] = "busy"))
  BY Threaded DEF ShutdownWork, resultVars, Goto, Inv, TypeOK, Places, PlacesInv
<1>2. TypeOK' /\ WorkInv' /\ OutputInv' /\ OrderInv'
  BY <1>1, QuietStep, QuietCalls DEF ShutdownWork, resultVars, Inv, TypeOK
<1>3. PlacesInv'
  BY Threaded DEF ShutdownWork, resultVars, Goto, Inv, TypeOK, PlacesInv, Closing
<1>4. StagesInv'
  BY Threaded, QuietCalls DEF ShutdownWork, resultVars, Goto, Inv, TypeOK, PlacesInv, StagesInv, Closing, Joined
<1>. QED BY <1>2, <1>3, <1>4 DEF Inv

\* The output queue is empty when it is shut down.
LEMMA ShutdownOutputStep ==
  ASSUME Inv, ShutdownOutput
  PROVE  Inv'
<1>1. pc' \in [Threads -> Places] /\ ((pc'[Output] = "busy") <=> (pc[Output] = "busy"))
  BY Threaded DEF ShutdownOutput, resultVars, Goto, Inv, TypeOK, Places, PlacesInv
<1>2. TypeOK' /\ WorkInv' /\ OutputInv' /\ OrderInv'
  BY <1>1, QuietStep, QuietCalls DEF ShutdownOutput, resultVars, Inv, TypeOK
<1>3. PlacesInv'
  BY Threaded DEF ShutdownOutput, resultVars, Goto, Inv, TypeOK, PlacesInv, Closing
<1>4. StagesInv'
  BY Threaded, QuietCalls DEF ShutdownOutput, resultVars, Goto, Inv, TypeOK, PlacesInv, StagesInv, Closing, Joined
<1>. QED BY <1>2, <1>3, <1>4 DEF Inv

-----------------------------------------------------------------------------
(* Steps that move a work task *)

\* The next work task goes behind all others.
LEMMA MainPostsStep ==
  ASSUME Inv, MainPosts
  PROVE  Inv'
<1>. TypeOK /\ PlacesInv /\ StagesInv /\ WorkInv /\ OutputInv /\ OrderInv
  BY DEF Inv
<1>1. /\ pc[Main] = "posting" /\ pc' = [pc EXCEPT ![Main] = "outside"]
      /\ submitted' = submitted + 1
      /\ work' \in Put(work, <<submitted + 1>>)
      /\ UNCHANGED <<output, hand, outputs, processed, written>>
      /\ ~ Full(work, WorkSize)
  BY DEF MainPosts, Goto
<1>2. work.running /\ Len(work.tasks) \in Nat /\ submitted \in Int /\ Len(work.tasks) < WorkSize
  BY <1>1, TypeFacts, SizeAssumption DEF StagesInv, Closing, TypeOK, Full, QueueOf
<1>3. submitted + 1 \in Tasks
  BY <1>1, BoundsAssumption DEF PlacesInv, TypeOK, Tasks
<1>4. /\ work' \in QueueOf(WorkTask, Workers, {Main})
      /\ work'.running = work.running
      /\ Len(work'.tasks) = Len(work.tasks) + 1
      /\ \A n \in 1 .. Len(work.tasks) : work'.tasks[n] = work.tasks[n]
      /\ work'.tasks[Len(work.tasks) + 1] = <<submitted + 1>>
  <2>1. work \in QueueOf(WorkTask, Workers, {Main}) /\ <<submitted + 1>> \in WorkTask
    BY <1>3 DEF TypeOK, WorkTask
  <2>2. \A r \in Put(work, <<submitted + 1>>) :
          /\ r \in QueueOf(WorkTask, Workers, {Main})
          /\ r.running = work.running
          /\ Len(r.tasks) = Len(work.tasks) + 1
          /\ \A n \in 1 .. Len(work.tasks) : r.tasks[n] = work.tasks[n]
          /\ r.tasks[Len(work.tasks) + 1] = <<submitted + 1>>
    BY <2>1, PutQueue
  <2>. QED BY <1>1, <2>2
<1>5. Untaken' = Untaken /\ Untaken \in Int
  BY <1>1, <1>2, <1>4 DEF Untaken
<1>6. TypeOK'
  <2>1. Len(work'.tasks) =< WorkSize
    BY <1>2, <1>4, SizeAssumption
  <2>2. submitted' \in 0 .. MaxTasks
    BY <1>1, <1>3, BoundsAssumption DEF Tasks
  <2>. QED BY <2>1, <2>2, <1>1, <1>4, Threaded DEF TypeOK, Places
<1>7. PlacesInv'
  BY <1>1, Threaded DEF PlacesInv, TypeOK
<1>8. StagesInv'
  BY <1>1, <1>2, <1>4, Threaded DEF StagesInv, TypeOK, PlacesInv, Closing, Joined
<1>9. WorkInv'
  <2>1. ASSUME NEW n \in 1 .. Len(work'.tasks)
        PROVE  work'.tasks[n] = <<Untaken + n>>
    <3>1. CASE n = Len(work.tasks) + 1
      <4>1. submitted \in Int /\ Len(work.tasks) \in Int /\ Untaken = submitted - Len(work.tasks)
        BY <1>2 DEF Untaken
      <4>2. \A u, a, b \in Int : u = a - b => u + (b + 1) = a + 1
        OBVIOUS
      <4>3. Untaken + n = submitted + 1
        BY <3>1, <4>1, <4>2, <1>5
      <4>. QED BY <3>1, <4>3, <1>4
    <3>2. CASE n # Len(work.tasks) + 1
      <4>1. n \in 1 .. Len(work.tasks)
        BY <3>2, <1>2, <1>4
      <4>. QED BY <4>1, <1>4 DEF WorkInv, WorkQueued
    <3>. QED BY <3>1, <3>2
  <2>2. WorkQueued'
    BY <2>1, <1>5 DEF WorkInv, WorkQueued
  <2>. QED BY <2>2, <1>1, <1>5 DEF WorkInv, WorkHeld, WorkTaken, Holds
<1>10. OutputInv' /\ OrderInv'
  BY <1>1, OutputUntouched, Threaded DEF TypeOK
<1>. QED BY <1>6, <1>7, <1>8, <1>9, <1>10 DEF Inv

\* The task in the hand of w has then been processed, once.
LEMMA WorkerFinishStep ==
  ASSUME Inv, NEW w \in Workers, WorkerFinish(w)
  PROVE  Inv'
<1>. TypeOK /\ PlacesInv /\ StagesInv /\ WorkInv /\ OutputInv /\ OrderInv
  BY DEF Inv
<1>. PICK i \in Tasks : hand[w] = <<i>>
  BY DEF WorkerFinish, PlacesInv
<1>1. /\ pc[w] = "busy" /\ pc' = [pc EXCEPT ![w] = "loop"]
      /\ processed' = [processed EXCEPT ![i] = @ + 1]
      /\ hand' = [hand EXCEPT ![w] = NoTask]
      /\ UNCHANGED <<work, output, submitted, outputs, written>>
  BY DEF WorkerFinish, Goto
<1>2. i =< Untaken /\ processed[i] = 0 /\ Untaken' = Untaken /\ NoTask # <<i>>
  BY <1>1 DEF WorkInv, WorkHeld, Untaken, NoTask
<1>3. processed' = [processed EXCEPT ![i] = 1]
  BY <1>1, <1>2
<1>4. \A v \in Workers : hand'[v] = IF v = w THEN NoTask ELSE hand[v]
  BY <1>1, Threaded DEF TypeOK
<1>5. TypeOK'
  BY <1>1, <1>3, Threaded DEF TypeOK, Places
<1>6. PlacesInv'
  BY <1>1, Threaded DEF PlacesInv, TypeOK
<1>7. StagesInv'
  BY <1>1, Threaded DEF StagesInv, TypeOK, PlacesInv, Closing, Joined
<1>8. WorkInv'
  <2>1. WorkQueued'
    BY <1>1, <1>2 DEF WorkInv, WorkQueued
  <2>2. ASSUME NEW v \in Workers, NEW j \in Tasks, hand'[v] = <<j>>
        PROVE  j =< Untaken' /\ processed'[j] = 0
    <3>1. v # w /\ hand[v] = <<j>>
      BY <2>2, <1>4, TaskInHand
    <3>2. hand[w] # NoTask
      BY TaskInHand
    <3>3. j # i
      BY <3>1, <3>2 DEF WorkInv, WorkHeld, Holds
    <3>. QED BY <3>1, <3>3, <1>2, <1>3 DEF WorkInv, WorkHeld, TypeOK
  <2>3. \A u, v \in Workers : hand'[u] # NoTask /\ hand'[u] = hand'[v] => u = v
    BY <1>4 DEF WorkInv, WorkHeld, Holds
  <2>4. ASSUME NEW j \in Tasks
        PROVE  /\ processed'[j] = 1 => j =< Untaken'
               /\ j =< Untaken' => processed'[j] = 1 \/ \E v \in Workers : hand'[v] = <<j>>
    <3>1. CASE j = i
      BY <3>1, <1>2, <1>3 DEF TypeOK
    <3>2. CASE j # i
      <4>1. processed'[j] = processed[j]
        BY <3>2, <1>3 DEF TypeOK
      <4>2. \A v \in Workers : hand[v] = <<j>> => hand'[v] = <<j>>
        BY <3>2, <1>4
      <4>. QED BY <4>1, <4>2, <1>2 DEF WorkInv, WorkTaken
    <3>. QED BY <3>1, <3>2
  <2>. QED BY <2>1, <2>2, <2>3, <2>4 DEF WorkInv, WorkHeld, WorkTaken, Holds
<1>9. OutputInv' /\ OrderInv'
  BY <1>1, OutputUntouched, Threaded DEF TypeOK
<1>. QED BY <1>5, <1>6, <1>7, <1>8, <1>9 DEF Inv

-----------------------------------------------------------------------------
(* Steps that move an output task *)

\* The next output task of a work task goes behind its earlier ones.
LEMMA WorkerPostsStep ==
  ASSUME Inv, NEW w \in Workers, WorkerPosts(w)
  PROVE  Inv'
<1>. TypeOK /\ PlacesInv /\ StagesInv /\ WorkInv /\ OutputInv /\ OrderInv
  BY DEF Inv
<1>. PICK i \in Tasks : hand[w] = <<i>>
  BY DEF WorkerPosts, PlacesInv
<1>. DEFINE o == <<i, outputs[i] + 1>>
            last == Len(output.tasks) + 1
<1>1. /\ pc[w] = "posting" /\ pc' = [pc EXCEPT ![w] = "busy"]
      /\ output' \in Put(output, o)
      /\ outputs' = [outputs EXCEPT ![i] = @ + 1]
      /\ UNCHANGED <<work, hand, submitted, processed, written>>
      /\ ~ Full(output, OutputSize)
  BY DEF WorkerPosts, Goto
<1>2. outputs[i] \in Nat /\ outputs[i] < MaxOutputs /\ o \in OutputTask
  BY <1>1, BoundsAssumption DEF PlacesInv, TypeOK, OutputTask
<1>3. Len(output.tasks) \in Nat /\ Len(output.tasks) < OutputSize
  BY <1>1, TypeFacts, SizeAssumption DEF TypeOK, Full
<1>4. /\ output' \in QueueOf(OutputTask, {Output}, Workers \cup {Main})
      /\ output'.running = output.running
      /\ Len(output'.tasks) = last
      /\ \A n \in 1 .. Len(output.tasks) : output'.tasks[n] = output.tasks[n]
      /\ output'.tasks[last] = o
  <2>1. output \in QueueOf(OutputTask, {Output}, Workers \cup {Main})
    BY DEF TypeOK
  <2>. HIDE DEF o
  <2>2. \A r \in Put(output, o) :
          /\ r \in QueueOf(OutputTask, {Output}, Workers \cup {Main})
          /\ r.running = output.running
          /\ Len(r.tasks) = Len(output.tasks) + 1
          /\ \A n \in 1 .. Len(output.tasks) : r.tasks[n] = output.tasks[n]
          /\ r.tasks[Len(output.tasks) + 1] = o
    BY <2>1, <1>2, PutQueue
  <2>. QED BY <1>1, <2>2
<1>5. \A j \in Tasks : outputs'[j] = IF j = i THEN outputs[i] + 1 ELSE outputs[j]
  BY <1>1 DEF TypeOK
<1>6. TypeOK'
  <2>1. outputs' \in [Tasks -> 0 .. MaxOutputs]
    BY <1>1, <1>2, BoundsAssumption DEF TypeOK
  <2>2. Len(output'.tasks) =< OutputSize
    BY <1>3, <1>4, SizeAssumption
  <2>. QED BY <2>1, <2>2, <1>1, <1>4, Threaded DEF TypeOK, Places
<1>7. PlacesInv'
  <2>1. ASSUME NEW v \in Workers, pc'[v] = "posting"
        PROVE  outputs'[hand'[v][1]] < MaxOutputs
    <3>1. v # w /\ pc[v] = "posting"
      BY <2>1, <1>1, Threaded DEF TypeOK
    <3>2. PICK j \in Tasks : hand[v] = <<j>>
      BY <3>1 DEF PlacesInv
    <3>3. j # i
      BY <3>1, <3>2, TaskInHand DEF WorkInv, WorkHeld, Holds
    <3>4. outputs[j] < MaxOutputs
      BY <3>1, <3>2 DEF PlacesInv
    <3>. QED BY <3>2, <3>3, <3>4, <1>1, <1>5
  <2>. QED BY <2>1, <1>1, Threaded DEF PlacesInv, TypeOK
<1>8. StagesInv'
  <2>1. pc[Main] \notin Joined \cup {"shutdownOutput"}
    BY <1>1 DEF StagesInv, Joined
  <2>. QED BY <2>1, <1>1, <1>4, Threaded DEF StagesInv, TypeOK, PlacesInv, Closing, Joined
<1>9. WorkInv'
  BY <1>1, WorkUntouched
<1>10. OutputInv' /\ OrderInv'
  <2>1. /\ \A n \in 1 .. Len(output.tasks) : output.tasks[n] \in OutputTask
        /\ \A n \in 1 .. Len(written) : written[n] \in OutputTask
        /\ pc[Output] = "busy" => hand[Output] \in OutputTask
        /\ Len(written) \in Nat
        /\ (pc'[Output] = "busy") <=> (pc[Output] = "busy")
    BY TypeFacts, <1>1, Threaded DEF PlacesInv, TypeOK
  <2>2. ASSUME NEW e \in OutputTask, Submitted(e, outputs)
        PROVE  Submitted(e, outputs') /\ Behind(e, o)
    BY <2>2, <1>2, <1>5 DEF Submitted, Behind, OutputTask, TypeOK
  <2>3. OutputSubmitted'
    <3>1. Submitted(o, outputs')
      BY <1>2, <1>5 DEF Submitted
    <3>2. ASSUME NEW n \in 1 .. Len(output'.tasks)
          PROVE  Submitted(output'.tasks[n], outputs')
      <4>1. CASE n = last
        BY <3>1, <4>1, <1>4
      <4>2. CASE n # last
        <5>1. n \in 1 .. Len(output.tasks)
          BY <4>2, <1>3, <1>4
        <5>. QED BY <5>1, <1>4, <2>1, <2>2 DEF OutputInv, OutputSubmitted
      <4>. QED BY <4>1, <4>2
    <3>. QED BY <3>2, <2>1, <2>2, <1>1 DEF OutputInv, OutputSubmitted
  <2>4. OutputSomewhere'
    <3>1. ASSUME NEW j \in Tasks, NEW k \in 1 .. outputs'[j]
          PROVE  Queued(<<j, k>>)' \/ InHand(<<j, k>>)' \/ Written(<<j, k>>)'
      <4>1. CASE <<j, k>> = o
        BY <4>1, <1>3, <1>4 DEF Queued
      <4>2. CASE <<j, k>> # o
        <5>1. k \in 1 .. outputs[j]
          BY <4>2, <1>2, <1>5 DEF TypeOK
        <5>2. Queued(<<j, k>>) \/ InHand(<<j, k>>) \/ Written(<<j, k>>)
          BY <5>1 DEF OutputInv, OutputSomewhere
        <5>. QED BY <5>2, <1>1, <1>3, <1>4, <2>1 DEF Queued, InHand, Written
      <4>. QED BY <4>1, <4>2
    <3>. QED BY <3>1 DEF OutputSomewhere
  <2>5. OrderInv'
    <3>1. QueuedInOrder'
      <4>1. ASSUME NEW n \in 1 .. Len(output'.tasks), NEW m \in 1 .. n - 1
            PROVE  Behind(output'.tasks[m], output'.tasks[n])
        <5>1. m \in 1 .. Len(output.tasks) /\ output'.tasks[m] = output.tasks[m]
          BY <1>3, <1>4
        <5>2. CASE n = last
          BY <5>1, <5>2, <1>4, <2>1, <2>2 DEF OutputInv, OutputSubmitted
        <5>3. CASE n # last
          <6>1. n \in 1 .. Len(output.tasks) /\ output'.tasks[n] = output.tasks[n]
            BY <5>3, <1>3, <1>4
          <6>. QED BY <5>1, <6>1 DEF OrderInv, QueuedInOrder
        <5>. QED BY <5>2, <5>3
      <4>. QED BY <4>1 DEF QueuedInOrder, Behind
    <3>2. QueuedBehind'
      <4>1. ASSUME NEW m \in 1 .. Len(written), NEW n \in 1 .. Len(output'.tasks)
            PROVE  Behind(written[m], output'.tasks[n])
        <5>1. CASE n = last
          BY <5>1, <1>4, <2>1, <2>2 DEF OutputInv, OutputSubmitted
        <5>2. CASE n # last
          BY <5>2, <1>3, <1>4 DEF OrderInv, QueuedBehind
        <5>. QED BY <5>1, <5>2
      <4>. QED BY <4>1, <1>1 DEF QueuedBehind, Behind
    <3>3. HandBetween'
      <4>1. ASSUME pc[Output] = "busy", NEW n \in 1 .. Len(output'.tasks)
            PROVE  Behind(hand[Output], output'.tasks[n])
        <5>1. CASE n = last
          BY <4>1, <5>1, <1>4, <2>1, <2>2 DEF OutputInv, OutputSubmitted
        <5>2. CASE n # last
          BY <4>1, <5>2, <1>3, <1>4 DEF OrderInv, HandBetween
        <5>. QED BY <5>1, <5>2
      <4>. QED BY <4>1, <1>1, <2>1 DEF OrderInv, HandBetween, Behind
    <3>. QED BY <3>1, <3>2, <3>3, <1>1 DEF OrderInv, WrittenInOrder, Behind
  <2>. QED BY <2>3, <2>4, <2>5 DEF OutputInv
<1>. QED BY <1>6, <1>7, <1>8, <1>9, <1>10 DEF Inv

\* The task in the hand is ahead of those queued and behind those written.
LEMMA OutputTakeStep ==
  ASSUME Inv, OutputTake
  PROVE  Inv'
<1>. TypeOK /\ PlacesInv /\ StagesInv /\ WorkInv /\ OutputInv /\ OrderInv
  BY DEF Inv
<1>. DEFINE o == output.tasks[1]
<1>1. /\ output.tasks # <<>> /\ output' \in Take(output)
      /\ hand' = [hand EXCEPT ![Output] = Head(output.tasks)]
      /\ pc' = [pc EXCEPT ![Output] = "busy"] /\ pc[Output] = "loop"
      /\ UNCHANGED <<work, submitted, outputs, processed, written>>
  BY DEF OutputTake, Goto, resultVars
<1>2. /\ output' \in QueueOf(OutputTask, {Output}, Workers \cup {Main})
      /\ output'.running = output.running
      /\ Head(output.tasks) = o
      /\ o \in OutputTask
      /\ Len(output.tasks) > 0 /\ Len(output.tasks) \in Nat
      /\ Len(output'.tasks) = Len(output.tasks) - 1
      /\ \A n \in 1 .. Len(output'.tasks) : output'.tasks[n] = output.tasks[n + 1]
  <2>1. output \in QueueOf(OutputTask, {Output}, Workers \cup {Main})
    BY DEF TypeOK
  <2>2. \A r \in Take(output) :
         /\ r \in QueueOf(OutputTask, {Output}, Workers \cup {Main})
         /\ r.running = output.running
         /\ Head(output.tasks) = output.tasks[1]
         /\ Head(output.tasks) \in OutputTask
         /\ Len(output.tasks) > 0
         /\ Len(r.tasks) = Len(output.tasks) - 1
         /\ \A n \in 1 .. Len(r.tasks) : r.tasks[n] = output.tasks[n + 1]
    BY <2>1, <1>1, TakeQueue
  <2>. QED BY <1>1, <2>2, TypeFacts
<1>3. hand'[Output] = o /\ pc'[Output] = "busy" /\ \A w \in Workers : hand'[w] = hand[w]
  BY <1>1, <1>2, Threaded DEF TypeOK
<1>. HIDE DEF o
<1>4. TypeOK'
  <2>1. Len(output'.tasks) =< OutputSize
    BY <1>2, SizeAssumption DEF TypeOK
  <2>. QED BY <2>1, <1>1, <1>2, Threaded DEF TypeOK, Places
<1>5. PlacesInv'
  BY <1>1, <1>2, <1>3, Threaded DEF PlacesInv, TypeOK
<1>6. StagesInv'
  <2>1. output.tasks # <<>> => output'.running /\ pc[Main] \notin {"shutdownOutput", "joinOutput", "done"}
    BY <1>2, <1>1 DEF StagesInv, OutputTake
  <2>. QED BY <2>1, <1>1, <1>2, Threaded DEF StagesInv, TypeOK, PlacesInv, Closing, Joined
<1>7. WorkInv'
  BY <1>1, <1>3, WorkUntouched
<1>8. /\ \A n \in 1 .. Len(output'.tasks) :
           n + 1 \in 1 .. Len(output.tasks) /\ output'.tasks[n] = output.tasks[n + 1]
      /\ 1 \in 1 .. Len(output.tasks)
  BY <1>2
<1>9. OutputInv'
  <2>1. OutputSubmitted'
    BY <1>1, <1>3, <1>8 DEF OutputInv, OutputSubmitted, o
  <2>2. ASSUME NEW i \in Tasks, NEW k \in 1 .. outputs[i], Queued(<<i, k>>)
        PROVE  Queued(<<i, k>>)' \/ InHand(<<i, k>>)'
    <3>1. PICK n \in 1 .. Len(output.tasks) : output.tasks[n] = <<i, k>>
      BY <2>2 DEF Queued
    <3>2. CASE n = 1
      BY <3>1, <3>2, <1>3 DEF InHand, o
    <3>3. CASE n # 1
      <4>1. n - 1 \in 1 .. Len(output'.tasks) /\ (n - 1) + 1 = n
        BY <3>3, <1>2
      <4>. QED BY <4>1, <3>1, <1>2 DEF Queued
    <3>. QED BY <3>2, <3>3
  <2>3. ASSUME NEW i \in Tasks, NEW k \in 1 .. outputs[i]
        PROVE  Queued(<<i, k>>)' \/ InHand(<<i, k>>)' \/ Written(<<i, k>>)'
    <3>1. Queued(<<i, k>>) \/ Written(<<i, k>>)
      BY <1>1 DEF OutputInv, OutputSomewhere, InHand
    <3>2. Written(<<i, k>>) => Written(<<i, k>>)'
      BY <1>1 DEF Written
    <3>. QED BY <3>1, <3>2, <2>2
  <2>. QED BY <2>1, <2>3, <1>1 DEF OutputInv, OutputSomewhere
<1>10. OrderInv'
  <2>1. QueuedInOrder'
    <3>1. ASSUME NEW n \in 1 .. Len(output'.tasks), NEW m \in 1 .. n - 1
          PROVE  Behind(output'.tasks[m], output'.tasks[n])
      <4>1. m \in 1 .. Len(output'.tasks) /\ m + 1 \in 1 .. (n + 1) - 1
        BY <1>2
      <4>. QED BY <4>1, <1>8 DEF OrderInv, QueuedInOrder
    <3>. QED BY <3>1 DEF QueuedInOrder, Behind
  <2>2. QueuedBehind'
    BY <1>1, <1>8 DEF OrderInv, QueuedBehind, Behind
  <2>3. HandBetween'
    <3>1. \A m \in 1 .. Len(written) : Behind(written[m], o)
      BY <1>8 DEF OrderInv, QueuedBehind, o
    <3>2. ASSUME NEW n \in 1 .. Len(output'.tasks)
          PROVE  Behind(o, output'.tasks[n])
      <4>1. 1 \in 1 .. (n + 1) - 1
        BY <1>2
      <4>. QED BY <4>1, <1>8 DEF OrderInv, QueuedInOrder, o
    <3>. QED BY <3>1, <3>2, <1>1, <1>3 DEF HandBetween, Behind
  <2>. QED BY <2>1, <2>2, <2>3, <1>1 DEF OrderInv, WrittenInOrder, Behind
<1>. QED BY <1>4, <1>5, <1>6, <1>7, <1>9, <1>10 DEF Inv

\* The task in the hand is written last.
LEMMA OutputFinishStep ==
  ASSUME Inv, OutputFinish
  PROVE  Inv'
<1>. TypeOK /\ PlacesInv /\ StagesInv /\ WorkInv /\ OutputInv /\ OrderInv
  BY DEF Inv
<1>. DEFINE o == hand[Output]
            last == Len(written) + 1
<1>1. /\ pc[Output] = "busy" /\ pc' = [pc EXCEPT ![Output] = "loop"]
      /\ written' = Append(written, o)
      /\ hand' = [hand EXCEPT ![Output] = NoTask]
      /\ UNCHANGED <<work, output, submitted, outputs, processed>>
      /\ o \in OutputTask
  BY DEF OutputFinish, Goto, PlacesInv
<1>2. hand'[Output] = NoTask /\ pc'[Output] = "loop" /\ \A w \in Workers : hand'[w] = hand[w]
  BY <1>1, Threaded DEF TypeOK
<1>3. Len(written) \in Nat /\ Len(output.tasks) \in Nat
  BY TypeFacts
<1>4. /\ written' \in Seq(OutputTask)
      /\ Len(written') = last
      /\ \A n \in 1 .. Len(written) : written'[n] = written[n]
      /\ written'[last] = o
  BY <1>1, AppendProperties DEF TypeOK
<1>5. TypeOK'
  BY <1>1, <1>4, Threaded DEF TypeOK, Places
<1>6. PlacesInv'
  BY <1>1, <1>2, Threaded DEF PlacesInv, TypeOK
<1>7. StagesInv'
  BY <1>1, Threaded DEF StagesInv, TypeOK, PlacesInv, Closing, Joined
<1>8. WorkInv'
  BY <1>1, <1>2, WorkUntouched
<1>9. OutputInv'
  <2>1. ASSUME NEW n \in 1 .. Len(written')
        PROVE  Submitted(written'[n], outputs)
    <3>1. n = last \/ n \in 1 .. Len(written)
      BY <1>3, <1>4
    <3>. QED BY <3>1, <1>1, <1>4 DEF OutputInv, OutputSubmitted
  <2>2. OutputSubmitted'
    BY <2>1, <1>1, <1>2 DEF OutputInv, OutputSubmitted
  <2>3. ASSUME NEW i \in Tasks, NEW k \in 1 .. outputs[i]
        PROVE  Queued(<<i, k>>)' \/ InHand(<<i, k>>)' \/ Written(<<i, k>>)'
    <3>1. Queued(<<i, k>>) \/ InHand(<<i, k>>) \/ Written(<<i, k>>)
      BY DEF OutputInv, OutputSomewhere
    <3>2. Queued(<<i, k>>) => Queued(<<i, k>>)'
      BY <1>1 DEF Queued
    <3>3. InHand(<<i, k>>) => Written(<<i, k>>)'
      BY <1>1, <1>3, <1>4 DEF InHand, Written
    <3>4. Written(<<i, k>>) => Written(<<i, k>>)'
      BY <1>3, <1>4 DEF Written
    <3>. QED BY <3>1, <3>2, <3>3, <3>4
  <2>. QED BY <2>2, <2>3, <1>1 DEF OutputInv, OutputSomewhere
<1>10. OrderInv'
  <2>1. ASSUME NEW n \in 1 .. Len(written'), NEW m \in 1 .. n - 1
        PROVE  Behind(written'[m], written'[n])
    <3>1. m \in 1 .. Len(written) /\ written'[m] = written[m]
      BY <1>3, <1>4
    <3>2. CASE n = last
      BY <3>1, <3>2, <1>1, <1>4 DEF OrderInv, HandBetween
    <3>3. CASE n # last
      <4>1. n \in 1 .. Len(written) /\ written'[n] = written[n]
        BY <3>3, <1>3, <1>4
      <4>. QED BY <3>1, <4>1 DEF OrderInv, WrittenInOrder
    <3>. QED BY <3>2, <3>3
  <2>2. ASSUME NEW m \in 1 .. Len(written'), NEW n \in 1 .. Len(output.tasks)
        PROVE  Behind(written'[m], output.tasks[n])
    <3>1. m = last \/ m \in 1 .. Len(written)
      BY <1>3, <1>4
    <3>. QED BY <3>1, <1>1, <1>4 DEF OrderInv, HandBetween, QueuedBehind
  <2>3. WrittenInOrder' /\ QueuedBehind'
    BY <2>1, <2>2, <1>1 DEF WrittenInOrder, QueuedBehind, Behind
  <2>4. QueuedInOrder' /\ HandBetween'
    BY <1>1, <1>2 DEF OrderInv, QueuedInOrder, HandBetween, Behind
  <2>. QED BY <2>3, <2>4 DEF OrderInv
<1>. QED BY <1>5, <1>6, <1>7, <1>8, <1>9, <1>10 DEF Inv

-----------------------------------------------------------------------------
(* The theorems *)

\* Nothing is submitted at first.
LEMMA InitInv ==
  ASSUME Init
  PROVE  Inv
<1>. USE DEF Init, EmptyQueue
<1>1. TypeOK
  BY SizeAssumption, BoundsAssumption, Threaded, EmptySeq
     DEF TypeOK, QueueOf, Places, Threads, NoTask, Tasks
<1>2. PlacesInv /\ StagesInv
  BY Threaded DEF PlacesInv, StagesInv, Closing, Joined
<1>3. work.tasks = <<>> /\ output.tasks = <<>> /\ written = <<>> /\ Len(<<>>) = 0
  OBVIOUS
<1>4. \A w \in Workers : hand[w] = NoTask
  BY Threaded
<1>5. WorkInv
  <2>0. Len(work.tasks) = 0 /\ submitted = 0
    BY <1>3
  <2>1. Untaken = 0
    <3>. HIDE DEF Init, EmptyQueue
    <3>1. Untaken = submitted - Len(work.tasks)
      BY DEF Untaken
    <3>. QED BY <2>0, <3>1, 0 - 0 = 0
  <2>2. \A i \in Tasks : ~ (i =< 0) /\ processed[i] = 0
    BY DEF Tasks
  <2>3. WorkQueued
    BY <2>0, <2>1 DEF WorkQueued
  <2>. HIDE DEF Init
  <2>. QED BY <1>4, <2>1, <2>2, <2>3, TaskInHand DEF WorkInv, WorkHeld, WorkTaken, Holds
<1>6. \A i \in Tasks : 1 .. outputs[i] = {}
  BY DEF Tasks
<1>7. OutputInv
  BY <1>3, <1>6, Threaded DEF OutputInv, OutputSubmitted, OutputSomewhere
<1>8. OrderInv
  BY <1>3, Threaded DEF OrderInv, WrittenInOrder, QueuedInOrder, QueuedBehind, HandBetween
<1>. QED BY <1>1, <1>2, <1>5, <1>7, <1>8 DEF Inv

\* Every step keeps the invariant.
LEMMA NextInv ==
  ASSUME Inv, [Next]_vars
  PROVE  Inv'
<1>1. CASE UNCHANGED vars
  BY <1>1 DEF vars, resultVars, Inv, TypeOK, PlacesInv, StagesInv, WorkInv, WorkQueued, WorkHeld,
              WorkTaken, Untaken, Holds, OutputInv, OutputSubmitted, OutputSomewhere, Queued,
              InHand, Written, OrderInv, WrittenInOrder, QueuedInOrder, QueuedBehind, HandBetween
<1>2. ASSUME NEW w \in Workers, WorkerStep(w)
      PROVE  Inv'
  BY <1>2, WorkerTakeStep, WorkerSleepStep, WorkerEndStep, WorkerCallsPostStep, WorkerWaitsStep,
     WorkerPostsStep, WorkerFinishStep DEF WorkerStep
<1>3. CASE OutputStep
  BY <1>3, OutputTakeStep, OutputSleepStep, OutputEndStep, OutputFinishStep DEF OutputStep
<1>4. CASE MainInCall
  BY <1>4, MainWaitsStep, MainPostsStep, AwaitWorkStep, ShutdownWorkStep, JoinWorkersStep,
     AwaitOutputStep, ShutdownOutputStep, JoinOutputStep DEF MainInCall
<1>. QED BY <1>1, <1>2, <1>3, <1>4, MainCallsPostStep, MainCallsEndStep DEF Next, Done

\* In every reachable state every task of either kind is in one place.
THEOREM TasksAlwaysFollowed == Spec => []Inv
<1>1. Init => Inv
  BY InitInv
<1>2. Inv /\ [Next]_vars => Inv'
  BY NextInv
<1>. QED BY <1>1, <1>2, PTL DEF Spec

\* The state keeps its type: no ring buffer holds more than its size, and no
\* thread that waits for a queue is one that never uses it.
THEOREM TypesKept == Spec => []TypeOK
<1>1. Inv => TypeOK
  BY DEF Inv
<1>. QED BY <1>1, TasksAlwaysFollowed, PTL

\* What the invariant says of the tasks once end() has returned, and of the
\* order they were written in.
LEMMA InvImpliesExact ==
  ASSUME Inv
  PROVE  WorkExact
<1>. TypeOK /\ PlacesInv /\ StagesInv /\ WorkInv /\ OutputInv /\ OrderInv
  BY DEF Inv
<1>1. EndCompletes
  <2>. SUFFICES ASSUME pc[Main] = "done", NEW i \in Tasks
                PROVE  /\ processed[i] = IF i =< submitted THEN 1 ELSE 0
                       /\ \A k \in 1 .. outputs[i] : \E n \in DOMAIN written : written[n] = <<i, k>>
    BY DEF EndCompletes
  <2>1. /\ work.tasks = <<>> /\ output.tasks = <<>> /\ pc[Output] = "ended"
        /\ \A w \in Workers : pc[w] = "ended"
    BY DEF StagesInv, Closing, Joined
  <2>2. Untaken = submitted
    BY <2>1, EmptySeq DEF Untaken, TypeOK
  <2>3. \A w \in Workers : hand[w] # <<i>>
    BY <2>1, TaskInHand DEF PlacesInv
  <2>4. processed[i] = IF i =< submitted THEN 1 ELSE 0
    BY <2>2, <2>3 DEF WorkInv, WorkTaken, TypeOK
  <2>5. \A k \in 1 .. outputs[i] : Written(<<i, k>>)
    BY <2>1, EmptySeq DEF OutputInv, OutputSomewhere, Queued, InHand
  <2>. QED BY <2>4, <2>5, TypeFacts DEF Written
<1>2. OutputInOrder
  <2>. SUFFICES ASSUME NEW n \in 1 .. Len(written)
                PROVE  /\ written[n][2] =< outputs[written[n][1]]
                       /\ \A m \in 1 .. n - 1 :
                            written[m][1] = written[n][1] => written[m][2] < written[n][2]
                       /\ \A k \in 1 .. written[n][2] - 1 :
                            \E m \in 1 .. n - 1 : written[m] = <<written[n][1], k>>
    BY TypeFacts DEF OutputInOrder
  <2>1. PICK i \in Tasks, k \in 1 .. MaxOutputs : written[n] = <<i, k>>
    BY TypeFacts DEF OutputTask
  <2>2. k =< outputs[i] /\ outputs[i] \in Nat /\ Len(written) \in Nat
    BY <2>1, TypeFacts DEF OutputInv, OutputSubmitted, Submitted, TypeOK
  <2>3. ASSUME NEW j \in 1 .. k - 1
        PROVE  \E m \in 1 .. n - 1 : written[m] = <<i, j>>
    <3>1. Queued(<<i, j>>) \/ InHand(<<i, j>>) \/ Written(<<i, j>>)
      BY <2>2 DEF OutputInv, OutputSomewhere
    <3>2. ~ Behind(<<i, k>>, <<i, j>>)
      BY DEF Behind
    <3>3. ~ Queued(<<i, j>>) /\ ~ InHand(<<i, j>>)
      BY <2>1, <3>2 DEF OrderInv, QueuedBehind, HandBetween, Queued, InHand
    <3>4. PICK m \in 1 .. Len(written) : written[m] = <<i, j>>
      BY <3>1, <3>3 DEF Written
    <3>5. m # n
      BY <3>4, <2>1
    <3>6. ~ (n \in 1 .. m - 1)
      BY <3>2, <3>4, <2>1 DEF OrderInv, WrittenInOrder
    <3>7. m \in 1 .. n - 1
      BY <3>5, <3>6, <2>2
    <3>. QED BY <3>4, <3>7
  <2>4. \A m \in 1 .. n - 1 : written[m][1] = written[n][1] => written[m][2] < written[n][2]
    BY DEF OrderInv, WrittenInOrder, Behind
  <2>5. written[n][1] = i /\ written[n][2] = k
    BY <2>1
  <2>. QED BY <2>2, <2>3, <2>4, <2>5
<1>3. ClosedOutputUnused
  BY DEF ClosedOutputUnused, StagesInv, Joined
<1>. QED BY <1>1, <1>2, <1>3 DEF WorkExact

\* Whatever the order in which the threads find the engine ending, end()
\* returns with every task processed once, and the output tasks of one work
\* task have been processed in the order submitted.
THEOREM EveryTaskExactlyOnce == Spec => []WorkExact
<1>1. Inv => WorkExact
  BY InvImpliesExact
<1>. QED BY <1>1, TasksAlwaysFollowed, PTL
=============================================================================
