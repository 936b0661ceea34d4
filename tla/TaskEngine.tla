------------------------------- MODULE TaskEngine -------------------------------
(***************************************************************************)
(* The two-stage task engine: a thread submits work tasks, workers process *)
(* them and submit output tasks, one more thread processes those.  end()   *)
(* shuts the stages down one after the other.                              *)
(*                                                                         *)
(* A step is what a thread does under the mutex of one TaskQueue, or       *)
(* between two such sections.  A thread that is woken looks at the queue   *)
(* again.                                                                  *)
(***************************************************************************)
EXTENDS Integers, Sequences

CONSTANTS Workers, Main, Output,   \* the threads
          WorkSize, OutputSize,    \* sizes of the queues
          MaxTasks,                \* bound: work tasks submitted
          MaxOutputs               \* bound: output tasks of one work task

ASSUME SizeAssumption == WorkSize \in Nat \ {0} /\ OutputSize \in Nat \ {0}
ASSUME ThreadAssumption == Workers # {} /\ Main # Output /\ {Main, Output} \cap Workers = {}
ASSUME BoundsAssumption == MaxTasks \in Nat /\ MaxOutputs \in Nat

VARIABLES
  work, output,  \* the queues: tasks, running_, and the threads that wait on
                 \* notEmpty_ and on notFull_
  pc,            \* where each thread is
  hand,          \* the task a thread processes
  submitted,     \* work tasks submitted so far are 1 .. submitted
  outputs,       \* output tasks submitted so far, of each work task
  processed,     \* how often each work task has been processed
  written        \* output tasks processed, in that order

resultVars == <<submitted, outputs, processed, written>>
vars == <<work, output, pc, hand, resultVars>>

Threads == Workers \cup {Main, Output}
Tasks == 1 .. MaxTasks
WorkTask == {<<i>> : i \in Tasks}
OutputTask == Tasks \X (1 .. MaxOutputs)  \* which work task it is of, and its number there
NoTask == <<>>
EmptyQueue == [tasks |-> <<>>, running |-> TRUE, notEmpty |-> {}, notFull |-> {}]

Init ==
  /\ work = EmptyQueue
  /\ output = EmptyQueue
  /\ pc = [t \in Threads |-> IF t = Main THEN "outside" ELSE "loop"]
  /\ hand = [t \in Threads |-> NoTask]
  /\ submitted = 0
  /\ outputs = [i \in Tasks |-> 0]
  /\ processed = [i \in Tasks |-> 0]
  /\ written = <<>>

Goto(t, place) == pc' = [pc EXCEPT ![t] = place]
Waits(t) == t \in work.notEmpty \cup work.notFull \cup output.notEmpty \cup output.notFull

-----------------------------------------------------------------------------
(* TaskQueue: what a queue may be after a call *)

\* notify_one wakes any one of the threads that wait.
WakeOne(waiting) == IF waiting = {} THEN {{}} ELSE {waiting \ {t} : t \in waiting}

\* Wrong: one task more than the ring buffer holds.
FullLate(queue, size) == Len(queue.tasks) > size

Full(queue, size) == Len(queue.tasks) = size

\* Wrong: the task goes where the next one is taken from.
PutFirst(queue, task) ==
  {[queue EXCEPT !.tasks = <<task>> \o @, !.notEmpty = left] :
     left \in WakeOne(queue.notEmpty)}

\* The rest of post(), when there is room.
Put(queue, task) ==
  {[queue EXCEPT !.tasks = Append(@, task), !.notEmpty = left] :
     left \in WakeOne(queue.notEmpty)}

\* process() takes the first task.
Take(queue) ==
  {[queue EXCEPT !.tasks = Tail(@), !.notFull = left] : left \in WakeOne(queue.notFull)}

WaitForRoom(queue, t) == [queue EXCEPT !.notFull = @ \cup {t}]
WaitForTask(queue, t) == [queue EXCEPT !.notEmpty = @ \cup {t}]

\* Wrong: one thread is woken instead of all.
ShutdownOne(queue) ==
  {[queue EXCEPT !.running = FALSE, !.notEmpty = left] : left \in WakeOne(queue.notEmpty)}

Shutdown(queue) == {[queue EXCEPT !.running = FALSE, !.notEmpty = {}]}

-----------------------------------------------------------------------------
(* Workers *)

WorkerTake(w) ==
  /\ pc[w] = "loop" /\ ~ Waits(w)
  /\ work.running
  /\ work.tasks # <<>>
  /\ hand' = [hand EXCEPT ![w] = Head(work.tasks)]
  /\ work' \in Take(work)
  /\ Goto(w, "busy")
  /\ UNCHANGED <<output, resultVars>>

WorkerSleep(w) ==
  /\ pc[w] = "loop" /\ ~ Waits(w)
  /\ work.running
  /\ work.tasks = <<>>
  /\ work' = WaitForTask(work, w)
  /\ UNCHANGED <<output, pc, hand, resultVars>>

\* process() returns and afterTasks() is called.
WorkerEnd(w) ==
  /\ pc[w] = "loop" /\ ~ Waits(w)
  /\ ~ work.running
  /\ Goto(w, "ended")
  /\ UNCHANGED <<work, output, hand, resultVars>>

\* processTask() calls postOutput().
WorkerCallsPost(w) ==
  /\ pc[w] = "busy"
  /\ outputs[hand[w][1]] < MaxOutputs
  /\ Goto(w, "posting")
  /\ UNCHANGED <<work, output, hand, resultVars>>

WorkerWaits(w) ==
  /\ pc[w] = "posting" /\ ~ Waits(w)
  /\ Full(output, OutputSize)
  /\ output' = WaitForRoom(output, w)
  /\ UNCHANGED <<work, pc, hand, resultVars>>

WorkerPosts(w) ==
  /\ pc[w] = "posting" /\ ~ Waits(w)
  /\ ~ Full(output, OutputSize)
  /\ LET i == hand[w][1]
     IN  /\ output' \in Put(output, <<i, outputs[i] + 1>>)
         /\ outputs' = [outputs EXCEPT ![i] = @ + 1]
  /\ Goto(w, "busy")
  /\ UNCHANGED <<work, hand, submitted, processed, written>>

\* processTask() returns.
WorkerFinish(w) ==
  /\ pc[w] = "busy"
  /\ processed' = [processed EXCEPT ![hand[w][1]] = @ + 1]
  /\ hand' = [hand EXCEPT ![w] = NoTask]
  /\ Goto(w, "loop")
  /\ UNCHANGED <<work, output, submitted, outputs, written>>

-----------------------------------------------------------------------------
(* The output thread *)

OutputTake ==
  /\ pc[Output] = "loop" /\ ~ Waits(Output)
  /\ output.running
  /\ output.tasks # <<>>
  /\ hand' = [hand EXCEPT ![Output] = Head(output.tasks)]
  /\ output' \in Take(output)
  /\ Goto(Output, "busy")
  /\ UNCHANGED <<work, resultVars>>

OutputSleep ==
  /\ pc[Output] = "loop" /\ ~ Waits(Output)
  /\ output.running
  /\ output.tasks = <<>>
  /\ output' = WaitForTask(output, Output)
  /\ UNCHANGED <<work, pc, hand, resultVars>>

OutputEnd ==
  /\ pc[Output] = "loop" /\ ~ Waits(Output)
  /\ ~ output.running
  /\ Goto(Output, "ended")
  /\ UNCHANGED <<work, output, hand, resultVars>>

OutputFinish ==
  /\ pc[Output] = "busy"
  /\ written' = Append(written, hand[Output])
  /\ hand' = [hand EXCEPT ![Output] = NoTask]
  /\ Goto(Output, "loop")
  /\ UNCHANGED <<work, output, submitted, outputs, processed>>

-----------------------------------------------------------------------------
(* The thread that owns the engine *)

MainCallsPost ==
  /\ pc[Main] = "outside"
  /\ submitted < MaxTasks
  /\ Goto(Main, "posting")
  /\ UNCHANGED <<work, output, hand, resultVars>>

MainWaits ==
  /\ pc[Main] = "posting" /\ ~ Waits(Main)
  /\ Full(work, WorkSize)
  /\ work' = WaitForRoom(work, Main)
  /\ UNCHANGED <<output, pc, hand, resultVars>>

MainPosts ==
  /\ pc[Main] = "posting" /\ ~ Waits(Main)
  /\ ~ Full(work, WorkSize)
  /\ work' \in Put(work, <<submitted + 1>>)
  /\ submitted' = submitted + 1
  /\ Goto(Main, "outside")
  /\ UNCHANGED <<output, hand, outputs, processed, written>>

MainCallsEnd ==
  /\ pc[Main] = "outside"
  /\ Goto(Main, "awaitWork")
  /\ UNCHANGED <<work, output, hand, resultVars>>

\* Wrong: the work queue is not waited for.
AwaitWorkNot ==
  /\ pc[Main] = "awaitWork"
  /\ Goto(Main, "shutdownWork")
  /\ UNCHANGED <<work, output, hand, resultVars>>

\* awaitCompletion() of the work queue, which only waits for the last task to be taken.
AwaitWork ==
  /\ pc[Main] = "awaitWork" /\ ~ Waits(Main)
  /\ IF work.tasks = <<>>
     THEN Goto(Main, "shutdownWork") /\ UNCHANGED work
     ELSE work' = WaitForRoom(work, Main) /\ UNCHANGED pc
  /\ UNCHANGED <<output, hand, resultVars>>

ShutdownWork ==
  /\ pc[Main] = "shutdownWork"
  /\ work' \in Shutdown(work)
  /\ Goto(Main, "joinWorkers")
  /\ UNCHANGED <<output, hand, resultVars>>

\* Wrong: the workers are not waited for.
JoinWorkersNot ==
  /\ pc[Main] = "joinWorkers"
  /\ Goto(Main, "awaitOutput")
  /\ UNCHANGED <<work, output, hand, resultVars>>

JoinWorkers ==
  /\ pc[Main] = "joinWorkers"
  /\ \A w \in Workers : pc[w] = "ended"
  /\ Goto(Main, "awaitOutput")
  /\ UNCHANGED <<work, output, hand, resultVars>>

AwaitOutput ==
  /\ pc[Main] = "awaitOutput" /\ ~ Waits(Main)
  /\ IF output.tasks = <<>>
     THEN Goto(Main, "shutdownOutput") /\ UNCHANGED output
     ELSE output' = WaitForRoom(output, Main) /\ UNCHANGED pc
  /\ UNCHANGED <<work, hand, resultVars>>

ShutdownOutput ==
  /\ pc[Main] = "shutdownOutput"
  /\ output' \in Shutdown(output)
  /\ Goto(Main, "joinOutput")
  /\ UNCHANGED <<work, hand, resultVars>>

\* The threads are gone; harvestResults() and postProcess() are called.
JoinOutput ==
  /\ pc[Main] = "joinOutput"
  /\ pc[Output] = "ended"
  /\ Goto(Main, "done")
  /\ UNCHANGED <<work, output, hand, resultVars>>

-----------------------------------------------------------------------------
WorkerStep(w) ==
  \/ WorkerTake(w) \/ WorkerSleep(w) \/ WorkerEnd(w)
  \/ WorkerCallsPost(w) \/ WorkerWaits(w) \/ WorkerPosts(w) \/ WorkerFinish(w)

OutputStep == OutputTake \/ OutputSleep \/ OutputEnd \/ OutputFinish

\* What the owner's thread does within a call.
MainInCall ==
  \/ MainWaits \/ MainPosts
  \/ AwaitWork \/ ShutdownWork \/ JoinWorkers
  \/ AwaitOutput \/ ShutdownOutput \/ JoinOutput

Done == pc[Main] = "done" /\ UNCHANGED vars

Next ==
  \/ \E w \in Workers : WorkerStep(w)
  \/ OutputStep
  \/ MainCallsPost \/ MainCallsEnd \/ MainInCall
  \/ Done

\* Threads are scheduled; a task ends.  Whether the owner calls at all is its
\* own affair.
Fairness ==
  /\ \A w \in Workers : WF_vars(WorkerStep(w))
  /\ WF_vars(OutputStep)
  /\ WF_vars(MainInCall)

Spec == Init /\ [][Next]_vars /\ Fairness

-----------------------------------------------------------------------------
Places == {"loop", "busy", "posting", "ended", "outside", "awaitWork", "shutdownWork",
           "joinWorkers", "awaitOutput", "shutdownOutput", "joinOutput", "done"}

QueueOf(E, takers, waiters) ==
  [tasks : Seq(E), running : BOOLEAN, notEmpty : SUBSET takers, notFull : SUBSET waiters]

\* The queues never hold more than their ring buffers do.
TypeOK ==
  /\ work \in QueueOf(WorkTask, Workers, {Main})
  /\ output \in QueueOf(OutputTask, {Output}, Workers \cup {Main})
  /\ Len(work.tasks) =< WorkSize
  /\ Len(output.tasks) =< OutputSize
  /\ pc \in [Threads -> Places]
  /\ hand \in [Threads -> {NoTask} \cup WorkTask \cup OutputTask]
  /\ submitted \in 0 .. MaxTasks
  /\ outputs \in [Tasks -> 0 .. MaxOutputs]
  /\ processed \in [Tasks -> {0, 1}]
  /\ written \in Seq(OutputTask)

\* end() returns only when every work task submitted has been processed once
\* and so has every output task of it, though a thread that finds running_
\* cleared leaves the tasks that are still in its queue.
EndCompletes ==
  pc[Main] = "done" =>
    \A i \in Tasks :
      /\ processed[i] = IF i =< submitted THEN 1 ELSE 0
      /\ \A k \in 1 .. outputs[i] : \E n \in DOMAIN written : written[n] = <<i, k>>

\* The output tasks of one work task are processed in the order submitted,
\* each once and none before the ones submitted before it.
OutputInOrder ==
  \A n \in DOMAIN written :
    /\ written[n][2] =< outputs[written[n][1]]
    /\ \A m \in 1 .. n - 1 :
         written[m][1] = written[n][1] => written[m][2] < written[n][2]
    /\ \A k \in 1 .. written[n][2] - 1 :
         \E m \in 1 .. n - 1 : written[m] = <<written[n][1], k>>

\* Nothing is left in the output queue, and nobody is left to submit to it,
\* once it has been shut down.
ClosedOutputUnused ==
  ~ output.running =>
    /\ output.tasks = <<>>
    /\ \A w \in Workers : pc[w] = "ended"

\* No task is lost, done twice, taken out of order or left behind, in whichever
\* order the threads see that the engine ends.
WorkExact == EndCompletes /\ OutputInOrder /\ ClosedOutputUnused

\* Submitting a task and end() return.
CallsReturn == pc[Main] \notin {"outside", "done"} ~> pc[Main] \in {"outside", "done"}
=============================================================================
