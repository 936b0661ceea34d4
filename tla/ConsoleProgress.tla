----------------------------- MODULE ConsoleProgress -----------------------------
(***************************************************************************)
(* The console (Console.cpp, ConsoleWriter.cpp, ConsoleBuffer.cpp,         *)
(* CliApplication.cpp).  Threads log lines and set the progress and the    *)
(* task, which a status line at the bottom of the terminal shows; a timer  *)
(* thread redraws the time.  There is no lock: each call reads and writes  *)
(* atomic variables and then prints, and the prints of a call are one      *)
(* write, so that calls interleave between any two of these.               *)
(*                                                                         *)
(* Of the screen only the line with the cursor is kept: the percentage and *)
(* the task drawn on it, and whether the time is.                          *)
(***************************************************************************)
EXTENDS Naturals, FiniteSets

CONSTANTS
  Main, Workers,    \* threads
  Percentages, Tasks,
  Verbosities,      \* a subset of {"silent", "quiet", "normal"}
  MaxTimers,        \* calls of start()
  MaxCalls,         \* other calls of a thread
  Nothing

Threads == Workers \union {Main}
TimerThreads == 1 .. MaxTimers

\* A status line, and where a call may be: what it is about to print, or to do.
StatusLines == [pct : Percentages, task : Tasks, time : {TRUE}]
Steps ==
  UNION {[step : {"draw", "run"}], [step : {"store", "bar"}, pct : Percentages], [step : {"task"}, task : Tasks],
         [step : {"line"}, below : StatusLines \union {Nothing}, final : BOOLEAN],
         [step : {"say"}, force : BOOLEAN, final : BOOLEAN]}

ConsoleAssumption ==
  /\ Main \notin Workers /\ Threads \intersect TimerThreads = {} /\ MaxTimers \in Nat
  /\ Percentages \subseteq Nat /\ 0 \in Percentages
  /\ Nothing \notin Steps \union StatusLines

VARIABLES
  terminal, verbosity,
  consoleState,         \* "off", "normal" or "progress"
  currentPercentage, currentTask,
  thread,               \* the timer thread that thread_ can join, or 0
  timers,               \* the place of each timer thread in its loop
  doing,                \* by thread: the call in progress, or Nothing
  status,               \* the line with the cursor: [pct, task, time]
  shuttingDown,
  message,              \* the thread whose final message has been printed
  late,                 \* by thread: prints of progress since it has stopped
  overlapped,           \* calls have overlapped since start()
  calls

vars == <<terminal, verbosity, consoleState, currentPercentage, currentTask, thread, timers,
          doing, status, shuttingDown, message, late, overlapped, calls>>
shown == <<status, late, message>>
settings == <<terminal, verbosity>>
current == <<currentPercentage, currentTask>>

Blank == [pct |-> Nothing, task |-> Nothing, time |-> FALSE]
ShowProgress == terminal /\ verbosity = "normal"

Init ==
  /\ terminal \in BOOLEAN /\ verbosity \in Verbosities
  /\ consoleState = IF verbosity = "silent" THEN "off" ELSE "normal"
  /\ currentPercentage = 0 /\ currentTask \in Tasks
  /\ thread = 0 /\ timers = [i \in TimerThreads |-> "new"]
  /\ doing = [t \in Threads |-> Nothing] /\ status = Blank
  /\ shuttingDown = FALSE /\ message = Nothing /\ overlapped = FALSE
  /\ late = [t \in Threads \union TimerThreads |-> 0]
  /\ calls = [t \in Threads |-> 0]

Stopped == consoleState # "progress"
Idle(t) == doing[t] = Nothing /\ (shuttingDown => message # t)

\* A call is entered, or goes on to its next step.
Enter(t, step) == /\ Idle(t) /\ calls[t] < MaxCalls /\ calls' = [calls EXCEPT ![t] = @ + 1]
                  /\ doing' = [doing EXCEPT ![t] = step]
                  /\ overlapped' = (overlapped \/ (step # Nothing /\ \E u \in Threads \ {t} : doing[u] # Nothing))
Step(t, step) == doing' = [doing EXCEPT ![t] = step] /\ UNCHANGED <<calls, overlapped>>

\* A print of progress by t that comes after the display was stopped.
Late(t, progress) == late' = IF progress /\ Stopped THEN [late EXCEPT ![t] = @ + 1] ELSE late

-----------------------------------------------------------------------------
(* start(), setProgress() and setTask().                                   *)

Start(task) ==
  /\ thread = 0 /\ \E i \in TimerThreads : timers[i] = "new"
  /\ Idle(Main) /\ doing' = [doing EXCEPT ![Main] = [step |-> "draw"]] /\ calls' = calls
  /\ overlapped' = \E u \in Workers : doing[u] # Nothing
  /\ currentPercentage' = 0 /\ currentTask' = task
  /\ UNCHANGED <<settings, consoleState, thread, timers, shown, shuttingDown>>

StartDraw ==
  /\ doing[Main] = [step |-> "draw"]
  /\ status' = IF ShowProgress THEN [pct |-> 0, task |-> currentTask, time |-> TRUE] ELSE status
  /\ Step(Main, [step |-> "run"])
  /\ UNCHANGED <<settings, current, consoleState, thread, timers, shuttingDown, message, late>>

StartTimer ==
  /\ doing[Main] = [step |-> "run"]
  /\ IF ShowProgress
     THEN \E i \in {CHOOSE i \in TimerThreads : timers[i] = "new" /\ \A j \in TimerThreads : timers[j] = "new" => i <= j} :
            /\ consoleState' = "progress" /\ thread' = i
            /\ timers' = [timers EXCEPT ![i] = "check"]
            /\ late' = [t \in DOMAIN late |-> 0]
     ELSE UNCHANGED <<consoleState, thread, timers, late>>
  /\ Step(Main, Nothing)
  /\ UNCHANGED <<settings, current, status, message, shuttingDown>>

\* Wrong: whether the display has stopped is not asked.
DisplayedOnce == thread # 0 \/ \E i \in TimerThreads : timers[i] # "new"
Displayed == consoleState = "progress"

\* Wrong: the old percentage is not looked at.
RisesAlways(n) == TRUE
Rises(n) == n > currentPercentage

SetProgress(t, n) ==
  /\ Displayed /\ Rises(n)
  /\ Enter(t, [step |-> "store", pct |-> n])
  /\ UNCHANGED <<settings, current, consoleState, thread, timers, shown, shuttingDown>>

StoreProgress(t) ==
  /\ doing[t] # Nothing /\ doing[t].step = "store"
  /\ currentPercentage' = doing[t].pct /\ Step(t, [step |-> "bar", pct |-> doing[t].pct])
  /\ UNCHANGED <<settings, currentTask, consoleState, thread, timers, shown, shuttingDown>>

PrintProgress(t) ==
  /\ doing[t] # Nothing /\ doing[t].step = "bar"
  /\ status' = [status EXCEPT !.pct = doing[t].pct] /\ Late(t, TRUE) /\ Step(t, Nothing)
  /\ UNCHANGED <<settings, current, consoleState, thread, timers, shuttingDown, message>>

SetTask(t, task) ==
  /\ Displayed
  /\ Enter(t, [step |-> "task", task |-> task])
  /\ currentTask' = task
  /\ UNCHANGED <<settings, currentPercentage, consoleState, thread, timers, shown, shuttingDown>>

PrintTask(t) ==
  /\ doing[t] # Nothing /\ doing[t].step = "task"
  /\ status' = [status EXCEPT !.task = doing[t].task] /\ Late(t, TRUE) /\ Step(t, Nothing)
  /\ UNCHANGED <<settings, current, consoleState, thread, timers, shuttingDown, message>>

\* displayTimer().
Timer(i) ==
  /\ timers[i] \in {"check", "print", "sleep"}
  /\ timers' = [timers EXCEPT ![i] = CASE @ = "check" -> IF Stopped THEN "done" ELSE "print"
                                       [] @ = "print" -> "sleep" [] @ = "sleep" -> "check"]
  /\ IF timers[i] = "print" THEN status' = [status EXCEPT !.time = TRUE] /\ Late(i, TRUE)
     ELSE UNCHANGED <<status, late>>
  /\ UNCHANGED <<settings, current, consoleState, thread, doing, shuttingDown, message, overlapped, calls>>

-----------------------------------------------------------------------------
(* Writing a line.  What is written on a terminal while progress is shown  *)
(* ends with a status line.                                                *)

\* Wrong: the status line is left to the next call that changes it.
StatusBelowForgotten == Nothing
StatusBelow == IF terminal /\ consoleState = "progress" THEN [pct |-> currentPercentage, task |-> currentTask, time |-> TRUE]
               ELSE Nothing

\* flush() of a writer of t: nothing is printed on a terminal that is off.
Silent(force) == terminal /\ consoleState = "off" /\ ~force
Line(force, final) == IF Silent(force) THEN Nothing ELSE [step |-> "line", below |-> StatusBelow, final |-> final]

Log(t) ==
  /\ Enter(t, Line(FALSE, FALSE))
  /\ UNCHANGED <<settings, current, consoleState, thread, timers, shown, shuttingDown>>

PrintLine(t) ==
  /\ doing[t] # Nothing /\ doing[t].step = "line"
  /\ \E below \in {doing[t].below} :
       /\ status' = IF ~terminal THEN status ELSE IF below = Nothing THEN Blank ELSE below
       /\ Late(t, below # Nothing)
  /\ message' = IF doing[t].final THEN t ELSE message
  /\ Step(t, Nothing)
  /\ UNCHANGED <<settings, current, consoleState, thread, timers, shuttingDown>>

\* end(): the display stops and the timer thread is left to itself.
Stop(off) == /\ consoleState' = IF off \/ verbosity = "silent" THEN "off" ELSE "normal"
             /\ thread' = 0
End ==
  /\ Stop(FALSE) /\ Enter(Main, [step |-> "say", force |-> FALSE, final |-> FALSE])
  /\ UNCHANGED <<settings, current, timers, shown, shuttingDown>>

\* A signal, an exception or abort() in any thread: the first one ends the
\* display, turns it off (one step here) and prints the final message.
Shutdown(t) ==
  /\ ~shuttingDown /\ shuttingDown' = TRUE
  /\ doing[t] = Nothing /\ calls' = calls
  /\ Stop(TRUE) /\ doing' = [doing EXCEPT ![t] = [step |-> "say", force |-> verbosity # "silent", final |-> TRUE]]
  /\ overlapped' = TRUE
  /\ UNCHANGED <<settings, current, timers, shown>>

\* The writer that end() returns is flushed.
Say(t) ==
  /\ doing[t] # Nothing /\ doing[t].step = "say"
  /\ Step(t, Line(doing[t].force, doing[t].final))
  /\ UNCHANGED <<settings, current, consoleState, thread, timers, shown, shuttingDown>>

Next ==
  \/ \E task \in Tasks : Start(task)
  \/ StartDraw \/ StartTimer \/ End
  \/ \E i \in TimerThreads : Timer(i)
  \/ \E t \in Threads :
       \/ \E n \in Percentages : SetProgress(t, n)
       \/ \E task \in Tasks : SetTask(t, task)
       \/ StoreProgress(t) \/ PrintProgress(t) \/ PrintTask(t)
       \/ Log(t) \/ PrintLine(t) \/ Say(t) \/ Shutdown(t)

Spec == Init /\ [][Next]_vars

-----------------------------------------------------------------------------
(* Correctness.                                                            *)

Quiet == \A t \in Threads : doing[t] = Nothing

\* Between calls, the status line shows the percentage and the task that are
\* current, unless calls of two threads have overlapped: then one may have
\* printed what the other had replaced (Console.cpp, lines 13-16 and 71-80).
StatusCurrent ==
  consoleState = "progress" /\ Quiet /\ ~overlapped =>
     status = [pct |-> currentPercentage, task |-> currentTask, time |-> TRUE]

\* When end() or shutdown() has stopped the display, each thread prints progress
\* at most once more: what it was about to print (Console.cpp, ConsoleWriter.cpp).
LateOnce == \A t \in DOMAIN late : late[t] <= 1

\* The percentage goes back only at start(), or if calls of two threads have
\* overlapped (setProgress, Console.cpp).
Forward == currentPercentage' < currentPercentage => overlapped \/ doing'[Main] = [step |-> "draw"]
NeverBack == [][Forward]_vars

================================================================================
