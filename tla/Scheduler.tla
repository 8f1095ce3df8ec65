------------------------------- MODULE Scheduler -------------------------------
(***************************************************************************)
(* learning/scheduler.py: the supervision of the background jobs.          *)
(*                                                                         *)
(* start() makes one supervisor task per job and gathers them; a           *)
(* supervisor runs its job's loop and restarts it when its machinery       *)
(* crashes.  A job's failure is contained in the tick.  start() may be     *)
(* called again, and cancelled; stop() ends every loop at its next wait.   *)
(* A crash's age is not followed: any of the earlier ones may have left    *)
(* the restart window.                                                     *)
(***************************************************************************)
EXTENDS Naturals, FiniteSets

CONSTANTS
    Job,          \* self._jobs
    RunFirst,     \* the jobs that work before they wait
    Preflighted,  \* the jobs with a preflight
    Gated,        \* the jobs with a gate
    MaxRestarts,  \* max_restarts
    MaxStarts,    \* bound: calls of start()
    MaxCrashes    \* bound: crashes of a loop's machinery

Start == 1..MaxStarts

VARIABLES
    running,   \* self._running
    stop,      \* self._stop is set
    tasks,     \* the start() whose tasks are self._tasks, or 0
    call,      \* where each start() is
    loop,      \* where each supervisor is, by start and job
    status,    \* JobState.status
    failures,  \* JobState.consecutive_failures > 0
    window,    \* crashes in the restart window
    crashes,   \* crashes so far
    asked      \* history: stop() was called since the last start()

vars == <<running, stop, tasks, call, loop, status, failures, window, crashes, asked>>
ours == <<running, stop, tasks, call, asked>>

Init ==
    /\ running = FALSE /\ stop = FALSE /\ tasks = 0
    /\ call = [s \in Start |-> "none"]
    /\ loop = [s \in Start |-> [j \in Job |-> "none"]]
    /\ status = [j \in Job |-> "idle"]
    /\ failures = [j \in Job |-> FALSE]
    /\ window = [j \in Job |-> 0]
    /\ crashes = 0 /\ asked = FALSE

Over == {"none", "ended"}
Live(s) == {j \in Job : loop[s][j] \notin Over}

-----------------------------------------------------------------------------
\* start(), stop()

Begin(s) ==
    /\ call[s] = "none" /\ (s > 1 => call[s - 1] # "none")
    /\ running' = TRUE /\ stop' = FALSE /\ asked' = FALSE
    /\ tasks' = s
    /\ call' = [call EXCEPT ![s] = "gathering"]
    /\ loop' = [loop EXCEPT ![s] = [j \in Job |-> "begin"]]
    /\ status' = [j \in Job |-> "idle"]
    /\ window' = [j \in Job |-> 0]
    /\ UNCHANGED <<failures, crashes>>

\* It raises while an earlier one's tasks are not done.
StartCall(s) ==
    /\ tasks # 0 => Live(tasks) = {}
    /\ Begin(s)

\* The gather is over; the call cleans up what it still owns.
CleanUpAll(s) ==  \* mutant: whoever's tasks they are
    /\ tasks' = 0 /\ running' = FALSE
CleanUp(s) ==
    IF tasks = s THEN tasks' = 0 /\ running' = FALSE ELSE UNCHANGED <<tasks, running>>

StartReturns(s) ==
    /\ call[s] \in {"gathering", "cancelling"} /\ Live(s) = {}
    /\ call' = [call EXCEPT ![s] = "over"]
    /\ CleanUp(s)
    /\ UNCHANGED <<stop, loop, status, failures, window, crashes, asked>>

\* The task that runs start() is cancelled, and with it every supervisor.
CancelStart(s) ==
    /\ call[s] = "gathering" /\ Live(s) # {}
    /\ call' = [call EXCEPT ![s] = "cancelling"]
    /\ UNCHANGED <<running, stop, tasks, loop, status, failures, window, crashes, asked>>

Stop ==
    /\ running \/ ~stop
    /\ running' = FALSE /\ stop' = TRUE /\ asked' = TRUE
    /\ UNCHANGED <<tasks, call, loop, status, failures, window, crashes>>

-----------------------------------------------------------------------------
\* A supervisor and its job's loop.

To(s, j, pc) == loop' = [loop EXCEPT ![s][j] = pc]
Set(j, st) == status' = [status EXCEPT ![j] = st]

\* _supervise()'s finally.
End(s, j) ==
    /\ To(s, j, "ended")
    /\ IF status[j] = "abandoned" THEN UNCHANGED status ELSE Set(j, "stopped")

Cancelled(s) == call[s] = "cancelling"

\* A cancelled supervisor ends at the await it is at.
Unwind(s, j) ==
    /\ Cancelled(s) /\ j \in Live(s)
    /\ End(s, j)
    /\ UNCHANGED <<ours, failures, window, crashes>>

\* _run_loop() from its start: a preflight that raises is recorded.
Enter(s, j) ==
    /\ ~Cancelled(s) /\ loop[s][j] = "begin"
    /\ IF ~running THEN End(s, j) /\ UNCHANGED failures
       ELSE /\ To(s, j, IF j \in RunFirst THEN "ticking" ELSE "waiting")
            /\ \/ UNCHANGED <<status, failures>>
               \/ /\ j \in Preflighted
                  /\ failures' = [failures EXCEPT ![j] = TRUE]
                  /\ Set(j, "degraded")
    /\ UNCHANGED <<ours, window, crashes>>

\* _wait(): stop() was called, or the time has passed.
LeaveLoop(s, j) ==
    /\ ~Cancelled(s) /\ loop[s][j] \in {"waiting", "backoff"} /\ stop
    /\ End(s, j)
    /\ UNCHANGED <<ours, failures, window, crashes>>
WaitOver(s, j) ==
    /\ ~Cancelled(s) /\ ~stop
    /\ \/ loop[s][j] = "waiting" /\ To(s, j, "ticking")
       \/ loop[s][j] = "backoff" /\ To(s, j, "begin")
    /\ UNCHANGED <<ours, status, failures, window, crashes>>

\* _tick(): skipped by its gate, or the job is at work.
Skip(s, j) ==
    /\ ~Cancelled(s) /\ loop[s][j] = "ticking" /\ running /\ j \in Gated
    /\ To(s, j, "waiting")
    /\ UNCHANGED <<ours, status, failures, window, crashes>>
Work(s, j) ==
    /\ ~Cancelled(s) /\ loop[s][j] = "ticking"
    /\ IF running THEN To(s, j, "working") /\ Set(j, "running") ELSE End(s, j)
    /\ UNCHANGED <<ours, failures, window, crashes>>

\* Its end is recorded, as a success or a failure, and the loop goes on.
WorkEnds(s, j) ==
    /\ ~Cancelled(s) /\ loop[s][j] = "working"
    /\ \E ok \in BOOLEAN :
         /\ failures' = [failures EXCEPT ![j] = ~ok]
         /\ Set(j, IF ok THEN "idle" ELSE "degraded")
    /\ To(s, j, IF running THEN "waiting" ELSE "leaving")
    /\ UNCHANGED <<ours, window, crashes>>
Leave(s, j) ==
    /\ loop[s][j] = "leaving"
    /\ End(s, j)
    /\ UNCHANGED <<ours, failures, window, crashes>>

\* The loop's machinery crashes before a wait: _on_loop_crash().
GivesUp(n) == n > MaxRestarts
Crash(s, j) ==
    /\ ~Cancelled(s) /\ loop[s][j] = "waiting" /\ running
    /\ crashes < MaxCrashes /\ crashes' = crashes + 1
    /\ \E old \in 0..window[j] :
         LET n == window[j] - old + 1
         IN  /\ window' = [window EXCEPT ![j] = n]
             /\ IF GivesUp(n)
                THEN To(s, j, "leaving") /\ Set(j, "abandoned")
                ELSE To(s, j, "backoff") /\ UNCHANGED status
    /\ UNCHANGED <<ours, failures>>

Loop(s, j) ==
    \/ Unwind(s, j) \/ Enter(s, j) \/ LeaveLoop(s, j) \/ WaitOver(s, j)
    \/ Work(s, j) \/ WorkEnds(s, j) \/ Leave(s, j)
Next ==
    \/ \E s \in Start :
         \/ StartCall(s) \/ StartReturns(s) \/ CancelStart(s)
         \/ \E j \in Job : Loop(s, j) \/ Skip(s, j) \/ Crash(s, j)
    \/ Stop

\* Jobs return, intervals pass and tasks are run.
Fairness ==
    \A s \in Start :
        /\ WF_vars(StartReturns(s))
        /\ \A j \in Job : WF_vars(Loop(s, j))
Spec == Init /\ [][Next]_vars /\ Fairness

-----------------------------------------------------------------------------
TypeOK ==
    /\ running \in BOOLEAN /\ stop \in BOOLEAN /\ tasks \in {0} \union Start
    /\ call \in [Start -> {"none", "gathering", "cancelling", "over"}]
    /\ loop \in [Start -> [Job -> {"none", "begin", "waiting", "backoff", "ticking",
                                   "working", "leaving", "ended"}]]
    /\ status \in [Job -> {"idle", "running", "degraded", "abandoned", "stopped"}]
    /\ failures \in [Job -> BOOLEAN]
    /\ window \in [Job -> 0..MaxRestarts + 1]
    /\ crashes \in 0..MaxCrashes /\ asked \in BOOLEAN

\* A job has one loop at a time, through stops, cancellations and new starts
\* ("no child outlives start()", scheduler.py:143).
OneLoopPerJob ==
    \A j \in Job : Cardinality({s \in Start : loop[s][j] \notin Over}) <= 1

\* The scheduler is not stopped by the late end of an earlier start(): while
\* its loops live, it runs unless stop() was called (scheduler.py:145).
StoppedByStop ==
    \A s \in Start : call[s] = "gathering" /\ Live(s) # {} /\ ~running => asked

\* A job given up stays given up, and is reported so, until the next start().
AbandonedStays ==
    [][\A j \in Job : status[j] = "abandoned" /\ status'[j] # "abandoned"
                      => \E s \in Start : call[s] = "none" /\ call'[s] = "gathering"]_vars

\* stop() ends every loop, whatever it is doing.
StopStops == \A s \in Start : asked ~> (Live(s) = {} \/ ~asked)
=============================================================================
