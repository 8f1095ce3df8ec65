---------------------------- MODULE GraphWatchdog ----------------------------
(***************************************************************************)
(* core/runtime/watchdog.py beside core/workflow/runtime.py: one execution *)
(* of a chain of nodes, the execution graph both write to (execution_graph *)
(* .py, progress.py), and the watchdog that polls it and cancels.          *)
(*                                                                         *)
(* Both run on one event loop.  A graph update takes an uncontended lock   *)
(* and no await, so it is atomic with the code before it; then progress.py *)
(* awaits the append of an event, which may take any time, and may raise.  *)
(* One tick is the watchdog's polling interval; the loop is responsive: a  *)
(* due poll happens before the next tick.                                  *)
(***************************************************************************)
EXTENDS WatchdogDecision, GraphBounds

Root == 0              \* _nodes lists the root first, then the definition's
Node == 0..Nodes
NodeStatus == {"pending", "running", "completed", "failed", "recovering"}
Reason == {"stall", "hard_deadline", "external"}

VARIABLES
    elapsed,  \* ticks since the budget was created; stops at Absolute, where
              \* every budget has expired
    budget,   \* the ExecutionBudget
    status,   \* the graph: status of each node
    touched,  \* the graph: updated_at of each node
    token,    \* the cancellation token: "none" or the first reason
    rt,       \* the runtime: where it awaits, the node it is at, and whether
              \* the last node succeeded
    wd,       \* the watchdog's task: where it awaits, what it records (an
              \* extension or the reason it cancels for) and on which nodes
    life,     \* history: when the runtime last touched the graph
    faults    \* history: appends that raised

graph == <<status, touched>>
vars == <<elapsed, budget, graph, token, rt, wd, life, faults>>

Init ==
    /\ elapsed = 0
    /\ budget = FreshBudget
    /\ status = [n \in Node |-> "pending"]
    /\ touched = [n \in Node |-> 0]
    /\ token = "none"
    /\ rt = [pc |-> "idle", node |-> Root, ok |-> TRUE]
    /\ wd = [pc |-> "off", act |-> "none", todo |-> {}]
    /\ life = 0
    /\ faults = 0

Ended == rt.pc \in {"returned", "raised"}

\* An append raises.
Faulty == faults < MaxFaults /\ faults' = faults + 1

Set(n, s) ==
    /\ status' = [status EXCEPT ![n] = s]
    /\ touched' = [touched EXCEPT ![n] = elapsed]
\* The top of the watchdog's polling loop.
Loop == wd' = [pc |-> IF token = "none" THEN "asleep" ELSE "finished",
               act |-> "none", todo |-> {}]
-----------------------------------------------------------------------------
(* The runtime *)

Report(n, s) == Set(n, s) /\ life' = elapsed
To(pc) == rt' = [rt EXCEPT !.pc = pc]

Begin ==
    /\ rt.pc = "idle"
    /\ Report(Root, "running")
    /\ To("beginning")
    /\ UNCHANGED <<elapsed, budget, token, wd, faults>>

\* Adding a node touches it and its parent, the root.  An invalid definition
\* is noticed once the watchdog is running.
Start ==
    /\ rt.pc = "beginning"
    /\ \/ /\ touched' = [n \in Node |-> elapsed]
          /\ life' = elapsed
          /\ Loop
          /\ To("opening") \/ To("stopping")
          /\ UNCHANGED faults
       \/ Faulty /\ To("raised") /\ UNCHANGED <<touched, life, wd>>
    /\ UNCHANGED <<elapsed, budget, status, token>>

\* After the event that opens the run, or the checkpoint of the last node:
\* the next node, unless the run is cancelled, over, or failed at a node
\* without an error branch.
Visit ==
    /\ rt.pc \in {"opening", "saving"}
    /\ token = "none" /\ rt.node < Nodes
    /\ Report(rt.node + 1, "running")
    /\ rt' = [rt EXCEPT !.pc = "marking", !.node = @ + 1]
    /\ UNCHANGED <<elapsed, budget, token, wd, faults>>

Marked ==
    /\ rt.pc = "marking"
    /\ \/ To("working") /\ UNCHANGED faults
       \/ Faulty /\ To("stopping")
    /\ UNCHANGED <<elapsed, budget, graph, token, wd, life>>

\* The worker returns, if it does.
Finish(success) ==
    /\ rt.pc = "working"
    /\ Report(rt.node, IF success THEN "completed" ELSE "failed")
    /\ rt' = [rt EXCEPT !.pc = "closing", !.ok = success]
    /\ UNCHANGED <<elapsed, budget, token, wd, faults>>

Closed ==
    /\ rt.pc = "closing"
    /\ \/ To("saving") /\ UNCHANGED faults
       \/ Faulty /\ To("stopping")
    /\ UNCHANGED <<elapsed, budget, graph, token, wd, life>>

\* A run that reached its end may still violate its constraints.
EndWalk ==
    /\ rt.pc \in {"opening", "saving"}
    /\ token # "none" \/ rt.node = Nodes \/ ~rt.ok
    /\ \/ Report(Root, "failed")
       \/ rt.ok /\ rt.node = Nodes /\ Report(Root, "completed")
    /\ To("ending")
    /\ UNCHANGED <<elapsed, budget, token, wd, faults>>

\* The root's event, then that of the execution (which never raises).
RootReported ==
    /\ rt.pc = "ending"
    /\ \/ To("stopping") /\ UNCHANGED faults
       \/ Faulty /\ To("raised")
    /\ UNCHANGED <<elapsed, budget, graph, token, wd, life>>

\* watchdog.stop() cancels the task where it awaits.  If the task had died of
\* an exception, awaiting it raises that exception.
Stop ==
    /\ rt.pc = "stopping"
    /\ IF wd.pc = "dead"
       THEN To("raised") /\ UNCHANGED wd
       ELSE To("returned") /\ wd' = [wd EXCEPT !.pc = "stopped", !.todo = {}]
    /\ UNCHANGED <<elapsed, budget, graph, token, life, faults>>
-----------------------------------------------------------------------------
(* The watchdog *)

ActiveNodes == {n \in Node : status[n] \in {"running", "recovering"}}
First(S) == CHOOSE n \in S : \A k \in S : n <= k

SilenceOldest ==  \* mutant: the activity that is longest ago counts
    elapsed - touched[CHOOSE n \in ActiveNodes :
                         \A k \in ActiveNodes : touched[k] >= touched[n]]

\* since_last_progress_s: the most recent touch of an active node.
Silence ==
    elapsed - touched[CHOOSE n \in ActiveNodes :
                         \A k \in ActiveNodes : touched[k] <= touched[n]]

\* cancel() keeps the first reason.
Cancelled(reason) == IF token = "none" THEN reason ELSE token

\* The updates of one record_...() call; its append is awaited.
Write(act, S) ==
    /\ Set(First(S), IF act = "extended" THEN "recovering" ELSE "failed")
    /\ wd' = [pc |-> "recording", act |-> act, todo |-> S \ {First(S)}]

\* inspect() when nothing is active: only the hard ceiling counts.
InspectIdle ==
    /\ wd.pc = "due"
    /\ ActiveNodes = {}
    /\ IF HardExpired(budget, elapsed)
       THEN /\ token' = Cancelled("hard_deadline")
            /\ wd' = [wd EXCEPT !.pc = "finished"]
       ELSE Loop /\ UNCHANGED token
    /\ UNCHANGED <<elapsed, budget, graph, rt, life, faults>>

\* inspect() otherwise, up to the first append.  updated_at is set when a node
\* is made, so "has progressed" is always true here.
Inspect ==
    /\ wd.pc = "due"
    /\ ActiveNodes # {}
    /\ LET v == Verdict(budget, elapsed, TRUE, Silence)
       IN  \/ /\ v = "extended"
              /\ budget' = Extended(budget, elapsed)
              /\ Write("extended", ActiveNodes)
           \/ /\ v \in {"stalled", "expired"}
              /\ Write(IF v = "stalled" THEN "stall" ELSE "hard_deadline",
                       ActiveNodes)
              /\ UNCHANGED budget
           \/ v \in {"healthy", "recovering"} /\ Loop /\ UNCHANGED <<budget, graph>>
    /\ UNCHANGED <<elapsed, token, rt, life, faults>>

\* The next of the nodes that were active at the snapshot.
RecordNext ==
    /\ wd.pc = "recording" /\ wd.todo # {}
    /\ Write(wd.act, wd.todo)
    /\ UNCHANGED <<elapsed, budget, token, rt, life, faults>>

Recorded ==
    /\ wd.pc = "recording" /\ wd.todo = {}
    /\ IF wd.act = "extended"
       THEN Loop /\ UNCHANGED token
       ELSE /\ token' = Cancelled(wd.act)
            /\ wd' = [wd EXCEPT !.pc = "finished"]
    /\ UNCHANGED <<elapsed, budget, graph, rt, life, faults>>

\* An append raised: the task ends, and nobody looks at it before stop().
Die ==
    /\ wd.pc = "recording"
    /\ Faulty
    /\ wd' = [wd EXCEPT !.pc = "dead", !.todo = {}]
    /\ UNCHANGED <<elapsed, budget, graph, token, rt, life>>
-----------------------------------------------------------------------------
(* Environment *)

\* Someone else holds the token.
CancelExternal ==
    /\ token = "none" /\ ~Ended
    /\ token' = "external"
    /\ UNCHANGED <<elapsed, budget, graph, rt, wd, life, faults>>

Tick ==
    /\ rt.pc # "idle"
    /\ wd.pc # "due"
    /\ elapsed' = IF elapsed < Absolute THEN elapsed + 1 ELSE elapsed
    /\ wd' = IF wd.pc = "asleep" THEN [wd EXCEPT !.pc = "due"] ELSE wd
    /\ UNCHANGED <<budget, graph, token, rt, life, faults>>

\* What the event loop carries out by itself; the worker's return is not.
RuntimeStep ==
    Begin \/ Start \/ Visit \/ Marked \/ Closed \/ EndWalk \/ RootReported \/ Stop
WatchdogStep == InspectIdle \/ Inspect \/ RecordNext \/ Recorded

Next ==
    \/ RuntimeStep \/ \E success \in BOOLEAN : Finish(success)
    \/ WatchdogStep \/ Die
    \/ CancelExternal \/ Tick

Spec == Init /\ [][Next]_vars

Fairness == WF_vars(RuntimeStep) /\ WF_vars(WatchdogStep) /\ WF_vars(Tick)
FairSpec == Spec /\ Fairness
-----------------------------------------------------------------------------
(* Properties *)

\* Every variable keeps its type, and there are nodes left to record only
\* while the watchdog records.
TypeOK ==
    /\ elapsed \in 0..Absolute
    /\ budget \in Budget
    /\ status \in [Node -> NodeStatus]
    /\ touched \in [Node -> 0..Absolute]
    /\ token \in Reason \cup {"none"}
    /\ rt \in [pc : {"idle", "beginning", "opening", "marking", "working",
                     "closing", "saving", "ending", "stopping", "returned",
                     "raised"},
               node : Node, ok : BOOLEAN]
    /\ wd \in [pc : {"off", "asleep", "due", "recording", "finished", "dead",
                     "stopped"},
               act : Reason \cup {"none", "extended"}, todo : SUBSET Node]
    /\ wd.todo # {} => wd.pc = "recording"
    /\ life \in 0..Absolute
    /\ faults \in 0..MaxFaults

\* However often an execution stalls, its ceiling moves by what was granted
\* and stays within the absolute ceiling (ExecutionBudget.grant_extension).
BudgetCapped ==
    /\ budget.hard = Hard + budget.consumed
    /\ budget.hard <= Absolute
    /\ budget.consumed <= MaxExt

\* The watchdog cancels for a stall only when no extension is left to grant,
\* and for the deadline only once the ceiling, extensions included, is past.
CancelledWithCause ==
    /\ "stall" \in {token, wd.act} => Grantable(budget) = 0
    /\ "hard_deadline" \in {token, wd.act} => HardExpired(budget, elapsed)

\* The budget is kept: it is capped, and nothing is cancelled before it is used up.
BudgetIsKept == BudgetCapped /\ CancelledWithCause

\* The watchdog finds a stall: it extends the budget or turns to cancelling.
StallFound == budget' # budget \/ (wd'.act = "stall" /\ wd.act # "stall")

\* While a node is in work, a stall is only found after a whole progress
\* deadline without a sign of life, whatever nodes finished before it.
StallIsReal ==
    [][StallFound /\ rt.pc = "working" => elapsed - life >= Progress]_vars

\* A worker that never returns does not keep an execution alive: it is
\* cancelled in the end, unless an append raised.
StuckIsCancelled == <>(token # "none" \/ Ended \/ faults > 0)

\* The watchdog's task does not outlive the execution for ever, even when
\* execute() raised and never stopped it.
WatchdogEnds == Ended ~> wd.pc \in {"off", "stopped", "finished", "dead"}

\* Neither the execution nor its watchdog hangs.
NothingHangs == StuckIsCancelled /\ WatchdogEnds
=============================================================================
