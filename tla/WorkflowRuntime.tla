--------------------------- MODULE WorkflowRuntime ---------------------------
(***************************************************************************)
(* core/workflow/runtime.py: one instance of a workflow, from execute()    *)
(* through crashes and resume()s to its WorkflowResult.                    *)
(*                                                                         *)
(* _execute_from and _continue_to_successors recurse over the definition;  *)
(* the Python stack only ever holds successors still to be walked, and     *)
(* every return value replaces the one before it, so the recursion is the  *)
(* sequence `agenda` and the single value `last`.  The recursion is        *)
(* sequential: what interleaves with it is cancellation (a caller or the   *)
(* watchdog), the outcome of each attempt, a checkpoint write that fails,  *)
(* and the death of the process at any await.                              *)
(*                                                                         *)
(* Results are reduced to success or failure.  The execution graph, the    *)
(* watchdog and the events are reporting here; the watchdog acts on the    *)
(* run only through the token, which is the action Cancel.                 *)
(***************************************************************************)
EXTENDS Naturals, Sequences, Functions

CONSTANTS
    NodeId,      \* node ids
    NoNode,      \* the empty id: no entry node, no error branch
    Workflows,   \* the definitions a caller may pass
    NoCheckpoint,
    MaxResumes   \* bound: how often a caller resumes the instance

ASSUME NodeAssumption == NoNode \notin NodeId

Status == {"absent", "pending", "running", "completed", "failed"}
Final  == {"completed", "failed"}

\* WorkflowDefinition.  succ[n] is get_successors(n), in edge order.
WorkflowType ==
    [id          : STRING,
     nodes       : SUBSET NodeId,
     entry       : NodeId \cup {NoNode},
     succ        : [NodeId -> Seq(NodeId)],
     branch      : [NodeId -> NodeId \cup {NoNode}],
     retries     : [NodeId -> Nat],
     constrained : BOOLEAN]

ASSUME WorkflowAssumption == Workflows \subseteq WorkflowType
ASSUME BoundAssumption == MaxResumes \in Nat
ASSUME CheckpointAssumption ==
    NoCheckpoint \notin [id : STRING, status : [NodeId -> Status]]

VARIABLES
    wf,        \* the definition this run walks
    pc,        \* where the run awaits
    cur,       \* the node being executed
    attempt,   \* its attempt number
    status,    \* node_states
    agenda,    \* nodes the recursion has still to visit, next first
    visited,   \* nodes this traversal has passed through
    last,      \* last_result
    cancelled, \* the cancellation token
    outcome,   \* the WorkflowResult returned
    checkpoint, \* the newest durable checkpoint of the instance
    resumes,   \* history: resume() calls made
    effects    \* history: how often the worker of a node succeeded

volatile == <<wf, pc, cur, attempt, status, agenda, visited, last, cancelled,
              outcome>>
history == <<resumes, effects>>
vars == <<volatile, checkpoint, history>>

Recorded(n) == IF checkpoint = NoCheckpoint THEN "absent"
               ELSE checkpoint.status[n]

Running == pc \in {"walk", "attempt", "invoke", "backoff", "save"}

-----------------------------------------------------------------------------
(* WorkflowDefinition.validate: cycles are not among the errors *)

Valid(w) ==
    /\ w.entry \in w.nodes
    /\ \A n \in NodeId :
        /\ Range(w.succ[n]) \subseteq w.nodes
        /\ w.succ[n] # <<>> => n \in w.nodes
    /\ \A n \in w.nodes : w.branch[n] \in w.nodes \cup {NoNode}

\* Set up _run for definition w over the node states st.
Begin(w, st) ==
    /\ wf' = w
    /\ status' = st
    /\ visited' = {}
    /\ last' = "none"
    /\ cancelled' = FALSE
    /\ cur' = NoNode
    /\ attempt' = 0
    /\ IF Valid(w)
       THEN pc' = "walk" /\ agenda' = <<w.entry>> /\ outcome' = "none"
       ELSE pc' = "done" /\ agenda' = <<>> /\ outcome' = "failure"

Fresh(w) == [n \in NodeId |-> IF n \in w.nodes THEN "pending" ELSE "absent"]

Init ==
    /\ \E w \in Workflows : wf = w
    /\ pc = "idle"
    /\ cur = NoNode
    /\ attempt = 0
    /\ status = [n \in NodeId |-> "absent"]
    /\ agenda = <<>>
    /\ visited = {}
    /\ last = "none"
    /\ cancelled = FALSE
    /\ outcome = "none"
    /\ checkpoint = NoCheckpoint
    /\ resumes = 0
    /\ effects = [n \in NodeId |-> 0]

Execute ==
    /\ pc = "idle"
    /\ Begin(wf, Fresh(wf))
    /\ UNCHANGED <<checkpoint, history>>

\* A node recorded RUNNING starts over; one the checkpoint does not know
\* (the definition grew since) starts fresh.
RestoredKnownOnly(w) ==  \* mutant: only the nodes of w are taken over
    [n \in NodeId |->
        IF n \notin w.nodes THEN "absent"
        ELSE IF Recorded(n) \in Final THEN Recorded(n) ELSE "pending"]
Restored(w) ==
    [n \in NodeId |->
        IF \/ Recorded(n) = "running"
           \/ Recorded(n) = "absent" /\ n \in w.nodes
        THEN "pending" ELSE Recorded(n)]

\* resume(): refused without a checkpoint or for another workflow's.
Resume(w) ==
    /\ pc \in {"crashed", "done"}
    /\ resumes < MaxResumes
    /\ resumes' = resumes + 1
    /\ IF checkpoint = NoCheckpoint \/ checkpoint.id # w.id
       THEN /\ pc' = "done"
            /\ outcome' = "failure"
            /\ UNCHANGED <<wf, cur, attempt, status, agenda, visited, last,
                           cancelled>>
       ELSE Begin(w, Restored(w))
    /\ UNCHANGED <<checkpoint, effects>>
-----------------------------------------------------------------------------
(* _execute_from: the next node of the recursion *)

ResultOf(n) == IF status[n] = "completed" THEN "ok" ELSE "failed"

\* Walk on from a finished node n, over `rest`.
Followed(n, rest) ==
    IF status[n] = "completed" THEN wf.succ[n] \o rest
    ELSE IF wf.branch[n] # NoNode THEN <<wf.branch[n]>> \o rest
    ELSE rest

\* A cancelled token, or an id the definition does not have.
VisitRefusedSilently ==  \* mutant: a refused visit leaves last_result alone
    /\ pc = "walk" /\ agenda # <<>>
    /\ cancelled \/ Head(agenda) \notin wf.nodes
    /\ agenda' = Tail(agenda)
    /\ UNCHANGED <<wf, pc, cur, attempt, status, visited, last, cancelled,
                   outcome, checkpoint, history>>
VisitRefused ==
    /\ pc = "walk" /\ agenda # <<>>
    /\ cancelled \/ Head(agenda) \notin wf.nodes
    /\ last' = "failed"
    /\ agenda' = Tail(agenda)
    /\ UNCHANGED <<wf, pc, cur, attempt, status, visited, cancelled, outcome,
                   checkpoint, history>>

\* A node already finished: on a second visit only its result is returned,
\* on the first (a node restored from the checkpoint) the walk goes on.
VisitFinishedAgain ==  \* mutant: no `visited`, every visit walks on
    LET n == Head(agenda)
    IN  /\ pc = "walk" /\ agenda # <<>>
        /\ ~cancelled /\ n \in wf.nodes
        /\ status[n] # "pending"
        /\ visited' = visited \cup {n}
        /\ last' = ResultOf(n)
        /\ agenda' = Followed(n, Tail(agenda))
        /\ UNCHANGED <<wf, pc, cur, attempt, status, cancelled, outcome,
                       checkpoint, history>>
VisitFinished ==
    LET n == Head(agenda)
    IN  /\ pc = "walk" /\ agenda # <<>>
        /\ ~cancelled /\ n \in wf.nodes
        /\ status[n] # "pending"
        /\ visited' = visited \cup {n}
        /\ last' = ResultOf(n)
        /\ agenda' = IF n \in visited THEN Tail(agenda)
                     ELSE Followed(n, Tail(agenda))
        /\ UNCHANGED <<wf, pc, cur, attempt, status, cancelled, outcome,
                       checkpoint, history>>

VisitPendingAgain ==  \* mutant: a completed node met again is run again
    LET n == Head(agenda)
    IN  /\ pc = "walk" /\ agenda # <<>>
        /\ ~cancelled /\ n \in wf.nodes
        /\ status[n] = "pending" \/ n \in visited
        /\ visited' = visited \cup {n}
        /\ status' = [status EXCEPT ![n] = "running"]
        /\ cur' = n
        /\ attempt' = 0
        /\ agenda' = Tail(agenda)
        /\ pc' = "attempt"
        /\ UNCHANGED <<wf, last, cancelled, outcome, checkpoint, history>>
VisitPending ==
    LET n == Head(agenda)
    IN  /\ pc = "walk" /\ agenda # <<>>
        /\ ~cancelled /\ n \in wf.nodes
        /\ status[n] = "pending"
        /\ visited' = visited \cup {n}
        /\ status' = [status EXCEPT ![n] = "running"]
        /\ cur' = n
        /\ attempt' = 0
        /\ agenda' = Tail(agenda)
        /\ pc' = "attempt"
        /\ UNCHANGED <<wf, last, cancelled, outcome, checkpoint, history>>
-----------------------------------------------------------------------------
(* _execute_node_with_retry, and the status the caller then assigns *)

NodeEnds(st) ==
    /\ status' = [status EXCEPT ![cur] = st]
    /\ last' = IF st = "completed" THEN "ok" ELSE "failed"
    /\ pc' = "save"

\* The top of the attempt loop: a cancelled token ends the node FAILED.
Attempt ==
    /\ pc = "attempt"
    /\ attempt' = attempt + 1
    /\ IF cancelled
       THEN NodeEnds("failed")
       ELSE pc' = "invoke" /\ UNCHANGED <<status, last>>
    /\ UNCHANGED <<wf, cur, agenda, visited, cancelled, outcome, checkpoint,
                   history>>

WorkerSucceeds ==
    /\ pc = "invoke"
    /\ NodeEnds("completed")
    /\ effects' = [effects EXCEPT ![cur] = @ + 1]
    /\ UNCHANGED <<wf, cur, attempt, agenda, visited, cancelled, outcome,
                   checkpoint, resumes>>

\* A retryable error backs off while attempts are left; any other ends the
\* node.  Which errors are retryable is the policy's business.
WorkerFails ==
    /\ pc = "invoke"
    /\ \/ /\ attempt <= wf.retries[cur]
          /\ pc' = "backoff"
          /\ UNCHANGED <<status, last>>
       \/ NodeEnds("failed")
    /\ UNCHANGED <<wf, cur, attempt, agenda, visited, cancelled, outcome,
                   checkpoint, history>>

BackoffElapses ==
    /\ pc = "backoff"
    /\ pc' = "attempt"
    /\ UNCHANGED <<wf, cur, attempt, status, agenda, visited, last, cancelled,
                   outcome, checkpoint, history>>

\* The checkpoint at the node boundary, then the walk goes on; a failed
\* write is logged and otherwise ignored.
Snapshot == [id |-> wf.id, status |-> status]

Save ==
    /\ pc = "save"
    /\ checkpoint' \in {Snapshot, checkpoint}
    /\ agenda' = Followed(cur, agenda)
    /\ pc' = "walk"
    /\ cur' = NoNode
    /\ attempt' = 0
    /\ UNCHANGED <<wf, status, visited, last, cancelled, outcome, history>>
-----------------------------------------------------------------------------
(* _run, step 4: fail closed, then the hard constraints on the output *)

Finish ==
    /\ pc = "walk"
    /\ agenda = <<>>
    /\ pc' = "done"
    /\ \/ last = "ok" /\ outcome' = "success"
       \/ (last = "ok" => wf.constrained) /\ outcome' = "failure"
    /\ UNCHANGED <<wf, cur, attempt, status, agenda, visited, last, cancelled,
                   checkpoint, history>>

\* A caller or the watchdog cancels the token; the walk sees it at its next
\* check.
Cancel ==
    /\ Running
    /\ ~cancelled
    /\ cancelled' = TRUE
    /\ UNCHANGED <<wf, pc, cur, attempt, status, agenda, visited, last,
                   outcome, checkpoint, history>>

\* The process dies: what was in memory is gone.  Dying while the checkpoint
\* is written is Save (or not) and then this.
Crash ==
    /\ Running
    /\ pc' = "crashed"
    /\ cur' = NoNode
    /\ attempt' = 0
    /\ status' = [n \in NodeId |-> "absent"]
    /\ agenda' = <<>>
    /\ visited' = {}
    /\ last' = "none"
    /\ cancelled' = FALSE
    /\ UNCHANGED <<wf, outcome, checkpoint, history>>

Step == VisitRefused \/ VisitFinished \/ VisitPending \/ Attempt
            \/ WorkerSucceeds \/ WorkerFails \/ BackoffElapses \/ Save \/ Finish

Next == Execute \/ (\E w \in Workflows : Resume(w)) \/ Step \/ Cancel \/ Crash

Spec == Init /\ [][Next]_vars

(***************************************************************************)
(* The run is one coroutine: it goes on whenever it can.  That an invoked  *)
(* worker returns is an assumption (monitored generations end at their     *)
(* budget, atomic ones at a wait_for ceiling; other workers compute).      *)
(***************************************************************************)
FairSpec == Spec /\ WF_vars(Step)
-----------------------------------------------------------------------------
(* Properties *)

\* Every variable keeps its type, and a node is never attempted more often
\* than its retry policy allows (the loop of _execute_node_with_retry).
TypeOK ==
    /\ wf \in Workflows
    /\ pc \in {"idle", "walk", "attempt", "invoke", "backoff", "save", "done",
               "crashed"}
    /\ cur \in NodeId \cup {NoNode}
    /\ attempt \in Nat
    /\ cur # NoNode => attempt <= wf.retries[cur] + 1
    /\ status \in [NodeId -> Status]
    /\ agenda \in Seq(NodeId)
    /\ visited \subseteq NodeId
    /\ last \in {"none", "ok", "failed"}
    /\ cancelled \in BOOLEAN
    /\ outcome \in {"none", "success", "failure"}
    /\ \/ checkpoint = NoCheckpoint
       \/ checkpoint \in [id : STRING, status : [NodeId -> Status]]
    /\ resumes \in Nat
    /\ effects \in [NodeId -> Nat]

\* However the cycles and joins of the definition lead back to a node, one
\* run (an execute() or one resume()) lets its worker succeed at most once.
RunsOncePerRun == \A n \in NodeId : effects[n] <= resumes + 1

\* Where the outcome of node m leads, read off the definition.
Leads(m) == IF status[m] = "completed" THEN Range(wf.succ[m])
            ELSE {wf.branch[m]} \ {NoNode}

\* A run that reports success cut nothing off: it went through the entry node
\* and, from every node it went through, on to all the successors (or to the
\* error branch of a failed one), and left none unfinished.  Cancellation may
\* strike anywhere and still not produce a partial success.
SuccessIsClosed ==
    outcome = "success" =>
        /\ wf.entry \in visited
        /\ \A n \in visited : /\ status[n] \in Final
                              /\ Leads(n) \subseteq visited

\* What the checkpoint says of a finished node is never taken back: not by a
\* later write, a crash, or a resume with a definition that changed.
RecordedIsFinal ==
    [][\A n \in NodeId : Recorded(n) \in Final => Recorded(n)' = Recorded(n)
      ]_vars

\* A node the checkpoint records as finished is never executed again: the
\* claim of resume(), over any sequence of crashes and resumes.
RecordedNotRerun ==
    [][\A n \in NodeId : Recorded(n) \in Final => status'[n] # "running"]_vars

\* The record is neither taken back nor run again.
RecordHolds == RecordedIsFinal /\ RecordedNotRerun

\* A node starts only because the workflow led to it: it is the entry, or
\* follows a completed node, or is the error branch of a failed one.
StartsAreEarned ==
    [][\A n \in NodeId :
        status'[n] = "running" /\ status[n] # "running" =>
            \/ n = wf.entry
            \/ \E m \in wf.nodes : status[m] \in Final /\ n \in Leads(m)]_vars

\* Every run ends unless the process dies first, on cyclic definitions too
\* (validate() accepts them).
EveryRunEnds == Running ~> pc \in {"done", "crashed"}
=============================================================================
