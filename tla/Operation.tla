------------------------------ MODULE Operation ------------------------------
(***************************************************************************)
(* One user query from Orchestrator.handle() to its answer:                *)
(* governance, the global backpressure counter, the three pipelines (the   *)
(* K4.2 front end, the K2.2 planner workflow, the legacy bridge), the      *)
(* recovery budget of the re-plan loop, the invocation of workers          *)
(* (ExecutionRuntime.invoke around AbstractCognitiveWorker.execute), the   *)
(* hooks after a workflow, and what is remembered of the query.            *)
(*                                                                         *)
(* Queries run as asyncio tasks.  An action is what a task does from one   *)
(* await to the next; a cancellation is delivered at an await.  What the   *)
(* planner, the compiler and a workflow decide is an outcome here: they    *)
(* are the modules Intent, Planner, WorkflowRuntime                         *)
(***************************************************************************)
EXTENDS Naturals, Integers, Sequences, FiniteSets, Functions

CONSTANTS
    Query,       \* the calls of handle()
    Text,        \* the query texts; interaction_id is a hash of the text
    Denied,      \* texts the ConversationGuardrails denylist matches
    Paths,       \* the pipelines the composition root may wire
    Confidence,  \* the confidences of plans that are told apart, in percent
    MaxPending,  \* MAX_PENDING_REQUESTS
    MaxRecovery, \* settings.toml [runtime] max_recovery_attempts
    MaxCalls,    \* bound: capability calls of one workflow, retries included
    MaxCancels   \* bound: cancellations in a behaviour

ASSUME TextAssumption    == Denied \subseteq Text
ASSUME ConfidenceAssumption == Confidence \subseteq Nat
ASSUME PathAssumption    == Paths \subseteq {"k42", "k22", "legacy"}
ASSUME PendingAssumption == MaxPending \in Nat \ {0}
ASSUME BudgetAssumption  == MaxRecovery \in Nat /\ MaxCalls \in Nat \ {0}
ASSUME CancelAssumption  == MaxCancels \in Nat

VARIABLES
    asks,     \* the text each call carries
    path,     \* which pipeline this orchestrator was built with
    anchors,  \* creative_content_anchor_enabled
    pc,       \* where each query awaits
    slots,    \* PENDING_COUNTER
    plan,     \* plan() calls made and recovery budget used
    frame,    \* what handle() and its workflow know of the query
    inv,      \* the worker invocation the query awaits
    calls,    \* history: capability calls of its workflow
    ending,   \* what the caller of handle() got
    log,      \* the orchestrator's lifecycle events of the query
    row,      \* UnifiedMemory's entry of each text: the call that wrote it
    turns,    \* calls whose turn is in ContextMemory
    taught,   \* calls recorded in the shadow dataset
    cancels   \* history: cancellations delivered

vars == <<asks, path, anchors, pc, slots, plan, frame, inv, calls, ending, log,
          row, turns, taught, cancels>>

stores  == <<row, turns, taught>>
wiring  == <<asks, path, anchors>>

Inside == {"understanding", "planning", "compiling", "surfacing", "running",
           "evaluating", "reflecting", "saving", "recording", "dispatching",
           "merging"}
Stage  == Inside \cup {"idle", "waiting", "done"}
Terminal == {"query_completed", "query_failed", "clarification_requested",
             "planner_impasse_terminal"}
Refusals == {"rejected", "overloaded", "impasse", "contradiction", "clarify",
             "notCompiled"}
Endings  == Refusals \cup {"none", "error", "workflowFailed", "unclassified",
                           "answered", "cancelled"}
Worker   == {"step", "SupervisorWorker", "EvaluatorWorker", "ReflectionWorker"}
NoCall   == [worker |-> "none", phase |-> "none", ok |-> FALSE]

\* The locals: confidence of the plan (percent), whether the content-anchor
\* observation misses one, why compile() refused, the WorkflowResult, the
\* worker events of the workflow and the calls that succeeded, and
\* the EvaluationRecord (goal completed, success rate as a fraction).
NoFrame  == [confidence |-> 0, missing |-> FALSE, refusal |-> "none",
             goal |-> "none", completed |-> 0, failed |-> 0, good |-> 0,
             record |-> <<>>]

Init ==
    /\ asks \in [Query -> Text]
    /\ path \in Paths
    /\ anchors \in BOOLEAN
    /\ pc      = [q \in Query |-> "idle"]
    /\ slots   = MaxPending
    /\ plan    = [q \in Query |-> [calls |-> 0, used |-> 0]]
    /\ frame   = [q \in Query |-> NoFrame]
    /\ inv     = [q \in Query |-> NoCall]
    /\ calls   = [q \in Query |-> 0]
    /\ ending  = [q \in Query |-> "none"]
    /\ log     = [q \in Query |-> <<>>]
    /\ row     = [t \in Text |-> {}]
    /\ turns   = {}
    /\ taught  = {}
    /\ cancels = 0

Emit(q, event) == log' = [log EXCEPT ![q] = Append(@, event)]
Go(q, stage)   == pc' = [pc EXCEPT ![q] = stage]

\* handle() returns, or raises, out of the BackpressureGuard: __aexit__ runs.
EndsWith(q, how) ==
    /\ Go(q, "done")
    /\ ending' = [ending EXCEPT ![q] = how]
    /\ slots' = slots + 1
    /\ frame' = [frame EXCEPT ![q] = NoFrame]
    /\ inv' = [inv EXCEPT ![q] = NoCall]

-----------------------------------------------------------------------------
(* Before the guard. *)

\* evaluate_action() comes before the guard: a refused query holds no slot.
Reject(q) ==
    /\ pc[q] = "idle" /\ asks[q] \in Denied
    /\ Emit(q, "rejected")
    /\ Go(q, "done")
    /\ ending' = [ending EXCEPT ![q] = "rejected"]
    /\ UNCHANGED <<wiring, slots, plan, frame, inv, calls, stores, cancels>>

Approve(q) ==
    /\ pc[q] = "idle" /\ asks[q] \notin Denied
    /\ Go(q, "waiting")
    /\ UNCHANGED <<wiring, slots, plan, frame, inv, calls, ending, log, stores,
                   cancels>>

FirstStage == CASE path = "k42" -> "understanding"
                [] path = "k22" -> "running"
                [] path = "legacy" -> "dispatching"

Admit(q) ==
    /\ pc[q] = "waiting" /\ slots > 0
    /\ slots' = slots - 1
    /\ Emit(q, "query_started")
    /\ Go(q, FirstStage)
    /\ UNCHANGED <<wiring, plan, frame, inv, calls, ending, stores, cancels>>

\* wait_for(acquire, 1.0) times out: __aenter__ raises, __aexit__ never runs.
Overload(q) ==
    /\ pc[q] = "waiting" /\ slots = 0
    /\ Go(q, "done")
    /\ ending' = [ending EXCEPT ![q] = "overloaded"]
    /\ UNCHANGED <<wiring, slots, plan, frame, inv, calls, log, stores, cancels>>

-----------------------------------------------------------------------------
(* The K4.2 front end. *)

\* load_known_categories, interpret_request, the anchor observation and the
\* user model's hints (whose failure is swallowed).
Understand(q) ==
    /\ pc[q] = "understanding"
    /\ Go(q, "planning")
    /\ \E m \in IF anchors THEN BOOLEAN ELSE {FALSE} :
          frame' = [frame EXCEPT ![q].missing = m]
    /\ UNCHANGED <<wiring, slots, plan, inv, calls, ending, log, stores, cancels>>

PlanReady(q) ==
    /\ pc[q] = "planning"
    /\ plan' = [plan EXCEPT ![q].calls = @ + 1]
    /\ \E c \in Confidence : frame' = [frame EXCEPT ![q].confidence = c]
    /\ Go(q, "compiling")
    /\ UNCHANGED <<wiring, slots, inv, calls, ending, log, stores, cancels>>

\* OperationRecoveryBudget.exhausted and consume().
PermittedOnceMore(q) == plan[q].used <= MaxRecovery  \* mutant: > for >=
Permitted(q) == plan[q].used < MaxRecovery

\* consume() inside the re-plan loop.
PlanImpasse(q) ==
    /\ pc[q] = "planning"
    /\ \/ /\ Permitted(q)
          /\ plan' = [plan EXCEPT ![q].calls = @ + 1, ![q].used = @ + 1]
          /\ UNCHANGED <<pc, slots, frame, inv, ending, log>>
       \/ /\ ~Permitted(q)
          /\ plan' = [plan EXCEPT ![q].calls = @ + 1]
          /\ Emit(q, "planner_impasse_terminal")
          /\ EndsWith(q, "impasse")
    /\ UNCHANGED <<wiring, calls, stores, cancels>>

\* REJECTED_PRECHECK is deterministic: no re-plan, no budget.
PlanContradiction(q) ==
    /\ pc[q] = "planning"
    /\ plan' = [plan EXCEPT ![q].calls = @ + 1]
    /\ Emit(q, "query_failed")
    /\ EndsWith(q, "contradiction")
    /\ UNCHANGED <<wiring, calls, stores, cancels>>

\* What compile() returns: a missing anchor and low confidence escalate (a lone
\* general-purpose candidate is exempt from the second); the rest is a precheck
\* or another governor.
Compiled(q) ==
    /\ pc[q] = "compiling" /\ ~ frame[q].missing
    /\ Go(q, "running")
    /\ UNCHANGED <<wiring, slots, plan, frame, inv, calls, ending, log, stores,
                   cancels>>

Invoke(q, worker) ==
    inv' = [inv EXCEPT ![q] = [worker |-> worker, phase |-> "entered", ok |-> FALSE]]

NotCompiled(q) ==
    /\ pc[q] = "compiling"
    /\ \E why \in {"anchor", "confidence", "precheck", "governor"} :
          /\ why = "anchor" => frame[q].missing
          /\ why = "confidence" => frame[q].confidence < 50 /\ ~ frame[q].missing
          /\ frame' = [frame EXCEPT ![q].refusal = why]
    /\ Go(q, "surfacing")
    /\ Invoke(q, "SupervisorWorker")
    /\ UNCHANGED <<wiring, slots, plan, calls, ending, log, stores, cancels>>

\* mutant: no return after the clarification
SurfacedTwice(q) ==
    /\ pc[q] = "surfacing" /\ inv[q].phase = "closed"
    /\ log' = [log EXCEPT ![q] = @ \o (IF frame[q].refusal = "anchor"
                                       THEN <<"clarification_requested">> ELSE <<>>)
                                    \o <<"query_failed">>]
    /\ EndsWith(q, "notCompiled")
    /\ UNCHANGED <<wiring, plan, calls, stores, cancels>>

\* The supervisor only surfaces the refusal; whatever it returned, the query
\* ends: with a clarification if a missing anchor caused the escalation.
Surfaced(q) ==
    /\ pc[q] = "surfacing" /\ inv[q].phase = "closed"
    /\ IF frame[q].refusal = "anchor"
       THEN Emit(q, "clarification_requested") /\ EndsWith(q, "clarify")
       ELSE Emit(q, "query_failed") /\ EndsWith(q, "notCompiled")
    /\ UNCHANGED <<wiring, plan, calls, stores, cancels>>

-----------------------------------------------------------------------------
(* ExecutionRuntime.invoke() and the worker template it runs. *)

Close(q, ok) ==
    inv' = [inv EXCEPT ![q].phase = "closed", ![q].ok = ok]

\* Unknown type, a constructor that raises, or a verdict of the kernel that
\* is not APPROVE: a failed result, and none of the worker's run events.
NotRun(q) ==
    /\ inv[q].phase = "entered"
    /\ Close(q, FALSE)
    /\ UNCHANGED <<wiring, pc, slots, plan, frame, calls, ending, log, stores,
                   cancels>>

Started(q) ==
    /\ inv[q].phase = "entered"
    /\ inv' = [inv EXCEPT ![q].phase = "running"]
    /\ UNCHANGED <<wiring, pc, slots, plan, frame, calls, ending, log, stores,
                   cancels>>

\* PlannerWorker, the node of the K2.2 workflow, writes memory and context
\* before it returns; a success without labels ("unclassified") writes neither.
Persists(q) ==
    IF path = "k22" /\ inv[q].worker = "step"
    THEN \/ row' = [row EXCEPT ![asks[q]] = {q}] /\ turns' = turns \cup {q}
         \/ UNCHANGED <<row, turns>>
    ELSE UNCHANGED <<row, turns>>

\* The rate is of the workflow's worker.completed and worker.failed events;
\* without any it is 1 or 0.
Rate(f) ==
    LET events == f.completed + f.failed IN
    IF events = 0 THEN <<IF f.goal = "success" THEN 1 ELSE 0, 1>>
    ELSE <<f.completed, events>>

\* EvaluatorWorker: goal_completed is the success of workflow.completed.
Evaluates(f) == [f EXCEPT !.record = <<f.goal = "success", Rate(f)>>]

\* worker.completed is emitted for every result _run() returns, also for one
\* that says success=False.
Counts(f, ok) == [f EXCEPT !.completed = @ + 1, !.good = IF ok THEN @ + 1 ELSE @]

Returns(q, ok) ==
    /\ inv[q].phase = "running"
    /\ Close(q, ok)
    /\ frame' = [frame EXCEPT ![q] =
                   IF inv[q].worker = "step" THEN Counts(@, ok)
                   ELSE IF inv[q].worker = "EvaluatorWorker" /\ ok THEN Evaluates(@)
                   ELSE @]
    /\ IF ok THEN Persists(q) ELSE UNCHANGED <<row, turns>>
    /\ UNCHANGED <<wiring, pc, slots, plan, calls, ending, log, taught, cancels>>

Raises(q) ==
    /\ inv[q].phase = "running"
    /\ Close(q, FALSE)
    /\ frame' = IF inv[q].worker = "step" THEN [frame EXCEPT ![q].failed = @ + 1]
                ELSE frame
    /\ UNCHANGED <<wiring, pc, slots, plan, calls, ending, log, stores, cancels>>

\* The node's timeout cancels the worker, which turns the CancelledError into
\* a failed result; what PlannerWorker already wrote stays.
NodeTimeout(q) ==
    /\ inv[q].phase = "running" /\ inv[q].worker = "step"
    /\ Close(q, FALSE)
    /\ Persists(q)
    /\ UNCHANGED <<wiring, pc, slots, plan, frame, calls, ending, log, taught,
                   cancels>>

-----------------------------------------------------------------------------
(* The workflow, and the hooks after it. *)

CallStep(q) ==
    /\ pc[q] = "running" /\ inv[q].phase = "none"
    /\ calls[q] < MaxCalls
    /\ calls' = [calls EXCEPT ![q] = @ + 1]
    /\ Invoke(q, "step")
    /\ UNCHANGED <<wiring, pc, slots, plan, frame, ending, log, stores, cancels>>

\* After a call the runtime walks on: a retry, or a successor.
StepDone(q) ==
    /\ pc[q] = "running" /\ inv[q].phase = "closed"
    /\ calls[q] < MaxCalls
    /\ inv' = [inv EXCEPT ![q] = NoCall]
    /\ UNCHANGED <<wiring, pc, slots, plan, frame, calls, ending, log, stores,
                   cancels>>

\* The answer is the last call's result; a hard constraint it misses, or the
\* token, fails a workflow whose last call was good.
WorkflowResults(q) == IF inv[q].ok THEN {"success", "violated", "failed"}
                      ELSE {"failed"}

\* The K4.2 branch goes on whatever the workflow's success.
K42WorkflowDone(q) ==
    /\ path = "k42" /\ pc[q] = "running" /\ inv[q].phase = "closed"
    /\ \E r \in WorkflowResults(q) :
          /\ frame' = [frame EXCEPT ![q].goal = r]
          /\ IF r = "violated" THEN Emit(q, "response_incomplete") ELSE UNCHANGED log
    /\ Go(q, "evaluating")
    /\ Invoke(q, "EvaluatorWorker")
    /\ UNCHANGED <<wiring, slots, plan, calls, ending, stores, cancels>>

\* Only a record is reflected on.
Evaluated(q) ==
    /\ pc[q] = "evaluating" /\ inv[q].phase = "closed"
    /\ IF inv[q].ok
       THEN Go(q, "reflecting") /\ Invoke(q, "ReflectionWorker")
       ELSE Go(q, "saving") /\ inv' = [inv EXCEPT ![q] = NoCall]
    /\ UNCHANGED <<wiring, slots, plan, frame, calls, ending, log, stores, cancels>>

\* mutant: the query goes on only after a reflection that succeeded
ReflectedWell(q) ==
    /\ pc[q] = "reflecting" /\ inv[q].phase = "closed" /\ inv[q].ok
    /\ Go(q, "saving")
    /\ inv' = [inv EXCEPT ![q] = NoCall]
    /\ UNCHANGED <<wiring, slots, plan, frame, calls, ending, log, stores, cancels>>

Reflected(q) ==
    /\ pc[q] = "reflecting" /\ inv[q].phase = "closed"
    /\ Go(q, "saving")
    /\ inv' = [inv EXCEPT ![q] = NoCall]
    /\ UNCHANGED <<wiring, slots, plan, frame, calls, ending, log, stores, cancels>>

\* record_interaction() keeps what has confidence 0.7 or more; only the K4.2
\* branch passes the plan's, the others 1.0.
Teaches(q) == path = "k42" => frame[q].confidence >= 70

\* context.save() and memory.write() may each fail without failing the query.
Stores(q) ==
    /\ turns' \in {turns, turns \cup {q}}
    /\ row' \in {row, [row EXCEPT ![asks[q]] = {q}]}

\* Then the shadow learner; all of it before query_completed is awaited.
Save(q) ==
    /\ pc[q] = "saving"
    /\ Stores(q)
    /\ taught' = IF Teaches(q) THEN taught \cup {q} ELSE taught
    /\ Go(q, "recording")
    /\ UNCHANGED <<wiring, slots, plan, frame, inv, calls, ending, log, cancels>>

Complete(q) ==
    /\ pc[q] = "recording"
    /\ Emit(q, "query_completed")
    /\ EndsWith(q, "answered")
    /\ UNCHANGED <<wiring, plan, calls, stores, cancels>>

-----------------------------------------------------------------------------
(* The K2.2 branch and the legacy bridge. *)

K22WorkflowDone(q) ==
    /\ path = "k22" /\ pc[q] = "running" /\ inv[q].phase = "closed"
    /\ \E r \in WorkflowResults(q) :
          IF r = "success"
          THEN /\ taught' = taught \cup {q}
               /\ Go(q, "recording")
               /\ inv' = [inv EXCEPT ![q] = NoCall]
               /\ UNCHANGED <<slots, frame, ending, log>>
          ELSE /\ Emit(q, "query_failed")
               /\ EndsWith(q, "workflowFailed")
               /\ UNCHANGED taught
    /\ UNCHANGED <<wiring, plan, calls, row, turns, cancels>>

\* parse, assemble_context, classify.
Classify(q) ==
    /\ pc[q] = "dispatching"
    /\ \/ Go(q, "merging") /\ UNCHANGED <<slots, frame, inv, ending, log>>
       \/ Emit(q, "query_completed") /\ EndsWith(q, "unclassified")
    /\ UNCHANGED <<wiring, plan, calls, stores, cancels>>

\* gather(return_exceptions=True): a failing module is an error text.
Merge(q) ==
    /\ pc[q] = "merging"
    /\ Go(q, "saving")
    /\ UNCHANGED <<wiring, slots, plan, frame, inv, calls, ending, log, stores,
                   cancels>>

\* mutant: the emission of query_completed is not contained
FailsLate(q) ==
    /\ pc[q] \in {"understanding", "planning", "compiling", "dispatching",
                  "merging", "recording"}
    /\ Emit(q, "query_failed")
    /\ EndsWith(q, "error")
    /\ UNCHANGED <<wiring, plan, calls, stores, cancels>>

\* The branch's `except Exception`: what is awaited outside a worker and is
\* not itself contained.
Fail(q) ==
    /\ pc[q] \in {"understanding", "planning", "compiling", "dispatching", "merging"}
    /\ Emit(q, "query_failed")
    /\ EndsWith(q, "error")
    /\ UNCHANGED <<wiring, plan, calls, stores, cancels>>

-----------------------------------------------------------------------------
(* A CancelledError is delivered at the query's await. *)

\* Inside _run() the worker template catches it and returns a failed result;
\* anywhere else it leaves handle() through the guard.
CancelWorker(q) ==
    /\ cancels < MaxCancels /\ inv[q].phase = "running"
    /\ cancels' = cancels + 1
    /\ Close(q, FALSE)
    /\ Persists(q)
    /\ UNCHANGED <<wiring, pc, slots, plan, frame, calls, ending, log, taught>>

CancelQuery(q) ==
    /\ cancels < MaxCancels /\ inv[q].phase # "running"
    /\ cancels' = cancels + 1
    /\ IF pc[q] = "saving" THEN Stores(q) ELSE UNCHANGED <<row, turns>>
    /\ \/ pc[q] \in Inside /\ EndsWith(q, "cancelled")
       \/ /\ pc[q] = "waiting"
          /\ Go(q, "done")
          /\ ending' = [ending EXCEPT ![q] = "cancelled"]
          /\ UNCHANGED <<slots, frame, inv>>
    /\ UNCHANGED <<wiring, plan, calls, log, taught>>

-----------------------------------------------------------------------------
Progress(q) ==
    \/ Admit(q) \/ Overload(q)
    \/ Understand(q) \/ PlanReady(q) \/ PlanImpasse(q) \/ PlanContradiction(q)
    \/ Compiled(q) \/ NotCompiled(q) \/ Surfaced(q)
    \/ NotRun(q) \/ Started(q) \/ Raises(q) \/ NodeTimeout(q)
    \/ \E ok \in BOOLEAN : Returns(q, ok)
    \/ CallStep(q) \/ StepDone(q)
    \/ K42WorkflowDone(q) \/ Evaluated(q) \/ Reflected(q)
    \/ Save(q) \/ Complete(q)
    \/ K22WorkflowDone(q) \/ Classify(q) \/ Merge(q) \/ Fail(q)

Next == \E q \in Query :
            \/ Reject(q) \/ Approve(q)
            \/ Progress(q)
            \/ CancelWorker(q) \/ CancelQuery(q)

\* Every await of a query is bounded by a timeout of the call it awaits; that
\* a query is sent, and that it is cancelled, is the client's.
Fairness == \A q \in Query : WF_vars(Progress(q))

Spec == Init /\ [][Next]_vars /\ Fairness

-----------------------------------------------------------------------------
(* Properties. *)

\* Types of all variables.
TypeOK ==
    /\ asks \in [Query -> Text] /\ path \in Paths /\ anchors \in BOOLEAN
    /\ pc \in [Query -> Stage]
    /\ slots \in Int
    /\ plan \in [Query -> [calls : Nat, used : 0 .. MaxRecovery]]
    /\ frame \in [Query ->
         [confidence : Nat, missing : BOOLEAN,
          refusal : {"none", "anchor", "confidence", "precheck", "governor"},
          goal : {"none", "success", "violated", "failed"},
          completed : Nat, failed : Nat, good : Nat,
          record : {<<>>} \cup (BOOLEAN \X (Nat \X Nat))]]
    /\ inv \in [Query -> [worker : Worker \cup {"none"}, ok : BOOLEAN,
                         phase : {"none", "entered", "running", "closed"}]]
    /\ calls \in [Query -> 0 .. MaxCalls]
    /\ ending \in [Query -> Endings]
    /\ row \in [Text -> SUBSET Query]
    /\ turns \subseteq Query /\ taught \subseteq Query
    /\ cancels \in 0 .. MaxCancels

\* Every permit of the backpressure counter is free or held by a query inside
\* the guard: no way out of handle() keeps one, none gives one back twice, and
\* a query turned away returns none.
SlotsAccounted == slots + Cardinality({q \in Query : pc[q] \in Inside}) = MaxPending

\* The recovery budget bounds plan() for the whole operation: each impasse
\* takes one attempt, the query gives up only when none is left, and a
\* contradiction takes none.
ReplanWithinBudget ==
    \A q \in Query :
        /\ plan[q].calls <= 1 + MaxRecovery
        /\ ending[q] = "impasse" => plan[q].used = MaxRecovery
        /\ ending[q] \notin {"impasse", "cancelled", "error"} =>
              plan[q].calls \in {plan[q].used, plan[q].used + 1}

EventsOf(q) == {i \in DOMAIN log[q] : log[q][i] \in Terminal}

\* A reader of the event stream can tell how a query ended: at most one
\* terminal event, nothing after it, and exactly one once an admitted query is over
\* unless it was cancelled.
OneEnding ==
    \A q \in Query :
        /\ EventsOf(q) \subseteq {Len(log[q])}
        /\ ending[q] \notin {"none", "rejected", "overloaded", "cancelled"} =>
              EventsOf(q) # {}

\* A query that was refused, whether by governance, backpressure, the planner
\* or the compiler, ran no capability and left nothing in memory, in
\* the context or in the training data.
RefusedLeavesNoTrace ==
    \A q \in Query :
        ending[q] \in Refusals =>
            /\ calls[q] = 0
            /\ q \notin turns \cup taught \cup row[asks[q]]

\* Where the orchestrator itself writes the interaction, what memory holds was
\* the answer of a query that did not fail (K2.2's worker writes on its own and
\* may be cut off after that).
RememberedWasAnswered ==
    path # "k22" =>
        \A q \in Query :
            q \in row[asks[q]] \cup turns \cup taught =>
                \/ ending[q] \in {"answered", "cancelled"}
                \/ pc[q] = "recording"

\* The operation's two budgets hold, and so do the stores' promises.
BudgetsHold == SlotsAccounted /\ ReplanWithinBudget
StoresMatchEnding == RememberedWasAnswered /\ RefusedLeavesNoTrace

\* Every query let through by governance gets an answer or an exception,
\* whatever worker fails, whatever planner gives up.
EveryQueryEnds == \A q \in Query : pc[q] = "waiting" ~> pc[q] = "done"
=============================================================================
