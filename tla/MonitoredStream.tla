---------------------------- MODULE MonitoredStream ----------------------------
(***************************************************************************)
(* ModelRouter._call_monitored_streaming() (core/model_router.py) with     *)
(* core/runtime/execution_watchdog.py and progress_monitor.py: one long    *)
(* generation, drained by a consumer task while a watchdog task polls its  *)
(* progress, and the caller that races the two.                            *)
(*                                                                         *)
(* Time is counted in ticks of _POLL_INTERVAL_CAP_S, the longest the       *)
(* watchdog sleeps; a sleep cut short by a deadline ends with the tick the *)
(* deadline falls in.  The event loop is taken to run what is ready within *)
(* a tick.  A piece of the stream is text, blank or the error token.       *)
(***************************************************************************)
EXTENDS WatchdogDecision

CONSTANT MaxTime  \* bound: the time followed

VARIABLES
    clock,
    budget,    \* the ExecutionBudget
    last,      \* ProgressMonitor._last_progress_at, or Never
    token,     \* why the CancellationToken is cancelled, or "none"
    consumer,  \* the consumer task
    watchdog,  \* the watchdog task
    stopped,   \* ExecutionWatchdog._stopped
    caller,    \* the caller, at one of its awaits or past them
    failed,    \* provider_failure
    wrote,     \* chunks hold more than blanks and the error token
    outcome,   \* the failure type of the ExecutionOutcome, or "none"
    whole,     \* history: the stream ended by itself
    erred      \* history: the stream failed

vars == <<clock, budget, last, token, consumer, watchdog, stopped, caller,
          failed, wrote, outcome, whole, erred>>

Never == MaxTime + 1
Progressed == last # Never
Since == IF Progressed THEN clock - last ELSE 0
Over(task) == task \in {"done", "cancelled"}

Init ==
    /\ clock = 0 /\ budget = FreshBudget /\ last = Never
    /\ token = "none" /\ stopped = FALSE
    /\ consumer = "reading" /\ watchdog = "ready" /\ caller = "racing"
    /\ failed = FALSE /\ wrote = FALSE /\ outcome = "none" /\ whole = FALSE /\ erred = FALSE

-----------------------------------------------------------------------------
\* The consumer, fed by a provider that may also stay silent for ever.

Piece(kind) ==
    /\ consumer = "reading" /\ ~failed
    /\ failed' = (kind = "error") /\ erred' = (kind = "error")
    /\ wrote' = (wrote \/ kind = "text")
    /\ last' = IF kind = "text" THEN clock ELSE last
    /\ UNCHANGED <<clock, budget, token, consumer, watchdog, stopped, caller, outcome, whole>>

\* The stream ends, after the error token or by itself.
StreamEnds ==
    /\ consumer = "reading"
    /\ consumer' = "done"
    /\ whole' = ~failed
    /\ UNCHANGED <<clock, budget, last, token, watchdog, stopped, caller, failed, wrote, outcome, erred>>

\* Anything it raises is contained and classified.
StreamRaises ==
    /\ consumer = "reading"
    /\ consumer' = "done"
    /\ failed' = TRUE /\ erred' = TRUE
    /\ UNCHANGED <<clock, budget, last, token, watchdog, stopped, caller, wrote, outcome, whole>>

\* A cancellation reaches the read it waits in.
ConsumerUnwinds ==
    /\ consumer = "cancelling"
    /\ consumer' = "cancelled"
    /\ UNCHANGED <<clock, budget, last, token, watchdog, stopped, caller, failed, wrote, outcome, whole, erred>>

-----------------------------------------------------------------------------
\* ExecutionWatchdog.run(): one round of the loop.

Cancels(v) == v \in {"expired", "stalled"}
Watch ==
    /\ watchdog = "ready"
    /\ LET v == Verdict(budget, clock, Progressed, Since)
       IN  IF stopped \/ token # "none"
           THEN watchdog' = "done" /\ UNCHANGED <<budget, token>>
           ELSE /\ watchdog' = IF Cancels(v) THEN "done" ELSE "sleeping"
                /\ token' = CASE v = "expired" -> "hard_deadline"
                              [] v = "stalled" -> "stall"
                              [] OTHER -> "none"
                /\ budget' = IF v = "extended" THEN Extended(budget, clock) ELSE budget
    /\ UNCHANGED <<clock, last, consumer, stopped, caller, failed, wrote, outcome, whole, erred>>

\* The sleep ends with the time or with stop().
Wake ==
    /\ watchdog = "sleeping" /\ stopped
    /\ watchdog' = "ready"
    /\ UNCHANGED <<clock, budget, last, token, consumer, stopped, caller, failed, wrote, outcome, whole, erred>>

WatchdogUnwinds ==
    /\ watchdog = "cancelling"
    /\ watchdog' = "cancelled"
    /\ UNCHANGED <<clock, budget, last, token, consumer, stopped, caller, failed, wrote, outcome, whole, erred>>

Ready ==  \* somebody has something to do now
    \/ watchdog \in {"ready", "cancelling"} \/ consumer = "cancelling"
    \/ watchdog = "sleeping" /\ stopped
    \/ caller = "racing" /\ (Over(consumer) \/ Over(watchdog))

Tick ==
    /\ ~Ready /\ clock < MaxTime
    /\ clock' = clock + 1
    /\ watchdog' = IF watchdog = "sleeping" THEN "ready" ELSE watchdog
    /\ UNCHANGED <<budget, last, token, consumer, stopped, caller, failed, wrote, outcome, whole, erred>>

\* A caller of an ExecutionContext cancels the shared token.
CancelToken ==
    /\ token = "none" /\ caller = "racing"
    /\ token' = "external"
    /\ UNCHANGED <<clock, budget, last, consumer, watchdog, stopped, caller, failed, wrote, outcome, whole, erred>>

-----------------------------------------------------------------------------
\* The caller.  asyncio.wait() reports what is done when the caller resumes.

Cancelling(task) == IF Over(task) THEN task ELSE "cancelling"

Race ==
    /\ caller = "racing" /\ (Over(consumer) \/ Over(watchdog))
    /\ IF Over(consumer)
       THEN stopped' = TRUE /\ caller' = "stopping" /\ UNCHANGED consumer
       ELSE consumer' = "cancelling" /\ caller' = "interrupting" /\ UNCHANGED stopped
    /\ UNCHANGED <<clock, budget, last, token, watchdog, failed, wrote, outcome, whole, erred>>

\* The classification, in the code's order.
FailureTypeTextFirst ==  \* mutant: FZ-02, the error token is taken for output
    IF token = "stall" THEN "stalled"
    ELSE IF token # "none" THEN "hard_deadline"
    ELSE IF ~wrote /\ ~failed THEN "empty_response"
    ELSE "success"
FailureType ==
    IF failed THEN "provider_failure"
    ELSE IF token = "stall" THEN "stalled"
    ELSE IF token # "none" THEN "hard_deadline"
    ELSE IF ~wrote THEN "empty_response"
    ELSE "success"

\* ModelRouterAdapter.execute(): which outcomes reach the caller as content;
\* the others fail, with what was generated in the metadata.
Content == {"success", "empty_response"}
Delivered == outcome \in Content

Conclude ==
    /\ \/ caller = "stopping" /\ Over(watchdog)
       \/ caller = "interrupting" /\ Over(consumer)
    /\ caller' = "returned"
    /\ outcome' = FailureType
    /\ UNCHANGED <<clock, budget, last, token, consumer, watchdog, stopped, failed, wrote, whole, erred>>

\* The caller's own task is cancelled.  While it awaits the watchdog, only
\* that task is cancelled with it; otherwise _stop_generation() cancels both
\* and waits, through further cancellations.
StopGeneration ==
    /\ caller \in {"racing", "interrupting"}
    /\ caller' = "unwinding"
    /\ stopped' = TRUE
    /\ consumer' = Cancelling(consumer)
    /\ watchdog' = Cancelling(watchdog)
    /\ UNCHANGED <<clock, budget, last, token, failed, wrote, outcome, whole, erred>>

CancelWhileStopping ==
    /\ caller = "stopping"
    /\ caller' = "unwinding"
    /\ watchdog' = Cancelling(watchdog)
    /\ UNCHANGED <<clock, budget, last, token, consumer, stopped, failed, wrote, outcome, whole, erred>>

Unwound ==
    /\ caller = "unwinding" /\ Over(consumer) /\ Over(watchdog)
    /\ caller' = "cancelled"
    /\ UNCHANGED <<clock, budget, last, token, consumer, watchdog, stopped, failed, wrote, outcome, whole, erred>>

Provider == (\E kind \in {"text", "blank", "error"} : Piece(kind)) \/ StreamEnds \/ StreamRaises
System ==
    \/ ConsumerUnwinds \/ Watch \/ Wake \/ WatchdogUnwinds \/ Tick
    \/ Race \/ Conclude \/ Unwound
Next == Provider \/ System \/ CancelToken \/ StopGeneration \/ CancelWhileStopping

\* The loop runs its tasks and time passes; the provider owes nothing.
Spec == Init /\ [][Next]_vars /\ WF_vars(System)

-----------------------------------------------------------------------------
Task == {"done", "cancelling", "cancelled"}
TypeOK ==
    /\ clock \in 0..MaxTime /\ budget \in Budget
    /\ last \in 0..Never
    /\ token \in {"none", "stall", "hard_deadline", "external"}
    /\ consumer \in {"reading"} \union Task
    /\ watchdog \in {"ready", "sleeping"} \union Task
    /\ caller \in {"racing", "stopping", "interrupting", "unwinding", "returned", "cancelled"}
    /\ outcome \in {"none", "success", "provider_failure", "stalled", "hard_deadline", "empty_response"}
    /\ stopped \in BOOLEAN /\ wrote \in BOOLEAN /\ failed \in BOOLEAN /\ whole \in BOOLEAN /\ erred \in BOOLEAN

\* When the call returned or its cancellation got out, neither the stream nor
\* the watchdog is left behind, whichever of the caller's three awaits the
\* cancellation arrived at (B2c, model_router.py:78).
NothingOutlives == caller \in {"returned", "cancelled"} => Over(consumer) /\ Over(watchdog)

\* "a partial answer is always distinguishable from a complete one": what the
\* adapter delivers as content is a stream that ended by itself, without the
\* error token or an exception, in every order of the two tasks' ends.
PartialIsMarked == Delivered => whole /\ ~erred

\* A generation is over a tick after its deadlines at the latest: the startup
\* deadline while only keepalives arrive, the extended ceiling in any case.
DeadlinesHold ==
    caller = "racing" =>
        /\ ~wrote => clock <= Startup
        /\ clock <= budget.hard /\ budget.hard <= Absolute

\* A provider that hangs does not hang its caller.
CallerReturns == <>(caller \in {"returned", "cancelled"})
=============================================================================
