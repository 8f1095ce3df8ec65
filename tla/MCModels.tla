------------------------------- MODULE MCModels -------------------------------
\* A module's circuit breaker, its router, one monitored generation and the
\* configuration that keeps its state, side by side for TLC: a behaviour is one of them.
\* The router holds a generation to a single step.
EXTENDS CircuitBreaker

CONSTANTS
    Request, Prompt, Bootstrap, Own, Compat, Configured, MinQueries, PromoteAt,
    Regression, Window, Similarity, MaxRequests, MaxRestarts, MaxTime, Startup,
    Progress, Hard, Absolute, MaxExt, Setting, Edit, MaxWrites

\* Percentages and counts (model_router.py:35-38), and the budget of a generation.
ASSUME RoutingAssumption ==
    /\ PromoteAt \in Nat /\ MinQueries \in Nat /\ Similarity \subseteq 0..100
ASSUME DeadlineAssumption ==
    /\ Startup \in Nat /\ Progress \in Nat /\ MaxExt \in Nat
    /\ Hard \in Nat /\ Absolute \in Nat /\ Hard <= Absolute
    /\ MaxTime \in Nat

VARIABLES
    part,
    lifecycle, disk, recent, cache, req, started, restarts, best,
    clock, budget, last, token, consumer, watchdog, stopped, caller, failed, wrote,
    outcome, whole, erred,
    models, modelsFile, unsaved, settings, settingsFile, editing, changed, watcher,
    deaths, writes, cut

Router == INSTANCE ModelRouter WITH
    state <- lifecycle, Threshold <- PromoteAt
Stream == INSTANCE MonitoredStream
Config == INSTANCE Configuration WITH
    restarts <- deaths

breakerVars == vars
routerVars == <<lifecycle, disk, recent, cache, req, started, restarts, best>>
streamVars == <<
    clock, budget, last, token, consumer, watchdog, stopped, caller, failed, wrote,
    outcome, whole, erred>>
configVars == <<
    models, modelsFile, unsaved, settings, settingsFile, editing, changed, watcher,
    deaths, writes, cut>>
allVars == <<part, breakerVars, routerVars, streamVars, configVars>>

ModelsInit ==
    /\ part \in {"breaker", "router", "stream", "config"}
    /\ Init
    /\ Router!Init
    /\ Stream!Init
    /\ Config!Init

breakerOnly ==
    /\ part = "breaker"
    /\ UNCHANGED <<part, routerVars, streamVars, configVars>>
routerOnly ==
    /\ part = "router"
    /\ UNCHANGED <<part, breakerVars, streamVars, configVars>>
streamOnly ==
    /\ part = "stream"
    /\ UNCHANGED <<part, breakerVars, routerVars, configVars>>
configOnly ==
    /\ part = "config"
    /\ UNCHANGED <<part, breakerVars, routerVars, streamVars>>

ModelsNext ==
    \/ breakerOnly /\ Next
    \/ routerOnly /\ Router!Next
    \/ streamOnly /\ Stream!Next
    \/ configOnly /\ Config!Next

\* The fairness of the specifications.
CallEnds(c) == breakerOnly /\ (Succeed(c) \/ Fail(c) \/ Cancelled(c))
CallStep(r) == routerOnly /\ Router!CallStep(r)
RequestStep(r) == routerOnly /\ Router!RequestStep(r)
Loop == streamOnly /\ Stream!System
Poll(file) == configOnly /\ Config!Watch(file)
EditorDone == configOnly /\ Config!EditorCloses
ModelsSpec ==
    /\ ModelsInit /\ [][ModelsNext]_allVars
    /\ \A c \in Call : WF_allVars(CallEnds(c))
    /\ \A r \in Request : WF_allVars(CallStep(r)) /\ WF_allVars(RequestStep(r))
    /\ WF_allVars(Loop)
    /\ \A file \in {"models", "settings"} : WF_allVars(Poll(file))
    /\ WF_allVars(EditorDone)

\* The modules' properties, as they state them.

\* A module is native only on evidence, and a crash never takes it to another stage; nor
\* does a reload.
StageIsSound ==
    Router!PromotedOnEvidence /\ Router!StageIsDurable /\ Config!StateIsKept
\* A request is answered with what was written for it and leaves no call behind.
RequestIsSound == Router!AnsweredOwnPrompt /\ Router!NoOrphanCall
\* A generation leaves nothing running, keeps its deadlines, and passes nothing partial
\* for whole.
GenerationIsSound == Stream!NothingOutlives /\ Stream!DeadlinesHold /\ Stream!PartialIsMarked
\* Requests and generations end, and so does every half-open phase whose probe was not
\* cancelled; an edit of the settings is loaded.
NothingHangs ==
    /\ HalfOpenIsDecided
    /\ Router!EveryRequestEnds
    /\ Config!EditsAreSeen
    /\ part = "stream" => Stream!CallerReturns
=============================================================================
