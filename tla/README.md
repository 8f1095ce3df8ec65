# OCBrain v4.1: a verification project in TLA+

OCBrain is a local assistant written in Python. A request becomes goals, goals a
compiled workflow; the workflow's nodes are run by workers; workers call language
models through a concurrency limiter and circuit breakers; what is learnt goes
into a layered memory and a durable runtime state, and the modules are trained
and promoted on it in the background. Nearly everything runs on one asyncio event
loop, with SQLite and other blocking work in executor threads. Correctness
therefore depends on what happens at awaits, on cancelled tasks, on threads that
outlive the task waiting for them, on decisions made from what was read some
awaits ago, and on what is on disk when the process dies.

This directory models the parts where these things meet: 33 of 42 components,
in 33 modules; twelve TLC runs with 40 properties; and proofs with TLAPS of all
the safety properties the passing runs check, for every value of the constants.

1. [The system](#1-the-system)
2. [Modules and what they correspond to](#2-modules-and-what-they-correspond-to)
3. [Runs, bounds and what they show](#3-runs-bounds-and-what-they-show)
4. [Fairness](#4-fairness)
5. [What is proved](#5-what-is-proved)
6. [Findings](#6-findings)
7. [What is not modelled](#7-what-is-not-modelled)
8. [Plan](#8-plan)

## 1. The system

The table lists the components, the state each keeps, what it does, and what is
hard about it. `PROJECT.json` has the full list with files, and under `hazards`
every place that is hard to test, by line, with the properties that are about it.

| component (src/) | state | operations | hard because |
|---|---|---|---|
| AdaptiveSemaphore `core/runtime/resilience.py` | limit, permits, drains owed, waiters | enter, exit; grow or shrink by latency | a permit in the hand of a waiter that has not resumed; cancellation at that moment; growth and shrinkage overlapping |
| CircuitBreaker, in the same file, used by `modules/base.py` | state, failure count, time | admit, account success or failure | the call runs outside the lock, so a call admitted in one state ends in another |
| StateStore `core/runtime/state.py` | cache of scores, queue, batch size; two tables | update, record, flush, stop, start | the batch is written by a thread that survives the cancelled task; failure after the commit |
| WorkflowRuntime `core/workflow/` | node states, traversal, token; checkpoints | execute, resume, retry, checkpoint, cancel | crash and resume with a changed definition; cycles and joins; cancellation at any await |
| Graph watchdog `core/runtime/watchdog.py`, `progress.py`, `execution_graph.py` | graph, budget, polling task | poll, extend, cancel | it reads what the runtime writes; its own task may die |
| Model-side watchdog `core/runtime/execution_watchdog.py`, `progress_monitor.py` | one generation, its budget | supervised streaming | three tasks that end in any order; keepalives; cancellation at three awaits |
| Model lifecycle `core/model_router.py`, `core/provider_mesh.py`, `core/prompt/cache.py` | stage, maturity, recent scores, cached answers | route, promote, roll back | five places promote, each on what it read earlier; one cache for all |
| Configuration `core/config.py` | state of the modules, settings; two files | get, set, deferred writes, reload | a file is emptied before it is filled; a thread reloads it |
| Capabilities `core/capabilities/` | health and cooldown of adapters | rank, invoke, fail over | the ranking is made once and used over many awaits |
| Sandbox `core/sandbox/backends/` | processes, groups, directories | create, run, cancel, destroy | run() is in a thread, the others on the loop |
| Orchestrator, execution runtime, workers `core/orchestrator.py`, `core/runtime/`, `core/workers/` | counter of pending queries, recovery budget, events | one query from governance to its answer | ten ways out, each with stores already written |
| Governance `core/governance/` | none | verdict on an action | absent fields, order of the governors |
| Intent, planner, compiler `core/cognitive/` | none across a request | hypotheses, goals, constraints, steps, plan | overlapping patterns; a model's completion may be anything |
| Learning, user model `core/cognitive/learning.py`, `user_model.py` | verified records | gate, approve, write; project | a contradiction looked up in an incomplete index, awaits before the write |
| Memory `core/memory/unified_memory.py` | L0 cache, L1 table, L2 vectors, graph | write, read, update, delete, consolidate | no lock: four stores changed one await at a time |
| Retrieval `core/memory/retrieval/` | none | seeds, traversal, ranking, context | entries deleted between their discovery and their read |
| Curator `core/workers/curator.py` | lists of a sweep | prune, strengthen, resolve | it works through lists that others change |
| Streamed queries `interface/api.py`, `core/classifier.py`, `core/decomposer.py`, `core/dispatcher.py` | tasks of a query | classify, split, dispatch, stream | tasks that wait for each other disappear without an error |
| Module base, context memory `modules/base.py`, `core/context.py` | caches, weights, turns | retrieve, ingest, build a prompt | a result computed before an invalidation is cached after it |
| EventStream `core/events/`, registry, API | event table, bounded queues | append, notify, broadcast, send | rows are numbered in threads, subscribers called on resumption; full queues |
| Scheduler, learning jobs `learning/` | loops; weights, gaps on disk | supervise, train, detect, distil | stop racing start; two trainings, one directory; deaths between two files |
| Web ingestion `learning/crawler.py`, `cleaner.py`, `chunker.py`, `embedder.py` | pages, chunks | crawl, clean, split, store, move | a directory is listed twice; exclusion by a missing await |
| Export, factory, registry, updates `core/brain_export.py`, `core/module_factory.py`, `interface/updater.py` | folders, bundles, commits | export, import, create; install, roll back | a copy fails half way; the way back is overwritten |
| the rest | data | text, files, interfaces | - |

How they meet:

- `Orchestrator.handle()` passes a query through governance and the
  backpressure guard to one of three pipelines. Two of them plan, compile and
  run a workflow; each worker call goes through `ExecutionRuntime.invoke`.
- `WorkflowRuntime._run` starts a graph watchdog beside the walk. They share
  the execution graph and a `CancellationToken`; the watchdog acts on the walk
  only through the token. Checkpoints and events are rows of the `EventStream`.
- A model call passes a module's `CircuitBreaker`, the provider mesh and
  `safe_llm_call`, which takes a permit of the `AdaptiveSemaphore`. A long one is
  streamed under the model-side watchdog, which shares its decision with the other.
- `ModelRouter` keeps stages in the configuration and scores in the
  `StateStore`, which `main.py` stops after the event loop of the server is gone.
- The gate of the learning asks governance, searches the memory and writes to
  it; what it promoted, the user model reads back, and `Intent` interprets with it.
- The scheduler runs the crawlers, the cleaner, the gap detection, the
  distillation and the training; they meet on disk.

What makes the parts correct is stated by the properties in section 3.

## 2. Modules and what they correspond to

| module | models | states and actions |
|---|---|---|
| `PermitPool` | the abstract limiter: at most `Capacity` inside | `Enter`, `Leave` |
| `AdaptiveSemaphore` | the limiter and the `asyncio.Semaphore` under it | the outcomes of `acquire()`, the woken waiter, both cancellations, the whole of `__aexit__` |
| `CircuitBreaker` | one breaker under concurrent calls | `Admit`, `Probe`, `Reject`: the first locked block; `Succeed`, `Fail`: the second; `Cancelled` runs neither |
| `StateStore` | cache, queue, flush task, its thread, tables, the shutdown | `Pull`, then `Commit` or one of two failures; `Stop` leaves the thread's batch in `orphan`; `Crash`, `Start` |
| `WorkflowRuntime` | one instance from `execute()` through crashes and `resume()`s | the recursion is a sequence `agenda`; `Visit...` its branches, `Attempt`, `Worker...` the retry loop, `Save` the checkpoint |
| `WatchdogDecision` | `grant_extension()`, `decide()` | operators over a budget, used by both watchdogs |
| `GraphBounds`, `GraphWatchdog` | the polling task beside one run, and the graph both write | one action per segment between awaits; `Die` for an append that raises; `Tick` is time |
| `MonitoredStream` | one supervised generation | a consumer, a watchdog and a caller that races the two, in ticks of the poll interval |
| `ModelRouter` | `route()`, `stream_route()`, `after_training()` with mesh and cache | a request is two calls (external and own) and the steps of `RequestStep`; a text is who wrote it and for which prompt |
| `Configuration` | `models.toml`, `settings.toml`, the watcher, a user | a counter per kind of field; a write is the truncation and the filling of a file |
| `Adapters` | `adapter_runtime.py`, one capability | ranking, attempts with awaits, health and cooldowns shared by invocations |
| `Sandbox` | `namespace_backend.py` | the thread of `run()` in steps, the calls of the loop between them, processes and directories |
| `Operation` | `handle()` with `ExecutionRuntime.invoke` and the worker template | one action per await; `log` is what a reader of the event stream sees |
| `Governance` | kernel and governors | operators from an action to a verdict; used by `Learning` and `Planner` |
| `Intent`, `Planner` | interpretation and planning of one request | pure steps as operators; the model's completion is any of the small set |
| `Learning` | the validation gate | what the search may find, the verdict, the approval, the write; restarts empty the in-process index |
| `UserModel` | the projection of L1 and L3 | a scan per layer with an await between; signals written and updated meanwhile |
| `UnifiedMemory` | all calls on one entry | the effect of each backend call and what follows its resumption are separate actions; the cache holds shared objects, not copies |
| `Retrieval` | `retrieve()` and `build()` | search, the frontier of each hop, reads, ranking, placement within a budget, groups of contradiction |
| `Curator` | one sweep | the four passes over fetched lists, others' reads and deletions between awaits |
| `StreamingQuery` | classifier, decomposer, streamed answer, dispatcher | tasks and their dependencies; rounds |
| `ModuleKnowledge`, `ContextMemory` | caches of a module and of prompts | lookup, computation in a thread, insertion; ingest invalidates |
| `EventStream` | append, broadcast, the registry's queue, clients | a thread numbers the row, the task notifies when it resumes |
| `Scheduler` | supervision of the jobs | one supervisor and loop per job and `start()`; crashes, restarts, giving up |
| `TrainingJobs`, `GapQueue` | the weights of a module; its gaps | pending directory, evaluation, promotion; queue file, known topics, deaths between writes |
| `Ingestion`, `Chunker` | pages on their way to a collection; how a text is split | save, read, store, move; paragraphs, sentences, windows with overlap, the parsed code; the chunks are a set |
| `Bundles` | export, import, factory and registry | copies that raise, folders and names that differ in case |
| `Updater` | installs, rollback, restart | installs in threads, a rollback on the loop; `point` is the file with the way back |
| `MCExecution` | composes `WorkflowRuntime`, `GraphWatchdog` | a run and the watchdog beside it |
| `MCCapabilities` | composes `AdaptiveSemaphore`, `Adapters`, `Sandbox` | a capability's call, part by part |
| `MCModels` | composes `CircuitBreaker`, `ModelRouter`, `Configuration`, `MonitoredStream` | a model's call, part by part |
| `MCServices` | composes `StateStore`, `Scheduler`, `TrainingJobs`, `GapQueue`, `EventStream`, `Updater` | the services in the background |
| `MCRequest` | composes the twelve modules a request's text and the memories go through | what a request meets, part by part |
| `MCExecution_proofs` | - | runtime, watchdog, and the run beside its watchdog |
| `MCCapabilities_proofs` | - | limiter, adapters, sandbox |
| `MCModels_proofs` | - | breaker, configuration, router, monitored stream |
| `MCServices_proofs` | - | store, updater, scheduler, weights, gaps, events, and the composition of all services |
| `Retrieval_proofs` | - | retrieval and chunker by themselves, with lemmas on least numbers, induction and recursive functions |
| `MCRequest_proofs` | - | the other parts of a request, an instance of `Retrieval_proofs`, and their composition |
| `Operation_proofs`, `UnifiedMemory_proofs` | - | the module of that name |

What the code or its configuration fixes as a table is a constant that a proof takes as
it is: the adapters that provide a capability (`Provides`), the names of folders in lower
case (`Lower`), the slot of a signal (`SlotOf`, `Weight`), the modules, their sources and
pages (`Area`, `Listed`, `Linked`), which pages are alike (`Alike`). A cfg gives each the
value of a definition beside it.

Conventions:

- An action is the code between two awaits. Where a lock surrounds no await,
  the locked block is part of one action.
- SQLite transactions, the executor, git and the operating system are external:
  a transaction is atomic, its result may be an error, and a thread goes on when
  the awaiting task is cancelled.
- Data is reduced to what the properties tell apart: a score to its version, a
  text to its author and prompt, an entry to the call that made it. Where the order of a
  list follows from its contents, it is a set: the last turns of a conversation are
  numbered records, and the goals of a request are known by where they begin in it.
- Variables marked *history* exist for properties and bounds and are never
  read by a guard that models code, except where the comment says it is a bound.
- An operator commented *mutant* is a plausible bug in the definition that
  follows it. The specification does not use it; `PROJECT.json` says which
  property it breaks.

## 3. Runs, bounds and what they show

Run one with `tlc -workers 2 -config X.cfg M`. All checks are exhaustive within
the bounds. The composing modules hold several specifications: a variable `part`
chooses one in the initial state and the others keep still, so that one run
checks each module's full state space, and none of their products. Their
properties are conjunctions of the modules' own, as named there.

| run (cfg) | bounds | properties and what they show |
|---|---|---|
| `capabilities` (`MCCapabilities`) | 4 callers of 1..3 permits; 3 invocations of 3 adapters, one without endpoint; 2 sandboxes, 2 directories | `PermitConservation`, `ImplementsPermitPool`, `EveryWaiterServed`: no interleaving loses or makes a permit. `EveryAdapterTried`: a failure means that every adapter available when it was ranked was asked. `SuccessIsEarned`, `NoOrphans`: a reported success is a real one, and a cancelled or destroyed process ends |
| `execution` (`MCExecution`) | 8 shapes of up to 4 nodes, 2 resumes; 2 watched nodes, deadlines 1/2/4/7, one raised append | `RunsOncePerRun`, `RecordHolds`: finished work is neither redone nor forgotten. `SuccessIsClosed`: success is a complete walk. `BudgetIsKept`, `StallIsReal`: nothing is cancelled before its ceiling, a stall is silence. `ExecutionEnds`: each run ends, and its watchdog with it |
| `memory` (`UnifiedMemory`) | 3 calls, 1 fault, symmetry of the calls | `NoPhantom`, `NoResurrection`, `UpdateHeals`: the cache serves only what was stored, a replaced revision does not come back, an undisturbed update leaves the layers in agreement |
| `operation` (`Operation`) | 2 queries, equal or different texts, 3 pipelines, 1 permit, 1 recovery, 1 cancellation | `BudgetsHold`: permits and re-plans are bounded and given back. `OneEnding`: the stream tells how a query ended. `StoresMatchEnding`: what is remembered was answered, what was refused left no trace. `EveryQueryEnds` |
| `models` (`MCModels`) | 4 calls, threshold 3; 2 requests at a time and 3 in all, 1 restart; a generation of 8 ticks; 2 writes, 1 edit | `CountMatchesState`; `StageIsSound`: native only on evidence, a stage survives deaths and reloads; `RequestIsSound`: an answer was written for its prompt and leaves no call behind; `GenerationIsSound`: nothing outlives the call, deadlines hold, a partial text is marked; `NothingHangs` |
| `services` (`MCServices`) | 2 pairs, 3 versions, batches 1..3, 2 faults; 2 jobs, 2 starts, 3 crashes; 4 trainings; 3 gaps for a queue of 2; 2 tasks, 2 clients, queues of 2; 2 installs, 2 commits | `PairsConserved`, `DrainedIsCurrent`: the store loses nothing while it runs. `OneScheduler`: one loop per job, and only `stop()` stops. `WeightsAreSound`: a module that has had a whole set of weights keeps one, through a mishap too while no trainings overlapped, and what serves was evaluated, or trained while two trainings overlapped. `EventsInOrder`. `NoStepBack`: no older score over a newer, no gap forgotten, no abandoned job revived, no way back lost. `EverythingArrives` |
| `request` (`MCRequest`) | see the cfg, part by part | `NothingStale`: caches serve what would be computed, scopes are separate. `NoTaskDropped`. `VerifiedIsSound`: verified claims agree and were approved. `OneIsKept`: of contradicting entries the curator keeps one. `GoalsMeanRequest`: the goals are the request, all of it. `PlanIsSound`: no contradictory goal is planned, specific capabilities first. `EvidenceIsSound`: hits are as near as said, placed in the budget, grouped by contradiction; the user is who the entries say. `NothingSkipped`: no page is put away unknown, no word lost. `ImportedIsBundle` |
| `breaker_stuck`, `adapters_soonest`, `updater_previous`, `learning_contradiction`, `retrieval_merged` | as the passing run or smaller | violations, section 6 |

Why the bounds are enough to be interesting:

- *limiter*: with four callers and at most three permits, callers are parked while
  others hold, are handed a permit, and drain; the proofs cover every other size.
- *breaker*: three calls open the circuit while a fourth is still out.
- *store*: batches shrink to one and grow to three, so a batch coalesces several
  updates, a requeued one meets newer updates, and a queue outlives a batch. Two
  faults allow a failed flush and then a crash.
- *workflow*: a shape per way a walk can go: chain with retries, extended and
  shortened for a resume, diamond, error branch into a join, cycle with an
  exit, a node that is its own error branch, an invalid definition. A resume may
  pass any of them.
- *watchdog, generation*: the numbers fit one full and one capped extension.
- *memory*: three calls are needed for a read to load before, and cache after,
  an update that races a write. A fourth is out of reach.
- *operation*: two queries meet in the guard of one permit, and in the row of
  one text; a plan may use its only recovery and still be refused.
- *lifecycle*: a window of two scores is the least that has an average; three
  requests promote, serve natively and roll back.
- *sandbox, adapters*: two sandboxes may share a directory; with three
  invocations one ranks before and asks after another's failure.
- *scheduler*: two starts are what is needed for a late end of the first.
- *gaps, events*: a queue that is smaller than what is queued, so that something
  is given up.
- *retrieval*: three entries and three edges hold every graph in which a seed is
  reached again from another, at a budget that places all or one.
- *intent, planner, chunker*: texts of three to seven words with every separator,
  marker or paragraph break, compared with a reference definition.
- *curator, learning*: three entries contradict in a triangle; two gates overlap.

Bounds that model nothing (`MaxVersion`, `MaxFaults`, `MaxRequests`, `MaxMishaps`
and the like) are named as such where they are declared. `CHECK_DEADLOCK FALSE` appears
where a run really comes to rest: an instance nobody resumes, calls that are all done.

Each passing property is shown to depend on the code by a mutant (`PROJECT.json`,
`mutants`): a changed definition under which TLC finds it violated.

## 4. Fairness

Fairness is assumed only of what the event loop, a thread or a timeout carries
out by itself; never of callers, users, cancellation, crashes, resumes or
failures.

- *AdaptiveSemaphore*: a woken waiter runs, and a holder leaves (`safe_llm_call`
  wraps the call in `wait_for`).
- *CircuitBreaker*: a call in flight ends, by the same timeout. That the reset
  time passes, or that anyone calls again, is not assumed.
- *StateStore*: the flush task wakes at least every five seconds and a flush
  ends. That it does not fail for ever is the bound on faults.
- *WorkflowRuntime*: the coroutine goes on. That a worker returns is assumed
  here; what happens otherwise is the subject of `GraphWatchdog`.
- *GraphWatchdog*, *MonitoredStream*: the code of both sides runs when it can and
  time passes. That the worker or the provider answers is **not** assumed.
- *ModelRouter*, *Operation*: every call and every await of a query is bounded
  by a timeout of what it awaits.
- *Sandbox*: the thread of `run()` goes on; its wait has a timeout.
- *Scheduler*: loops and `start()` run; that a job crashes or is stopped is not
  assumed. *GapQueue*: the distillation comes round. *EventStream*: a client takes
  what is queued for it.
- *Configuration*: the watcher polls both files, and the user's editor closes a
  file it opened.
- The other modules have no liveness property.

## 5. What is proved

All proofs are for every value of the constants, under the named assumptions of
the modules; TLC evaluates these assumptions in the runs. They say what the code
fixes: limits, budgets, thresholds and deadlines are natural numbers, in order;
queues, caches and windows hold at least one (`CapacityAssumption`,
`KnowledgeAssumption`, `RoutingAssumption`, `DeadlineAssumption`); what is summed or
compared is finite or a number (`AdaptersAssumption`, `StreamingAssumption`,
`CuratorAssumption`, `IntentAssumption`, `UserAssumption`); searches and traversals are limited
(`RetrievalAssumption`); windows overlap by less than they hold, and at least by what is too
short to keep, as 50 words of 300 do (`ChunkerAssumption`); markers are no words of a goal (`PlannerAssumption`); tiers and pipelines are the ones the code
knows (`LearningAssumption`, `PathAssumption`); definitions have the shape of the
dataclass; and a value that stands for "none" is not one of the others. The other
modules assume nothing.

A theorem of a composing module (`Spec => []P` with the conjunction `P` of section 3) comes
from one inductive invariant per part and from the composition: a step of the whole is,
for each part, a step of that part or none, and the part that runs never changes. What
follows names, per component, the invariant and why the property alone is not enough.

**AdaptiveSemaphore**: `TypeCorrect`, `Conservation`, `Capped`, `WakeupsKept`, and
`Refinement` (the limiter implements `PermitPool`, step by step). Conservation is
not inductive alone. Handing permits out moves a *number* out of the counter and
a *set* of waiters out of the queue; the two agree only if no acquisition is
queued twice or is also inside (`OnePlace`). The cap needs `DrainCap`: the limit
and the drains still owed together stay within `max_limit`. The lemma
`ReleaseEffect` states what releasing n permits does to all of these.

**Adapters**: `FailureIsEverybodys`. What an invocation has tried, followed by what it
still will, is the ranking it started with (`AdaptersFollow`), whatever others do to
health and cooldowns meanwhile. That sorting keeps the adapters and orders them is proved of
the operator, not assumed.

**Sandbox**: `SuccessesAreReal`. Nothing undoes a process's end (`SandboxRuns`); a directory
nobody destroyed holds what was written (`SandboxKept`); what `_classify()` concluded
still holds when the thread returns (`SandboxJudged`).

**CircuitBreaker**: `CountMatches`, for any threshold and number of callers.

**ModelRouter**, **Configuration**: `StageKept`, `RequestKept`, `ConfigStateKept`. "Native only
on evidence" needs that a module's average never exceeds its best comparison, in memory
and on disk, and that no request carries a similarity above it to its promotion
(`RouterStages`, `RouterRequests`); a cached text was written for its own prompt
(`RouterCache`). With nothing deferred the file of the stages is the memory; a reload
therefore takes nothing back.

**MonitoredStream**: `GenerationKept`. Who has been told to end, and by whom (`StreamTold`), bounds
what may outlive the call. Deadlines hold because a watchdog that sleeps looked at this
very tick (`StreamAwake`).

**StateStore**: `TypeCorrect`, `PairsAreConserved`, `DrainedCurrent`, `NoneGoesBack`. The
invariant speaks of `Pending`, what the running flush took followed by what is queued: a
pull, a failed flush and the requeueing leave it as it is. `AtMostOnce` and
`Accepted` count the copies of a pair in the table, in `Pending` and in the thread
of a cancelled flush; `Latest` says that a module's last update in `Pending` is
the cache's, and without one the table's. That no score goes back needs the order of
versions throughout the orphaned thread's batch and `Pending` (`InTurn`): an update older
than the table is followed by a newer one in the same transaction. Lemmas on sequences
carry it: how counts add up over a concatenation (`CountConcat`), which update is the last
of one (`FinalOfConcat`), and that the maximum a batch is written by exists (`LastIsMax`).

**Updater**: `UpdatesUndoKept`. The file with the way back is shared by all installs. The
invariant follows its owner: until the owner has updated, the file names the commit
it is still at; whoever else is under way has written no point since, or would be the owner.

**Scheduler, TrainingJobs, GapQueue, EventStream**: `SchedulerIsOne`, `WeightsKept`,
`EventsKept`, and with the store and the updater `NothingGoesBack`. A loop that lives is of
the last `start()` (`JobsLiveAreTasks`). The weights are counted by mishaps: with
none, the active set is whole or its copy is; after one, one of three directories
is (`WeightsCalm`, `WeightsHurt`), and a set that serves passed, or was trained while two trainings
overlapped (`WeightsJudged`). A topic is tried, queued, in the distillation that
runs, or was pushed out. An event on its way is its task's last (`EventsOneOnItsWay`), the
client's queue is the end of what was broadcast (`EventsSuffix`), what was sent comes before.

**WorkflowRuntime**: `TypeCorrect`, `OncePerRun`, `SuccessClosed`, `RecordKeeps`,
`StartEarned`, for every set of definitions, cyclic ones included, and any number
of crashes and resumes. The invariant is

- `Phase`: at each await, which node runs and how far its retries got;
- `Known`: a running walk has a valid definition all of whose nodes have a state;
- `Agrees`: a run agrees with what the checkpoint says is finished;
- `AgendaEarned`: everything on the agenda was earned by a finished node;
- `WalkClosed`: where a visited node leads has been visited or is on the agenda,
  unless the walk was cancelled and is already failed;
- `EffectsBounded`: a node not finished in this run succeeded in earlier runs only.

`WalkClosed` is the argument for partial successes: cancellation makes every later
visit a refusal, and a refusal makes the last result a failure.

**GraphWatchdog**: `WatchTyping`, `WatchBudgetKept`, `StallsAreReal`, and beside the run
`ExecutionBudget`, for every budget, number of nodes and of faults. The ceiling is what was
created plus what was granted, capped twice, and a cancellation comes after it. That causes
stay true needs that a budget does not change once the watchdog turned to cancelling, and
that time does not run back. A stall is a silence because the node the runtime is at is
active and was touched at its last sign of life (`WatchAlive`), until the watchdog itself
marks it failed, after which it looks no more.

**Operation**: `BothBudgetsHold`, `EndingsAreOne`, `StoresAgree`, for any queries, texts and
pipelines. The permits that are free and the queries inside the guard add up
(`Slots`, over a finite set of holders); each impasse took one attempt (`Budget`); a query has
an ending exactly when it is over, and no terminal event before (`Ending`); it leaves something
behind only from its workflow on, and where the orchestrator writes, once it is saved (`Traces`).

**UnifiedMemory**: `TypeCorrect`, `NoPhantomEver`, `NothingResurrected`, `UpdatesHeal`, for any
number of calls, failures and crashes. `Stored` tells objects others may be given from the entry of a
`write()` that is not in L1 yet; cache, row and the calls' references are stored ones
(`Holding`, `Refers`), and a revision is stored once (`Fresh`). An update nobody disturbed is
alone, and `OnItsWay` says at each of its awaits what row, node and cache are.

**Learning**: `RequestVerifiesSoundly`. A gate between its check and its write has seen all that is
verified (`LearnSeen`), and of two such gates of a domain one checked blindly
(`LearnApart`): a check that runs while another promotion of its domain is under way counts
as blind. Approval follows from the governors' chain: `LearnApproved` says that an action the kernel
lets pass without escalation is not a self-modifying one that needs a person.

**Curator**: `RequestKeepsOne`. Score, then the number of the entry, order the entries
totally; a finite set has one that no other beats (`CurateSomeBest`), and only what is
beaten is deprecated (`CurateBest`), because the pairs list each conflict once, and in order.

**Bundles**: `RequestImportsBundles`. At each step of an import the parts that are done are the
bundle's and the others are empty (`BundleBegun`): the emptying at its start is part of the invariant.

**StreamingQuery**: `RequestDropsNoTask`. The tasks wait in order or in two levels
(`StreamNeeds`); of either, the least one unfinished can start.

**ModuleKnowledge, ContextMemory**: `RequestIsFresh`. The order of the cache lists each cached query
once (`KnowledgeCached`; the lemma `WithoutOne` says what removing one leaves), and a result under way
that no write crossed is what the collection serves (`KnowledgeRead`). A prompt that is kept is
the one that would be computed, as every change drops them all.

**Intent**: `RequestMeansItsGoals`. The containment of a completion is one of its beginnings
(`IntentContained`), the first best of the eligible hypotheses exists and is chosen
(`IntentSelects`), and each word that is no separator is in exactly one unbroken run
(`IntentEnds`, `IntentParts`): the places before and after it that are separators have a greatest and
a least.

**Planner**: `RequestPlansSoundly`, for any words, windows, registry and goal. The spans found by the
seven patterns in turn are a recursive function, whose value `PlanFound` gives: a "must not" is found as
a negation only, any other "must" as a requirement. The text around each holds the words that
follow (`PlanWindow`), so that a word both asked for and ruled out is seen (`PlanPrecheck`). Of the
candidates one is ahead of all others (`PlanBest`), with the general ones last, and what the
governors approve is not something to be unsure of (`PlanApproved`); a score of fifty is half of the
words (`PlanScores`).

**Retrieval**: `RetrievalIsSound`, `RequestEvidenceIsSound`, for any entries, graph, limits and
budgets. Each part of it folds over a sequence the code builds; the folds are recursive
functions, and `UpToAll`, an induction over the numbers up to a bound, argues about their values.
For the traversal, three facts hold of every place of the loops:

- `Placing`: what is found, unless it is a seed, is at the distance it is said to be;
- `Covering`: the neighbours of what has been expanded are found, while there is room, and a
  level holds the nodes at its distance that are not expanded yet;
- within one step, `FindsNear` says the same of the part of the edges that have been looked at.

A neighbour is missed only for want of room, since as many are asked for as fit
(`EnoughNeighbors`). For the blocks, each entry of the evidence is at one place of one block
(`Apart`, `Cover`), and the greedy pass moves blocks whole (`Separate`, `Whole`). The ranking
of any finite set without ties exists (`Ranking`). For the groups, a parent
is never larger than its child (`Forest`), so that following parents ends at a root in as many
steps as there are entries (`RootRun`, `RootIs`); joining two roots changes the roots of exactly
those below the larger (`Rerooted`). At every
pair, no closed set is left by following parents, and the two entries of each pair met so far
have one root (`Says`, `UnionSays`); after the last pair, those with a root in common
are therefore a component, and the root is its least (`ClassIsComponent`).

**UserModel**: the other half of `RequestEvidenceIsSound`. Of a slot nobody touched since the
assembly began, what L1 gave is still so when L3 is read (`UserAssembled`): applied from the
oldest to the newest, the last entry decides a value, and a list has each text once.

**Chunker**: `TextIsKept` and the chunker's half of `RequestSkipsNothing`. Whatever is open while a text is
split is a stretch of it, and overlaps or meets what was put out before, or leaves a gap
shorter than a short chunk (`TextOpen`, `TextInside`, `TextWhole`); `TextDense` says of what is
kept that no gap in it is longer than two short chunks. One lemma for windows, sentences,
paragraphs and the whole text each carries it on, and `TextGaps` turns it into the property. The gap is two
of them because what was open before a paragraph that is too long may be too short to keep, and so
may the first sentences of that paragraph before one that is too long itself.

Retrieval and chunker are proved about by themselves, in `Retrieval_proofs`.
`MCRequest_proofs` makes an instance of that module with a request's constants and variables
(`Evidence`); lemmas named after the actions show that the request's own instances of the
two modules begin alike and take the same steps (`EvidenceNext`, `TextSplit`).

**Ingestion**: `PagesNothingIsSkipped`, the other half of `RequestSkipsNothing`. The second listing of
the directory finds what the first one found, because the crawlers come only while the cleaner
is between two runs.

The inductive invariants of `Operation` and `UnifiedMemory` were checked by TLC on the runs'
instances before they were proved.

`ConfigStateKept`, `NoneGoesBack`, `UpdatesUndoKept` and the watchdog's first
two are properties of one module; the runs check them through an instance of it, as a conjunct
(`StageIsSound`, `NoStepBack`) or by another name (`BudgetIsKept`).

**Model-checked only**: every liveness property, which the prover does not do under fairness.

## 6. Findings

Each is a run that is expected to be violated; the line it contradicts is quoted
in `PROJECT.json`.

1. `breaker_stuck`: a cancelled probe leaves the circuit half-open for ever.
   `CancelledError` is not an `Exception`, so neither accounting block runs, and
   every later call is rejected as "probing in progress".
2. `adapters_soonest`: with every configured adapter cooling down, the forced
   choice, meant to be the one that recovers soonest, is an adapter that has no
   endpoint and no cooldown and cannot recover.
3. `updater_previous`: after an update, a second install that fails at its fetch
   has already written the current commit over the way back; the rollback to the
   commit before the update goes nowhere.
4. `learning_contradiction`: the contradiction check searches an index that wants
   every word of the claim, its negation included, and another that is empty after a
   restart; a claim is verified beside a verified one that says the opposite.
5. `retrieval_merged`: two entries that contradict each other and differ in a word
   are merged before contradictions are grouped, and no group shows it.

What the models also show, without a run because nothing in the repository says
otherwise, or because the passing property sets the case apart by name:

- a workflow reports success although a branch failed unhandled, if a later branch
  succeeded; an invalid definition or an exception in the walk returns without a
  final status for the root (`runtime.py:523`); a node cancelled between attempts is recorded
  FAILED and never run again (`runtime.py:866`);
- `stop()` writes one batch, and drops what else is queued (`state.py:112`);
- a late failure reopens a circuit during a probe, and a second probe joins the first;
- a `read()` that loaded a row before `delete()` removed it caches it afterwards
  (`unified_memory.py:647`);
- a watchdog whose append raises dies without cancelling (`watchdog.py:192`);
- after a rollback the window of recent scores is not cleared, so that a module
  promoted again may be rolled back on its old ones (`model_router.py:608`);
- a retrieval that an ingest crosses leaves a stale entry in the cache (`modules/base.py:122`),
  and an upsert that fails there is swallowed (`modules/base.py:152`);
- a death between the truncation and the filling of `models.toml` leaves no stage of
  any module (`config.py:211`), though line 25 says a crash can never lose one; an edit of the
  settings the poll has not seen is overwritten by `set()` (`config.py:132`);
- two trainings at once may install weights nobody evaluated (`scheduler.py:406`), and
  gaps queued during a distillation are removed with the queue (`scheduler.py:382`);
- of two clients of an execution one may take the end event the other waits for;
- an overwriting import that fails leaves no module (`brain_export.py:289`);
- `crawler.py:4` says that `robots.txt` is respected; no line reads it.

## 7. What is not modelled

Inside the modelled components:

- *WorkflowRuntime*: two concurrent `resume()`s of one instance (there is no
  caller); a checkpoint append whose thread outlives its cancelled task and lands
  after a resume read the older one; the edges' `condition`, which the code
  stores and never evaluates; Python's recursion limit; which errors are retryable.
- *StateStore*: `stop()` awaited on the flush task's own loop, as a test script
  does; there the orphaned thread is not joined first.
- *AdaptiveSemaphore*: leaving in another task than the one that entered, which the
  docstring excludes.
- *UnifiedMemory*: search and ranking, vault imports, the content of the archive, edges
  between entries, embeddings (their await is there), entries other than the one
  looked at. Layers l3 and l4 behave as l2 here, apart from the vectors.
- *GraphWatchdog*: the seeding of a resumed run's graph, `report_progress()` (nobody calls
  it), error branches and fan-out, event queues of graph subscribers. `ExecutionPolicy`,
  which derives the numbers of a budget, is left out: they are constants.
- *Operation*: start and stop of the health monitor, the statistics of an invocation, the
  hypotheses of a reflection, the supervisor's retry, which only tests reach.
- *ModelRouter*: what a prompt and a similarity are; the tokens of an unsupervised
  stream; the health of a provider, which no call outlives (`resolve_provider()` builds
  new objects).
- *Learning jobs*: how a model is trained and what makes an answer weak. *EventStream*:
  queries and replay, which only read the log.
- *Intent, Planner, Learning, ContextMemory, Retrieval*: wording, explanations, regular
  expressions that recognise entities, hashing of near-duplicates, layout.
- *Ingestion*: the network and HTML; how like two pages are is any symmetric relation.

Left out as a whole, with the reason in `PROJECT.json`: sandbox admission (a comparison
of two records) and the backends' interfaces; text helpers of a query (parser, merger, migrator);
fusion, assembly and vaults; working memory, workspace and projections (records of a session);
event bus, observability and reflection; the prompts of the single modules; versions and
skills; interfaces and process start; web search. They transform text, do I/O, or hold
data without concurrency of their own.

## 8. Plan

Done: the limiter, breaker, store, workflow runtime, memory and graph watchdog; then the model
side (stream, lifecycle, configuration), capabilities and sandbox, one query from end to
end, the background services, and the request's parts from intent to retrieval and ingestion.

Proved: every safety property the passing runs check (section 5).

Next:

1. Abstract specifications: a durable write queue for `StateStore` (accepted, then written,
   in order per key); the life cycle of a node for `WorkflowRuntime`; an append-only log with
   delivery in order per task for `EventStream`.
2. Models: the seeding of a resumed run's graph; working memory and its projections from
   the event log; sandbox admission as an operator; vault imports over `UnifiedMemory`.
