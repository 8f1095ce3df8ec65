------------------------------ MODULE MCServices ------------------------------
\* The services around an execution, side by side for TLC: the durable store, the
\* background jobs, what two of them do, the event stream and the updates.
\* A behaviour is one of any.
EXTENDS StateStore

CONSTANTS
    Job, RunFirst, Preflighted, Gated, MaxRestarts, MaxStarts, MaxCrashes, MinPairs,
    MaxPairs, MaxTrained, MaxMishaps, Topic, MaxGaps, MaxDeaths, Task, Client, Capacity,
    MaxEvents, Installation, MaxCommit

\* The queue of an execution's stream has room for an event.
ASSUME CapacityAssumption == Capacity \in Nat \ {0}

VARIABLES
    part,
    running, stop, tasks, call, loop, status, failures, window, crashes, asked,
    weightsOnDisk, at, mine, held, trained, mishaps, untrained, passed, mixed, installed,
    gapQueue, known, finding, distilling, left, tried, late, deaths,
    log, writing, resumable, made, waiting, client, got, delivered, dropped,
    newest, head, point, step, version, undo, target, restarts, before, owner

Jobs == INSTANCE Scheduler
Weights == INSTANCE TrainingJobs WITH
    disk <- weightsOnDisk, pairs <- untrained
Gap == INSTANCE GapQueue WITH
    queue <- gapQueue
Events == INSTANCE EventStream
Updates == INSTANCE Updater

storeVars == vars
schedulerVars == <<
    running, stop, tasks, call, loop, status, failures, window, crashes, asked>>
trainingVars == <<
    weightsOnDisk, at, mine, held, trained, mishaps, untrained, passed, mixed, installed>>
gapsVars == <<gapQueue, known, finding, distilling, left, tried, late, deaths>>
eventsVars == <<
    log, writing, resumable, made, waiting, client, got, delivered, dropped>>
updatesVars == <<
    newest, head, point, step, version, undo, target, restarts, before, owner>>
allVars == <<part, storeVars, schedulerVars, trainingVars, gapsVars, eventsVars, updatesVars>>

ServicesInit ==
    /\ part \in {"store", "scheduler", "training", "gaps", "events", "updates"}
    /\ Init
    /\ Jobs!Init
    /\ Weights!Init
    /\ Gap!Init
    /\ Events!Init
    /\ Updates!Init

storeOnly ==
    /\ part = "store"
    /\ UNCHANGED <<part, schedulerVars, trainingVars, gapsVars, eventsVars, updatesVars>>
schedulerOnly ==
    /\ part = "scheduler"
    /\ UNCHANGED <<part, storeVars, trainingVars, gapsVars, eventsVars, updatesVars>>
trainingOnly ==
    /\ part = "training"
    /\ UNCHANGED <<part, storeVars, schedulerVars, gapsVars, eventsVars, updatesVars>>
gapsOnly ==
    /\ part = "gaps"
    /\ UNCHANGED <<part, storeVars, schedulerVars, trainingVars, eventsVars, updatesVars>>
eventsOnly ==
    /\ part = "events"
    /\ UNCHANGED <<part, storeVars, schedulerVars, trainingVars, gapsVars, updatesVars>>
updatesOnly ==
    /\ part = "updates"
    /\ UNCHANGED <<part, storeVars, schedulerVars, trainingVars, gapsVars, eventsVars>>

ServicesNext ==
    \/ storeOnly /\ Next
    \/ schedulerOnly /\ Jobs!Next
    \/ trainingOnly /\ Weights!Next
    \/ gapsOnly /\ Gap!Next
    \/ eventsOnly /\ Events!Next
    \/ updatesOnly /\ Updates!Next

\* The fairness of the specifications.
Flushes == storeOnly /\ Flush
OrphanDone == storeOnly /\ OrphanEnds
JobLoop(s, j) == schedulerOnly /\ Jobs!Loop(s, j)
JobsReturn(s) == schedulerOnly /\ Jobs!StartReturns(s)
Distil == gapsOnly /\ Gap!Distillation
SendOne(c) == eventsOnly /\ Events!Send(c)
ServicesSpec ==
    /\ ServicesInit /\ [][ServicesNext]_allVars
    /\ WF_allVars(Flushes) /\ WF_allVars(OrphanDone)
    /\ \A s \in Jobs!Start :
         /\ WF_allVars(JobsReturn(s))
         /\ \A j \in Job : WF_allVars(JobLoop(s, j))
    /\ WF_allVars(Distil)
    /\ \A c \in Client : WF_allVars(SendOne(c))

\* The modules' properties, as they state them.
\* A job has one loop at a time and the late end of an earlier start() stops nobody.
OneScheduler == Jobs!OneLoopPerJob /\ Jobs!StoppedByStop
\* A module keeps its weights, and serves only what passed its evaluation.
WeightsAreSound == Weights!WeightsSurvive /\ Weights!OnlyPassedServe
\* No step goes back: a topic leaves the queue only when it was tried or with a death in
\* a write, a score in the table is not overwritten by an older one, a job given up stays
\* so until the next start(), and the way back from an update is kept.
NoStepBack ==
    Gap!NoGapForgotten /\ NeverOlder /\ Jobs!AbandonedStays /\ []Updates!UndoIsKept
\* Each task's events are stored and delivered in its order, none that is not stored,
\* and a full queue gives up old ones only.
EventsInOrder == Events!TaskOrder /\ Events!HeardIsStored /\ Events!NewestKept
\* What is queued arrives: a pair on disk, a gap at its distillation, and for its only
\* client an execution's end; and stop() ends every loop.
EverythingArrives ==
    PairsReachDisk /\ Gap!QueueDrains /\ Events!StreamEnds /\ Jobs!StopStops
=============================================================================
