------------------------------- MODULE MCExecution -------------------------------
\* The durable run of a workflow and, beside it for TLC, an execution with its watchdog.
\* A behaviour is one of them; the variables of the other keep still.
EXTENDS WorkflowRuntime, WatchdogDecision, GraphBounds

(* Workflow shapes: one per way a walk can go. *)

CONSTANTS a, b, c, d

\* A definition over `nodes`, entered at a, with the given edges.
Shape(name, nodes, edges) ==
    [id |-> name, nodes |-> nodes, entry |-> a,
     succ |-> [n \in NodeId |-> IF n \in DOMAIN edges THEN edges[n] ELSE <<>>],
     branch |-> [n \in NodeId |-> NoNode],
     retries |-> [n \in NodeId |-> 0],
     constrained |-> FALSE]

Edges(f, t) == [n \in {f} |-> t]

\* The compiler's linear chain, with retries on its first node ...
Chain == [Shape("chain", {a, b}, Edges(a, <<b>>)) EXCEPT
            !.retries[a] = 2, !.constrained = TRUE]
\* ... and the same workflow extended, and shortened, before a resume.
ChainExtended == Shape("chain", {a, b, c}, [n \in {a, b} |->
                    IF n = a THEN <<b>> ELSE <<c>>])
ChainShortened == Shape("chain", {a, c}, Edges(a, <<c>>))
\* Two paths joining in d.
Diamond == Shape("diamond", {a, b, c, d}, [n \in {a, b, c} |->
                    IF n = a THEN <<b, c>> ELSE <<d>>])
\* An error branch that leads back into the walk.
Rescue == [Shape("rescue", {a, b, c, d}, [n \in {a, c} |->
                    IF n = a THEN <<b, c>> ELSE <<d>>])
            EXCEPT !.branch[b] = d, !.retries[b] = 1]
\* A cycle of two, with a node leaving it.
Cycle == Shape("cycle", {a, b, c}, [n \in {a, b} |->
                    IF n = a THEN <<b>> ELSE <<a, c>>])
\* A node that is its own error branch.
SelfRescue == [Shape("self", {a, b}, Edges(a, <<b>>)) EXCEPT !.branch[a] = a]
\* An edge to an unknown node: refused by validate().
Dangling == Shape("dangling", {a, b}, Edges(a, <<c>>))

AllShapes == {Chain, ChainExtended, ChainShortened, Diamond, Rescue, Cycle,
              SelfRescue, Dangling}
-----------------------------------------------------------------------------
VARIABLES
    part,
    elapsed, budget, nodeStatus, touched, token, rt, wd, life, faults

Watch == INSTANCE GraphWatchdog WITH status <- nodeStatus

walkVars == vars
watchVars == <<elapsed, budget, nodeStatus, touched, token, rt, wd, life, faults>>
allVars == <<part, walkVars, watchVars>>

ExecutionInit ==
    /\ part \in {"walk", "watch"}
    /\ Init /\ (part = "watch" => wf = Chain)
    /\ Watch!Init

walkOnly == part = "walk" /\ UNCHANGED <<part, watchVars>>
watchOnly == part = "watch" /\ UNCHANGED <<part, walkVars>>
ExecutionNext == (walkOnly /\ Next) \/ (watchOnly /\ Watch!Next)

\* The fairness of the specifications.
Walks == walkOnly /\ Step
WatchedStep == watchOnly /\ Watch!RuntimeStep
WatchdogStep == watchOnly /\ Watch!WatchdogStep
Ticks == watchOnly /\ Watch!Tick
ExecutionSpec ==
    /\ ExecutionInit /\ [][ExecutionNext]_allVars
    /\ WF_allVars(Walks)
    /\ WF_allVars(WatchedStep) /\ WF_allVars(WatchdogStep) /\ WF_allVars(Ticks)

\* The modules' properties, as they state them.
\* The budget of an execution is capped, and nothing is cancelled before it is used up.
BudgetIsKept == Watch!BudgetIsKept
\* While a node is in work, a stall is found only after a whole deadline of silence.
StallIsReal == Watch!StallIsReal
\* Every run of a workflow ends unless the process dies, a cyclic one too; a stuck
\* execution is cancelled, and its watchdog does not outlive it.
ExecutionEnds == EveryRunEnds /\ (part = "watch" => Watch!NothingHangs)
=============================================================================
