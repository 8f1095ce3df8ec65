----------------------------- MODULE MCCapabilities -----------------------------
\* What a call passes through, side by side for TLC: the limiter of concurrent LLM calls,
\* the adapters of a capability and the sandbox.  A behaviour is one of any.
EXTENDS AdaptiveSemaphore

CONSTANTS
    Type, Provides, Configured, Invocation, MaxHealth, Gain, Loss, MaxDelay, MaxNow,
    Handle, Workspace

VARIABLES
    part,
    now, health, strikes, until, pc, todo, tried, choice, failures,
    dir, known, state, pgid, cancel, cgroup, process, run, out, result, disk, destroyed

Runtime == INSTANCE Adapters
Namespace == INSTANCE Sandbox

\* What is registered for a type are adapters in an order; the constants are counts.
ASSUME AdaptersAssumption ==
    /\ \A t \in DOMAIN Provides : Provides[t] \in Seq(Runtime!Adapter)
    /\ MaxHealth \in Nat /\ Gain \in Nat /\ Loss \in Nat /\ MaxDelay \in Nat

\* What main.py registers; a compatible provider has no endpoint unless it is given one.
Registered == [llm_completion |-> <<"router", "ollama", "compat">>]

limiterVars == vars
adapterVars == <<now, health, strikes, until, pc, todo, tried, choice, failures>>
sandboxVars == <<
    dir, known, state, pgid, cancel, cgroup, process, run, out, result, disk, destroyed>>
allVars == <<part, limiterVars, adapterVars, sandboxVars>>

CapabilitiesInit ==
    /\ part \in {"limiter", "adapters", "sandbox"}
    /\ Init /\ Runtime!Init /\ Namespace!Init
    \* The directories' names are interchangeable.
    /\ dir[CHOOSE h \in Handle : TRUE] = CHOOSE w \in Workspace : TRUE

limiterOnly == part = "limiter" /\ UNCHANGED <<part, adapterVars, sandboxVars>>
adaptersOnly == part = "adapters" /\ UNCHANGED <<part, limiterVars, sandboxVars>>
sandboxOnly == part = "sandbox" /\ UNCHANGED <<part, limiterVars, adapterVars>>

CapabilitiesNext ==
    \/ limiterOnly /\ Next
    \/ adaptersOnly /\ Runtime!Next
    \/ sandboxOnly /\ Namespace!Next

\* The fairness of the specifications.
Resumes(a) == limiterOnly /\ Resume(a)
Exits(a) == limiterOnly /\ \E slow \in BOOLEAN : Exit(a, slow)
Thread(h) == sandboxOnly /\ Namespace!Thread(h)
CapabilitiesSpec ==
    /\ CapabilitiesInit /\ [][CapabilitiesNext]_allVars
    /\ \A a \in Acquisition : WF_allVars(Resumes(a)) /\ WF_allVars(Exits(a))
    /\ \A h \in Handle : WF_allVars(Thread(h))

\* The modules' properties, as they state them.
EveryAdapterTried == Runtime!EveryAdapterTried
ForcedRecovers == Runtime!ForcedRecovers
SuccessIsEarned == Namespace!SuccessIsEarned
NoOrphans == Namespace!NoOrphans
=============================================================================
