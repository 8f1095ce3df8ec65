\* No adapter is available, and the one that is asked never will be.
SPECIFICATION CapabilitiesSpec
CONSTANTS
    Acquisition = {a1, a2, a3, a4}
    MinLimit = 1
    MaxLimit = 3
    Type = {"llm_completion", "web_search"}
    Provides <- Registered
    Configured = {"router", "ollama"}
    Invocation = {c1, c2, c3}
    MaxHealth = 20
    Gain = 1
    Loss = 4
    MaxDelay = 60
    MaxNow = 2
    Handle = {h1, h2}
    Workspace = {d1, d2}
INVARIANTS
    ForcedRecovers
CHECK_DEADLOCK FALSE
