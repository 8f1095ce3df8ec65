\* Batches of two may shrink to one and grow to three; three gaps for a queue of two; a
\* stream for each of two clients, with room for two events each; two installs.
SPECIFICATION ServicesSpec
CONSTANTS
    Module = {m1}
    Pair = {p1, p2}
    StartBatch = 2
    FloorBatch = 1
    CeilingBatch = 3
    Grow = 1
    Shrink = 1
    MaxVersion = 3
    MaxFaults = 2
    Job = {crawler, cleaner}
    RunFirst = {crawler}
    Preflighted = {cleaner}
    Gated = {cleaner}
    MaxRestarts = 1
    MaxStarts = 2
    MaxCrashes = 3
    MinPairs = 1
    MaxPairs = 1
    MaxTrained = 4
    MaxMishaps = 2
    Topic = {t1, t2, t3}
    MaxGaps = 2
    MaxDeaths = 1
    Task = {a1, a2}
    Client = {c1, c2}
    Capacity = 2
    MaxEvents = 2
    Installation = {i1, i2}
    MaxCommit = 2
INVARIANTS
    PairsConserved DrainedIsCurrent OneScheduler WeightsAreSound EventsInOrder
PROPERTIES
    EverythingArrives NoStepBack
CHECK_DEADLOCK FALSE
