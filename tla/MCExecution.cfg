\* The whole run may end, so the instance may come to rest.
SPECIFICATION ExecutionSpec
CONSTANTS
    a = a
    b = b
    c = c
    d = d
    NodeId = {a, b, c, d}
    NoNode = NoNode
    NoCheckpoint = NoCheckpoint
    Workflows <- AllShapes
    MaxResumes = 2
    Startup = 1
    Progress = 2
    Hard = 4
    Absolute = 7
    MaxExt = 4
    Nodes = 2
    MaxFaults = 1
INVARIANTS
    RunsOncePerRun SuccessIsClosed BudgetIsKept
PROPERTIES
    RecordHolds StallIsReal ExecutionEnds
CHECK_DEADLOCK FALSE
