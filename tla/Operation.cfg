SPECIFICATION Spec
CONSTANTS
    Query = {q1, q2}
    Text = {fair, foul}
    Denied = {foul}
    Paths = {"k42", "k22", "legacy"}
    Confidence = {30, 90}
    MaxPending = 1
    MaxRecovery = 1
    MaxCalls = 2
    MaxCancels = 1
INVARIANTS
    BudgetsHold
    
    StoresMatchEnding
PROPERTIES
    EveryQueryEnds
CHECK_DEADLOCK FALSE
