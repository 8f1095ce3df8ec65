SPECIFICATION Spec
CONSTANTS
    Entry = {1, 2, 3}
    Waypoint = {4}
    VectorLimit = 2
    Limit = 3
    MaxHops = 2
    MaxNodes = 3
    Budgets = {3, 99}
    Unlimited = 99
    MaxEdges = 3
    MaxChanges = 1
INVARIANTS ContradictionsSurvive
CHECK_DEADLOCK FALSE
