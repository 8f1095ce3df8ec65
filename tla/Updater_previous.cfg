\* The second install fails before it changes anything.
SPECIFICATION Spec
CONSTANTS
    Installation = {i1, i2}
    MaxCommit = 3
    MaxRestarts = 0
PROPERTIES
    RollbackIsPrevious
CHECK_DEADLOCK FALSE
