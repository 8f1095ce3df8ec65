SPECIFICATION Spec
CONSTANTS
    Op = {o1, o2, o3}
    Seed = Seed
    NoEntry = NoEntry
    NoObject = NoObject
    MaxFaults = 1
SYMMETRY OpSymmetry
INVARIANTS
    NoPhantom
PROPERTIES
    NoResurrection
    UpdateHeals
CHECK_DEADLOCK FALSE
