SPECIFICATION Spec
CONSTANTS
    Call = {c1, c2, c3, c4}
    Threshold = 3
INVARIANT
    HalfOpenIsProbing
