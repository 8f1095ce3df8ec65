SPECIFICATION Spec
CONSTANTS
    Gate = {g1}
    Domain = {"skill", "intent_ontology"}
    Tier = {"learning", "adaptation", "evolution"}
    Word = {w1, w2}
    SearchLimit = 3
    MaxEntries = 3
    MaxWrites = 2
    MaxMishaps = 0
INVARIANT ContradictionsAreFound
CHECK_DEADLOCK FALSE
