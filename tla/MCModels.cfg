\* Threshold 3 as in modules/base.py, four callers; two requests at a time, three in all,
\* with a window of two scores; deadlines short enough for every one to pass.
SPECIFICATION ModelsSpec
CONSTANTS
    Call = {c1, c2, c3, c4}
    Threshold = 3
    Request = {r1, r2}
    Prompt = {p1, p2}
    Bootstrap = mistral
    Own = own
    Compat = compat
    Configured = FALSE
    MinQueries = 1
    PromoteAt = 85
    Regression = 70
    Window = 2
    Similarity = {40, 90}
    MaxRequests = 3
    MaxRestarts = 1
    Startup = 3
    Progress = 2
    Hard = 5
    Absolute = 7
    MaxExt = 3
    MaxTime = 8
    Setting = {k1}
    Edit = {e1}
    MaxWrites = 2
INVARIANTS
    CountMatchesState StageIsSound  GenerationIsSound
PROPERTIES
    NothingHangs
CHECK_DEADLOCK FALSE
