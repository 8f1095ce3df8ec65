\* The constants of each part, in the order of the module's instances.
SPECIFICATION Spec
CONSTANTS
    Query = {q1, q2, q3}
    Chunk = {k1, k3}
    LowGrade = {k3}
    Reader = {u1, u2}
    Writer = {w1, w2}
    CacheSize = 2

    Scope = {"", "a"}
    Formatted = {m1}
    MaxTurns = 3
    Wanted = {2}

    Module = {coding, web_search, knowledge}
    Coding = coding
    WebSearch = web_search
    Fallback = knowledge
    KeywordHits = {0, 1, 2}
    Guesses = {0, 65}
    MaxPieces = 1

    Gate = {g1, g2}
    Domain = {"skill"}
    Tier = {"adaptation", "evolution"}
    Word = {t1}
    SearchLimit = 2
    MaxEntries = 2
    MaxWrites = 2
    MaxMishaps = 1

    Entry = {1, 2, 3}
    Episodic = {1, 2}
    Old = {1}
    Faint = {1}
    StrengthenAt = 1
    SparedAt = 1
    Confidences = {70, 90}
    Created = {0}
    MaxAccess = 1
    MaxTouches = 1
    MaxSweeps = 2

    Term = {t1, t2}
    Separator = {then}
    Forbidden = {injection}
    Scores = {10, 60}
    MAX_HYPOTHESES = 2
    MaxTerms = 3
    MaxBlocks = 1
    MaxCandidates = 3

    PlanWord = {t1, t2}
    Marker = {"must", "not"}
    Capability = {1, 2, 3}
    General = {3}
    WordsBefore = 2
    WordsAfter = 3
    MaxPlanWords = 5
    MaxPlanSteps = 2

    Item = {1, 2, 3}
    Waypoint = {4}
    VectorLimit = 2
    Limit = 3
    MaxHops = 2
    MaxNodes = 3
    Budgets = {3, 99}
    Unlimited = 99
    MaxEdges = 3
    MaxChanges = 1

    Folder = {"coding", "Coding"}
    MaxMade = 2

    WindowSize = 3
    WindowOverlap = 1
    MinWords = 2
    Lengths = {1, 2, 4, 7}
    MaxParts = 2

    Signal = {1, 2, 3, 4, 5}
    Promoted = {3, 4}
    ListSlot = {"formats"}
    Text = {x, y}
    PerLayer = 2
    MaxUpdates = 3

    Source = {"feed", "page"}
    Page = {1, 2, 3}
    Barren = {3}
    MaxTroubles = 1
    MaxStops = 1

    Lower <- OneName
    SlotOf <- TwoSlots
    Weight <- LaterIsMore
    Area <- TwoModules
    Listed <- FeedAndPage
    Linked <- FeedOfTwo
    Alike <- PagesAlike
INVARIANTS
    NothingStale NoTaskDropped VerifiedIsSound OneIsKept GoalsMeanRequest PlanIsSound
    EvidenceIsSound  ImportedIsBundle
CHECK_DEADLOCK FALSE
