-------------------------------- MODULE MCRequest --------------------------------
\* What a request passes through, part by part for TLC: the modules' knowledge, the
\* context memory, the streamed pipeline, the learning gate, the curator, the interpreter,
\* the planner, the retrieval of memories, the bundles the modules it meets come from, how
\* their knowledge is cut up and comes from the web, and the model of the user.
\* A behaviour is one of them; the variables of the others are none.
EXTENDS Naturals, FiniteSets

CONSTANTS
    Query, Chunk, LowGrade, Reader, Writer, CacheSize, Scope, Formatted, MaxTurns,
    Wanted, Module, Coding, WebSearch, Fallback, KeywordHits, Guesses, MaxPieces, Gate,
    Domain, Tier, Word, SearchLimit, MaxEntries, MaxWrites, MaxMishaps, Entry, Episodic,
    Old, Faint, StrengthenAt, SparedAt, Confidences, Created, MaxAccess, MaxTouches,
    MaxSweeps, Term, Separator, Forbidden, Scores, MAX_HYPOTHESES, MaxTerms, MaxBlocks,
    MaxCandidates, PlanWord, Marker, Capability, General, WordsBefore, WordsAfter,
    MaxPlanWords, MaxPlanSteps, Item, Waypoint, VectorLimit, Limit, MaxHops, MaxNodes,
    Budgets, Unlimited, MaxEdges, MaxChanges, Folder, MaxMade, WindowSize, WindowOverlap,
    MinWords, Lengths, MaxParts, Signal, Promoted, ListSlot, Text, PerLayer, MaxUpdates,
    Source, Page, Barren, MaxTroubles, MaxStops,
    \* What the code and its configuration fix; TLC takes the values below.
    Lower, SlotOf, Weight, Area, Listed, Linked, Alike

VARIABLES
    part,
    db, cache, order, reader, result, asks, writer, crossed, raced,
    turns, entities, memories, prompts, dirty, open, served,
    hits, boosted, guess, sequential, labels, needs, finished, pc, node, collected,
    done, saved,
    table, indexed, count, made, gates, mishaps,
    row, edges, phase, work, sweeps, touched,
    interpreting, request, blocks, hypotheses, selected, goals,
    planning, goal, constraints, registry, plan, nodes,
    graph, truth, retrieving, seeds, level, next, depth, results, evidence, context,
    changes, failed,
    folder, evals, stage, factory, modules, exported, importing, imported, contents,
    raised,
    document, definitions, forCode, pieces,
    record, updates, reading, slots, sources, moved,
    raw, archived, collection, ahead, links, sweep, todo, texts, excused, troubles,
    stops

Knowledge == INSTANCE ModuleKnowledge
Context == INSTANCE ContextMemory
Streaming == INSTANCE StreamingQuery
Learns == INSTANCE Learning
Curates == INSTANCE Curator
Interprets == INSTANCE Intent WITH
    Word <- Term, MaxWords <- MaxTerms, stage <- interpreting, text <- request
Plans == INSTANCE Planner WITH
    Word <- PlanWord, MaxWords <- MaxPlanWords, stage <- planning, text <- goal
Retrieves == INSTANCE Retrieval WITH
    Entry <- Item, edges <- graph, stage <- retrieving, hits <- seeds
Archive == INSTANCE Bundles WITH
    made <- contents, mishaps <- raised, bundles <- exported
Splits == INSTANCE Chunker WITH
    coding <- forCode
Profile == INSTANCE UserModel
Pages == INSTANCE Ingestion WITH
    cleaner <- sweep, db <- collection, chunks <- archived

\* Two folders of one name; one list among the slots, of the later signals; a module that
\* follows a feed of two pages alike, and one that follows a page.
OneName == [n \in Folder |-> "coding"]
TwoSlots == [e \in Signal |-> IF e > 3 THEN "formats" ELSE "style"]
LaterIsMore == [e \in Signal |-> e]
TwoModules == <<"coding", "knowledge">>
FeedAndPage ==
    [m \in {"coding", "knowledge"} |-> IF m = "coding" THEN {"feed"} ELSE {"page"}]
FeedOfTwo == [s \in Source |-> IF s = "feed" THEN {1, 2} ELSE {3}]
PagesAlike == {{1, 2}}

\* _CACHE_MAX_SIZE is 128, and what stands for an entry that is not there is no list.
ASSUME KnowledgeAssumption == CacheSize \in Nat \ {0} /\ "absent" \notin Chunk
\* LearningTier.ALL.
ASSUME LearningAssumption ==
    Tier \subseteq {"learning", "adaptation", "evolution"} /\ SearchLimit \in Nat
\* The modules of models.toml are finitely many, and coding is not web_search.
ASSUME StreamingAssumption == IsFiniteSet(Module) /\ Coding # WebSearch
\* The score of a completion is at most 1 and not negative (intent.py).
ASSUME IntentAssumption == Scores \subseteq 0 .. 100 /\ MAX_HYPOTHESES \in Nat
\* There are entries, numbered, and what they are compared by are numbers.
ASSUME CuratorAssumption ==
    /\ Entry # {} /\ Entry \subseteq Nat /\ IsFiniteSet(Entry)
    /\ Confidences \union Created \subseteq Nat

\* Markers are no words of a goal or a contract; there are finitely many words, and the
\* capabilities are numbered in the order of their names.
ASSUME PlannerAssumption ==
    /\ Marker \subseteq {"must", "not", "should", "without", "only", "count"}
    /\ PlanWord \intersect {"must", "not", "should", "without", "only", "count"} = {}
    /\ IsFiniteSet(PlanWord) /\ Capability \subseteq Nat
    /\ WordsBefore \in Nat /\ WordsAfter \in Nat

\* What the retrieval is limited to, of the entries of a request.
ASSUME RetrievalAssumption == Retrieves!Limited
\* What the windows of a text share, and what is too short to keep.
ASSUME ChunkerAssumption == Splits!Windows
\* There are finitely many entries about the user, with an importance each.
ASSUME UserAssumption ==
    /\ IsFiniteSet(Signal) /\ Weight \in [Signal -> Nat] /\ PerLayer \in Nat
    /\ Promoted \subseteq Signal

knowledgeVars == <<db, cache, order, reader, result, asks, writer, crossed, raced>>
contextVars == <<turns, entities, memories, prompts, dirty, open, served>>
streamingVars == <<
    hits, boosted, guess, sequential, labels, needs, finished, pc, node, collected,
    done, saved>>
learningVars == <<table, indexed, count, made, gates, mishaps>>
curatorVars == <<row, edges, phase, work, sweeps, touched>>
intentVars == <<interpreting, request, blocks, hypotheses, selected, goals>>
plannerVars == <<planning, goal, constraints, registry, plan, nodes>>
retrievalVars == <<
    graph, truth, retrieving, seeds, level, next, depth, results, evidence, context,
    changes, failed>>
bundlesVars == <<
    folder, evals, stage, factory, modules, exported, importing, imported, contents,
    raised>>
chunkerVars == <<document, definitions, forCode, pieces>>
profileVars == <<record, updates, reading, slots, sources, moved>>
ingestionVars == <<
    raw, archived, collection, ahead, links, sweep, todo, texts, excused, troubles,
    stops>>
vars == <<
    part, knowledgeVars, contextVars, streamingVars, learningVars, curatorVars,
    intentVars, plannerVars, retrievalVars, bundlesVars, chunkerVars, profileVars,
    ingestionVars>>

knowledgeNone ==
    /\ db = 0 /\ cache = 0 /\ order = 0 /\ reader = 0 /\ result = 0 /\ asks = 0
    /\ writer = 0 /\ crossed = 0 /\ raced = 0
contextNone ==
    /\ turns = 0 /\ entities = 0 /\ memories = 0 /\ prompts = 0 /\ dirty = 0
    /\ open = 0 /\ served = 0
streamingNone ==
    /\ hits = 0 /\ boosted = 0 /\ guess = 0 /\ sequential = 0 /\ labels = 0
    /\ needs = 0 /\ finished = 0 /\ pc = 0 /\ node = 0 /\ collected = 0 /\ done = 0
    /\ saved = 0
learningNone ==
    /\ table = 0 /\ indexed = 0 /\ count = 0 /\ made = 0 /\ gates = 0 /\ mishaps = 0
curatorNone ==
    /\ row = 0 /\ edges = 0 /\ phase = 0 /\ work = 0 /\ sweeps = 0 /\ touched = 0
intentNone ==
    /\ interpreting = 0 /\ request = 0 /\ blocks = 0 /\ hypotheses = 0
    /\ selected = 0 /\ goals = 0
plannerNone ==
    /\ planning = 0 /\ goal = 0 /\ constraints = 0 /\ registry = 0 /\ plan = 0
    /\ nodes = 0
retrievalNone ==
    /\ graph = 0 /\ truth = 0 /\ retrieving = 0 /\ seeds = 0 /\ level = 0 /\ next = 0
    /\ depth = 0 /\ results = 0 /\ evidence = 0 /\ context = 0 /\ changes = 0
    /\ failed = 0
bundlesNone ==
    /\ folder = 0 /\ evals = 0 /\ stage = 0 /\ factory = 0 /\ modules = 0
    /\ exported = 0 /\ importing = 0 /\ imported = 0 /\ contents = 0 /\ raised = 0
chunkerNone ==
    /\ document = 0 /\ definitions = 0 /\ forCode = 0 /\ pieces = 0
profileNone ==
    /\ record = 0 /\ updates = 0 /\ reading = 0 /\ slots = 0 /\ sources = 0
    /\ moved = 0
ingestionNone ==
    /\ raw = 0 /\ archived = 0 /\ collection = 0 /\ ahead = 0 /\ links = 0
    /\ sweep = 0 /\ todo = 0 /\ texts = 0 /\ excused = 0 /\ troubles = 0 /\ stops = 0

Init ==
    /\ part \in {"knowledge", "context", "streaming", "learning", "curator",
                "intent", "planner", "retrieval", "bundles", "chunker", "profile",
                "ingestion"}
    /\ IF part = "knowledge" THEN Knowledge!Init ELSE knowledgeNone
    /\ IF part = "context" THEN Context!Init ELSE contextNone
    /\ IF part = "streaming" THEN Streaming!Init ELSE streamingNone
    /\ IF part = "learning" THEN Learns!Init ELSE learningNone
    /\ IF part = "curator" THEN Curates!Init ELSE curatorNone
    /\ IF part = "intent" THEN Interprets!Init ELSE intentNone
    /\ IF part = "planner" THEN Plans!Init ELSE plannerNone
    /\ IF part = "retrieval" THEN Retrieves!Init ELSE retrievalNone
    /\ IF part = "bundles" THEN Archive!Init ELSE bundlesNone
    /\ IF part = "chunker" THEN Splits!Undivided ELSE chunkerNone
    /\ IF part = "profile" THEN Profile!Init ELSE profileNone
    /\ IF part = "ingestion" THEN Pages!Init ELSE ingestionNone

knowledgeOnly ==
    /\ part = "knowledge"
    /\ UNCHANGED <<
        part, contextVars, streamingVars, learningVars, curatorVars, intentVars,
        plannerVars, retrievalVars, bundlesVars, chunkerVars, profileVars, ingestionVars>>
contextOnly ==
    /\ part = "context"
    /\ UNCHANGED <<
        part, knowledgeVars, streamingVars, learningVars, curatorVars, intentVars,
        plannerVars, retrievalVars, bundlesVars, chunkerVars, profileVars, ingestionVars>>
streamingOnly ==
    /\ part = "streaming"
    /\ UNCHANGED <<
        part, knowledgeVars, contextVars, learningVars, curatorVars, intentVars,
        plannerVars, retrievalVars, bundlesVars, chunkerVars, profileVars, ingestionVars>>
learningOnly ==
    /\ part = "learning"
    /\ UNCHANGED <<
        part, knowledgeVars, contextVars, streamingVars, curatorVars, intentVars,
        plannerVars, retrievalVars, bundlesVars, chunkerVars, profileVars, ingestionVars>>
curatorOnly ==
    /\ part = "curator"
    /\ UNCHANGED <<
        part, knowledgeVars, contextVars, streamingVars, learningVars, intentVars,
        plannerVars, retrievalVars, bundlesVars, chunkerVars, profileVars, ingestionVars>>
intentOnly ==
    /\ part = "intent"
    /\ UNCHANGED <<
        part, knowledgeVars, contextVars, streamingVars, learningVars, curatorVars,
        plannerVars, retrievalVars, bundlesVars, chunkerVars, profileVars, ingestionVars>>
plannerOnly ==
    /\ part = "planner"
    /\ UNCHANGED <<
        part, knowledgeVars, contextVars, streamingVars, learningVars, curatorVars,
        intentVars, retrievalVars, bundlesVars, chunkerVars, profileVars, ingestionVars>>
retrievalOnly ==
    /\ part = "retrieval"
    /\ UNCHANGED <<
        part, knowledgeVars, contextVars, streamingVars, learningVars, curatorVars,
        intentVars, plannerVars, bundlesVars, chunkerVars, profileVars, ingestionVars>>
bundlesOnly ==
    /\ part = "bundles"
    /\ UNCHANGED <<
        part, knowledgeVars, contextVars, streamingVars, learningVars, curatorVars,
        intentVars, plannerVars, retrievalVars, chunkerVars, profileVars, ingestionVars>>
chunkerOnly ==
    /\ part = "chunker"
    /\ UNCHANGED <<
        part, knowledgeVars, contextVars, streamingVars, learningVars, curatorVars,
        intentVars, plannerVars, retrievalVars, bundlesVars, profileVars, ingestionVars>>
profileOnly ==
    /\ part = "profile"
    /\ UNCHANGED <<
        part, knowledgeVars, contextVars, streamingVars, learningVars, curatorVars,
        intentVars, plannerVars, retrievalVars, bundlesVars, chunkerVars, ingestionVars>>
ingestionOnly ==
    /\ part = "ingestion"
    /\ UNCHANGED <<
        part, knowledgeVars, contextVars, streamingVars, learningVars, curatorVars,
        intentVars, plannerVars, retrievalVars, bundlesVars, chunkerVars, profileVars>>

Next ==
    \/ knowledgeOnly /\ Knowledge!Next
    \/ contextOnly /\ Context!Next
    \/ streamingOnly /\ Streaming!Next
    \/ learningOnly /\ Learns!Next
    \/ curatorOnly /\ Curates!Next
    \/ intentOnly /\ Interprets!Next
    \/ plannerOnly /\ Plans!Next
    \/ retrievalOnly /\ Retrieves!Next
    \/ bundlesOnly /\ Archive!Next
    \/ chunkerOnly /\ Splits!Split
    \/ profileOnly /\ Profile!Next
    \/ ingestionOnly /\ Pages!Next

Spec == Init /\ [][Next]_vars

\* The modules' properties, as they state them.
\* What is served from a cache, of a module or of the context, is what would be computed,
\* and a caller's context is its own.
NothingStale ==
    /\ part = "knowledge" => Knowledge!CacheBounded /\ Knowledge!CacheIsFresh
    /\ part = "context" => Context!ScopesAreSeparate /\ Context!PromptsAreFresh
\* No task of a streamed request is dropped, and its end is not announced before it is.
NoTaskDropped ==
    part = "streaming" => Streaming!NoTaskDropped /\ Streaming!DoneIsSettled
\* What is verified does not contradict itself, and a person approved it.
VerifiedIsSound ==
    part = "learning" => Learns!VerifiedAgree /\ Learns!VerifiedIsApproved
\* Of entries that contradict each other one is kept.
OneIsKept == part = "curator" => Curates!OneIsKept
\* The goals are the request's, all of it.
GoalsMeanRequest ==
    part = "intent" => Interprets!MeantByRequest /\ Interprets!EveryPartIsAGoal
\* What contradicts itself is not planned, and what is compiled is fit for its steps.
PlanIsSound ==
    part = "planner" =>
        Plans!PrecheckIsRight /\ Plans!SpecificFirst /\ Plans!CompiledIsSure
\* What is retrieved is near, placed within the budget, and grouped by contradiction; and
\* the user is who the entries say.
EvidenceIsSound ==
    /\ part = "retrieval" =>
         /\ Retrieves!NearestSeed /\ Retrieves!EveryItemPlaced
         /\ Retrieves!GroupsAreComponents
    /\ part = "profile" => Profile!ProjectionIsSound
\* No page is put away that is not known, and no word of it is lost.
NothingSkipped ==
    /\ part = "ingestion" => Pages!NothingSkipped
    /\ part = "chunker" => Splits!EveryWordKept
\* An import that returned has left the bundle.
ImportedIsBundle == part = "bundles" => Archive!ImportedIsBundle
=============================================================================
