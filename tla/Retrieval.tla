-------------------------------- MODULE Retrieval --------------------------------
(***************************************************************************)
(* What the memory gives a prompt (core/memory/retrieval/): the hits of a  *)
(* search, the entries near them in the graph, their ranking, and the      *)
(* context built of them.  Entries are numbered in the order of their      *)
(* names, and each has its node; waypoints are nodes of entities, which    *)
(* have no edges.  Between two awaits others delete and deprecate entries. *)
(* Scores are in thousandths.                                              *)
(***************************************************************************)
EXTENDS Integers, SequencesExt

CONSTANTS
    Entry, Waypoint,      \* numbers, the entries' first
    VectorLimit, Limit,   \* vector_limit, limit
    MaxHops, MaxNodes,   \* traversal_max_depth, traversal_max_nodes
    Budgets,              \* token budgets a caller may give
    Unlimited,            \* the budget of a caller that gives none
    MaxEdges, MaxChanges  \* bounds of the model

\* Every search and every context is limited, and a traversal goes at least one edge and
\* finds at least one node (pipeline.py, traversal.py).
Limited ==
    /\ Entry \subseteq Nat /\ IsFiniteSet(Entry) /\ Budgets \subseteq Nat
    /\ Limit \in Nat /\ MaxHops \in Nat \ {0} /\ MaxNodes \in Nat \ {0}

Node == Entry \union Waypoint
Nowhere == -1

VARIABLES
    edges,      \* outgoing edges, in the order of their insertion
    truth,      \* Entry -> its truth status, "gone" when there is no row
    stage, hits,
    level, next, depth, results,  \* the traversal: what it found, with seed and distance
    evidence,
    context,
    changes, failed  \* deletions and the like so far, and whether a call failed

vars == <<edges, truth, stage, hits, level, next, depth, results, evidence, context,
          changes, failed>>
traversal == <<level, next, depth, results>>

NoContext == [blocks |-> <<>>, groups |-> {}, dropped |-> <<>>, tokens |-> 0]

Init ==
    /\ edges \in {s \in BoundedSeq({p \in Entry \X Node : p[1] # p[2]}, MaxEdges) :
                    IsInjective(s)}
    /\ truth \in [Entry -> {"verified"}]
    /\ stage = "asked" /\ hits = <<>>
    /\ level = <<>> /\ next = <<>> /\ depth = 0 /\ results = <<>>
    /\ evidence = <<>> /\ context = NoContext
    /\ changes = 0 /\ failed = FALSE

There == {e \in Entry : truth[e] # "gone"}

----------------------------------------------------------------------------
\* Nobody looks at these again.
Forget ==
    /\ stage' = "reading" /\ edges' = <<>> /\ hits' = <<>>
    /\ level' = <<>> /\ next' = <<>> /\ depth' = 0

\* memory.search() leaves the deprecated out; the hits become evidence and seeds.
\* Without a graph, or without hits, there is nothing to expand.
Search(graph) ==
    /\ stage = "asked"
    /\ \E found \in
            {s \in BoundedSeq({e \in There : truth[e] # "deprecated"}, VectorLimit) :
                IsInjective(s)} :
         /\ evidence' = [i \in DOMAIN found |->
                           [entry |-> found[i], base |-> 600 - 100 * i,
                            truth |-> truth[found[i]], distance |-> Nowhere]]
         /\ IF graph /\ found # <<>>
            THEN /\ stage' = "expanding" /\ hits' = found /\ depth' = 1
                 /\ level' = [i \in DOMAIN found |-> [node |-> found[i], seed |-> found[i]]]
                 /\ UNCHANGED <<edges, next>>
            ELSE Forget
    /\ UNCHANGED <<truth, results, context, changes, failed>>

\* get_neighbors(): the first edges inserted, as many as max_nodes, as their places.  An
\* edge goes with either of its nodes.
From(node) ==
    {i \in DOMAIN edges :
        /\ edges[i][1] = node
        /\ \A n \in Entry \intersect {node, edges[i][2]} : truth[n] = "verified"}
Neighbors(node) ==
    {i \in From(node) : Cardinality({j \in From(node) : j <= i}) <= MaxNodes}

\* expand(), of the first node of the level: a target is new if nothing has found it
\* and it is not the seed it is found from, and there is room for it.  A seed that is
\* found is in the results and is not expanded again.
Found(at, found, target) ==
    IF \/ \E r \in ToSet(found.results) : r.node = target
       \/ target = at.seed \/ Len(found.results) >= MaxNodes
    THEN found
    ELSE [results |-> Append(found.results,
                             [node |-> target, seed |-> at.seed, distance |-> depth]),
          new |-> IF target \in ToSet(hits) THEN found.new
                  ELSE Append(found.new, [node |-> target, seed |-> at.seed])]
Visited(at) ==
    LET found[n \in 0 .. Len(edges)] ==
          IF n = 0 THEN [results |-> results, new |-> <<>>]
          ELSE IF n \in Neighbors(at.node) THEN Found(at, found[n - 1], edges[n][2])
          ELSE found[n - 1]
    IN  found[Len(edges)]
OnSameLevel(new) ==  \* mutant: what is found is expanded with the level it is found from
    level' = Tail(level) \o new /\ UNCHANGED next
OnNextLevel(new) == level' = Tail(level) /\ next' = next \o new

\* A call that fails has no neighbours.
Expand(fails) ==
    /\ stage = "expanding" /\ level # <<>>
    /\ fails => Len(results) < MaxNodes    \* no call is made when there is no room
    /\ LET all == IF fails THEN [results |-> results, new |-> <<>>]
                  ELSE Visited(Head(level))
       IN  results' = all.results /\ OnNextLevel(all.new)
    /\ failed' = (failed \/ fails)
    /\ UNCHANGED <<edges, truth, stage, hits, depth, evidence, context, changes>>
Deeper ==
    /\ stage = "expanding" /\ level = <<>>
    /\ IF next # <<>> /\ depth < MaxHops /\ Len(results) < MaxNodes
       THEN /\ level' = next /\ next' = <<>> /\ depth' = depth + 1
            /\ UNCHANGED <<stage, edges, hits>>
       ELSE Forget
    /\ UNCHANGED <<truth, results, evidence, context, changes, failed>>

\* retrieve(): the traversal's results in their order.  A waypoint is no evidence, a hit
\* keeps its method, and an entry that is gone, or whose read fails, is skipped.
Read(fails) ==
    /\ stage = "reading" /\ results # <<>>
    /\ LET r == Head(results)
           known == {i \in DOMAIN evidence : evidence[i].entry = r.node}
       IN  evidence' =
             IF r.node \in Waypoint THEN evidence
             ELSE IF known # {}
             THEN [i \in DOMAIN evidence |->
                     IF i \in known THEN [evidence[i] EXCEPT !.distance = r.distance]
                     ELSE evidence[i]]
             ELSE IF fails \/ r.node \notin There THEN evidence
             ELSE Append(evidence, [entry |-> r.node, base |-> 250,
                                    truth |-> truth[r.node], distance |-> r.distance])
    /\ results' = Tail(results)
    /\ failed' = (failed \/ fails)
    /\ UNCHANGED <<edges, truth, stage, hits, level, next, depth, context, changes>>

\* rank(): the base, the distance, the edge's weight, which is 1, and the truth status
\* the entry had when it was read.
Bonus(v) == IF v.truth = "verified" THEN 100 ELSE -100
Score(v) ==
    v.base + Bonus(v)
      + (IF v.distance = Nowhere THEN 0 ELSE (150 \div (1 + v.distance)) + 100)
Before(v, w) == Score(v) > Score(w) \/ (Score(v) = Score(w) /\ v.entry < w.entry)
Ranked ==
    {q \in [DOMAIN evidence -> ToSet(evidence)] :
        /\ ToSet(q) = ToSet(evidence)
        /\ \A i, j \in DOMAIN q : i < j => Before(q[i], q[j])}
Rank ==
    /\ stage = "reading" /\ results = <<>>
    /\ \E q \in Ranked :
         evidence' = [i \in 1 .. Min({Limit, Len(q)}) |-> q[i].entry]
    /\ stage' = "ranked"
    /\ UNCHANGED <<edges, truth, hits, traversal, context, changes, failed>>

----------------------------------------------------------------------------
\* build(): an item joins the block of its contents, in the order of the ranking.
Join(blocks, e, same) ==
    IF \E i \in DOMAIN blocks : same[blocks[i].primary] = same[e]
    THEN [i \in DOMAIN blocks |->
            IF same[blocks[i].primary] = same[e]
            THEN [blocks[i] EXCEPT !.merged = Append(@, e)] ELSE blocks[i]]
    ELSE Append(blocks, [primary |-> e, merged |-> <<>>])
Consolidate(same) ==
    LET blocks[n \in 0 .. Len(evidence)] ==
          IF n = 0 THEN <<>> ELSE Join(blocks[n - 1], evidence[n], same)
    IN  blocks[Len(evidence)]
AllOf(b) == <<b.primary>> \o b.merged

\* _group_contradictions(): union-find over what the blocks' primary entries contradict;
\* the smaller root becomes the root of both.
Root(parent, x) ==
    LET root[n \in 0 .. Cardinality(Entry)] ==
          IF n = 0 THEN x ELSE parent[root[n - 1]]
    IN  root[Cardinality(Entry)]
Union(parent, a, b) ==
    LET ra == Root(parent, a) rb == Root(parent, b)
    IN  IF ra = rb THEN parent
        ELSE IF ra < rb THEN [parent EXCEPT ![rb] = ra] ELSE [parent EXCEPT ![ra] = rb]

BlockOf(blocks, e) ==
    {blocks[i].primary : i \in {i \in DOMAIN blocks : e \in ToSet(AllOf(blocks[i]))}}
Pairs(blocks, contradicts) ==
    {p \in ToSet([i \in DOMAIN blocks |-> blocks[i].primary]) \X Entry :
        /\ p \in contradicts
        /\ \E b \in BlockOf(blocks, p[2]) : b # p[1]}
\* The pairs as they are met: block by block.
Met(blocks, p, q) ==
    \E i, j \in DOMAIN blocks :
        /\ blocks[i].primary = p[1] /\ blocks[j].primary = q[1]
        /\ i < j \/ (i = j /\ p[2] < q[2])
InOrder(blocks, pairs) ==
    [n \in 1 .. Cardinality(pairs) |->
        CHOOSE p \in pairs : Cardinality({q \in pairs : Met(blocks, q, p)}) = n - 1]
Parents(blocks, contradicts) ==
    LET pairs == InOrder(blocks, Pairs(blocks, contradicts))
        parent[n \in 0 .. Len(pairs)] ==
          IF n = 0 THEN [e \in Entry |-> e]
          ELSE Union(parent[n - 1], pairs[n][1],
                     CHOOSE b \in BlockOf(blocks, pairs[n][2]) : TRUE)
    IN  parent[Len(pairs)]
Groups(blocks, contradicts) ==
    LET primaries == {blocks[i].primary : i \in DOMAIN blocks}
        parent == Parents(blocks, contradicts)
        members(r) == {b \in primaries : Root(parent, b) = r}
    IN  {[id |-> r, members |-> members(r)] :
            r \in {r \in primaries : Cardinality(members(r)) >= 2}}

\* One greedy pass over the blocks; an entry is as many tokens as its number.
Drop(b) == AllOf(b)
Place(c, b, budget) ==
    IF budget # Unlimited /\ c.tokens + b.primary > budget
    THEN [c EXCEPT !.dropped = @ \o Drop(b)]
    ELSE [c EXCEPT !.blocks = Append(@, b), !.tokens = @ + b.primary]
Budgeted(blocks, budget) ==
    LET placed[n \in 0 .. Len(blocks)] ==
          IF n = 0 THEN NoContext ELSE Place(placed[n - 1], blocks[n], budget)
    IN  placed[Len(blocks)]

\* Which entries have the same contents: each is like the first that is like it.
Contents == {f \in [Entry -> Entry] : \A e \in Entry : f[e] <= e /\ f[f[e]] = f[e]}
Build ==
    /\ stage = "ranked"
    /\ \E same \in Contents, contradicts \in SUBSET {p \in Entry \X Entry : p[1] # p[2]},
          budget \in Budgets :
         LET all == Consolidate(same)
             c == Budgeted(all, budget)
         IN  context' = [blocks |-> c.blocks, dropped |-> c.dropped, tokens |-> c.tokens,
                         groups |-> Groups(all, contradicts),
                         contradicts |-> contradicts, budget |-> budget, all |-> all]
    /\ stage' = "built"
    /\ UNCHANGED <<edges, truth, hits, traversal, evidence, changes, failed>>

\* Others, between two awaits: an entry goes with its node, or is deprecated, with its
\* node too.
Change(e, to) ==
    /\ stage \in {"expanding", "reading"} /\ changes < MaxChanges
    /\ e \in There /\ truth[e] # to
    /\ truth' = [truth EXCEPT ![e] = to]
    /\ changes' = changes + 1
    /\ UNCHANGED <<edges, stage, hits, traversal, evidence, context, failed>>

Next ==
    \/ \E graph \in BOOLEAN : Search(graph)
    \/ \E fails \in BOOLEAN : Expand(fails) \/ Read(fails)
    \/ Deeper \/ Rank \/ Build
    \/ \E e \in Entry, to \in {"gone", "deprecated"} : Change(e, to)
Spec == Init /\ [][Next]_vars

----------------------------------------------------------------------------
\* What is within n edges of a seed.
Within[n \in 0 .. MaxHops] ==
    IF n = 0 THEN ToSet(hits)
    ELSE Within[n - 1] \union {p[2] : p \in {q \in ToSet(edges) : q[1] \in Within[n - 1]}}
LevelDone == stage = "expanding" /\ level = <<>>

\* Undisturbed, the traversal finds what is near and how near it is: every node at its
\* distance from the nearest seed, every node of a level unless there is no room, and
\* every seed that another seed leads to (BFSTraversalStrategy.expand()).
NearestSeed ==
    ~failed /\ changes = 0 =>
        /\ stage = "expanding" =>
             \A r \in ToSet(results) :
                r.node \in ToSet(hits) \/ (/\ r.node \in Within[r.distance]
                                         /\ r.node \notin Within[r.distance - 1])
        /\ LevelDone /\ Len(results) < MaxNodes =>
             /\ Within[depth] \ ToSet(hits) \subseteq {r.node : r \in ToSet(results)}
             /\ \A p \in ToSet(edges) :
                  {p[1], p[2]} \subseteq ToSet(hits) =>
                    \E r \in ToSet(results) : r.node = p[2] /\ r.distance = 1

\* Where an entry is: at a place of a block that is kept, or of the dropped.
Held(i) == IF i = 0 THEN context.dropped ELSE AllOf(context.blocks[i])
Places(e) ==
    UNION {{i} \X {j \in DOMAIN Held(i) : Held(i)[j] = e} : i \in 0 .. Len(context.blocks)}

\* Every item of evidence is in exactly one place, and nothing else is anywhere; what is
\* kept is within the budget (build()).
EveryItemPlaced ==
    stage = "built" =>
        /\ \A e \in Entry :
             Cardinality(Places(e)) = IF e \in ToSet(evidence) THEN 1 ELSE 0
        /\ context.budget # Unlimited => context.tokens <= context.budget

\* The groups are the connected components of "contradicts" between blocks, each under
\* its least member, whatever order the contradictions are met in
\* (_group_contradictions()).
GroupsAreComponents ==
    stage = "built" =>
        LET primaries == {b.primary : b \in ToSet(context.all)}
            linked(a, b) == \E p \in Pairs(context.all, context.contradicts) :
                              p[1] = a /\ BlockOf(context.all, p[2]) = {b}
            closed == {c \in SUBSET primaries :
                         \A a \in c, b \in primaries : linked(a, b) \/ linked(b, a)
                               => b \in c}
            component(a) ==
                CHOOSE c \in closed : a \in c /\ \A d \in closed : a \in d => c \subseteq d
        IN  context.groups =
              {[id |-> Min(component(a)), members |-> component(a)] :
                 a \in {a \in primaries : component(a) # {a}}}

\* builder.py: "no contradiction is ever dropped, merged, or judged": two items that
\* contradict each other are in two blocks of one group.
ContradictionsSurvive ==
    stage = "built" =>
        \A p \in context.contradicts :
            p[1] \in ToSet(evidence) /\ p[2] \in ToSet(evidence) =>
                \E g \in context.groups, a, b \in Entry :
                    /\ a # b /\ {a, b} \subseteq g.members
                    /\ BlockOf(context.all, p[1]) = {a} /\ BlockOf(context.all, p[2]) = {b}
=============================================================================
