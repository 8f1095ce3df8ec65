--------------------------------- MODULE Planner ---------------------------------
(***************************************************************************)
(* From a goal to a compiled plan (core/cognitive/planner.py, compiler.py, *)
(* content_anchor.py): constraints, the precheck, the steps and what can   *)
(* do them, the governed compilation.  A text is a sequence of words,      *)
(* markers like "must" among them; scores are in hundredths.               *)
(***************************************************************************)
EXTENDS SequencesExt, Governance

CONSTANTS
    Word,
    Marker,        \* of {"must", "not", "should", "without", "only", "count"}
    Capability,    \* 1..n, in the order of their names
    General,       \* contracts that are general purpose
    WordsBefore, WordsAfter, \* the 20 and 60 characters around a match, in words
    MaxWords, MaxPlanSteps

VARIABLES
    stage, text,
    constraints,  \* types of the constraints found
    registry,     \* Capability -> [words, adapted]
    plan, nodes

vars == <<stage, text, constraints, registry, plan, nodes>>

Texts == BoundedSeq(Word \union Marker, MaxWords) \ {<<>>}
Registries == [Capability -> [words : SUBSET Word, adapted : BOOLEAN]]
NoPlan == [steps |-> <<>>, confidence |-> 0, general |-> FALSE, alternatives |-> 0]

Init ==
    /\ stage = "asked" /\ text \in Texts
    /\ constraints = {} /\ registry \in {[c \in Capability |-> [words |-> {}, adapted |-> FALSE]]}
    /\ plan = NoPlan /\ nodes = <<>>

----------------------------------------------------------------------------
\* _WORD_COUNT_PATTERNS and _EXPLICIT_CONSTRAINT_PATTERNS, in their order: what they
\* match, what they make of it, and whether that is hard.
Patterns == <<
    [type |-> "word_count", hard |-> TRUE, match |-> <<"count">>],
    [type |-> "negation", hard |-> TRUE, match |-> <<"must", "not">>],
    [type |-> "requirement", hard |-> TRUE, match |-> <<"must">>],
    [type |-> "soft_negation", hard |-> FALSE, match |-> <<"should", "not">>],
    [type |-> "soft_requirement", hard |-> FALSE, match |-> <<"should">>],
    [type |-> "exclusion", hard |-> TRUE, match |-> <<"without">>],
    [type |-> "scoping", hard |-> TRUE, match |-> <<"only">>]>>

Matches(t, p) ==
    {[type |-> p.type, hard |-> p.hard, from |-> i, to |-> i + Len(p.match) - 1] :
        i \in {i \in DOMAIN t : /\ i + Len(p.match) - 1 <= Len(t)
                                /\ SubSeq(t, i, i + Len(p.match) - 1) = p.match}}
Overlap(m, n) == m.from <= n.to /\ n.from <= m.to

\* _extract_explicit_constraints(): a span that is claimed is not matched again.
Explicit(t) ==
    LET found[n \in 0 .. Len(Patterns)] ==
          IF n = 0 THEN {}
          ELSE found[n - 1] \union {m \in Matches(t, Patterns[n]) :
                                      \A f \in found[n - 1] : ~Overlap(f, m)}
    IN  found[Len(Patterns)]

\* Its rationale is the text around it.
Context(t, m) ==
    ToSet(SubSeq(t, Max({1, m.from - WordsBefore}), Min({Len(t), m.to + WordsAfter})))
        \ {"must", "not", "should"}

\* _detect_contradictions()
detect_contradictions(t) ==
    \E r, n \in Explicit(t) :
        /\ r.type = "requirement" /\ n.type = "negation"
        /\ Context(t, r) \intersect Context(t, n) # {}

\* _extract_constraints(), with what is inferred, and check_precheck_rejection().
ExtractConstraints(unsure, compound) ==
    /\ stage = "asked"
    /\ constraints' = {m.type : m \in Explicit(text)}
            \union (IF unsure THEN {"low_confidence"} ELSE {})
            \union (IF compound THEN {"compound_goal"} ELSE {})
    /\ stage' = IF detect_contradictions(text) THEN "rejected_precheck" ELSE "constrained"
    /\ UNCHANGED <<text, registry, plan, nodes>>

----------------------------------------------------------------------------
\* _capability_match_score(): the words in common, of all there are.
Score(words, c) ==
    LET all == words \union registry[c].words
    IN  IF words = {} \/ registry[c].words = {} THEN 0
        ELSE (100 * Cardinality(words \intersect registry[c].words)) \div Cardinality(all)

\* discover_capabilities(), asked with a least score of 0.01: a general capability
\* needs no score and comes after every other, then the score decides, then the name.
Ahead(words, a, b) ==
    LET s == Score(words, a) t == Score(words, b)
    IN  IF (a \in General) # (b \in General) THEN b \in General
        ELSE s > t \/ (s = t /\ a < b)
Candidates(words) ==
    {c \in Capability : registry[c].adapted /\ (Score(words, c) >= 1 \/ c \in General)}
Best(words) ==
    CHOOSE c \in Candidates(words) :
        \A d \in Candidates(words) \ {c} : Ahead(words, c, d)

\* _estimate_confidence() and _is_general_purpose_only()
Confidence(steps) == Min({Score(s, Best(s)) : s \in ToSet(steps)})
GeneralOnly(steps) == \A s \in ToSet(steps) : Best(s) \in General
\* _alternative_plans(): the second candidate of a step, twice at most.
Alternatives(steps) ==
    Min({2, Len(SelectSeq(steps, LAMBDA s : Cardinality(Candidates(s)) >= 2))})

\* plan(): _decompose(), where a failed completion leaves the goal as the one step,
\* _detect_impasse(), then the plan itself.  Nobody looks at the text or at its
\* constraints again.
Decompose(steps) ==
    /\ stage = "constrained"
    /\ plan' = [NoPlan EXCEPT !.steps =
                    IF steps = <<>> THEN <<ToSet(text) \intersect Word>> ELSE steps]
    /\ stage' = "decomposed" /\ text' = <<>> /\ constraints' = {}
    /\ UNCHANGED <<registry, nodes>>
Discover(reg) ==
    /\ stage = "decomposed"
    /\ stage' = "discovered" /\ registry' = reg
    /\ UNCHANGED <<text, constraints, plan, nodes>>
MakePlan ==
    /\ stage = "discovered"
    /\ \/ /\ \E s \in ToSet(plan.steps) : Candidates(s) = {}
          /\ stage' = "impasse" /\ plan' = NoPlan
       \/ /\ \A s \in ToSet(plan.steps) : Candidates(s) # {}
          /\ stage' = "planned"
          /\ plan' = [steps |-> plan.steps,
                      confidence |-> Confidence(plan.steps),
                      general |-> GeneralOnly(plan.steps),
                      alternatives |-> Alternatives(plan.steps)]
    /\ UNCHANGED <<text, constraints, registry, nodes>>

----------------------------------------------------------------------------
\* detect_creative_content_anchors(): no judgement out of scope; half a point for each
\* content word, all of it when the choice is left to the system.
Anchor(inScope, delegated, count) ==
    IF ~inScope THEN Absent ELSE IF delegated THEN 100 ELSE Min({100, 50 * count})

\* compile(): the governed action, and the workflow of an approved plan.
NoConfidence(p, anchor, attempt) ==  \* mutant: only the anchor is sent
    [Default EXCEPT !.type = "plan_compile", !.steps = Len(p.steps), !.anchor = anchor]
CompileAction(p, anchor, attempt) ==
    [Default EXCEPT !.type = "plan_compile", !.steps = Len(p.steps), !.anchor = anchor,
                    !.confidence = p.confidence, !.general = p.general,
                    !.attempt = attempt]
Compile(anchor, attempt) ==
    /\ stage = "planned"
    /\ LET verdict == evaluate_action(CompileAction(plan, anchor, attempt))
       IN  /\ stage' = CASE verdict = "approve" -> "compiled"
                         [] verdict = "reject" -> "rejected"
                         [] OTHER -> "escalated"
           /\ nodes' = IF verdict = "approve"
                       THEN [i \in DOMAIN plan.steps |-> Best(plan.steps[i])] ELSE <<>>
    /\ UNCHANGED <<text, constraints, registry, plan>>

\* An event cannot be appended, and the call raises.
Fail ==
    /\ stage \in {"constrained", "decomposed", "compiled", "rejected", "escalated"}
    /\ stage' = "failed" /\ nodes' = <<>>
    /\ UNCHANGED <<text, constraints, registry, plan>>

Next ==
    \/ \E unsure, compound \in BOOLEAN : ExtractConstraints(unsure, compound)
    \/ \E steps \in BoundedSeq(SUBSET Word \ {{}}, MaxPlanSteps) : Decompose(steps)
    \/ \E reg \in Registries : Discover(reg)
    \/ MakePlan
    \/ \E inScope, delegated \in BOOLEAN, count \in 0 .. 1, attempt \in 0 .. 2 :
         Compile(Anchor(inScope, delegated, count), attempt)
    \/ Fail

Spec == Init /\ [][Next]_vars

----------------------------------------------------------------------------
\* What is asked for by a marker at i: the words up to the next marker, as far as they
\* are looked at.
Asked(i) ==
    {text[j] : j \in {j \in i + 1 .. Min({Len(text), i + WordsAfter}) :
                        \A k \in i + 1 .. j : text[k] \in Word}}
MustNot(i) == i < Len(text) /\ text[i] = "must" /\ text[i + 1] = "not"
Must(i) == text[i] = "must" /\ ~MustNot(i)
Required == UNION {Asked(i) : i \in {i \in DOMAIN text : Must(i)}}
RuledOut == UNION {Asked(i + 1) : i \in {i \in DOMAIN text : MustNot(i)}}
Rejected == stage = "rejected_precheck"

\* A goal that asks for a word and rules out the same word is stopped before planning,
\* and one is stopped only when it both asks and rules out: a "must not" alone is no
\* "must" as well (_extract_explicit_constraints()).
PrecheckIsRight ==
    /\ stage = "constrained" => Required \intersect RuledOut = {}
    /\ Rejected => \E i, j \in DOMAIN text : MustNot(i) /\ Must(j)

\* A step is given to a general capability only when no specific one that can run
\* shares a hundredth of the words with it, and every node has an adapter
\* (discover_capabilities()).
SpecificFirst ==
    \A i \in DOMAIN nodes :
        /\ registry[nodes[i]].adapted
        /\ nodes[i] \in General =>
             \A c \in Capability \ General :
                 LET words == registry[c].words
                     shared == words \intersect plan.steps[i]
                 IN  registry[c].adapted /\ shared # {} =>
                       100 * Cardinality(shared) < Cardinality(words \union plan.steps[i])

\* What is compiled covers half of the words of every step, unless all of the plan is
\* for a general capability, in which nothing specific was there to be unsure of.
CompiledIsSure ==
    nodes # <<>> =>
        \/ \A i \in DOMAIN nodes : nodes[i] \in General
        \/ \A i \in DOMAIN nodes :
             2 * Cardinality(plan.steps[i] \intersect registry[nodes[i]].words)
                 >= Cardinality(plan.steps[i])
=============================================================================
