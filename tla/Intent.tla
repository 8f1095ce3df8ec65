--------------------------------- MODULE Intent ---------------------------------
(***************************************************************************)
(* From a request to its goals (core/cognitive/intent.py).  A text is a    *)
(* sequence of words, some of which separate the parts of a compound       *)
(* request; a label is the set of its words.  The model's completion and   *)
(* the retrieved blocks are whatever they are.  Scores are in hundredths.  *)
(***************************************************************************)
EXTENDS Integers, Sequences, FiniteSets, SequencesExt

CONSTANTS
    Word, Separator,   \* "then", "also", ...
    Forbidden,         \* words of an injection pattern
    Scores,            \* that a completion may give
    MAX_HYPOTHESES, MaxWords, MaxBlocks, MaxCandidates

Uncited == -1
FromRequest == 0  \* sources: the request, or the number of a block
PENALTY == 10     \* _SCHEMA_VALIDATION_PENALTY

VARIABLES
    stage, text,
    blocks,      \* the retrieved context
    hypotheses, selected, goals

vars == <<stage, text, blocks, hypotheses, selected, goals>>

Texts == BoundedSeq(Word \union Separator \union Forbidden, MaxWords)
Candidates ==
    [label : SUBSET Word \ {{}}, score : Scores, source : Uncited .. MaxBlocks]
Novel == [label |-> {}, score |-> 10, source |-> Uncited]

Init ==
    /\ stage = "asked" /\ text \in Texts
    /\ blocks = <<>> /\ hypotheses = <<>> /\ selected = Novel /\ goals = <<>>

\* normalize_request()
Rejected(t) == t = <<>> \/ ToSet(t) \intersect Forbidden # {}
normalize_request ==
    /\ stage = "asked"
    /\ stage' = IF Rejected(text) THEN "rejected" ELSE "normalized"
    /\ UNCHANGED <<text, blocks, hypotheses, selected, goals>>

\* generate_hypotheses(): the context first, none when assembling it fails.
Assemble ==
    /\ stage = "normalized"
    /\ blocks' \in BoundedSeq(SUBSET Word, MaxBlocks)
    /\ stage' = "assembled"
    /\ UNCHANGED <<text, hypotheses, selected, goals>>

\* _apply_output_containment(): the longest beginning that is short enough and ranked.
Ranked(hs) == \A i \in 1 .. Len(hs) - 1 : hs[i + 1].score <= hs[i].score
Contained(hs) ==
    LET good == {n \in 0 .. Len(hs) : n <= MAX_HYPOTHESES /\ Ranked(SubSeq(hs, 1, n))}
    IN  SubSeq(hs, 1, CHOOSE n \in good : \A m \in good : m <= n)

\* _check_source_grounding()
SourceVerified(h) ==
    h.source = FromRequest \/ (h.source > 0 /\ h.source <= Len(blocks))
ContentGrounded(h) ==
    /\ SourceVerified(h)
    /\ h.label \intersect
         (IF h.source = FromRequest THEN ToSet(text) ELSE blocks[h.source]) # {}

\* The completion, or its failure; with nothing left the request is novel.
Complete ==
    /\ stage = "assembled"
    /\ \E completion \in BoundedSeq(Candidates, MaxCandidates) :
         hypotheses' = IF completion = <<>> THEN <<Novel>> ELSE Contained(completion)
    /\ stage' = "hypothesized"
    /\ UNCHANGED <<text, blocks, selected, goals>>

\* _select_hypothesis(): the first of the best that cite the request and share a word.
AnyCitation(h) ==  \* mutant: a block is as good a source as the request
    SourceVerified(h) /\ ContentGrounded(h)
Eligible(h) == h.source = FromRequest /\ SourceVerified(h) /\ ContentGrounded(h)
select_hypothesis(hs) ==
    LET eligible == {i \in DOMAIN hs : Eligible(hs[i])}
        Best(i) == \A j \in eligible :
            /\ hs[j].score <= hs[i].score
            /\ j < i => hs[j].score < hs[i].score
    IN  IF eligible = {} THEN Novel ELSE hs[CHOOSE i \in eligible : Best(i)]
Interpret ==
    /\ stage = "hypothesized"
    /\ selected' = select_hypothesis(hypotheses)
    /\ stage' = "interpreted"
    /\ UNCHANGED <<text, blocks, hypotheses, goals>>

\* _split_compound_goals(): the runs of words between separators, each at the place in
\* the text where it begins.
Unbroken(t, i, j) == \A k \in i .. j : t[k] \notin Separator
Starts(t) == {i \in DOMAIN t : t[i] \notin Separator /\ (i = 1 \/ t[i - 1] \in Separator)}
End(t, i) ==
    CHOOSE j \in i .. Len(t) : Unbroken(t, i, j) /\ (j = Len(t) \/ t[j + 1] \in Separator)
split_compound_goals(t) ==
    IF \E i, j \in Starts(t) : i # j THEN [i \in Starts(t) |-> SubSeq(t, i, End(t, i))]
    ELSE [i \in {1} |-> t]

\* form_goals(): no schema is known, so each goal is a draft and pays the penalty; the
\* alternatives are the other labels.
form_goals(t, hs, chosen) ==
    LET parts == split_compound_goals(t)
    IN  [n \in DOMAIN parts |->
            [description |-> parts[n],
             semantic |-> ToSet(parts[n]) \union chosen.label,
             confidence |-> IF chosen.score < PENALTY THEN 0 ELSE chosen.score - PENALTY,
             siblings |-> DOMAIN parts \ {n},
             alternatives |-> {h.label : h \in ToSet(hs)} \ {chosen.label}]]
FormGoals ==
    /\ stage = "interpreted"
    /\ goals' = form_goals(text, hypotheses, selected)
    /\ stage' = "formed"
    /\ UNCHANGED <<text, blocks, hypotheses, selected>>

\* interpret_request(): the append of an event fails and everything with it.
Fail ==
    /\ stage \in {"hypothesized", "interpreted", "formed"}
    /\ stage' = "failed"
    /\ goals' = <<>>
    /\ UNCHANGED <<text, blocks, hypotheses, selected>>

Next ==
    \/ normalize_request
    \/ Assemble
    \/ Complete
    \/ Interpret
    \/ FormGoals
    \/ Fail

Spec == Init /\ [][Next]_vars

----------------------------------------------------------------------------
\* What is selected comes from the request, whatever the context says: it shares a word
\* with it, and no better such hypothesis was passed over (_select_hypothesis()).
MeantByRequest ==
    stage \in {"interpreted", "formed"} =>
        /\ selected = Novel \/ selected.label \intersect ToSet(text) # {}
        /\ \A h \in ToSet(hypotheses) :
             h.source = FromRequest /\ h.label \intersect ToSet(text) # {}
                => h.score <= selected.score

\* Every word of the request is in a goal, and no goal mixes the parts that a separator
\* keeps apart (_split_compound_goals()).
EveryPartIsAGoal ==
    stage = "formed" =>
        /\ ToSet(text) \ Separator
             \subseteq UNION {ToSet(goals[n].description) : n \in DOMAIN goals}
        /\ \A n \in DOMAIN goals :
             goals[n].siblings # {} => ToSet(goals[n].description) \intersect Separator = {}
=============================================================================
