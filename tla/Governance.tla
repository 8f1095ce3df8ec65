------------------------------- MODULE Governance -------------------------------
(***************************************************************************)
(* The governance kernel (core/governance/): what it says of an action.    *)
(* An action is what its caller built; every field it may leave out is     *)
(* Absent by default.  Scores are in hundredths.                           *)
(***************************************************************************)
EXTENDS Integers, Sequences, FiniteSetsExt

Absent == -1

\* GovernanceAction, as built by a caller that sets nothing.
Default == [
    type |-> "", depth |-> 0, cost |-> 0, approval |-> FALSE, listed |-> FALSE,
    steps |-> Absent, tokens |-> Absent,
    anchor |-> Absent, confidence |-> Absent, general |-> FALSE, attempt |-> 0,
    worker |-> "", delegator |-> "",
    entry |-> Absent, blank |-> FALSE, count |-> Absent]

MaxDepth == 10
MaxSteps == 100
MaxTokens == 1000000
MaxCost == 10000
Threshold == 50         \* of an anchor's score and of a confidence
MaxEscalations == 2
QualityThreshold == 60  \* of the confidence of a memory entry

SELF_MODIFYING_ACTIONS == {
    "memory_curate", "skill_create", "skill_promote", "memory_derive", "memory_prune",
    "memory_merge", "intent_ontology_promote", "user_model_propose",
    "user_model_promote"}

\* Constructed with their defaults: no worker is denied and nobody's delegation limited.
Denied == {}
MayDelegate(from, to) == TRUE

RejectIf(bad) == IF bad THEN "reject" ELSE "approve"

Recursion(a) == RejectIf(a.depth > MaxDepth)
Budget(a) == RejectIf(a.steps > MaxSteps \/ a.tokens > MaxTokens)
Evolution(a) ==
    IF a.type \in SELF_MODIFYING_ACTIONS /\ a.approval THEN "escalate" ELSE "approve"

\* Content anchors come before the confidence, and know no last attempt.
LosesContent(a) == a.anchor # Absent /\ a.anchor < Threshold
Unsure(a) == a.confidence # Absent /\ ~a.general /\ a.confidence < Threshold
Orchestration(a) ==
    IF LosesContent(a) THEN "escalate"
    ELSE IF Unsure(a) /\ a.attempt < MaxEscalations THEN "escalate"
    ELSE RejectIf(Unsure(a) \/ a.worker \in Denied)

Agent(a) ==
    RejectIf(\/ a.cost > MaxCost
             \/ /\ a.delegator # "" /\ a.worker # ""
                /\ ~MayDelegate(a.delegator, a.worker))
Guardrails(a) == RejectIf(a.listed)

\* validate_ingestion() and check_growth_limits().
Memory(a, maxEntries) ==
    RejectIf(/\ a.type = "memory_write"
             /\ a.entry # Absent
             /\ \/ a.entry < QualityThreshold
                \/ a.blank
                \/ a.count # Absent /\ a.count >= maxEntries)

\* evaluate_action(): the first governor that does not approve decides.
Evaluate(a, maxEntries) ==
    LET verdicts == <<Recursion(a), Budget(a), Evolution(a), Orchestration(a),
                      Agent(a), Guardrails(a), Memory(a, maxEntries)>>
        firm == {i \in DOMAIN verdicts : verdicts[i] # "approve"}
    IN  IF firm = {} THEN "approve" ELSE verdicts[Min(firm)]

\* The process-wide kernel counts entries against 5000.
evaluate_action(a) == Evaluate(a, 5000)
=============================================================================
