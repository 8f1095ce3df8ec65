-------------------------------- MODULE Learning --------------------------------
(***************************************************************************)
(* Learning through the validation gate (core/cognitive/learning.py): what *)
(* it looks up before it promotes a claim, what it writes, and what is     *)
(* read back of the user model (user_model.py).  A claim is the content    *)
(* words of an entry and whether it holds a negation.  The text index      *)
(* wants every word of the query, and the other index lives in the         *)
(* process and holds the entries of two layers.                            *)
(***************************************************************************)
EXTENDS Integers, FiniteSets, Governance

CONSTANTS
    Gate,         \* concurrent callers of validation_gate()
    Domain,       \* of ContentDomain.ALL
    Tier,         \* of LearningTier.ALL
    Word,         \* content words
    SearchLimit,  \* 5: results the contradiction check looks at
    MaxEntries,   \* 5000: of the memory governor
    MaxWrites, MaxMishaps  \* bounds of the model

VARIABLES
    table,    \* rows, each with the number of its write
    indexed,  \* rows in the index of this process
    count,    \* _write_count
    made,     \* rows written so far
    gates,    \* Gate -> the call
    mishaps   \* restarts and failed searches so far

vars == <<table, indexed, count, made, gates, mishaps>>

Claim == [words : SUBSET Word \ {{}}, negated : BOOLEAN]
Over == {"idle", "promoted", "rejected", "gated"}
Done(outcome) == [at |-> outcome]

Init ==
    /\ table = {} /\ indexed = {} /\ count = 0 /\ made = 0
    /\ gates = [g \in Gate |-> Done("idle")]
    /\ mishaps = 0

\* _is_textual_contradiction()
Contradict(a, b) == a.negated # b.negated /\ a.words \intersect b.words # {}

\* search_text(): every word of the query is in the row, the negation too.
TextHit(claim, row) ==
    /\ claim.words \subseteq row.claim.words
    /\ claim.negated => row.claim.negated

\* memory.search(): what either index finds; one that fails finds nothing, and
\* the search does not.
Hits(claim, failed) ==
    {row \in table :
        \/ "vector" \notin failed /\ row.id \in indexed
        \/ "text" \notin failed /\ TextHit(claim, row)}
search(claim, failed) ==
    LET hits == Hits(claim, failed)
    IN  IF Cardinality(hits) <= SearchLimit THEN {hits} ELSE kSubset(SearchLimit, hits)

\* _find_contradiction()
OpponentsAmongCandidates(domain, claim, results) ==  \* mutant: the wrong status
    {row \in results :
        row.truth = "candidate" /\ row.domain = domain /\ Contradict(claim, row.claim)}
find_contradiction(domain, claim, results) ==
    {row \in results :
        row.truth = "verified" /\ row.domain = domain /\ Contradict(claim, row.claim)}

\* LayerRouter.route(), of the content types that are domains.
route(domain, low) ==
    CASE domain = "user_model" -> "l3"
      [] domain = "skill" -> "l2"
      [] OTHER -> IF low THEN "l0" ELSE "l1"

\* memory.write() asks the memory governor first.
Admitted ==
    Evaluate([Default EXCEPT !.type = "memory_write", !.entry = 100, !.count = count],
             MaxEntries) = "approve"
Written(call) == IF Admitted THEN "writing" ELSE "announcing"

\* What an evolution is called, and what the kernel says of it.
ActionType(domain, isNew) ==
    CASE domain = "user_model" -> IF isNew THEN "user_model_propose" ELSE "user_model_promote"
      [] domain = "skill" -> "skill_promote"
      [] OTHER -> "intent_ontology_promote"
EvolutionAction(call, isNew) ==
    [Default EXCEPT !.type = ActionType(call.domain, isNew), !.approval = ~call.approved]
Verdict(call, isNew) ==
    IF ActionType(call.domain, isNew) \notin SELF_MODIFYING_ACTIONS THEN "reject"
    ELSE Evaluate(EvolutionAction(call, isNew), MaxEntries)

\* The call begins.  Learning writes at once; the others need a held-out score
\* strictly above the baseline, or above the floor without one.
Submit(g, tier, domain, claim, improves, approved, low) ==
    /\ gates[g].at \in Over
    /\ low => domain = "intent_ontology"
    /\ approved => tier = "evolution"
    /\ LET call == [at |-> "checking", tier |-> tier, domain |-> domain, claim |-> claim,
                    approved |-> approved, low |-> low, blind |-> FALSE, id |-> 0]
       IN  gates' = [gates EXCEPT ![g] =
                IF tier = "learning" THEN [call EXCEPT !.at = Written(call)]
                ELSE IF ~improves THEN Done("rejected")
                ELSE call]
    /\ UNCHANGED <<table, indexed, count, made, mishaps>>

\* History: a check is blind when another call of the domain is on its way, the
\* search lost a part or an end, or a verified row is in no index that finds it.
InFlight(g, domain) ==
    \E h \in Gate \ {g} : gates[h].at \notin Over /\ gates[h].domain = domain
Blind(g, call, failed) ==
    \/ InFlight(g, call.domain)
    \/ failed # {}
    \/ Cardinality(Hits(call.claim, failed)) > SearchLimit
    \/ \E row \in table : row.domain = call.domain /\ row.id \notin indexed

\* The contradiction check and, in the same step, the verdict and the admission.
Check(g, isNew, failed) ==
    LET call == [gates[g] EXCEPT !.blind = Blind(g, gates[g], failed)]
    IN  /\ gates[g].at = "checking"
        /\ failed # {} => mishaps < MaxMishaps
        /\ mishaps' = IF failed = {} THEN mishaps ELSE mishaps + 1
        /\ \E results \in search(call.claim, failed) :
             gates' = [gates EXCEPT ![g] =
                IF find_contradiction(call.domain, call.claim, results) # {}
                  THEN Done("rejected")
                ELSE IF call.tier = "adaptation" THEN [call EXCEPT !.at = Written(call)]
                ELSE CASE Verdict(call, isNew) = "escalate" -> Done("gated")
                       [] Verdict(call, isNew) = "reject" -> Done("rejected")
                       [] OTHER -> [call EXCEPT !.at = Written(call)]]
        /\ UNCHANGED <<table, indexed, count, made>>

Truth(tier) ==
    CASE tier = "learning" -> "unknown"
      [] tier = "adaptation" -> "candidate"
      [] tier = "evolution" -> "verified"

\* memory.write(): the row, then the index of the semantic layers.  An entry of
\* l0 is kept in the working memory only, where no search looks.
Row(g) ==
    /\ gates[g].at = "writing" /\ made < MaxWrites
    /\ made' = made + 1
    /\ LET call == gates[g]
           layer == route(call.domain, call.low)
       IN  /\ table' = IF layer = "l0" THEN table
                       ELSE table \union {[id |-> made + 1, layer |-> layer,
                                           domain |-> call.domain, claim |-> call.claim,
                                           truth |-> Truth(call.tier),
                                           approved |-> call.approved,
                                           blind |-> call.blind]}
           /\ gates' = [gates EXCEPT ![g] = [call EXCEPT !.at = "indexing", !.id = made + 1]]
    /\ UNCHANGED <<indexed, count, mishaps>>
Index(g) ==
    /\ gates[g].at = "indexing"
    /\ indexed' = IF route(gates[g].domain, gates[g].low) \in {"l2", "l3"}
                  THEN indexed \union {gates[g].id} ELSE indexed
    /\ count' = count + 1
    /\ gates' = [gates EXCEPT ![g].at = "announcing"]
    /\ UNCHANGED <<table, made, mishaps>>
\* The event, if there is one; the record says PROMOTED, and names what was
\* written or nothing.
Announce(g) ==
    /\ gates[g].at = "announcing"
    /\ gates' = [gates EXCEPT ![g] = Done("promoted")]
    /\ UNCHANGED <<table, indexed, count, made, mishaps>>

\* delete_user_model_entry(), and memory.delete() of the others.
Delete(row) ==
    /\ indexed' = indexed \ {row.id}
    /\ table' = table \ {row}
    /\ UNCHANGED <<count, made, gates, mishaps>>

Restart ==
    /\ mishaps < MaxMishaps
    /\ mishaps' = mishaps + 1
    /\ indexed' = {} /\ count' = 0
    /\ gates' = [g \in Gate |-> Done("idle")]
    /\ UNCHANGED <<table, made>>

Next ==
    \/ \E g \in Gate :
         \/ \E tier \in Tier, domain \in Domain,
               claim \in Claim, improves, approved, low \in BOOLEAN :
                 Submit(g, tier, domain, claim, improves, approved, low)
         \/ \E isNew \in BOOLEAN, failed \in SUBSET {"vector", "text"} :
                 Check(g, isNew, failed)
         \/ Row(g) \/ Index(g) \/ Announce(g)
    \/ \E row \in table : Delete(row)
    \/ Restart

Spec == Init /\ [][Next]_vars

----------------------------------------------------------------------------
Verified == {row \in table : row.truth = "verified"}

\* Two verified entries of one domain contradict each other only when one of them was
\* checked blindly (_find_contradiction()).
VerifiedAgree ==
    \A a, b \in Verified :
        a.domain = b.domain /\ Contradict(a.claim, b.claim) => a.blind \/ b.blind

\* What is verified, a person approved: the gate's names for an evolution are the ones
\* the kernel stops.
VerifiedIsApproved == \A row \in Verified : row.approved

\* learning.py: "Return the entry_id of a contradicting verified entry in the same
\* content_domain": gates that do not overlap, in one process whose searches work,
\* never verify two claims that contradict each other.
ContradictionsAreFound ==
    \A a, b \in Verified :
        a.domain = b.domain /\ a.id # b.id => ~Contradict(a.claim, b.claim)
=============================================================================
