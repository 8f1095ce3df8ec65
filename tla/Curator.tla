--------------------------------- MODULE Curator ---------------------------------
(***************************************************************************)
(* The memory curator (core/workers/curator.py): one sweep prunes what is  *)
(* stale, strengthens what is read often and resolves the contradictions   *)
(* of the graph, each from a list it fetched before.  Between two of its   *)
(* awaits others read, update and delete entries.  Entries are numbered in *)
(* the order of their names; scores are in hundredths.                     *)
(***************************************************************************)
EXTENDS Integers, FiniteSets, FiniteSetsExt

CONSTANTS
    Entry,       \* 1..n
    Episodic,    \* entries of l1; the others are of l2
    Old,         \* entries older than stale_age_days
    Faint,       \* entries of little importance, at first
    StrengthenAt,  \* strengthen_access_threshold, 5
    SparedAt,    \* 2: reads that keep an entry from being pruned
    Confidences, Created,  \* values of an entry; created_at is in seconds
    MaxAccess, MaxTouches, MaxSweeps  \* bounds of the model

BOOST == 10
CAP == 95
PRUNE_BELOW == 10

VARIABLES
    row,       \* Entry -> its row, or Gone
    edges,     \* contradicts edges of the graph
    phase, work,
    sweeps, touched

vars == <<row, edges, phase, work, sweeps, touched>>

Gone == [there |-> FALSE]

\* The graph can hold a pair both ways or one way only; a contradiction is both.
Init ==
    /\ \E confidence \in [Entry -> Confidences], created \in [Entry -> Created] :
         row = [e \in Entry |-> [there |-> TRUE, accesses |-> 0,
                                 importance |-> IF e \in Faint THEN 5 ELSE 90,
                                 confidence |-> confidence[e],
                                 created |-> created[e], deprecated |-> FALSE]]
    /\ edges \in {e \in SUBSET (Entry \X Entry) : \A p \in e : p[1] # p[2]}
    /\ phase = "idle" /\ work = {}
    /\ sweeps = 0 /\ touched = 0

There == {e \in Entry : row[e].there}
Accessed(r) == IF r.accesses < MaxAccess THEN [r EXCEPT !.accesses = @ + 1] ELSE r

\* get_layer() leaves the deprecated out.
Layer(entries) == {[id |-> e, as |-> row[e]] : e \in {f \in entries \intersect There :
                                                       ~row[f].deprecated}}

\* find_contradictions(): each pair once, the smaller name first.
BothWays ==  \* mutant: a pair is found from both its ends
    {p \in edges : <<p[2], p[1]>> \in edges}
find_contradictions ==
    {p \in edges : <<p[2], p[1]>> \in edges /\ p[1] < p[2]}

\* _run(): the next phase begins with the list it works on, or without one when
\* fetching it fails.
Begin ==
    /\ phase = "idle" /\ sweeps < MaxSweeps
    /\ sweeps' = sweeps + 1
    /\ phase' = "prune"
    /\ work' \in {Layer(Episodic), {}}
    /\ UNCHANGED <<row, edges, touched>>
NextPhase ==
    /\ work = {}
    /\ CASE phase = "prune" ->
              phase' = "strengthen" /\ work' \in {Layer(Episodic), {}}
         [] phase = "strengthen" ->  \* its second list
              phase' = "strengthen more" /\ work' \in {Layer(Entry \ Episodic), {}}
         [] phase = "strengthen more" ->
              phase' = "resolve" /\ work' \in {find_contradictions, {}}
         [] phase = "resolve" ->
              phase' = "idle" /\ work' = {}
         [] OTHER -> FALSE
    /\ UNCHANGED <<row, edges, sweeps, touched>>
Cancel ==
    /\ phase # "idle"
    /\ phase' = "idle" /\ work' = {}
    /\ UNCHANGED <<row, edges, sweeps, touched>>

\* prune_stale(), of one entry as it was when the list was fetched.  The node and
\* its edges go with the entry.
Stale(e, r) == e \in Old /\ r.importance < PRUNE_BELOW /\ r.accesses < SparedAt
Removed(e) ==
    /\ row' = [row EXCEPT ![e] = Gone]
    /\ edges' = {p \in edges : e \notin {p[1], p[2]}}
Prune ==
    /\ phase = "prune"
    /\ \E item \in work :
         /\ work' = work \ {item}
         /\ \/ Stale(item.id, item.as) /\ Removed(item.id)
            \/ UNCHANGED <<row, edges>>  \* not stale, or the deletion fails
    /\ UNCHANGED <<phase, sweeps, touched>>

\* strengthen_high_access(): what is written comes from the list.
Strengthen ==
    /\ phase \in {"strengthen", "strengthen more"}
    /\ \E item \in work :
         /\ work' = work \ {item}
         /\ \/ /\ item.as.accesses >= StrengthenAt /\ item.as.importance < CAP
               /\ row[item.id].there
               /\ row' = [row EXCEPT ![item.id].importance =
                            Min({CAP, item.as.importance + BOOST})]
            \/ UNCHANGED row
    /\ UNCHANGED <<edges, phase, sweeps, touched>>

\* resolve_contradictions(), of the first pair left: confidence + 0.001 * created_at,
\* a tie goes to the first.  Reading them counts as an access of each.
Score(e) == 10 * row[e].confidence + row[e].created
FirstPair == CHOOSE p \in work : \A q \in work : p[1] < q[1] \/ (p[1] = q[1] /\ p[2] <= q[2])
Resolve ==
    /\ phase = "resolve" /\ work # {}
    /\ LET p == FirstPair
           winner == IF Score(p[1]) >= Score(p[2]) THEN p[1] ELSE p[2]
           loser == IF winner = p[1] THEN p[2] ELSE p[1]
       IN  /\ work' = work \ {p}
           /\ \/ /\ {p[1], p[2]} \subseteq There
                 /\ row' = [e \in Entry |->
                      IF e = loser THEN [Accessed(row[e]) EXCEPT !.deprecated = TRUE]
                      ELSE IF e = winner THEN Accessed(row[e]) ELSE row[e]]
              \/ UNCHANGED row  \* one is gone, or the update fails
    /\ UNCHANGED <<edges, phase, sweeps, touched>>

\* Others: a read, an update of the confidence, a deletion.
Access(e) ==
    /\ e \in There
    /\ row' = [row EXCEPT ![e] = Accessed(@)]
    /\ UNCHANGED <<edges, phase, work, sweeps, touched>>
Touch(e, confidence) ==
    /\ e \in There /\ touched < MaxTouches
    /\ touched' = touched + 1
    /\ \/ row' = [row EXCEPT ![e].confidence = confidence] /\ UNCHANGED edges
       \/ Removed(e)
    /\ UNCHANGED <<phase, work, sweeps>>

Next ==
    \/ Begin \/ NextPhase \/ Cancel
    \/ Prune \/ Strengthen \/ Resolve
    \/ \E e \in Entry : Access(e)
    \/ \E e \in Entry, confidence \in Confidences : Touch(e, confidence)

Spec == Init /\ [][Next]_vars

----------------------------------------------------------------------------
\* While nobody changes or deletes an entry, resolving never deprecates every entry
\* that is left: of those that contradict each other the best is kept, sweep after
\* sweep (resolve_contradictions()).
OneIsKept ==
    touched = 0 /\ There = Entry => \E e \in Entry : ~row[e].deprecated
=============================================================================
