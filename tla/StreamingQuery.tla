----------------------------- MODULE StreamingQuery -----------------------------
(***************************************************************************)
(* A query answered as a stream (interface/api.py, _stream_response()): it *)
(* is classified, split into tasks, and, when there is one task, answered  *)
(* by its module directly, without the orchestrator; otherwise the         *)
(* orchestrator's answer is sent in pieces.  Beside it, the dispatcher     *)
(* that runs such tasks in rounds, which nothing in src/ starts.           *)
(* Confidences are in hundredths.                                          *)
(***************************************************************************)
EXTENDS Integers, Sequences, FiniteSets, SequencesExt, FiniteSetsExt

CONSTANTS
    Module,             \* configured modules
    Coding, WebSearch,  \* a module that needs another's output, and that one
    Fallback,          \* the fallback
    KeywordHits,        \* keyword hits a module may have
    Guesses,            \* confidences the classifying model may give
    MaxPieces           \* bound: tokens of an answer

FastPath == 75
Accepted == 60

VARIABLES
    hits, boosted, guess, sequential,  \* the query, as the classifier sees it
    labels,    \* the modules it is routed to, the best first
    needs,     \* the dependencies of each label's task
    finished,  \* the dispatcher's completed tasks
    pc,
    node,      \* the status of the graph's node for the response
    collected, \* tokens so far
    done,      \* [DONE] was sent
    saved      \* what was saved to the context, a length

vars == <<hits, boosted, guess, sequential, labels, needs, finished, pc, node,
          collected, done, saved>>
query == <<hits, boosted, guess, sequential>>
response == <<pc, node, collected, done, saved>>

Unsaved == -1
Init ==
    /\ hits = [m \in Module |-> 0] /\ guess = [m \in Module |-> 0]
    /\ boosted = {} /\ sequential = FALSE
    /\ labels = <<>> /\ needs = <<>> /\ finished = {}
    /\ pc = "asked" /\ node = "PENDING" /\ collected = 0
    /\ done = FALSE /\ saved = Unsaved

-----------------------------------------------------------------------------
\* classifier.label()

AtMost(n, most) == IF n > most THEN most ELSE n
AtLeast(n, least) == IF n < least THEN least ELSE n

\* Keywords, and a boost for a module the scope has used lately.
Keyword(m) ==
    IF hits'[m] = 0 THEN 0
    ELSE AtMost(AtMost(40 + 15 * hits'[m], 85) + (IF m \in boosted' THEN 10 ELSE 0), 100)
Fast == \E m \in Module : Keyword(m) >= FastPath
\* The model is asked when no keyword decides; an error of it guesses nothing.
Score(m) == IF Fast THEN Keyword(m) ELSE AtLeast(Keyword(m), guess'[m])

\* _build_labels(): in any order of equal confidences.
Confident == {m \in Module : Score(m) >= Accepted}
Labelled(s) ==
    /\ ToSet(s) = Confident
    /\ \A i, j \in DOMAIN s : i < j => Score(s[i]) >= Score(s[j])
Routed(s) ==
    IF Confident = {} THEN s = <<Fallback>>
    ELSE s \in SetToSeqs(Confident) /\ Labelled(s)

\* decomposer.build(): the task before, or the web search a coding task needs.
SelfDeps(s, i) ==  \* mutant: off by one, a task depends on itself
    IF sequential' THEN {i}
    ELSE {j \in DOMAIN s : s[i] = Coding /\ s[j] = WebSearch}
Deps(s, i) ==
    IF sequential' THEN {i - 1} \ {0}
    ELSE {j \in DOMAIN s : s[i] = Coding /\ s[j] = WebSearch}

Classify ==
    /\ pc = "asked"
    /\ hits' \in [Module -> KeywordHits] /\ guess' \in [Module -> Guesses]
    /\ boosted' \in SUBSET Module /\ sequential' \in BOOLEAN
    /\ \E s \in SetToSeqs(Confident) \union {<<Fallback>>} :
         /\ Routed(s)
         /\ labels' = s
         /\ needs' = [i \in DOMAIN s |-> Deps(s, i)]
         /\ pc' = IF Len(s) = 1 THEN "single" ELSE "multi"
    /\ node' = "RUNNING"
    /\ UNCHANGED <<finished, collected, done, saved>>

\* A confidence that is no number raises out of the classifier, and out of the
\* response: the client is told nothing.
ClassifyFails ==
    /\ pc = "asked"
    /\ pc' = "broken" /\ node' = "RUNNING"
    /\ UNCHANGED <<query, labels, needs, finished, collected, done, saved>>

-----------------------------------------------------------------------------
\* dispatcher.run(): rounds of the tasks whose dependencies are completed; a
\* task that raises is completed with an error.  No task ready ends it.
Ready == {i \in DOMAIN needs \ finished : needs[i] \subseteq finished}
Round ==
    /\ Ready # {}
    /\ finished' = finished \union Ready
    /\ UNCHANGED <<query, labels, needs, response>>

-----------------------------------------------------------------------------
\* The response

Token ==
    /\ pc \in {"single", "sending"}
    /\ collected < MaxPieces /\ collected' = collected + 1
    /\ UNCHANGED <<query, labels, needs, finished, pc, node, done, saved>>

\* The model is through: the node is completed, then the event is appended.
Answered ==
    /\ pc = "single"
    /\ node' = "COMPLETED" /\ pc' = "announcing"
    /\ UNCHANGED <<query, labels, needs, finished, collected, done, saved>>
Announced ==
    /\ pc = "announcing" /\ pc' = "closing"
    /\ UNCHANGED <<query, labels, needs, finished, node, collected, done, saved>>

\* The stream raised, or the append did: the node is failed and an error sent.
Raised ==
    /\ pc \in {"single", "announcing"}
    /\ node' = "FAILED"
    /\ pc' \in {"closing", "broken"}
    /\ UNCHANGED <<query, labels, needs, finished, collected, done, saved>>

\* More than one task: the orchestrator's answer, or its exception.
Orchestrated ==
    /\ pc = "multi"
    /\ \/ node' = "COMPLETED" /\ pc' \in {"sending", "broken"}
       \/ node' = "FAILED" /\ pc' = "closing"
    /\ UNCHANGED <<query, labels, needs, finished, collected, done, saved>>
PiecesEnd ==
    /\ pc = "sending" /\ pc' = "closing"
    /\ UNCHANGED <<query, labels, needs, finished, node, collected, done, saved>>

\* [DONE]; then a task of its own saves what a single module has answered.
Close ==
    /\ pc = "closing" /\ done' = TRUE
    /\ pc' = IF Len(needs) = 1 THEN "saving" ELSE "over"
    /\ UNCHANGED <<query, labels, needs, finished, node, collected, saved>>
SaveContext ==
    /\ pc = "saving" /\ pc' = "over"
    /\ saved' \in {collected, Unsaved}
    /\ UNCHANGED <<query, labels, needs, finished, node, collected, done>>

\* The client goes away while the response waits to send.
Disconnect ==
    /\ pc \in {"single", "sending", "closing"}
    /\ pc' = "left"
    /\ UNCHANGED <<query, labels, needs, finished, node, collected, done, saved>>

Next ==
    \/ Classify \/ ClassifyFails \/ Round
    \/ Token \/ Answered \/ Announced \/ Raised
    \/ Orchestrated \/ PiecesEnd
    \/ Close \/ SaveContext \/ Disconnect
Spec == Init /\ [][Next]_vars

-----------------------------------------------------------------------------
TypeOK ==
    /\ hits \in [Module -> KeywordHits \union {0}] /\ guess \in [Module -> Guesses \union {0}]
    /\ boosted \subseteq Module /\ sequential \in BOOLEAN
    /\ ToSet(labels) \subseteq Module /\ Len(needs) = Len(labels)
    /\ pc \in {"asked", "single", "multi", "announcing", "sending", "closing", "saving",
               "over", "left", "broken"}
    /\ (pc \notin {"asked", "broken"} => labels # <<>>)
    /\ node \in {"PENDING", "RUNNING", "COMPLETED", "FAILED"}
    /\ collected \in 0..MaxPieces
    /\ finished \subseteq DOMAIN needs
    /\ done \in BOOLEAN /\ saved \in -1..MaxPieces

\* Whatever the classifier decides, the dispatcher is never left with tasks
\* that wait for each other, which it would drop (dispatcher.py:46).
NoTaskDropped == finished # DOMAIN needs => Ready # {}

\* A client that was told the response is over, and the graph, agree that it
\* is: the node the client may look up is settled by then.
DoneIsSettled == done => node \in {"COMPLETED", "FAILED"}
=============================================================================
