-------------------------------- MODULE GapQueue --------------------------------
(***************************************************************************)
(* The gaps of one module: topics it answers weakly are detected from the  *)
(* saved interactions, queued in a file and distilled into training pairs  *)
(* (learning/gap_detector.py, learning/distiller.py and the two jobs of    *)
(* learning/scheduler.py).  The detection and the distillation are jobs of *)
(* their own, interleaved at their awaits.                                 *)
(***************************************************************************)
EXTENDS Naturals, FiniteSets

CONSTANTS
    Topic,      \* topics users ask about
    MaxGaps,    \* the cap on the gaps of one detection
    MaxDeaths   \* bound: deaths of the process

VARIABLES
    queue,      \* the module's _gaps.json
    known,      \* the module's _known.json
    finding,    \* gaps of a detection that has not saved them
    distilling, \* a distillation is under way
    left,       \* topics it has still to do
    tried,      \* history: topics it was at
    late,       \* history: topics queued since it read the queue
    deaths

vars == <<queue, known, finding, distilling, left, tried, late, deaths>>

Init ==
    /\ queue = {} /\ known = {} /\ finding = {}
    /\ distilling = FALSE /\ left = {} /\ tried = {} /\ late = {} /\ deaths = 0

\* _detect_gaps(): topics that were answered weakly or are asked often, but
\* for the known ones; the announcement is awaited before they are queued.
Gaps(found) == found \ known
Detect ==
    /\ finding = {}
    /\ \E found \in SUBSET Topic :
         /\ finding' \in SUBSET Gaps(found) /\ finding' # {}
         /\ IF Cardinality(Gaps(found)) <= MaxGaps THEN finding' = Gaps(found)
            ELSE Cardinality(finding') = MaxGaps
    /\ UNCHANGED <<deaths, queue, known, left, distilling, tried, late>>

\* _save_gap_queue(): merged with what is queued.
Queue ==
    /\ finding # {}
    /\ queue' = queue \union finding
    /\ late' = IF distilling THEN late \union finding ELSE late
    /\ finding' = {}
    /\ UNCHANGED <<deaths, known, left, distilling, tried>>

\* _distillation_cycle(): the queue is read once, and cleared at the end.
ClearEarly ==  \* mutant: the queue is cleared when it is read
    /\ ~distilling /\ queue # {}
    /\ left' = queue /\ distilling' = TRUE /\ tried' = {} /\ late' = {}
    /\ queue' = {}
    /\ UNCHANGED <<deaths, known, finding>>
ReadQueue ==
    /\ ~distilling /\ queue # {}
    /\ left' = queue /\ distilling' = TRUE /\ tried' = {} /\ late' = {}
    /\ UNCHANGED <<deaths, queue, known, finding>>

\* distill_topic() saved n pairs: the topic is known if there were any.  One
\* that raises, or finds none, is passed over.
Distill(topic) ==
    /\ topic \in left
    /\ left' = left \ {topic} /\ tried' = tried \union {topic}
    /\ \E n \in 0..1 :
         /\ known' = IF n > 0 THEN known \union {topic} ELSE known
    /\ UNCHANGED <<deaths, queue, finding, distilling, late>>

ClearQueue ==
    /\ distilling /\ left = {}
    /\ queue' = {} /\ distilling' = FALSE
    /\ UNCHANGED <<deaths, known, finding, left, tried, late>>

Distillation == ReadQueue \/ (\E topic \in Topic : Distill(topic)) \/ ClearQueue

\* The process dies; the files remain, but for one it was writing: a file that
\* does not parse is read as empty, and replaced at the next write.
Die ==
    /\ deaths < MaxDeaths /\ deaths' = deaths + 1
    /\ finding' = {} /\ left' = {} /\ distilling' = FALSE /\ tried' = {} /\ late' = {}
    /\ \/ UNCHANGED <<queue, known>>
       \/ finding # {} /\ queue' = {} /\ UNCHANGED known
       \/ left # {} /\ known' = {} /\ UNCHANGED queue

Next == Detect \/ Queue \/ Distillation \/ Die

\* The scheduler runs the distillation again and again, and the teacher
\* answers, fails or times out.
Spec == Init /\ [][Next]_vars /\ WF_vars(Distillation)

-----------------------------------------------------------------------------
TypeOK ==
    /\ queue \subseteq Topic /\ known \subseteq Topic /\ finding \subseteq Topic
    /\ Cardinality(finding) <= MaxGaps
    /\ distilling \in BOOLEAN /\ (~distilling => left = {})
    /\ left \subseteq Topic /\ tried \subseteq Topic /\ late \subseteq Topic
    /\ deaths \in 0..MaxDeaths

\* A topic leaves the queue when it was distilled, or tried without result; the
\* death of the process loses none, unless it dies writing the queue.  What is
\* queued during a distillation is cleared with the rest.
Torn == deaths' > deaths /\ finding # {}
NoGapForgotten ==
    [][\A topic \in queue \ queue' :
         topic \in known \union tried \union late \/ Torn]_vars

\* The queue does not wait for ever, whatever the teacher answers.
QueueDrains == \A topic \in Topic : topic \in queue ~> topic \notin queue
=============================================================================
