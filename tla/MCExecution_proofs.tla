-------------------------- MODULE MCExecution_proofs --------------------------
(***************************************************************************)
(* The safety properties of WorkflowRuntime for every set of workflow      *)
(* definitions, however large, and any number of resumes.                  *)
(***************************************************************************)
EXTENDS MCExecution, WellFoundedInduction, TLAPS

(* The inductive invariant, one conjunct per idea. *)

Executing == {"attempt", "invoke", "backoff"}

\* Which node is running, and how far its retries got, at each await.
Phase ==
    /\ pc \in Executing => /\ cur \in wf.nodes
                           /\ status[cur] = "running"
                           /\ \A n \in NodeId : status[n] = "running" => n = cur
    /\ pc \notin Executing => \A n \in NodeId : status[n] # "running"
    /\ pc = "save" => cur \in wf.nodes /\ status[cur] \in Final
    /\ pc \in {"attempt", "backoff"} => attempt <= wf.retries[cur]
    /\ outcome = "success" => pc = "done"
    /\ Running => outcome = "none"
    /\ pc = "walk" => cur = NoNode
    /\ pc = "idle" => checkpoint = NoCheckpoint

\* A run walks a valid definition, and knows all its nodes.
Known == Running => Valid(wf) /\ \A n \in wf.nodes : status[n] # "absent"

\* A run agrees with the checkpoint it started from or wrote.
Agrees == Running => \A n \in NodeId : Recorded(n) \in Final =>
                                         status[n] = Recorded(n)

Earned(n) == \/ n = wf.entry
             \/ \E m \in wf.nodes : status[m] \in Final
                                    /\ n \in Range(Followed(m, <<>>))

\* Only what the workflow leads to is ever on the agenda.
AgendaEarned == Running => \A n \in Range(agenda) : Earned(n)

\* Where a node leads has been visited or is still to come ...
ClosedAt(v) == /\ status[v] \in Final
               /\ Range(Followed(v, <<>>)) \subseteq visited \cup Range(agenda)
Open == /\ wf.entry \in visited \cup Range(agenda)
        /\ \A v \in visited : v # cur => ClosedAt(v)
\* ... unless cancellation cut the walk off, and then it fails.
WalkClosed ==
    /\ pc = "walk" => Open \/ (cancelled /\ last = "failed")
    /\ pc \in Executing \cup {"save"} => Open
    /\ SuccessIsClosed

\* A node that this run has not finished has succeeded in earlier runs only.
EffectsBounded ==
    \A n \in NodeId :
        /\ effects[n] <= resumes + 1
        /\ Running /\ status[n] \notin Final => effects[n] <= resumes
        /\ pc = "idle" => effects[n] <= resumes

IInv == TypeOK /\ Phase /\ Known /\ Agrees /\ AgendaEarned /\ WalkClosed
            /\ EffectsBounded
-----------------------------------------------------------------------------
(* What the elements of the agenda are after an operation on it. *)

\* The empty sequence and the singleton.
LEMMA RangeEmpty == Range(<<>>) = {}
BY DEF Range

\* A singleton.
LEMMA RangeOne ==
    ASSUME NEW x
    PROVE  Range(<<x>>) = {x}
BY DEF Range

\* The elements of a sequence by their positions.
LEMMA RangeIs ==
    ASSUME NEW S, NEW s \in Seq(S)
    PROVE  Range(s) = {s[i] : i \in 1..Len(s)}
BY DEF Range

\* A nonempty sequence is its head and the elements of its tail.
LEMMA RangeTail ==
    ASSUME NEW S, NEW s \in Seq(S), s # <<>>
    PROVE  /\ Head(s) \in S
           /\ Tail(s) \in Seq(S)
           /\ Range(s) = {Head(s)} \cup Range(Tail(s))
<1>1. Head(s) \in S /\ Tail(s) \in Seq(S)
  OBVIOUS
<1>2. Range(s) \subseteq {Head(s)} \cup Range(Tail(s))
  <2>1. Range(s) = {s[i] : i \in 1..Len(s)} /\ Head(s) = s[1]
    BY DEF Range
  <2>2. Range(Tail(s)) = {Tail(s)[j] : j \in 1..Len(Tail(s))}
    BY <1>1, RangeIs
  <2>3. ASSUME NEW i \in 1..Len(s), i # 1
        PROVE  i - 1 \in 1..Len(Tail(s)) /\ Tail(s)[i - 1] = s[i]
    BY <2>3
  <2>4. ASSUME NEW i \in 1..Len(s), i # 1
        PROVE  s[i] \in Range(Tail(s))
    BY <2>2, <2>3, <2>4
  <2> QED BY <2>1, <2>4
<1>3. {Head(s)} \cup Range(Tail(s)) \subseteq Range(s)
  <2>1. Head(s) = s[1] /\ 1 \in DOMAIN s
    OBVIOUS
  <2>2. ASSUME NEW i \in 1..Len(Tail(s))
        PROVE  Tail(s)[i] = s[i + 1] /\ i + 1 \in DOMAIN s
    OBVIOUS
  <2> QED BY <2>1, <2>2, <1>1 DEF Range
<1> QED BY <1>1, <1>2, <1>3

\* A concatenation has the elements of both sequences.
LEMMA RangeConcat ==
    ASSUME NEW S, NEW s \in Seq(S), NEW t \in Seq(S)
    PROVE  s \o t \in Seq(S) /\ Range(s \o t) = Range(s) \cup Range(t)
<1>1. s \o t \in Seq(S)
  OBVIOUS
<1>2. Range(s \o t) \subseteq Range(s) \cup Range(t)
  <2> SUFFICES ASSUME NEW i \in 1..(Len(s) + Len(t))
               PROVE  (s \o t)[i] \in Range(s) \cup Range(t)
    BY DEF Range
  <2>1. CASE i <= Len(s)
    BY <2>1 DEF Range
  <2>2. CASE i > Len(s)
    <3>1. (s \o t)[i] = t[i - Len(s)] /\ i - Len(s) \in 1..Len(t)
      BY <2>2
    <3> QED BY <3>1 DEF Range
  <2> QED BY <2>1, <2>2
<1>3. Range(s) \subseteq Range(s \o t)
  BY DEF Range
<1>4. Range(t) \subseteq Range(s \o t)
  <2> SUFFICES ASSUME NEW i \in 1..Len(t)
               PROVE  t[i] \in Range(s \o t)
    BY DEF Range
  <2>1. i + Len(s) \in 1..Len(s \o t) /\ (s \o t)[i + Len(s)] = t[i]
    OBVIOUS
  <2> QED BY <2>1 DEF Range
<1> QED BY <1>1, <1>2, <1>3, <1>4

\* The elements of a sequence over S are in S.
LEMMA RangeSeq ==
    ASSUME NEW S, NEW s \in Seq(S)
    PROVE  Range(s) \subseteq S
BY DEF Range

\* What a definition's parts are.
LEMMA WorkflowParts ==
    ASSUME NEW w \in Workflows
    PROVE  /\ w.id \in STRING
           /\ w.nodes \subseteq NodeId
           /\ w.entry \in NodeId \cup {NoNode}
           /\ w.succ \in [NodeId -> Seq(NodeId)]
           /\ w.branch \in [NodeId -> NodeId \cup {NoNode}]
           /\ w.retries \in [NodeId -> Nat]
<1>1. w \in WorkflowType
  BY WorkflowAssumption
<1> QED BY <1>1 DEF WorkflowType

\* Followed puts what n leads to in front of the rest.
LEMMA FollowedParts ==
    ASSUME TypeOK, NEW n \in NodeId, NEW rest \in Seq(NodeId)
    PROVE  /\ Followed(n, rest) \in Seq(NodeId)
           /\ Range(Followed(n, rest)) = Range(Followed(n, <<>>)) \cup Range(rest)
<1>1. /\ wf.succ[n] \in Seq(NodeId)
      /\ wf.branch[n] \in NodeId \cup {NoNode}
  BY WorkflowParts DEF TypeOK
<1>2. <<>> \in Seq(NodeId) /\ Range(<<>>) = {}
  BY RangeEmpty
<1>3. CASE status[n] = "completed"
  BY <1>1, <1>2, <1>3, RangeConcat DEF Followed
<1>4. CASE status[n] # "completed" /\ wf.branch[n] # NoNode
  <2> DEFINE one == <<wf.branch[n]>>
  <2>1. one \in Seq(NodeId)
    BY <1>1, <1>4
  <2>2. Followed(n, rest) = one \o rest /\ Followed(n, <<>>) = one \o <<>>
    BY <1>4 DEF Followed
  <2> HIDE DEF one
  <2>3. /\ one \o rest \in Seq(NodeId)
        /\ Range(one \o rest) = Range(one) \cup Range(rest)
    BY <2>1, RangeConcat
  <2>4. Range(one \o <<>>) = Range(one) \cup Range(<<>>)
    BY <1>2, <2>1, RangeConcat
  <2> QED BY <1>2, <2>2, <2>3, <2>4
<1>5. CASE status[n] # "completed" /\ wf.branch[n] = NoNode
  BY <1>2, <1>5 DEF Followed
<1> QED BY <1>3, <1>4, <1>5

\* What the walk follows is what the definition says.
LEMMA FollowedIsLeads ==
    ASSUME TypeOK, NEW n \in NodeId
    PROVE  Range(Followed(n, <<>>)) = Leads(n)
<1>1. /\ wf.succ[n] \in Seq(NodeId)
      /\ wf.branch[n] \in NodeId \cup {NoNode}
  BY WorkflowParts DEF TypeOK
<1>2. <<>> \in Seq(NodeId) /\ Range(<<>>) = {}
  BY RangeEmpty
<1>3. CASE status[n] = "completed"
  BY <1>1, <1>2, <1>3, RangeConcat DEF Followed, Leads
<1>4. CASE status[n] # "completed" /\ wf.branch[n] # NoNode
  <2> DEFINE one == <<wf.branch[n]>>
  <2>1. one \in Seq(NodeId) /\ Range(one) = {wf.branch[n]}
    BY <1>1, <1>4, RangeOne
  <2>2. Followed(n, <<>>) = one \o <<>>
    BY <1>4 DEF Followed
  <2>3. Leads(n) = {wf.branch[n]}
    BY <1>4 DEF Leads
  <2> HIDE DEF one
  <2>4. Range(one \o <<>>) = Range(one) \cup Range(<<>>)
    BY <1>2, <2>1, RangeConcat
  <2> QED BY <1>2, <2>1, <2>2, <2>3, <2>4
<1>5. CASE status[n] # "completed" /\ wf.branch[n] = NoNode
  BY <1>2, <1>5 DEF Followed, Leads
<1> QED BY <1>3, <1>4, <1>5
-----------------------------------------------------------------------------
(* Initially *)

\* The initial states satisfy the invariant.
LEMMA InitOK == Init => IInv
<1> SUFFICES ASSUME Init PROVE IInv
  OBVIOUS
<1>1. TypeOK
  <2>1. status \in [NodeId -> Status] /\ effects \in [NodeId -> Nat]
    BY DEF Init, Status
  <2>2. agenda \in Seq(NodeId) /\ visited \subseteq NodeId
    BY DEF Init
  <2> QED BY <2>1, <2>2 DEF Init, TypeOK
<1>2. Phase /\ Known /\ Agrees /\ AgendaEarned
  BY DEF Init, Phase, Known, Agrees, AgendaEarned, Executing, Running
<1>3. WalkClosed
  BY DEF Init, WalkClosed, SuccessIsClosed, Executing
<1>4. EffectsBounded
  BY DEF Init, EffectsBounded, Running
<1> QED BY <1>1, <1>2, <1>3, <1>4 DEF IInv
-----------------------------------------------------------------------------
(* The start of a run, by execute() or resume() *)

\* The node states a run may begin over.
Startable(w, st) ==
    /\ st \in [NodeId -> Status]
    /\ \A n \in NodeId : st[n] # "running"
    /\ \A n \in w.nodes : st[n] # "absent"
    /\ \A n \in NodeId : Recorded(n) \in Final => st[n] = Recorded(n)

\* Starting a run sets every variable to a value of its type.
LEMMA BeginType ==
    ASSUME TypeOK, NEW w \in Workflows, NEW st, Startable(w, st), Begin(w, st),
           checkpoint' = checkpoint, resumes' \in Nat, effects' = effects
    PROVE  TypeOK'
<1>1. Valid(w) => w.entry \in NodeId
  BY WorkflowParts DEF Valid
<1>2. /\ wf' \in Workflows
      /\ pc' \in {"walk", "done"}
      /\ cur' = NoNode
      /\ attempt' = 0
      /\ status' \in [NodeId -> Status]
      /\ visited' = {} /\ last' = "none" /\ cancelled' = FALSE
      /\ outcome' \in {"none", "failure"}
  BY DEF Begin, Startable
<1>3. agenda' \in Seq(NodeId)
  <2>1. CASE Valid(w)
    <3>1. agenda' = <<w.entry>>
      BY <2>1 DEF Begin
    <3> QED BY <1>1, <2>1, <3>1
  <2>2. CASE ~Valid(w)
    <3>1. agenda' = <<>>
      BY <2>2 DEF Begin
    <3> QED BY <3>1
  <2> QED BY <2>1, <2>2
<1> QED BY <1>2, <1>3 DEF TypeOK

\* Starting a run establishes every conjunct that speaks of a run.
LEMMA BeginInv ==
    ASSUME TypeOK, NEW w \in Workflows, NEW st, Startable(w, st), Begin(w, st),
           checkpoint' = checkpoint
    PROVE  Phase' /\ Known' /\ Agrees' /\ AgendaEarned' /\ WalkClosed'
<1>1. /\ wf' = w /\ status' = st /\ visited' = {} /\ cur' = NoNode
      /\ \/ Valid(w) /\ pc' = "walk" /\ agenda' = <<w.entry>> /\ outcome' = "none"
         \/ pc' = "done" /\ outcome' = "failure"
  BY DEF Begin
<1>2. Phase'
  BY <1>1 DEF Phase, Startable, Executing, Running
<1>3. Known'
  BY <1>1 DEF Known, Running, Startable, Valid
<1>4. Agrees'
  BY <1>1 DEF Agrees, Running, Startable, Recorded
<1>5. Running' => Range(agenda') = {w.entry}
  <2>1. Running' => agenda' = <<w.entry>>
    BY <1>1 DEF Running
  <2> QED BY <2>1, RangeOne
<1>6. AgendaEarned'
  BY <1>1, <1>5 DEF AgendaEarned, Earned
<1>7. WalkClosed'
  BY <1>1, <1>5 DEF WalkClosed, SuccessIsClosed, Open, Executing, Running
<1> QED BY <1>2, <1>3, <1>4, <1>6, <1>7

\* The node states of execute() are a legal start.
LEMMA FreshStartable ==
    ASSUME TypeOK, Phase, pc = "idle"
    PROVE  Startable(wf, Fresh(wf))
<1>1. checkpoint = NoCheckpoint
  BY DEF Phase
<1>2. wf.nodes \subseteq NodeId
  BY WorkflowParts DEF TypeOK
<1> QED BY <1>1, <1>2 DEF Startable, Fresh, Recorded, Final, Status

\* So are the node states resume() rebuilds.
LEMMA RestoredStartable ==
    ASSUME TypeOK, NEW w \in Workflows
    PROVE  Startable(w, Restored(w))
<1>1. w.nodes \subseteq NodeId
  BY WorkflowParts
<1>2. \A n \in NodeId : Recorded(n) \in Status
  BY DEF Recorded, TypeOK, Status
<1> HIDE DEF Recorded
<1> QED BY <1>1, <1>2 DEF Startable, Restored, Final, Status
-----------------------------------------------------------------------------
(* Types *)

\* The node at the head of the agenda.
LEMMA HeadOfAgenda ==
    ASSUME TypeOK, agenda # <<>>
    PROVE  /\ Head(agenda) \in NodeId
           /\ Tail(agenda) \in Seq(NodeId)
           /\ Range(agenda) = {Head(agenda)} \cup Range(Tail(agenda))
BY RangeTail DEF TypeOK

\* Every step preserves the types.
LEMMA TypeStep == TypeOK /\ Phase /\ [Next]_vars => TypeOK'
<1> SUFFICES ASSUME TypeOK, Phase, [Next]_vars PROVE TypeOK'
  OBVIOUS
<1>0. /\ wf.nodes \subseteq NodeId
      /\ wf.retries \in [NodeId -> Nat]
  BY WorkflowParts DEF TypeOK
<1>1. CASE Execute
  BY <1>1, FreshStartable, BeginType DEF Execute, history, TypeOK
<1>2. ASSUME NEW w \in Workflows, Resume(w) PROVE TypeOK'
  <2>1. CASE checkpoint = NoCheckpoint \/ checkpoint.id # w.id
    BY <1>2, <2>1 DEF Resume, TypeOK
  <2>2. CASE ~(checkpoint = NoCheckpoint \/ checkpoint.id # w.id)
    <3>1. Begin(w, Restored(w)) /\ checkpoint' = checkpoint
          /\ resumes' \in Nat /\ effects' = effects
      BY <1>2, <2>2 DEF Resume, TypeOK
    <3> QED BY <3>1, RestoredStartable, BeginType
  <2> QED BY <2>1, <2>2
<1>3. CASE VisitRefused
  BY <1>3, HeadOfAgenda DEF VisitRefused, TypeOK, history
<1>4. CASE VisitFinished
  <2>1. Head(agenda) \in NodeId /\ Tail(agenda) \in Seq(NodeId)
    BY <1>4, HeadOfAgenda DEF VisitFinished
  <2>2. Followed(Head(agenda), Tail(agenda)) \in Seq(NodeId)
    BY <2>1, FollowedParts
  <2> QED BY <1>4, <2>1, <2>2 DEF VisitFinished, TypeOK, history, ResultOf
<1>5. CASE VisitPending
  <2>1. Head(agenda) \in NodeId /\ Tail(agenda) \in Seq(NodeId)
    BY <1>5, HeadOfAgenda DEF VisitPending
  <2>2. status' \in [NodeId -> Status]
    BY <1>5, <2>1 DEF VisitPending, TypeOK, Status
  <2> QED BY <1>0, <1>5, <2>1, <2>2 DEF VisitPending, TypeOK, history
<1>6. CASE Attempt
  <2>1. /\ attempt <= wf.retries[cur] /\ cur \in NodeId /\ wf.retries[cur] \in Nat
        /\ attempt \in Nat
    BY <1>0, <1>6 DEF Attempt, Phase, Executing, TypeOK
  <2>2. attempt + 1 \in Nat /\ attempt + 1 <= wf.retries[cur] + 1
    BY <2>1
  <2>3. status' \in [NodeId -> Status]
    BY <1>6, <2>1 DEF Attempt, NodeEnds, TypeOK, Status
  <2> QED BY <1>6, <2>2, <2>3 DEF Attempt, NodeEnds, TypeOK, history
<1>7. CASE WorkerSucceeds
  <2>1. cur \in NodeId
    BY <1>0, <1>7 DEF WorkerSucceeds, Phase, Executing
  <2>2. status' \in [NodeId -> Status]
    BY <1>7, <2>1 DEF WorkerSucceeds, NodeEnds, TypeOK, Status
  <2>3. effects' \in [NodeId -> Nat]
    BY <1>7, <2>1 DEF WorkerSucceeds, TypeOK
  <2> QED BY <1>7, <2>2, <2>3 DEF WorkerSucceeds, NodeEnds, TypeOK
<1>8. CASE WorkerFails
  <2>1. cur \in NodeId
    BY <1>0, <1>8 DEF WorkerFails, Phase, Executing
  <2>2. status' \in [NodeId -> Status]
    BY <1>8, <2>1 DEF WorkerFails, NodeEnds, TypeOK, Status
  <2> QED BY <1>8, <2>2 DEF WorkerFails, NodeEnds, TypeOK, history
<1>9. CASE BackoffElapses
  BY <1>9 DEF BackoffElapses, TypeOK, history
<1>10. CASE Save
  <2>1. cur \in NodeId
    BY <1>0, <1>10 DEF Save, Phase
  <2>2. agenda' \in Seq(NodeId)
    BY <1>10, <2>1, FollowedParts DEF Save, TypeOK
  <2>3. Snapshot \in [id : STRING, status : [NodeId -> Status]]
    BY WorkflowParts DEF Snapshot, TypeOK
  <2>4. \/ checkpoint' = NoCheckpoint
        \/ checkpoint' \in [id : STRING, status : [NodeId -> Status]]
    BY <1>10, <2>3 DEF Save, TypeOK
  <2> QED BY <1>10, <2>2, <2>4 DEF Save, TypeOK, history
<1>11. CASE Finish
  BY <1>11 DEF Finish, TypeOK, history
<1>12. CASE Cancel
  BY <1>12 DEF Cancel, TypeOK, history
<1>13. CASE Crash
  <2>1. status' \in [NodeId -> Status] /\ agenda' \in Seq(NodeId)
    BY <1>13 DEF Crash, Status
  <2> QED BY <1>13, <2>1 DEF Crash, TypeOK, history
<1>14. CASE UNCHANGED vars
  BY <1>14 DEF vars, volatile, history, TypeOK
<1> QED
  BY <1>1, <1>2, <1>3, <1>4, <1>5, <1>6, <1>7, <1>8, <1>9, <1>10, <1>11,
     <1>12, <1>13, <1>14 DEF Next, Step
-----------------------------------------------------------------------------
(* The phases of a run, the nodes it knows, its agreement with the checkpoint *)

\* A step that is none of the named ones changes nothing; the steps inside a
\* run are told apart from those that begin, end or cut off one.
Inside == Step \/ Cancel

\* The steps inside a run, and the rest.
LEMMA NextCases ==
    ASSUME [Next]_vars
    PROVE  \/ Execute
           \/ \E w \in Workflows : Resume(w)
           \/ Inside
           \/ Crash
           \/ UNCHANGED vars
BY DEF Next, Inside

\* A resume is refused, leaving all but the outcome, or begins a run.
LEMMA ResumeCases ==
    ASSUME TypeOK, NEW w \in Workflows, Resume(w)
    PROVE  /\ checkpoint' = checkpoint
           /\ effects' = effects
           /\ resumes' = resumes + 1
           /\ pc \in {"crashed", "done"}
           /\ \/ /\ pc' = "done" /\ outcome' = "failure"
                 /\ UNCHANGED <<wf, cur, attempt, status, agenda, visited,
                                last, cancelled>>
              \/ Startable(w, Restored(w)) /\ Begin(w, Restored(w))
BY RestoredStartable DEF Resume

\* Every step preserves the correspondence of pc, cur and status.
LEMMA PhaseStep == TypeOK /\ Phase /\ [Next]_vars => Phase'
<1> SUFFICES ASSUME TypeOK, Phase, [Next]_vars PROVE Phase'
  OBVIOUS
<1>0. /\ wf.nodes \subseteq NodeId
      /\ wf.retries \in [NodeId -> Nat]
  BY WorkflowParts DEF TypeOK
<1>1. CASE Execute
  <2>1. checkpoint' = checkpoint /\ wf \in Workflows
    BY <1>1 DEF Execute, TypeOK
  <2>2. Startable(wf, Fresh(wf))
    BY <1>1, FreshStartable DEF Execute
  <2> QED BY <1>1, <2>1, <2>2, BeginInv DEF Execute
<1>2. ASSUME NEW w \in Workflows, Resume(w) PROVE Phase'
  <2>1. CASE Startable(w, Restored(w)) /\ Begin(w, Restored(w))
    BY <1>2, <2>1, ResumeCases, BeginInv
  <2>2. CASE /\ pc' = "done" /\ outcome' = "failure" /\ checkpoint' = checkpoint
             /\ UNCHANGED <<wf, cur, attempt, status, agenda, visited, last,
                            cancelled>>
    BY <1>2, <2>2 DEF Resume, Phase, Executing, Running
  <2> QED BY <1>2, <2>1, <2>2, ResumeCases
<1>3. CASE VisitRefused
  BY <1>3 DEF VisitRefused, Phase, Executing, Running, history
<1>4. CASE VisitFinished
  BY <1>4 DEF VisitFinished, Phase, Executing, Running, history
<1>5. CASE VisitPending
  <2>1. Head(agenda) \in NodeId
    BY <1>5, HeadOfAgenda DEF VisitPending
  <2> DEFINE n == Head(agenda)
  <2>2. /\ pc = "walk" /\ pc' = "attempt" /\ n \in wf.nodes /\ wf' = wf
        /\ cur' = n /\ attempt' = 0 /\ outcome' = outcome
        /\ status' = [status EXCEPT ![n] = "running"]
    BY <1>5 DEF VisitPending
  <2>3. 0 <= wf.retries[n]
    BY <1>0, <2>1
  <2>4. /\ status'[n] = "running"
        /\ \A m \in NodeId : status'[m] = "running" => m = n
    BY <2>1, <2>2 DEF Phase, TypeOK, Executing
  <2> HIDE DEF n
  <2> QED BY <2>2, <2>3, <2>4 DEF Phase, Executing, Running
<1>6. CASE Attempt
  <2>1. /\ cur \in NodeId /\ cur \in wf.nodes /\ pc = "attempt"
        /\ wf' = wf /\ cur' = cur /\ outcome' = outcome
        /\ \A m \in NodeId : status[m] = "running" => m = cur
    BY <1>0, <1>6 DEF Attempt, Phase, Executing
  <2>2. CASE cancelled
    <3>1. pc' = "save" /\ status' = [status EXCEPT ![cur] = "failed"]
      BY <1>6, <2>2 DEF Attempt, NodeEnds
    <3>2. status'[cur] \in Final /\ \A m \in NodeId : status'[m] # "running"
      BY <2>1, <3>1 DEF TypeOK, Final
    <3> QED BY <2>1, <3>1, <3>2 DEF Phase, Executing, Running
  <2>3. CASE ~cancelled
    <3>1. pc' = "invoke" /\ status' = status
      BY <1>6, <2>3 DEF Attempt
    <3> QED BY <2>1, <3>1 DEF Phase, Executing, Running
  <2> QED BY <2>2, <2>3
<1>7. CASE WorkerSucceeds
  <2>1. /\ cur \in NodeId /\ cur \in wf.nodes /\ pc = "invoke"
        /\ wf' = wf /\ cur' = cur /\ outcome' = outcome
        /\ \A m \in NodeId : status[m] = "running" => m = cur
    BY <1>0, <1>7 DEF WorkerSucceeds, Phase, Executing
  <2>2. pc' = "save" /\ status' = [status EXCEPT ![cur] = "completed"]
    BY <1>7 DEF WorkerSucceeds, NodeEnds
  <2>3. status'[cur] \in Final /\ \A m \in NodeId : status'[m] # "running"
    BY <2>1, <2>2 DEF TypeOK, Final
  <2> QED BY <2>1, <2>2, <2>3 DEF Phase, Executing, Running
<1>8. CASE WorkerFails
  <2>1. /\ cur \in NodeId /\ cur \in wf.nodes /\ pc = "invoke"
        /\ wf' = wf /\ cur' = cur /\ outcome' = outcome /\ attempt' = attempt
        /\ \A m \in NodeId : status[m] = "running" => m = cur
    BY <1>0, <1>8 DEF WorkerFails, Phase, Executing
  <2>2. CASE pc' = "backoff" /\ status' = status /\ attempt <= wf.retries[cur]
    BY <2>1, <2>2 DEF Phase, Executing, Running
  <2>3. CASE pc' = "save" /\ status' = [status EXCEPT ![cur] = "failed"]
    <3>1. status'[cur] \in Final /\ \A m \in NodeId : status'[m] # "running"
      BY <2>1, <2>3 DEF TypeOK, Final
    <3> QED BY <2>1, <2>3, <3>1 DEF Phase, Executing, Running
  <2> QED BY <1>8, <2>2, <2>3 DEF WorkerFails, NodeEnds
<1>9. CASE BackoffElapses
  BY <1>9 DEF BackoffElapses, Phase, Executing, Running, history
<1>10. CASE Save
  BY <1>10 DEF Save, Phase, Executing, Running
<1>11. CASE Finish
  BY <1>11 DEF Finish, Phase, Executing, Running
<1>12. CASE Cancel
  BY <1>12 DEF Cancel, Phase, Executing, Running
<1>13. CASE Crash
  BY <1>13 DEF Crash, Phase, Executing, Running
<1>14. CASE UNCHANGED vars
  BY <1>14 DEF vars, volatile, history, Phase, Running
<1> QED
  BY <1>1, <1>2, <1>3, <1>4, <1>5, <1>6, <1>7, <1>8, <1>9, <1>10, <1>11,
     <1>12, <1>13, <1>14 DEF Next, Step

\* Inside a run the definition stays and a finished node stays as it ended.
LEMMA FinalKept ==
    ASSUME TypeOK, Phase, Inside
    PROVE  /\ wf' = wf
           /\ resumes' = resumes
           /\ \A m \in NodeId : status[m] \in Final => status'[m] = status[m]
           /\ \A m \in NodeId : status[m] # "absent" => status'[m] # "absent"
<1>0. wf.nodes \subseteq NodeId
  BY WorkflowParts DEF TypeOK
<1>1. CASE VisitRefused \/ VisitFinished \/ BackoffElapses \/ Save \/ Finish \/ Cancel
  BY <1>1 DEF VisitRefused, VisitFinished, BackoffElapses, Save, Finish, Cancel,
              history
<1>2. CASE VisitPending
  <2>1. Head(agenda) \in NodeId
    BY <1>2, HeadOfAgenda DEF VisitPending
  <2>2. /\ wf' = wf /\ resumes' = resumes
        /\ status[Head(agenda)] = "pending"
        /\ status' = [status EXCEPT ![Head(agenda)] = "running"]
    BY <1>2 DEF VisitPending, history
  <2> QED BY <2>1, <2>2 DEF TypeOK, Final
<1>3. CASE Attempt \/ WorkerSucceeds \/ WorkerFails
  <2>1. cur \in NodeId /\ status[cur] = "running"
    BY <1>0, <1>3 DEF Attempt, WorkerSucceeds, WorkerFails, Phase, Executing
  <2>2. /\ wf' = wf /\ resumes' = resumes
        /\ \/ status' = status
           \/ status' = [status EXCEPT ![cur] = "failed"]
           \/ status' = [status EXCEPT ![cur] = "completed"]
    BY <1>3 DEF Attempt, WorkerSucceeds, WorkerFails, NodeEnds, history
  <2> QED BY <2>1, <2>2 DEF TypeOK, Final
<1> QED BY <1>1, <1>2, <1>3 DEF Inside, Step

\* A step inside a run belongs to a run.
LEMMA InsideRuns == Inside => Running
BY DEF Inside, Step, Running, VisitRefused, VisitFinished, VisitPending, Attempt,
       WorkerSucceeds, WorkerFails, BackoffElapses, Save, Finish, Cancel

\* Execute begins a run over fresh node states.
LEMMA ExecuteBegins ==
    ASSUME TypeOK, Phase, Execute
    PROVE  /\ wf \in Workflows /\ Startable(wf, Fresh(wf)) /\ Begin(wf, Fresh(wf))
           /\ checkpoint' = checkpoint
BY FreshStartable DEF Execute, TypeOK

\* Every step preserves that a run knows its nodes.
LEMMA KnownStep == TypeOK /\ Phase /\ Known /\ [Next]_vars => Known'
<1> SUFFICES ASSUME TypeOK, Phase, Known, [Next]_vars PROVE Known'
  OBVIOUS
<1>1. CASE Execute
  BY <1>1, ExecuteBegins, BeginInv
<1>2. ASSUME NEW w \in Workflows, Resume(w) PROVE Known'
  BY <1>2, ResumeCases, BeginInv DEF Known, Running
<1>3. CASE Inside
  <2>1. Running /\ wf.nodes \subseteq NodeId
    BY <1>3, InsideRuns, WorkflowParts DEF TypeOK
  <2>2. wf' = wf /\ \A m \in NodeId : status[m] # "absent" => status'[m] # "absent"
    BY <1>3, FinalKept
  <2> QED BY <2>1, <2>2 DEF Known, Valid
<1>4. CASE Crash
  BY <1>4 DEF Crash, Known, Running
<1>5. CASE UNCHANGED vars
  BY <1>5 DEF vars, volatile, Known, Running, Valid
<1> QED BY <1>1, <1>2, <1>3, <1>4, <1>5, NextCases

\* Inside a run the checkpoint is left alone or brought up to the run's state.
LEMMA CheckpointSteps ==
    ASSUME Inside
    PROVE  \/ checkpoint' = checkpoint
           \/ checkpoint' = Snapshot /\ status' = status
BY DEF Inside, Step, VisitRefused, VisitFinished, VisitPending, Attempt,
       WorkerSucceeds, WorkerFails, BackoffElapses, Save, Finish, Cancel

\* Every step preserves the agreement with the checkpoint.
LEMMA AgreesStep == TypeOK /\ Phase /\ Agrees /\ [Next]_vars => Agrees'
<1> SUFFICES ASSUME TypeOK, Phase, Agrees, [Next]_vars PROVE Agrees'
  OBVIOUS
<1>1. CASE Execute
  BY <1>1, ExecuteBegins, BeginInv
<1>2. ASSUME NEW w \in Workflows, Resume(w) PROVE Agrees'
  BY <1>2, ResumeCases, BeginInv DEF Agrees, Running
<1>3. CASE Inside
  <2>1. Running
    BY <1>3, InsideRuns
  <2>2. \A m \in NodeId : status[m] \in Final => status'[m] = status[m]
    BY <1>3, FinalKept
  <2>3. CASE checkpoint' = checkpoint
    BY <2>1, <2>2, <2>3 DEF Agrees, Recorded
  <2>4. CASE checkpoint' = Snapshot /\ status' = status
    <3>1. \A n \in NodeId : Recorded(n)' \in {"absent", status'[n]}
      BY <2>4 DEF Recorded, Snapshot
    <3> QED BY <3>1 DEF Agrees, Final
  <2> QED BY <1>3, <2>3, <2>4, CheckpointSteps
<1>4. CASE Crash
  BY <1>4 DEF Crash, Agrees, Running
<1>5. CASE UNCHANGED vars
  BY <1>5 DEF vars, volatile, Agrees, Running, Recorded
<1> QED BY <1>1, <1>2, <1>3, <1>4, <1>5, NextCases
-----------------------------------------------------------------------------
(* What is on the agenda, and what the walk leaves behind *)

\* Where a finished node leads does not change inside a run.
LEMMA FollowedKept ==
    ASSUME TypeOK, Phase, Inside, NEW m \in NodeId, status[m] \in Final
    PROVE  /\ status'[m] = status[m]
           /\ Followed(m, <<>>)' = Followed(m, <<>>)
BY FinalKept DEF Followed

\* Inside a run, a node that was earned stays earned.
LEMMA EarnedKept ==
    ASSUME TypeOK, Phase, Inside, NEW n, Earned(n)
    PROVE  Earned(n)'
<1>1. wf' = wf
  BY FinalKept
<1>2. CASE n = wf.entry
  BY <1>1, <1>2 DEF Earned
<1>3. CASE \E m \in wf.nodes : status[m] \in Final /\ n \in Range(Followed(m, <<>>))
  <2>1. PICK m \in wf.nodes : status[m] \in Final /\ n \in Range(Followed(m, <<>>))
    BY <1>3
  <2>0. m \in NodeId
    BY <2>1, WorkflowParts DEF TypeOK
  <2>2. status'[m] = status[m] /\ Followed(m, <<>>)' = Followed(m, <<>>)
    BY <2>0, <2>1, FollowedKept
  <2> HIDE DEF Followed
  <2>3. m \in wf'.nodes /\ status'[m] \in Final /\ n \in Range(Followed(m, <<>>)')
    BY <1>1, <2>1, <2>2
  <2> QED BY <2>3 DEF Earned, Range
<1> QED BY <1>2, <1>3 DEF Earned

\* A node met again, finished, is Final: it is known and not running.
LEMMA FinishedIsFinal ==
    ASSUME TypeOK, Phase, Known, VisitFinished
    PROVE  /\ Head(agenda) \in NodeId
           /\ Head(agenda) \in wf.nodes
           /\ status[Head(agenda)] \in Final
<1>0. Head(agenda) \in wf.nodes
  BY DEF VisitFinished
<1>1. Head(agenda) \in NodeId
  BY HeadOfAgenda DEF VisitFinished
<1>2. status[Head(agenda)] \in Status
  BY <1>1 DEF TypeOK
<1>3. /\ status[Head(agenda)] # "pending"
      /\ status[Head(agenda)] # "absent"
      /\ status[Head(agenda)] # "running"
  BY <1>1 DEF VisitFinished, Known, Phase, Running, Executing
<1> QED BY <1>0, <1>1, <1>2, <1>3 DEF Status, Final

\* The elements of the agenda after a step inside a run.
LEMMA AgendaSteps ==
    ASSUME TypeOK, Phase, Known, Inside
    PROVE  \/ agenda' = agenda
           \/ agenda # <<>> /\ Range(agenda') = Range(Tail(agenda))
           \/ \E m \in wf.nodes :
                /\ status[m] \in Final
                /\ Range(agenda') \subseteq Range(agenda) \cup Range(Followed(m, <<>>))
<1>1. CASE VisitRefused \/ VisitPending
  BY <1>1 DEF VisitRefused, VisitPending
<1>2. CASE VisitFinished
  <2> DEFINE n == Head(agenda)
  <2>1. n \in NodeId /\ n \in wf.nodes /\ status[n] \in Final
    BY <1>2, FinishedIsFinal
  <2>2. /\ agenda # <<>>
        /\ \/ agenda' = Tail(agenda)
           \/ agenda' = Followed(n, Tail(agenda))
    BY <1>2 DEF VisitFinished
  <2>3. /\ Tail(agenda) \in Seq(NodeId)
        /\ Range(Tail(agenda)) \subseteq Range(agenda)
    BY <2>2, HeadOfAgenda
  <2>4. Range(Followed(n, Tail(agenda)))
          = Range(Followed(n, <<>>)) \cup Range(Tail(agenda))
    BY <2>1, <2>3, FollowedParts
  <2> HIDE DEF n
  <2> QED BY <2>1, <2>2, <2>3, <2>4
<1>3. CASE Save
  <2>1. cur \in NodeId /\ cur \in wf.nodes /\ status[cur] \in Final
        /\ agenda' = Followed(cur, agenda)
    BY <1>3, WorkflowParts DEF Save, Phase, TypeOK
  <2>2. Range(Followed(cur, agenda)) = Range(Followed(cur, <<>>)) \cup Range(agenda)
    BY <2>1, FollowedParts DEF TypeOK
  <2> QED BY <2>1, <2>2
<1>4. CASE Attempt \/ WorkerSucceeds \/ WorkerFails \/ BackoffElapses \/ Finish
             \/ Cancel
  BY <1>4 DEF Attempt, WorkerSucceeds, WorkerFails, BackoffElapses, Finish, Cancel
<1> QED BY <1>1, <1>2, <1>3, <1>4 DEF Inside, Step

\* Every step preserves that the agenda is earned.
LEMMA AgendaStep ==
    TypeOK /\ Phase /\ Known /\ AgendaEarned /\ [Next]_vars => AgendaEarned'
<1> SUFFICES ASSUME TypeOK, Phase, Known, AgendaEarned, [Next]_vars
             PROVE  AgendaEarned'
  OBVIOUS
<1>1. CASE Execute
  BY <1>1, ExecuteBegins, BeginInv
<1>2. ASSUME NEW w \in Workflows, Resume(w) PROVE AgendaEarned'
  BY <1>2, ResumeCases, BeginInv DEF AgendaEarned, Running
<1>3. CASE Inside
  <2>1. \A n \in Range(agenda) : Earned(n)
    BY <1>3, InsideRuns DEF AgendaEarned
  <2>2. \A n \in Range(agenda') : Earned(n)
    <3>1. CASE agenda' = agenda
      BY <2>1, <3>1
    <3>2. CASE agenda # <<>> /\ Range(agenda') = Range(Tail(agenda))
      BY <2>1, <3>2, HeadOfAgenda
    <3>3. ASSUME NEW m \in wf.nodes, status[m] \in Final,
                 Range(agenda') \subseteq Range(agenda) \cup Range(Followed(m, <<>>))
          PROVE  \A n \in Range(agenda') : Earned(n)
      BY <2>1, <3>3 DEF Earned
    <3> QED BY <1>3, <3>1, <3>2, <3>3, AgendaSteps
  <2>3. \A n \in Range(agenda') : Earned(n)'
    BY <1>3, <2>2, EarnedKept
  <2>4. Range(agenda)' = Range(agenda')
    BY DEF Range
  <2> QED BY <2>3, <2>4 DEF AgendaEarned
<1>4. CASE Crash
  BY <1>4 DEF Crash, AgendaEarned, Running
<1>5. CASE UNCHANGED vars
  BY <1>5 DEF vars, volatile, AgendaEarned, Running, Earned, Followed, Range
<1> QED BY <1>1, <1>2, <1>3, <1>4, <1>5, NextCases

\* An earned node is one the definition has.
LEMMA EarnedIsNode ==
    ASSUME TypeOK, Valid(wf), NEW n, Earned(n)
    PROVE  n \in wf.nodes
<1>1. CASE n = wf.entry
  BY <1>1 DEF Valid
<1>2. CASE \E m \in wf.nodes : status[m] \in Final /\ n \in Range(Followed(m, <<>>))
  <2>1. PICK m \in wf.nodes : status[m] \in Final /\ n \in Range(Followed(m, <<>>))
    BY <1>2
  <2>2. /\ m \in NodeId
        /\ wf.succ[m] \in Seq(NodeId)
        /\ Range(wf.succ[m]) \subseteq wf.nodes
        /\ wf.branch[m] \in wf.nodes \cup {NoNode}
    BY <2>1, WorkflowParts DEF TypeOK, Valid
  <2>3. <<>> \in Seq(NodeId) /\ Range(<<>>) = {}
    BY RangeEmpty
  <2>4. CASE status[m] = "completed"
    <3>1. Followed(m, <<>>) = wf.succ[m] \o <<>>
      BY <2>4 DEF Followed
    <3>2. Range(wf.succ[m] \o <<>>) = Range(wf.succ[m]) \cup Range(<<>>)
      BY <2>2, <2>3, RangeConcat
    <3> QED BY <2>1, <2>2, <2>3, <3>1, <3>2
  <2>5. CASE status[m] # "completed" /\ wf.branch[m] # NoNode
    <3> DEFINE one == <<wf.branch[m]>>
    <3>1. one \in Seq(NodeId) /\ Range(one) = {wf.branch[m]}
      BY <2>2, <2>5, RangeOne, WorkflowParts DEF TypeOK
    <3>2. Followed(m, <<>>) = one \o <<>>
      BY <2>5 DEF Followed
    <3> HIDE DEF one
    <3>3. Range(one \o <<>>) = Range(one) \cup Range(<<>>)
      BY <2>3, <3>1, RangeConcat
    <3> QED BY <2>1, <2>2, <2>3, <2>5, <3>1, <3>2, <3>3
  <2>6. CASE status[m] # "completed" /\ wf.branch[m] = NoNode
    BY <2>1, <2>3, <2>6 DEF Followed
  <2> QED BY <2>4, <2>5, <2>6
<1> QED BY <1>1, <1>2 DEF Earned

\* A closed node stays closed as long as no node is lost from sight.
LEMMA ClosedKept ==
    ASSUME TypeOK, Phase, Inside,
           visited \cup Range(agenda) \subseteq visited' \cup Range(agenda'),
           NEW v \in NodeId, ClosedAt(v)
    PROVE  ClosedAt(v)'
<1>1. status[v] \in Final /\ Range(Followed(v, <<>>)) \subseteq visited \cup Range(agenda)
  BY DEF ClosedAt
<1>2. status'[v] = status[v] /\ Followed(v, <<>>)' = Followed(v, <<>>)
  BY <1>1, FollowedKept
<1>3. Range(Followed(v, <<>>)') \subseteq visited' \cup Range(agenda')
  BY <1>1, <1>2
<1> HIDE DEF Followed
<1> QED BY <1>1, <1>2, <1>3 DEF ClosedAt, Range

\* An open walk stays open over a step that loses no node from sight and
\* leaves behind only nodes that are closed.
LEMMA OpenKept ==
    ASSUME TypeOK, Phase, Inside, Open,
           visited \cup Range(agenda) \subseteq visited' \cup Range(agenda'),
           visited' \subseteq NodeId,
           \A v \in visited' : v # cur' /\ (v = cur \/ v \notin visited)
                                 => ClosedAt(v)'
    PROVE  Open'
<1>1. wf'.entry \in visited' \cup Range(agenda')
  BY FinalKept DEF Open
<1>2. ASSUME NEW v \in visited', v # cur' PROVE ClosedAt(v)'
  <2>1. CASE v = cur \/ v \notin visited
    BY <1>2, <2>1
  <2>2. CASE v # cur /\ v \in visited
    <3>1. ClosedAt(v) /\ v \in NodeId
      BY <2>2 DEF Open, TypeOK
    <3> QED BY <3>1, ClosedKept
  <2> QED BY <2>1, <2>2
<1> HIDE DEF ClosedAt
<1> QED BY <1>1, <1>2 DEF Open, Range

\* At an await inside a node's execution nothing moves on the agenda.
LEMMA ClosedExecuting ==
    ASSUME TypeOK, Phase, Known, WalkClosed,
           Attempt \/ WorkerSucceeds \/ WorkerFails \/ BackoffElapses
    PROVE  WalkClosed'
<1>1. Inside
  BY DEF Inside, Step
<1>2. /\ Open
      /\ visited' = visited /\ agenda' = agenda /\ cur' = cur
      /\ pc' \in Executing \cup {"save"}
      /\ outcome' = "none"
  BY DEF Attempt, WorkerSucceeds, WorkerFails, BackoffElapses, NodeEnds,
         WalkClosed, Executing, history, Phase, Running
<1>3. visited' \subseteq NodeId
  BY <1>2 DEF TypeOK
<1>4. Open'
  BY <1>1, <1>2, <1>3, OpenKept
<1>5. pc' # "walk"
  BY <1>2 DEF Executing
<1> QED BY <1>2, <1>4, <1>5 DEF WalkClosed, SuccessIsClosed

\* Every step preserves that the walk is closed or has failed.
LEMMA ClosedStep ==
    /\ TypeOK /\ Phase /\ Known /\ AgendaEarned /\ WalkClosed
    /\ [Next]_vars
    => WalkClosed'
<1> SUFFICES ASSUME TypeOK, Phase, Known, AgendaEarned, WalkClosed, [Next]_vars
             PROVE  WalkClosed'
  OBVIOUS
<1>1. CASE Execute
  BY <1>1, ExecuteBegins, BeginInv
<1>2. ASSUME NEW w \in Workflows, Resume(w) PROVE WalkClosed'
  <2>1. CASE Startable(w, Restored(w)) /\ Begin(w, Restored(w))
    BY <1>2, <2>1, ResumeCases, BeginInv
  <2>2. CASE pc' = "done" /\ outcome' = "failure"
    BY <2>2 DEF WalkClosed, Executing, SuccessIsClosed
  <2> QED BY <1>2, <2>1, <2>2, ResumeCases
<1>3. CASE VisitRefused
  <2>1. /\ pc = "walk" /\ pc' = "walk" /\ agenda # <<>> /\ last' = "failed"
        /\ cancelled' = cancelled /\ outcome' = "none"
        /\ cancelled \/ Head(agenda) \notin wf.nodes
    BY <1>3 DEF VisitRefused, Phase, Running
  <2>2. Head(agenda) \in wf.nodes
    BY <2>1, HeadOfAgenda, EarnedIsNode DEF AgendaEarned, Known, Running
  <2> QED BY <2>1, <2>2 DEF WalkClosed, SuccessIsClosed, Executing
<1>4. CASE VisitFinished
  <2>0. PICK n : n = Head(agenda)
    OBVIOUS
  <2>1. /\ n \in NodeId /\ status[n] \in Final /\ agenda # <<>>
        /\ Range(agenda) = {n} \cup Range(Tail(agenda))
        /\ Tail(agenda) \in Seq(NodeId)
    BY <1>4, <2>0, FinishedIsFinal, HeadOfAgenda DEF VisitFinished
  <2>2. /\ Inside /\ Open /\ cur = NoNode /\ cur' = NoNode
        /\ visited' = visited \cup {n}
        /\ agenda' = IF n \in visited THEN Tail(agenda)
                                      ELSE Followed(n, Tail(agenda))
        /\ pc' = "walk" /\ outcome' = "none"
    BY <1>4, <2>0 DEF VisitFinished, Inside, Step, WalkClosed, Phase, Running
  <2>3. Range(Followed(n, Tail(agenda)))
          = Range(Followed(n, <<>>)) \cup Range(Tail(agenda))
    BY <2>1, FollowedParts
  <2>4. visited' \subseteq NodeId /\ NoNode \notin visited'
    BY <2>1, <2>2, NodeAssumption DEF TypeOK
  <2>5. visited \cup Range(agenda) \subseteq visited' \cup Range(agenda')
    BY <2>1, <2>2, <2>3
  <2>6. ASSUME n \notin visited PROVE ClosedAt(n)'
    <3>1. Range(Followed(n, <<>>)) \subseteq Range(agenda')
      BY <2>2, <2>3, <2>6
    <3>2. status'[n] \in Final /\ Followed(n, <<>>)' = Followed(n, <<>>)
      BY <2>1, <2>2, FollowedKept
    <3>3. Range(Followed(n, <<>>)') \subseteq visited' \cup Range(agenda')
      BY <3>1, <3>2
    <3> HIDE DEF Followed
    <3> QED BY <3>2, <3>3 DEF ClosedAt, Range
  <2>7. \A v \in visited' : v # cur' /\ (v = cur \/ v \notin visited)
                              => ClosedAt(v)'
    BY <2>2, <2>4, <2>6
  <2>8. Open'
    BY <2>2, <2>4, <2>5, <2>7, OpenKept
  <2> QED BY <2>2, <2>8 DEF WalkClosed, SuccessIsClosed, Executing
<1>5. CASE VisitPending
  <2>1. /\ Head(agenda) \in NodeId
        /\ Range(agenda) = {Head(agenda)} \cup Range(Tail(agenda))
    BY <1>5, HeadOfAgenda DEF VisitPending
  <2>2. /\ Inside /\ Open /\ cur = NoNode /\ cur' = Head(agenda)
        /\ visited' = visited \cup {Head(agenda)} /\ agenda' = Tail(agenda)
        /\ pc' = "attempt" /\ outcome' = "none"
    BY <1>5 DEF VisitPending, Inside, Step, WalkClosed, Phase, Running
  <2>3. visited' \subseteq NodeId /\ NoNode \notin visited'
    BY <2>1, <2>2, NodeAssumption DEF TypeOK
  <2>4. Open'
    BY <2>1, <2>2, <2>3, OpenKept
  <2> QED BY <2>2, <2>4 DEF WalkClosed, SuccessIsClosed, Executing
<1>6. CASE Attempt \/ WorkerSucceeds \/ WorkerFails \/ BackoffElapses
  BY <1>6, ClosedExecuting
<1>7. CASE Save
  <2>1. /\ Inside /\ Open /\ cur \in NodeId /\ status[cur] \in Final
        /\ cur' = NoNode /\ visited' = visited
        /\ agenda' = Followed(cur, agenda)
        /\ pc' = "walk" /\ outcome' = "none"
    BY <1>7, WorkflowParts
    DEF Save, Inside, Step, WalkClosed, Phase, Running, TypeOK
  <2>2. Range(agenda') = Range(Followed(cur, <<>>)) \cup Range(agenda)
    BY <2>1, FollowedParts DEF TypeOK
  <2>3. PICK n : n = cur
    OBVIOUS
  <2>4. ClosedAt(n)'
    <3>1. status'[n] \in Final /\ Followed(n, <<>>)' = Followed(n, <<>>)
      BY <2>1, <2>3, FollowedKept
    <3>2. Range(Followed(n, <<>>)') \subseteq visited' \cup Range(agenda')
      BY <2>2, <2>3, <3>1
    <3> HIDE DEF Followed
    <3> QED BY <3>1, <3>2 DEF ClosedAt, Range
  <2>5. visited' \subseteq NodeId
    BY <2>1 DEF TypeOK
  <2>6. Open'
    BY <2>1, <2>2, <2>3, <2>4, <2>5, OpenKept
  <2> QED BY <2>1, <2>6 DEF WalkClosed, SuccessIsClosed, Executing
<1>8. CASE Finish
  <2>1. /\ pc = "walk" /\ pc' = "done" /\ cur = NoNode /\ agenda = <<>>
        /\ wf' = wf /\ status' = status /\ visited' = visited
        /\ outcome' = "success" => last = "ok"
    BY <1>8 DEF Finish, Phase
  <2>2. ASSUME outcome' = "success" PROVE SuccessIsClosed'
    <3>1. Open /\ Range(agenda) = {}
      BY <2>1, <2>2, RangeEmpty DEF WalkClosed
    <3>2. wf.entry \in visited /\ NoNode \notin visited
      BY <3>1, NodeAssumption DEF Open, TypeOK
    <3>3. \A v \in visited : /\ status[v] \in Final
                             /\ Range(Followed(v, <<>>)) \subseteq visited
      BY <2>1, <3>1, <3>2 DEF Open, ClosedAt
    <3>4. \A v \in visited : /\ status[v] \in Final
                             /\ Leads(v) \subseteq visited
      BY <3>3, FollowedIsLeads DEF TypeOK
    <3> QED BY <2>1, <3>2, <3>4 DEF SuccessIsClosed, Leads, Range
  <2>3. SuccessIsClosed'
    BY <2>2 DEF SuccessIsClosed
  <2> QED BY <2>1, <2>3 DEF WalkClosed, Executing
<1>9. CASE Cancel
  <2>1. UNCHANGED <<wf, pc, cur, status, agenda, visited, last, outcome>>
        /\ cancelled' = TRUE
    BY <1>9 DEF Cancel
  <2> QED BY <2>1 DEF WalkClosed, SuccessIsClosed, Open, ClosedAt, Executing,
                      Followed, Leads, Range
<1>10. CASE Crash
  <2>1. pc' = "crashed" /\ outcome' = "none"
    BY <1>10 DEF Crash, Phase, Running
  <2> QED BY <2>1 DEF WalkClosed, SuccessIsClosed, Executing
<1>11. CASE UNCHANGED vars
  BY <1>11 DEF vars, volatile, WalkClosed, SuccessIsClosed, Open, ClosedAt,
               Followed, Leads, Range
<1> QED BY <1>1, <1>2, <1>3, <1>4, <1>5, <1>6, <1>7, <1>8, <1>9, <1>10, <1>11
        DEF Next, Step
-----------------------------------------------------------------------------
(* How often a worker succeeds *)

\* Every step preserves the bound on successes.
LEMMA EffectsStep ==
    TypeOK /\ Phase /\ EffectsBounded /\ [Next]_vars => EffectsBounded'
<1> SUFFICES ASSUME TypeOK, Phase, EffectsBounded, [Next]_vars
             PROVE  EffectsBounded'
  OBVIOUS
<1>1. CASE Execute
  <2>1. pc = "idle" /\ pc' # "idle" /\ effects' = effects /\ resumes' = resumes
    BY <1>1 DEF Execute, Begin, history
  <2> QED BY <2>1 DEF EffectsBounded
<1>2. ASSUME NEW w \in Workflows, Resume(w) PROVE EffectsBounded'
  <2> DEFINE r == resumes'
  <2>1. effects' = effects /\ r = resumes + 1 /\ pc' # "idle"
    BY <1>2 DEF Resume, Begin
  <2>2. resumes \in Nat /\ effects \in [NodeId -> Nat]
    BY DEF TypeOK
  <2>3. \A n \in NodeId : effects[n] <= resumes + 1
    BY DEF EffectsBounded
  <2> HIDE DEF r
  <2>4. \A n \in NodeId : effects[n] <= r + 1 /\ effects[n] <= r
    BY <2>1, <2>2, <2>3
  <2>5. \A n \in NodeId : effects'[n] <= r + 1 /\ effects'[n] <= r
    BY <2>1, <2>4
  <2> QED BY <2>1, <2>5 DEF EffectsBounded, r
<1>3. CASE WorkerSucceeds
  <2>1. /\ cur \in NodeId /\ status[cur] = "running" /\ Running
        /\ pc' = "save" /\ resumes' = resumes
        /\ effects' = [effects EXCEPT ![cur] = @ + 1]
        /\ status' = [status EXCEPT ![cur] = "completed"]
    BY <1>3, WorkflowParts
    DEF WorkerSucceeds, NodeEnds, Phase, Executing, Running, TypeOK
  <2>2. resumes \in Nat /\ effects \in [NodeId -> Nat]
        /\ status \in [NodeId -> Status]
    BY DEF TypeOK
  <2>3. effects[cur] <= resumes
    BY <2>1 DEF EffectsBounded, Final
  <2>4. effects[cur] + 1 <= resumes + 1
    BY <2>1, <2>2, <2>3
  <2>5. ASSUME NEW n \in NodeId
        PROVE  /\ effects'[n] <= resumes + 1
               /\ status'[n] \notin Final => effects'[n] <= resumes
    <3>1. CASE n = cur
      <4>1. effects'[n] = effects[cur] + 1 /\ status'[n] = "completed"
        BY <2>1, <2>2, <3>1
      <4> QED BY <2>4, <4>1 DEF Final
    <3>2. CASE n # cur
      <4>1. effects'[n] = effects[n] /\ status'[n] = status[n]
        BY <2>1, <2>2, <3>2
      <4> QED BY <2>1, <4>1 DEF EffectsBounded
    <3> QED BY <3>1, <3>2
  <2> QED BY <2>1, <2>5 DEF EffectsBounded
<1>4. CASE Inside /\ ~WorkerSucceeds
  <2>1. /\ Running /\ resumes' = resumes
        /\ \A n \in NodeId : status[n] \in Final => status'[n] \in Final
    BY <1>4, FinalKept, InsideRuns
  <2>2. effects' = effects /\ pc' # "idle"
    BY <1>4 DEF Inside, Step, VisitRefused, VisitFinished, VisitPending, Attempt,
                WorkerFails, NodeEnds, BackoffElapses, Save, Finish, Cancel,
                Running, history
  <2> QED BY <2>1, <2>2 DEF EffectsBounded
<1>5. CASE Crash
  <2>1. effects' = effects /\ resumes' = resumes /\ pc' = "crashed"
    BY <1>5 DEF Crash, history
  <2> QED BY <2>1 DEF EffectsBounded, Running
<1>6. CASE UNCHANGED vars
  BY <1>6 DEF vars, volatile, history, EffectsBounded, Running
<1> QED BY <1>1, <1>2, <1>3, <1>4, <1>5, <1>6, NextCases
-----------------------------------------------------------------------------
(* The theorems *)

\* IInv is inductive.
LEMMA Inductive == IInv /\ [Next]_vars => IInv'
BY TypeStep, PhaseStep, KnownStep, AgreesStep, AgendaStep, ClosedStep, EffectsStep
DEF IInv

\* IInv holds in every reachable state.
THEOREM Invariant == Spec => []IInv
BY InitOK, Inductive, PTL DEF Spec

\* Every variable keeps its type, and no node is attempted more often than its
\* retry policy allows, for every set of definitions.
THEOREM TypeCorrect == Spec => []TypeOK
<1>1. IInv => TypeOK
  BY DEF IInv
<1> QED BY <1>1, Invariant, PTL

\* One run lets the worker of a node succeed at most once, whatever cycles and
\* joins lead back to it.
THEOREM OncePerRun == Spec => []RunsOncePerRun
<1>1. IInv => RunsOncePerRun
  BY DEF IInv, EffectsBounded, RunsOncePerRun
<1> QED BY <1>1, Invariant, PTL

\* A run that reports success has walked everything its workflow leads to.
THEOREM SuccessClosed == Spec => []SuccessIsClosed
<1>1. IInv => SuccessIsClosed
  BY DEF IInv, WalkClosed
<1> QED BY <1>1, Invariant, PTL

\* A step leaves what the checkpoint says of a finished node.
LEMMA RecordKept ==
    ASSUME IInv, [Next]_vars, NEW n \in NodeId, Recorded(n) \in Final
    PROVE  Recorded(n)' = Recorded(n)
<1>1. CASE Inside
  <2>1. status[n] = Recorded(n)
    BY <1>1, InsideRuns DEF IInv, Agrees
  <2>2. Snapshot # NoCheckpoint
    BY CheckpointAssumption, WorkflowParts DEF IInv, TypeOK, Snapshot
  <2>3. CASE checkpoint' = checkpoint
    BY <2>3 DEF Recorded
  <2>4. CASE checkpoint' = Snapshot
    <3>1. Recorded(n)' = Snapshot.status[n]
      BY <2>2, <2>4 DEF Recorded
    <3> QED BY <2>1, <3>1 DEF Snapshot
  <2> QED BY <1>1, <2>3, <2>4, CheckpointSteps
<1>2. CASE ~Inside
  <2>1. checkpoint' = checkpoint
    BY <1>2, NextCases, ResumeCases DEF IInv, Execute, Crash, vars
  <2> QED BY <2>1 DEF Recorded
<1> QED BY <1>1, <1>2

\* A durable outcome of a node is never taken back.
THEOREM RecordFinal == Spec => RecordedIsFinal
<1>1. IInv /\ [Next]_vars =>
        [\A n \in NodeId : Recorded(n) \in Final => Recorded(n)' = Recorded(n)]_vars
  BY RecordKept
<1> QED BY <1>1, Invariant, PTL DEF Spec, RecordedIsFinal

\* The only step that starts a node, and the node it starts.
LEMMA StartsByVisit ==
    ASSUME IInv, [Next]_vars, NEW n \in NodeId,
           status'[n] = "running", status[n] # "running"
    PROVE  VisitPending /\ n = Head(agenda) /\ status[n] = "pending"
<1>0. TypeOK /\ TypeOK' /\ Phase'
  BY Inductive DEF IInv
<1>1. pc' \in Executing
  BY <1>0 DEF Phase
<1>2. VisitPending
  <2>1. CASE Execute
    BY <1>1, <2>1 DEF Execute, Begin, Executing
  <2>2. ASSUME NEW w \in Workflows, Resume(w) PROVE FALSE
    BY <1>1, <2>2 DEF Resume, Begin, Executing
  <2>3. CASE VisitRefused \/ VisitFinished \/ BackoffElapses \/ Save \/ Finish
               \/ Cancel \/ Crash \/ UNCHANGED vars
    <3>1. status' = status \/ pc' = "crashed"
      BY <2>3 DEF VisitRefused, VisitFinished, BackoffElapses, Save, Finish,
                  Cancel, Crash, vars, volatile
    <3> QED BY <1>1, <3>1 DEF Executing
  <2>4. CASE Attempt \/ WorkerSucceeds \/ WorkerFails
    <3>1. status' = status \/ pc' = "save"
      BY <2>4 DEF Attempt, WorkerSucceeds, WorkerFails, NodeEnds
    <3> QED BY <1>1, <3>1 DEF Executing
  <2> QED BY <2>1, <2>2, <2>3, <2>4 DEF Next, Step
<1>3. status' = [status EXCEPT ![Head(agenda)] = "running"]
      /\ status[Head(agenda)] = "pending"
  BY <1>2 DEF VisitPending
<1> QED BY <1>0, <1>2, <1>3 DEF TypeOK

\* What the checkpoint records as finished is never executed again.
THEOREM RecordNotRerun == Spec => RecordedNotRerun
<1>1. IInv /\ [Next]_vars =>
        [\A n \in NodeId : Recorded(n) \in Final => status'[n] # "running"]_vars
  <2> SUFFICES ASSUME IInv, [Next]_vars, ~UNCHANGED vars,
                      NEW n \in NodeId, Recorded(n) \in Final,
                      status'[n] = "running"
               PROVE  FALSE
    OBVIOUS
  <2>1. IInv'
    BY Inductive
  <2>2. Recorded(n)' = Recorded(n)
    BY RecordKept
  <2>3. Running'
    BY <2>1 DEF IInv, Phase, Executing, Running
  <2>4. status'[n] = Recorded(n)'
    BY <2>1, <2>2, <2>3 DEF IInv, Agrees
  <2> QED BY <2>2, <2>4 DEF Final
<1> QED BY <1>1, Invariant, PTL DEF Spec, RecordedNotRerun

\* The record of an instance holds, over any number of crashes and resumes with any
\* definitions: it is never taken back and what it says is finished never runs again.
THEOREM RecordKeeps == Spec => RecordHolds
BY RecordFinal, RecordNotRerun, PTL DEF RecordHolds

\* A node starts only because the workflow led to it.
THEOREM StartEarned == Spec => StartsAreEarned
<1>1. IInv /\ [Next]_vars =>
        [\A n \in NodeId :
            status'[n] = "running" /\ status[n] # "running" =>
                \/ n = wf.entry
                \/ \E m \in wf.nodes : status[m] \in Final /\ n \in Leads(m)]_vars
  <2> SUFFICES ASSUME IInv, [Next]_vars, NEW n \in NodeId,
                      status'[n] = "running", status[n] # "running"
               PROVE  \/ n = wf.entry
                      \/ \E m \in wf.nodes : status[m] \in Final /\ n \in Leads(m)
    OBVIOUS
  <2>1. VisitPending /\ n = Head(agenda)
    BY StartsByVisit
  <2>2. Running /\ agenda # <<>> /\ n \in Range(agenda)
    BY <2>1, HeadOfAgenda DEF VisitPending, Running, IInv
  <2>3. Earned(n)
    BY <2>2 DEF IInv, AgendaEarned
  <2>4. wf.nodes \subseteq NodeId
    BY WorkflowParts DEF IInv, TypeOK
  <2>5. \A m \in wf.nodes : Range(Followed(m, <<>>)) = Leads(m)
    BY <2>4, FollowedIsLeads DEF IInv
  <2> QED BY <2>3, <2>5 DEF Earned
<1> QED BY <1>1, Invariant, PTL DEF Spec, StartsAreEarned

-----------------------------------------------------------------------------
(***************************************************************************)
(* The watched execution beside the run: type correctness of GraphWatchdog *)
(* and its two invariants about the time budget, for every budget, chain   *)
(* and number of faults.                                                   *)
(*                                                                         *)
(* The three formulas are inductive together.  The budget only changes     *)
(* when a poll finds something left to grant and the ceiling not reached:  *)
(* by CancelledWithCause neither can be the case once the watchdog has     *)
(* turned to cancelling.                                                   *)
(***************************************************************************)

WatchIInv == Watch!TypeOK /\ Watch!BudgetCapped /\ Watch!CancelledWithCause

\* What can be granted is a number, within both limits.
LEMMA WatchGrantableBounds ==
    ASSUME NEW bud \in Watch!Budget
    PROVE  /\ Watch!Grantable(bud) \in Nat
           /\ bud.hard + Watch!Grantable(bud) <= Absolute
           /\ bud.consumed + Watch!Grantable(bud) <= MaxExt
BY BudgetAssumption DEF Watch!Budget, Watch!Grantable, Watch!Smaller, Watch!Remaining

\* An extended budget is a budget.
LEMMA WatchExtendedType ==
    ASSUME NEW bud \in Watch!Budget, NEW t \in Nat
    PROVE  Watch!Extended(bud, t) \in Watch!Budget
<1>1. bud.hard \in Hard..Absolute /\ bud.consumed \in 0..MaxExt /\ bud.grace \in Nat
    BY DEF Watch!Budget
<1>2. /\ bud.hard + Watch!Grantable(bud) \in Hard..Absolute
      /\ bud.consumed + Watch!Grantable(bud) \in 0..MaxExt
      /\ t + Watch!Grantable(bud) \in Nat
    BY <1>1, WatchGrantableBounds, BudgetAssumption
<1> QED BY <1>2 DEF Watch!Extended, Watch!Budget

\* The verdict extends only before the ceiling, with something to grant; it
\* gives up only with nothing to grant, and expires only at the ceiling (the
\* startup deadline does not count for a graph).
LEMMA WatchVerdictCauses ==
    ASSUME NEW bud, NEW t, NEW s
    PROVE  /\ Watch!Verdict(bud, t, TRUE, s) = "extended" =>
                 Watch!Grantable(bud) > 0 /\ ~Watch!HardExpired(bud, t)
           /\ Watch!Verdict(bud, t, TRUE, s) = "stalled" => ~(Watch!Grantable(bud) > 0)
           /\ Watch!Verdict(bud, t, TRUE, s) = "expired" => Watch!HardExpired(bud, t)
BY DEF Watch!Verdict

\* The watchdog's records of one node keep the types.
LEMMA WatchWriteType ==
    ASSUME Watch!TypeOK, NEW act \in Watch!Reason \cup {"extended"},
           NEW S \in SUBSET Watch!Node, Watch!Write(act, S)
    PROVE  /\ nodeStatus' \in [Watch!Node -> Watch!NodeStatus]
           /\ touched' \in [Watch!Node -> 0..Absolute]
           /\ wd' = [pc |-> "recording", act |-> act, todo |-> S \ {Watch!First(S)}]
           /\ wd'.todo \in SUBSET Watch!Node
BY DEF Watch!TypeOK, Watch!Write, Watch!Set, Watch!NodeStatus

\* A run starts with a fresh budget and nothing cancelled.
LEMMA WatchInitInv == Watch!Init => WatchIInv
<1> SUFFICES ASSUME Watch!Init PROVE WatchIInv
    OBVIOUS
<1>1. Watch!FreshBudget \in Watch!Budget
    BY BudgetAssumption DEF Watch!FreshBudget, Watch!Budget
<1>2. Watch!TypeOK
    BY <1>1, BudgetAssumption, GraphAssumption
       DEF Watch!Init, Watch!TypeOK, Watch!Node, Watch!Root, Watch!NodeStatus
<1>3. Watch!BudgetCapped /\ Watch!CancelledWithCause
    BY BudgetAssumption DEF Watch!Init, Watch!BudgetCapped, Watch!CancelledWithCause,
       Watch!FreshBudget
<1> QED BY <1>2, <1>3 DEF WatchIInv

\* The steps of the runtime, of the environment and the failures leave the
\* budget, and what the watchdog is cancelling for, alone.
LEMMA WatchElsewhere ==
    ASSUME WatchIInv, Watch!TypeOK',
           budget' = budget, elapsed' >= elapsed,
           token' \in {token, "external"},
           wd'.act \in {wd.act, "none"}
    PROVE  WatchIInv'
<1>1. Watch!BudgetCapped'
    BY DEF WatchIInv, Watch!BudgetCapped
<1>2. "stall" \in {token', wd'.act} => "stall" \in {token, wd.act}
    OBVIOUS
<1>3. "hard_deadline" \in {token', wd'.act} => "hard_deadline" \in {token, wd.act}
    OBVIOUS
<1>4. Watch!HardExpired(budget, elapsed) => Watch!HardExpired(budget', elapsed')
    BY DEF Watch!HardExpired, WatchIInv, Watch!TypeOK, Watch!Budget
<1>5. Watch!CancelledWithCause'
    BY <1>2, <1>3, <1>4 DEF WatchIInv, Watch!CancelledWithCause
<1> QED BY <1>1, <1>5 DEF WatchIInv

\* No step of the runtime disturbs the invariant.
LEMMA WatchRuntimeInv ==
    ASSUME WatchIInv, Watch!RuntimeStep \/ \E success \in BOOLEAN : Watch!Finish(success)
    PROVE  WatchIInv'
<1> USE DEF Watch!Set, Watch!Report, Watch!To
<1>t. Watch!TypeOK
    BY DEF WatchIInv
<1>e. elapsed \in Nat /\ elapsed <= elapsed
    BY <1>t, BudgetAssumption DEF Watch!TypeOK
<1>f. Watch!Faulty => faults' \in 0..MaxFaults
    BY <1>t, GraphAssumption DEF Watch!Faulty, Watch!TypeOK
<1>1. CASE Watch!Begin
    <2>1. Watch!TypeOK'
        BY <1>1, <1>t DEF Watch!Begin, Watch!TypeOK, Watch!graph, Watch!NodeStatus
    <2> QED BY <2>1, <1>1, <1>e, WatchElsewhere DEF Watch!Begin
<1>2. CASE Watch!Start
    <2>1. wd' = wd \/ Watch!Loop
        BY <1>2 DEF Watch!Start
    <2>2. wd'.act \in {wd.act, "none"}
        BY <2>1 DEF Watch!Loop
    <2>3. Watch!TypeOK'
        BY <1>2, <1>t, <1>f DEF Watch!Start, Watch!TypeOK, Watch!Loop, Watch!NodeStatus
    <2> QED BY <2>2, <2>3, <1>2, <1>e, WatchElsewhere DEF Watch!Start
<1>3. CASE Watch!Visit
    <2>1. rt.node + 1 \in Watch!Node
        BY <1>3, <1>t, GraphAssumption DEF Watch!Visit, Watch!TypeOK, Watch!Node
    <2>2. Watch!TypeOK'
        BY <1>3, <1>t, <2>1 DEF Watch!Visit, Watch!TypeOK, Watch!graph, Watch!NodeStatus
    <2> QED BY <2>2, <1>3, <1>e, WatchElsewhere DEF Watch!Visit
<1>4. CASE Watch!Marked
    <2>1. Watch!TypeOK'
        BY <1>4, <1>t, <1>f DEF Watch!Marked, Watch!TypeOK, Watch!graph
    <2> QED BY <2>1, <1>4, <1>e, WatchElsewhere DEF Watch!Marked
<1>5. ASSUME NEW success \in BOOLEAN, Watch!Finish(success) PROVE WatchIInv'
    <2>1. Watch!TypeOK'
        BY <1>5, <1>t DEF Watch!Finish, Watch!TypeOK, Watch!graph, Watch!NodeStatus
    <2> QED BY <2>1, <1>5, <1>e, WatchElsewhere DEF Watch!Finish
<1>6. CASE Watch!Closed
    <2>1. Watch!TypeOK'
        BY <1>6, <1>t, <1>f DEF Watch!Closed, Watch!TypeOK, Watch!graph
    <2> QED BY <2>1, <1>6, <1>e, WatchElsewhere DEF Watch!Closed
<1>7. CASE Watch!EndWalk
    <2>1. Watch!TypeOK'
        BY <1>7, <1>t DEF Watch!EndWalk, Watch!TypeOK, Watch!graph, Watch!NodeStatus
    <2> QED BY <2>1, <1>7, <1>e, WatchElsewhere DEF Watch!EndWalk
<1>8. CASE Watch!RootReported
    <2>1. Watch!TypeOK'
        BY <1>8, <1>t, <1>f DEF Watch!RootReported, Watch!TypeOK, Watch!graph
    <2> QED BY <2>1, <1>8, <1>e, WatchElsewhere DEF Watch!RootReported
<1>9. CASE Watch!Stop
    <2>1. wd' = wd \/ wd' = [wd EXCEPT !.pc = "stopped", !.todo = {}]
        BY <1>9 DEF Watch!Stop
    <2>2. wd'.act \in {wd.act, "none"}
        BY <2>1, <1>t DEF Watch!TypeOK
    <2>3. Watch!TypeOK'
        BY <1>9, <1>t DEF Watch!Stop, Watch!TypeOK, Watch!graph
    <2> QED BY <2>2, <2>3, <1>9, <1>e, WatchElsewhere DEF Watch!Stop
<1> QED BY <1>1, <1>2, <1>3, <1>4, <1>5, <1>6, <1>7, <1>8, <1>9 DEF Watch!RuntimeStep

\* A poll extends the budget, or turns to cancelling, for a reason.
LEMMA WatchInspectInv ==
    ASSUME WatchIInv, Watch!Inspect
    PROVE  WatchIInv'
<1>t. Watch!TypeOK /\ elapsed \in Nat /\ budget \in Watch!Budget
    BY BudgetAssumption DEF WatchIInv, Watch!TypeOK
<1>aa. Watch!ActiveNodes \in SUBSET Watch!Node
    BY DEF Watch!ActiveNodes
<1>s. UNCHANGED <<elapsed, token, rt, life, faults>>
    BY DEF Watch!Inspect
<1> DEFINE v == Watch!Verdict(budget, elapsed, TRUE, Watch!Silence)
<1>v. /\ v = "extended" =>
            Watch!Grantable(budget) > 0 /\ ~Watch!HardExpired(budget, elapsed)
      /\ v = "stalled" => ~(Watch!Grantable(budget) > 0)
      /\ v = "expired" => Watch!HardExpired(budget, elapsed)
    BY WatchVerdictCauses
<1>c. \/ v = "extended" /\ budget' = Watch!Extended(budget, elapsed)
                       /\ Watch!Write("extended", Watch!ActiveNodes)
      \/ v = "stalled" /\ Watch!Write("stall", Watch!ActiveNodes) /\ budget' = budget
      \/ v = "expired" /\ Watch!Write("hard_deadline", Watch!ActiveNodes)
            /\ budget' = budget
      \/ Watch!Loop /\ UNCHANGED <<budget, Watch!graph>>
    BY DEF Watch!Inspect
<1> HIDE DEF v
<1>1. CASE v = "extended" /\ budget' = Watch!Extended(budget, elapsed)
                        /\ Watch!Write("extended", Watch!ActiveNodes)
    <2>1. budget' \in Watch!Budget
        BY <1>1, <1>t, WatchExtendedType
    <2>2. /\ nodeStatus' \in [Watch!Node -> Watch!NodeStatus]
          /\ touched' \in [Watch!Node -> 0..Absolute]
          /\ wd' = [pc |-> "recording", act |-> "extended",
                    todo |-> Watch!ActiveNodes \ {Watch!First(Watch!ActiveNodes)}]
        BY <1>1, <1>t, <1>aa, WatchWriteType
    <2>3. Watch!TypeOK'
        BY <2>1, <2>2, <1>t, <1>s, <1>aa DEF Watch!TypeOK
    <2>4. Watch!BudgetCapped'
        BY <1>1, <1>t, WatchGrantableBounds, BudgetAssumption
           DEF Watch!Extended, WatchIInv, Watch!BudgetCapped, Watch!Budget
    <2>5. token # "stall" /\ token # "hard_deadline"
        BY <1>1, <1>v, WatchGrantableBounds, <1>t DEF WatchIInv, Watch!CancelledWithCause
    <2>6. Watch!CancelledWithCause'
        BY <2>2, <2>5, <1>s DEF Watch!CancelledWithCause
    <2> QED BY <2>3, <2>4, <2>6 DEF WatchIInv
<1>2. CASE v = "stalled" /\ Watch!Write("stall", Watch!ActiveNodes) /\ budget' = budget
    <2>1. /\ nodeStatus' \in [Watch!Node -> Watch!NodeStatus]
          /\ touched' \in [Watch!Node -> 0..Absolute]
          /\ wd' = [pc |-> "recording", act |-> "stall",
                    todo |-> Watch!ActiveNodes \ {Watch!First(Watch!ActiveNodes)}]
        BY <1>2, <1>t, <1>aa, WatchWriteType DEF Watch!Reason
    <2>2. Watch!TypeOK'
        BY <2>1, <1>2, <1>t, <1>s, <1>aa DEF Watch!TypeOK, Watch!Reason
    <2>3. Watch!Grantable(budget') = 0
        BY <1>2, <1>v, <1>t, WatchGrantableBounds
    <2>4. Watch!BudgetCapped'
        BY <1>2 DEF WatchIInv, Watch!BudgetCapped
    <2>5. Watch!CancelledWithCause'
        BY <2>1, <2>3, <1>2, <1>s DEF WatchIInv, Watch!CancelledWithCause
    <2> QED BY <2>2, <2>4, <2>5 DEF WatchIInv
<1>3. CASE v = "expired" /\ Watch!Write("hard_deadline", Watch!ActiveNodes)
      /\ budget' = budget
    <2>1. /\ nodeStatus' \in [Watch!Node -> Watch!NodeStatus]
          /\ touched' \in [Watch!Node -> 0..Absolute]
          /\ wd' = [pc |-> "recording", act |-> "hard_deadline",
                    todo |-> Watch!ActiveNodes \ {Watch!First(Watch!ActiveNodes)}]
        BY <1>3, <1>t, <1>aa, WatchWriteType DEF Watch!Reason
    <2>2. Watch!TypeOK'
        BY <2>1, <1>3, <1>t, <1>s, <1>aa DEF Watch!TypeOK, Watch!Reason
    <2>3. Watch!HardExpired(budget', elapsed')
        BY <1>3, <1>v, <1>s
    <2>4. Watch!BudgetCapped'
        BY <1>3 DEF WatchIInv, Watch!BudgetCapped
    <2>5. Watch!CancelledWithCause'
        BY <2>1, <2>3, <1>3, <1>s DEF WatchIInv, Watch!CancelledWithCause
    <2> QED BY <2>2, <2>4, <2>5 DEF WatchIInv
<1>4. CASE Watch!Loop /\ UNCHANGED <<budget, Watch!graph>>
    <2>1. Watch!TypeOK'
        BY <1>4, <1>t, <1>s DEF Watch!TypeOK, Watch!Loop, Watch!graph
    <2>2. wd'.act = "none"
        BY <1>4 DEF Watch!Loop
    <2> QED BY <2>1, <2>2, <1>4, <1>t, <1>s, WatchElsewhere
<1> QED BY <1>c, <1>1, <1>2, <1>3, <1>4

\* The other steps of the watchdog cancel for what was decided, if at all.
LEMMA WatchWatchdogInv ==
    ASSUME WatchIInv, Watch!InspectIdle \/ Watch!RecordNext \/ Watch!Recorded \/ Watch!Die
    PROVE  WatchIInv'
<1>t. Watch!TypeOK /\ elapsed \in Nat
    BY BudgetAssumption DEF WatchIInv, Watch!TypeOK
<1>s. UNCHANGED <<elapsed, budget, rt, life>>
    BY DEF Watch!InspectIdle, Watch!RecordNext, Watch!Recorded, Watch!Die
<1>bud. Watch!BudgetCapped'
    BY <1>s DEF WatchIInv, Watch!BudgetCapped
<1>1. CASE Watch!InspectIdle
    <2>1. CASE Watch!Loop /\ UNCHANGED token
        <3>1. Watch!TypeOK'
            BY <1>1, <2>1, <1>t DEF Watch!InspectIdle, Watch!TypeOK, Watch!Loop, Watch!graph
        <3> QED BY <3>1, <2>1, <1>t, <1>s, WatchElsewhere DEF Watch!Loop
    <2>2. CASE /\ Watch!HardExpired(budget, elapsed)
               /\ token' = Watch!Cancelled("hard_deadline")
               /\ wd' = [wd EXCEPT !.pc = "finished"]
        <3>1. wd.todo = {}
            BY <1>1, <1>t DEF Watch!InspectIdle, Watch!TypeOK
        <3>2. token' \in {token, "hard_deadline"} /\ wd'.act = wd.act
            BY <2>2, <1>t DEF Watch!Cancelled, Watch!TypeOK
        <3>3. Watch!TypeOK'
            BY <1>1, <2>2, <3>1, <3>2, <1>t
               DEF Watch!InspectIdle, Watch!TypeOK, Watch!graph, Watch!Reason
        <3>4. Watch!CancelledWithCause'
            BY <2>2, <3>2, <1>s DEF WatchIInv, Watch!CancelledWithCause
        <3> QED BY <3>3, <3>4, <1>bud DEF WatchIInv
    <2> QED BY <1>1, <2>1, <2>2 DEF Watch!InspectIdle
<1>2. CASE Watch!RecordNext
    <2>1. wd.act \in Watch!Reason \cup {"none", "extended"} /\ wd.todo \in SUBSET Watch!Node
        BY <1>t DEF Watch!TypeOK
    <2>2. /\ nodeStatus' \in [Watch!Node -> Watch!NodeStatus]
          /\ touched' \in [Watch!Node -> 0..Absolute]
          /\ wd' = [pc |-> "recording", act |-> wd.act,
                    todo |-> wd.todo \ {Watch!First(wd.todo)}]
        BY <1>2, <1>t, <2>1 DEF Watch!RecordNext, Watch!Write, Watch!Set, Watch!TypeOK,
           Watch!NodeStatus
    <2>3. Watch!TypeOK'
        BY <1>2, <2>1, <2>2, <1>t DEF Watch!RecordNext, Watch!TypeOK
    <2> QED BY <1>2, <2>2, <2>3, <1>t, <1>s, WatchElsewhere DEF Watch!RecordNext
<1>3. CASE Watch!Recorded
    <2>1. CASE Watch!Loop /\ UNCHANGED token
        <3>1. Watch!TypeOK'
            BY <1>3, <2>1, <1>t DEF Watch!Recorded, Watch!TypeOK, Watch!Loop, Watch!graph
        <3> QED BY <3>1, <2>1, <1>t, <1>s, WatchElsewhere DEF Watch!Loop
    <2>2. CASE /\ wd.act # "extended"
               /\ token' = Watch!Cancelled(wd.act)
               /\ wd' = [wd EXCEPT !.pc = "finished"]
        <3>1. token' \in {token, wd.act} /\ wd'.act = wd.act
            BY <2>2, <1>t DEF Watch!Cancelled, Watch!TypeOK
        <3>2. Watch!TypeOK'
            BY <1>3, <2>2, <3>1, <1>t DEF Watch!Recorded, Watch!TypeOK, Watch!graph,
               Watch!Reason
        <3>3. Watch!CancelledWithCause'
            BY <3>1, <1>s DEF WatchIInv, Watch!CancelledWithCause
        <3> QED BY <3>2, <3>3, <1>bud DEF WatchIInv
    <2> QED BY <1>3, <2>1, <2>2 DEF Watch!Recorded
<1>4. CASE Watch!Die
    <2>1. wd'.act = wd.act /\ token' = token
        BY <1>4, <1>t DEF Watch!Die, Watch!TypeOK
    <2>2. faults' \in 0..MaxFaults
        BY <1>4, <1>t, GraphAssumption DEF Watch!Die, Watch!Faulty, Watch!TypeOK
    <2>3. Watch!TypeOK'
        BY <1>4, <1>t, <2>2 DEF Watch!Die, Watch!TypeOK, Watch!graph
    <2> QED BY <2>1, <2>3, <1>t, <1>s, WatchElsewhere
<1> QED BY <1>1, <1>2, <1>3, <1>4

\* Every step keeps the invariant.
LEMMA WatchStepInv ==
    ASSUME WatchIInv, [Watch!Next]_(Watch!vars)
    PROVE  WatchIInv'
<1>t. Watch!TypeOK
    BY DEF WatchIInv
<1>1. CASE Watch!RuntimeStep \/ \E success \in BOOLEAN : Watch!Finish(success)
    BY <1>1, WatchRuntimeInv
<1>2. CASE Watch!Inspect
    BY <1>2, WatchInspectInv
<1>3. CASE Watch!InspectIdle \/ Watch!RecordNext \/ Watch!Recorded \/ Watch!Die
    BY <1>3, WatchWatchdogInv
<1>4. CASE Watch!CancelExternal
    <2>1. Watch!TypeOK'
        BY <1>4, <1>t DEF Watch!CancelExternal, Watch!TypeOK, Watch!graph, Watch!Reason
    <2> QED BY <1>4, <2>1, <1>t, BudgetAssumption, WatchElsewhere
            DEF Watch!CancelExternal, Watch!TypeOK
<1>5. CASE Watch!Tick
    <2>1. elapsed' \in 0..Absolute /\ elapsed' >= elapsed
        BY <1>5, <1>t, BudgetAssumption DEF Watch!Tick, Watch!TypeOK
    <2>2. \/ wd' = wd
          \/ wd' = [wd EXCEPT !.pc = "due"] /\ wd.todo = {}
        BY <1>5, <1>t DEF Watch!Tick, Watch!TypeOK
    <2>3. Watch!TypeOK'
        BY <1>5, <2>1, <2>2, <1>t DEF Watch!Tick, Watch!TypeOK, Watch!graph
    <2> QED BY <1>5, <2>1, <2>2, <2>3, <1>t, WatchElsewhere DEF Watch!Tick, Watch!TypeOK
<1>6. CASE UNCHANGED Watch!vars
    BY <1>6, <1>t DEF Watch!vars, Watch!graph, WatchIInv, Watch!TypeOK, Watch!BudgetCapped,
       Watch!CancelledWithCause,
       Watch!HardExpired
<1> QED BY <1>1, <1>2, <1>3, <1>4, <1>5, <1>6 DEF Watch!Next, Watch!WatchdogStep

\* Every variable keeps its type in every run.
THEOREM WatchTyping == Watch!Spec => []Watch!TypeOK
<1>1. WatchIInv => Watch!TypeOK
    BY DEF WatchIInv
<1> QED BY <1>1, WatchInitInv, WatchStepInv, PTL DEF Watch!Spec

\* However often an execution stalls, its ceiling moves by what was granted and never
\* past the absolute one; the watchdog cancels for a stall with nothing left to grant
\* only, and for the deadline past the extended ceiling only.
THEOREM WatchBudgetKept == Watch!Spec => []Watch!BudgetIsKept
<1>1. WatchIInv => Watch!BudgetIsKept
    BY DEF WatchIInv, Watch!BudgetIsKept
<1> QED BY <1>1, WatchInitInv, WatchStepInv, PTL DEF Watch!Spec

\* Whatever the workflow beside it does, the ceiling of a watched execution is what was
\* granted to it, and nothing is cancelled before it is used up: for every budget.
THEOREM ExecutionBudget == ExecutionSpec => []BudgetIsKept
<1>1. ExecutionInit => Watch!Init
  BY DEF ExecutionInit
<1>2. [ExecutionNext]_allVars => [Watch!Next]_(Watch!vars)
  BY DEF ExecutionNext, watchOnly, walkOnly, watchVars, Watch!vars, Watch!graph, allVars
<1>3. WatchIInv => BudgetIsKept
  BY DEF WatchIInv, BudgetIsKept, Watch!BudgetIsKept
<1> QED BY <1>1, <1>2, <1>3, WatchInitInv, WatchStepInv, PTL DEF ExecutionSpec

(***************************************************************************)
(* A stall is real.  The node that the runtime is at counts as active, and *)
(* as touched since its last sign of life, until the watchdog writes that  *)
(* it failed; after that the watchdog looks no more.                       *)
(***************************************************************************)

Cancelling == {"stall", "hard_deadline"}
WatchAlive ==
    /\ life <= elapsed
    /\ wd.pc \in {"asleep", "due"} => wd.act = "none"
    /\ wd.pc = "recording" => wd.act \in {"extended"} \cup Cancelling
    /\ rt.pc \in {"marking", "working"} /\ wd.act \notin Cancelling =>
         rt.node \in Watch!ActiveNodes /\ touched[rt.node] >= life
WatchStallIInv == WatchIInv /\ WatchAlive

\* Numbers are well ordered, so a set of numbers that has a bound has a greatest one.
Less == {p \in Nat \X Nat : p[1] < p[2]}
LEMMA Greatest ==
    ASSUME NEW T, NEW bound \in Nat, T \subseteq 0..bound, T # {}
    PROVE  \E m \in T : \A n \in T : n <= m
<1> DEFINE U == {bound - n : n \in T}
<1>1. IsWellFoundedOn(Less, Nat)
  BY NatLessThanWellFounded DEF OpToRel, Less
<1>2. U \subseteq Nat /\ U # {}
  <2>1. \A n \in T : bound - n \in Nat
    OBVIOUS
  <2> QED BY <2>1
<1>3. PICK u \in U : \A v \in U : ~(<<v, u>> \in Less)
  BY <1>1, <1>2, WFMin
<1>4. PICK m \in T : u = bound - m
  OBVIOUS
<1>5. ASSUME NEW n \in T PROVE n <= m
  <2>0. n \in 0..bound /\ m \in 0..bound
    BY <1>4
  <2>1. bound - n \in U /\ bound - n \in Nat /\ bound - m \in Nat
    BY <2>0
  <2>2. ~(bound - n < bound - m)
    BY <1>3, <1>4, <2>1 DEF Less
  <2> HIDE DEF U
  <2> QED BY <2>0, <2>2
<1> QED BY <1>5

\* Silence counts from the latest touch of an active node.
LEMMA WatchSilence ==
    ASSUME Watch!TypeOK, NEW n \in Watch!ActiveNodes
    PROVE  Watch!Silence \in Int /\ Watch!Silence <= elapsed - touched[n]
<1> DEFINE T == {touched[k] : k \in Watch!ActiveNodes}
<1>1. Watch!ActiveNodes \subseteq Watch!Node
  BY DEF Watch!ActiveNodes
<1>2. T \subseteq 0..Absolute /\ T # {} /\ Absolute \in Nat /\ elapsed \in Nat
  BY <1>1, BudgetAssumption DEF Watch!TypeOK
<1>3. PICK m \in Watch!ActiveNodes : \A k \in Watch!ActiveNodes : touched[k] <= touched[m]
  BY <1>2, Greatest
<1> DEFINE newest == CHOOSE i \in Watch!ActiveNodes :
                         \A k \in Watch!ActiveNodes : touched[k] <= touched[i]
<1>4. newest \in Watch!ActiveNodes /\ touched[n] <= touched[newest]
  BY <1>3
<1>5. Watch!Silence = elapsed - touched[newest]
  BY DEF Watch!Silence
<1> HIDE DEF newest
<1>6. touched[n] \in Nat /\ touched[newest] \in Nat
  BY <1>1, <1>4, BudgetAssumption DEF Watch!TypeOK
<1> QED BY <1>2, <1>4, <1>5, <1>6

LEMMA WatchAliveInit == Watch!Init => WatchAlive
BY DEF Watch!Init, WatchAlive

\* What the runtime does keeps the node it is at alive.
LEMMA WatchAliveRuntime ==
    ASSUME WatchStallIInv, Watch!RuntimeStep \/ \E success \in BOOLEAN : Watch!Finish(success)
    PROVE  WatchAlive'
<1>t. /\ elapsed \in Nat /\ life \in Nat /\ life <= elapsed
      /\ rt.node \in Watch!Node /\ DOMAIN nodeStatus = Watch!Node /\ DOMAIN touched = Watch!Node
      /\ rt = [pc |-> rt.pc, node |-> rt.node, ok |-> rt.ok]
      /\ wd = [pc |-> wd.pc, act |-> wd.act, todo |-> wd.todo]
  BY BudgetAssumption DEF WatchStallIInv, WatchIInv, WatchAlive, Watch!TypeOK
<1>e. elapsed' = elapsed
  BY DEF Watch!RuntimeStep, Watch!Begin, Watch!Start, Watch!Visit, Watch!Marked,
     Watch!Finish, Watch!Closed, Watch!EndWalk, Watch!RootReported, Watch!Stop
<1>1. CASE Watch!Visit
  <2>1. /\ rt.node + 1 \in Watch!Node
        /\ nodeStatus' = [nodeStatus EXCEPT ![rt.node + 1] = "running"]
        /\ touched' = [touched EXCEPT ![rt.node + 1] = elapsed]
        /\ rt'.node = rt.node + 1 /\ life' = elapsed /\ wd' = wd
    BY <1>1, <1>t, GraphAssumption DEF Watch!Visit, Watch!Report, Watch!Set, Watch!Node
  <2>2. rt'.node \in Watch!ActiveNodes' /\ touched'[rt'.node] >= life'
    BY <2>1, <1>t DEF Watch!ActiveNodes
  <2> QED BY <2>1, <2>2, <1>t, <1>e DEF WatchStallIInv, WatchAlive
<1>2. CASE Watch!Marked
  <2>1. /\ rt' = [rt EXCEPT !.pc = "working"] \/ rt' = [rt EXCEPT !.pc = "stopping"]
        /\ rt.pc = "marking" /\ UNCHANGED <<life, wd, nodeStatus, touched>>
    BY <1>2 DEF Watch!Marked, Watch!To, Watch!graph
  <2>2. rt'.node = rt.node /\ Watch!ActiveNodes' = Watch!ActiveNodes
    BY <2>1, <1>t DEF Watch!ActiveNodes
  <2> QED BY <2>1, <2>2, <1>t, <1>e DEF WatchStallIInv, WatchAlive
<1>3. ASSUME rt'.pc \notin {"marking", "working"}, life' \in {life, elapsed},
             \/ wd' = wd
             \/ wd'.act = "none" /\ wd'.pc \in {"asleep", "finished"}
             \/ wd' = [wd EXCEPT !.pc = "stopped", !.todo = {}]
      PROVE  WatchAlive'
  <2>1. wd'.pc \in {"asleep", "due"} => wd'.act = "none"
    BY <1>3, <1>t DEF WatchStallIInv, WatchAlive
  <2>2. wd'.pc = "recording" => wd'.act \in {"extended"} \cup Cancelling
    BY <1>3, <1>t DEF WatchStallIInv, WatchAlive
  <2>3. life' <= elapsed'
    BY <1>3, <1>t, <1>e
  <2> QED BY <1>3, <2>1, <2>2, <2>3 DEF WatchAlive
<1>4. CASE Watch!Begin
  BY <1>3, <1>4, <1>t DEF Watch!Begin, Watch!Report, Watch!Set, Watch!To
<1>5. CASE Watch!Start
  BY <1>3, <1>5, <1>t DEF Watch!Start, Watch!Loop, Watch!To
<1>6. CASE Watch!Closed \/ Watch!RootReported
  BY <1>3, <1>6, <1>t DEF Watch!Closed, Watch!RootReported, Watch!To
<1>7. CASE Watch!EndWalk
  BY <1>3, <1>7, <1>t DEF Watch!EndWalk, Watch!Report, Watch!Set, Watch!To
<1>8. CASE Watch!Stop
  BY <1>3, <1>8, <1>t DEF Watch!Stop, Watch!To
<1>9. ASSUME NEW success \in BOOLEAN, Watch!Finish(success) PROVE WatchAlive'
  BY <1>3, <1>9, <1>t DEF Watch!Finish, Watch!Report, Watch!Set
<1> QED BY <1>1, <1>2, <1>4, <1>5, <1>6, <1>7, <1>8, <1>9 DEF Watch!RuntimeStep

\* So does what the watchdog writes, until it gives up.
LEMMA WatchAliveWrite ==
    ASSUME WatchStallIInv, NEW act \in {"extended"} \cup Cancelling,
           NEW S \in SUBSET Watch!Node, Watch!Write(act, S),
           wd.act \notin Cancelling \/ act \in Cancelling, UNCHANGED <<elapsed, rt, life>>
    PROVE  WatchAlive'
<1> DEFINE n == Watch!First(S)
<1>1. /\ wd' = [pc |-> "recording", act |-> act, todo |-> S \ {n}]
      /\ nodeStatus' = [nodeStatus EXCEPT ![n] = IF act = "extended" THEN "recovering" ELSE "failed"]
      /\ touched' = [touched EXCEPT ![n] = elapsed]
  BY DEF Watch!Write, Watch!Set
<1>2. /\ elapsed \in Nat /\ life \in Nat /\ life <= elapsed
      /\ rt.node \in Watch!Node /\ DOMAIN nodeStatus = Watch!Node /\ DOMAIN touched = Watch!Node
  BY BudgetAssumption DEF WatchStallIInv, WatchIInv, WatchAlive, Watch!TypeOK
<1> HIDE DEF n
<1>3. ASSUME act \notin Cancelling, rt.pc \in {"marking", "working"}
      PROVE  rt.node \in Watch!ActiveNodes' /\ touched'[rt.node] >= life
  <2>1. rt.node \in Watch!ActiveNodes /\ touched[rt.node] >= life
    BY <1>3 DEF WatchStallIInv, WatchAlive
  <2>2. nodeStatus'[rt.node] \in {nodeStatus[rt.node], "recovering"}
    BY <1>1, <1>2, <1>3
  <2>3. touched'[rt.node] \in {touched[rt.node], elapsed}
    BY <1>1, <1>2
  <2> QED BY <1>2, <2>1, <2>2, <2>3 DEF Watch!ActiveNodes
<1>4. wd'.pc = "recording" /\ wd'.act = act
  BY <1>1
<1> QED BY <1>2, <1>3, <1>4 DEF WatchAlive

\* The watchdog looks only while it has not given up.
LEMMA WatchAliveWatchdog ==
    ASSUME WatchStallIInv, Watch!WatchdogStep \/ Watch!Die PROVE WatchAlive'
<1>t. /\ wd = [pc |-> wd.pc, act |-> wd.act, todo |-> wd.todo] /\ wd.todo \in SUBSET Watch!Node
      /\ Watch!ActiveNodes \in SUBSET Watch!Node
  BY DEF WatchStallIInv, WatchIInv, Watch!TypeOK, Watch!ActiveNodes
\* Nothing but the watchdog's own state changes.
<1>1. ASSUME UNCHANGED <<elapsed, rt, life, nodeStatus, touched>>,
             \/ wd.act \notin Cancelling /\ wd'.act = "none" /\ wd'.pc \in {"asleep", "finished"}
             \/ wd' = [wd EXCEPT !.pc = "finished"]
             \/ wd' = [wd EXCEPT !.pc = "dead", !.todo = {}]
      PROVE  WatchAlive'
  <2>1. Watch!ActiveNodes' = Watch!ActiveNodes
    BY <1>1 DEF Watch!ActiveNodes
  <2>2. wd'.act \in {wd.act, "none"} /\ (wd'.act # wd.act => wd.act \notin Cancelling)
    BY <1>1, <1>t
  <2>3. wd'.pc # "recording" /\ wd'.pc # "due" /\ (wd'.pc = "asleep" => wd'.act = "none")
    BY <1>1, <1>t
  <2> QED BY <1>1, <2>1, <2>2, <2>3 DEF WatchStallIInv, WatchAlive
<1>2. wd.pc = "due" => wd.act \notin Cancelling
  BY DEF WatchStallIInv, WatchAlive, Cancelling
<1>3. CASE Watch!InspectIdle
  BY <1>1, <1>2, <1>3, <1>t DEF Watch!InspectIdle, Watch!Loop, Watch!graph
<1>4. CASE Watch!Inspect
  <2>1. \/ \E act \in {"extended"} \cup Cancelling : Watch!Write(act, Watch!ActiveNodes)
        \/ Watch!Loop /\ UNCHANGED <<nodeStatus, touched>>
    BY <1>4 DEF Watch!Inspect, Watch!graph, Cancelling
  <2>2. wd.act \notin Cancelling /\ UNCHANGED <<elapsed, rt, life>>
    BY <1>2, <1>4 DEF Watch!Inspect
  <2>3. CASE Watch!Loop /\ UNCHANGED <<nodeStatus, touched>>
    BY <1>1, <2>2, <2>3 DEF Watch!Loop
  <2> QED BY <1>t, <2>1, <2>2, <2>3, WatchAliveWrite
<1>5. CASE Watch!RecordNext
  <2>1. wd.act \in {"extended"} \cup Cancelling
    BY <1>5 DEF Watch!RecordNext, WatchStallIInv, WatchAlive
  <2>2. Watch!Write(wd.act, wd.todo) /\ UNCHANGED <<elapsed, rt, life>>
    BY <1>5 DEF Watch!RecordNext
  <2> QED BY <1>t, <2>1, <2>2, WatchAliveWrite
<1>6. CASE Watch!Recorded
  BY <1>1, <1>6, <1>t DEF Watch!Recorded, Watch!Loop, Watch!graph, Cancelling
<1>7. CASE Watch!Die
  BY <1>1, <1>7, <1>t DEF Watch!Die, Watch!graph
<1> QED BY <1>3, <1>4, <1>5, <1>6, <1>7 DEF Watch!WatchdogStep

LEMMA WatchStallInductive ==
    WatchStallIInv /\ [Watch!Next]_(Watch!vars) => WatchStallIInv'
<1> SUFFICES ASSUME WatchStallIInv, [Watch!Next]_(Watch!vars) PROVE WatchStallIInv'
  OBVIOUS
<1>1. WatchIInv'
  BY WatchStepInv DEF WatchStallIInv
<1>2. CASE Watch!Tick
  <2>1. /\ elapsed \in Nat /\ life \in Nat /\ life <= elapsed
        /\ wd = [pc |-> wd.pc, act |-> wd.act, todo |-> wd.todo]
    BY BudgetAssumption DEF WatchStallIInv, WatchIInv, WatchAlive, Watch!TypeOK
  <2>2. elapsed' \in Nat /\ elapsed' >= elapsed /\ UNCHANGED <<nodeStatus, touched, rt, life>>
    BY <1>2, <2>1 DEF Watch!Tick, Watch!graph
  <2>3. \/ wd' = wd
        \/ wd.pc = "asleep" /\ wd' = [wd EXCEPT !.pc = "due"]
    BY <1>2 DEF Watch!Tick
  <2>4. /\ wd'.act = wd.act
        /\ wd'.pc \in {"asleep", "due"} => wd.pc \in {"asleep", "due"}
        /\ wd'.pc = "recording" => wd.pc = "recording"
    BY <2>1, <2>3
  <2>5. Watch!ActiveNodes' = Watch!ActiveNodes
    BY <2>2 DEF Watch!ActiveNodes
  <2>6. WatchAlive'
    BY <2>1, <2>2, <2>4, <2>5 DEF WatchStallIInv, WatchAlive
  <2> QED BY <1>1, <2>6 DEF WatchStallIInv
<1>3. CASE Watch!CancelExternal \/ UNCHANGED Watch!vars
  BY <1>1, <1>3 DEF Watch!CancelExternal, Watch!vars, Watch!graph, WatchStallIInv, WatchAlive,
     Watch!ActiveNodes
<1> QED BY <1>1, <1>2, <1>3, WatchAliveRuntime, WatchAliveWatchdog
        DEF Watch!Next, WatchStallIInv

\* Only a poll finds a stall, and it finds one after a whole deadline of silence.
LEMMA WatchFindsReal ==
    ASSUME WatchStallIInv, [Watch!Next]_(Watch!vars), Watch!StallFound, rt.pc = "working"
    PROVE  elapsed - life >= Progress
<1>t. wd = [pc |-> wd.pc, act |-> wd.act, todo |-> wd.todo]
  BY DEF WatchStallIInv, WatchIInv, Watch!TypeOK
<1>1. Watch!Inspect
  <2>1. ASSUME budget' = budget, wd'.act \in {"none", wd.act, "hard_deadline", "extended"}
        PROVE  FALSE
    BY <2>1 DEF Watch!StallFound
  <2>2. CASE Watch!RuntimeStep
    BY <1>t, <2>1, <2>2 DEF Watch!RuntimeStep, Watch!Begin, Watch!Start, Watch!Visit,
       Watch!Marked, Watch!Closed, Watch!EndWalk, Watch!RootReported, Watch!Stop, Watch!Loop
  <2>3. ASSUME NEW success \in BOOLEAN, Watch!Finish(success) PROVE FALSE
    BY <2>1, <2>3 DEF Watch!Finish
  <2>4. CASE Watch!InspectIdle \/ Watch!Recorded \/ Watch!Die
    <3>1. budget' = budget /\ (Watch!Loop \/ wd'.act = wd.act)
      BY <1>t, <2>4 DEF Watch!InspectIdle, Watch!Recorded, Watch!Die
    <3> QED BY <2>1, <3>1 DEF Watch!Loop
  <2>6. CASE Watch!RecordNext
    <3>1. budget' = budget /\ wd'.act = wd.act
      BY <2>6 DEF Watch!RecordNext, Watch!Write
    <3> QED BY <2>1, <3>1
  <2>5. CASE Watch!CancelExternal \/ Watch!Tick \/ UNCHANGED Watch!vars
    BY <1>t, <2>1, <2>5 DEF Watch!CancelExternal, Watch!Tick, Watch!vars
  <2> QED BY <2>2, <2>3, <2>4, <2>5, <2>6 DEF Watch!Next, Watch!WatchdogStep
<1> DEFINE since == Watch!Silence
           verdict == Watch!Verdict(budget, elapsed, TRUE, since)
<1>2. wd.act \notin Cancelling
  BY <1>1 DEF Watch!Inspect, WatchStallIInv, WatchAlive, Cancelling
<1>3. rt.node \in Watch!ActiveNodes /\ touched[rt.node] >= life
  BY <1>2 DEF WatchStallIInv, WatchAlive
<1>4. since \in Int /\ since <= elapsed - touched[rt.node]
  BY <1>3, WatchSilence DEF WatchStallIInv, WatchIInv
<1>5. verdict \in {"extended", "stalled"}
  <2>0. \/ verdict = "extended"
        \/ /\ verdict \in {"stalled", "expired"} /\ budget' = budget
           /\ wd'.act = IF verdict = "stalled" THEN "stall" ELSE "hard_deadline"
        \/ verdict \in {"healthy", "recovering"} /\ budget' = budget /\ Watch!Loop
    <3>1. \A act, S : Watch!Write(act, S) => wd'.act = act
      BY DEF Watch!Write
    <3> QED BY <1>1, <3>1 DEF Watch!Inspect
  <2> HIDE DEF verdict
  <2>1. CASE verdict = "expired"
    <3>1. budget' = budget /\ wd'.act = "hard_deadline"
      BY <2>0, <2>1
    <3> QED BY <3>1 DEF Watch!StallFound
  <2>2. CASE verdict \in {"healthy", "recovering"}
    <3>1. budget' = budget /\ wd'.act = "none"
      BY <2>0, <2>2 DEF Watch!Loop
    <3> QED BY <3>1 DEF Watch!StallFound
  <2>3. verdict \in {"expired", "healthy", "recovering", "extended", "stalled"}
    BY <2>0
  <2> QED BY <2>1, <2>2, <2>3
<1> HIDE DEF since
<1>6. ~(since < Progress)
  BY <1>5 DEF Watch!Verdict
<1>7. /\ elapsed \in Nat /\ life \in Nat /\ Progress \in Nat /\ touched[rt.node] \in Nat
  BY <1>3, BudgetAssumption DEF WatchStallIInv, WatchIInv, Watch!TypeOK
<1> QED BY <1>3, <1>4, <1>6, <1>7

\* While a node is in work, the watchdog finds a stall, and extends the budget or turns to
\* cancelling, only after a whole progress deadline without a sign of life, whatever other
\* nodes and faults there are, for every budget (core/runtime/watchdog.py: inspect()).
THEOREM StallsAreReal == ExecutionSpec => StallIsReal
<1>1. ExecutionInit => WatchStallIInv
  BY WatchInitInv, WatchAliveInit DEF ExecutionInit, WatchStallIInv
<1>2. [ExecutionNext]_allVars => [Watch!Next]_(Watch!vars)
  BY DEF ExecutionNext, watchOnly, walkOnly, watchVars, Watch!vars, Watch!graph, allVars
<1>3. WatchStallIInv /\ [Watch!Next]_(Watch!vars) =>
        [Watch!StallFound /\ rt.pc = "working" => elapsed - life >= Progress]_(Watch!vars)
  BY WatchFindsReal
<1> QED BY <1>1, <1>2, <1>3, WatchStallInductive, PTL
        DEF ExecutionSpec, StallIsReal, Watch!StallIsReal
=============================================================================
