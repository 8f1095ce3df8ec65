--------------------------- MODULE Operation_proofs ---------------------------
(***************************************************************************)
(* The two budgets of a query, its one ending, and what is left of a query *)
(* that was refused or failed: for any queries, texts, pipelines and       *)
(* limits, whatever worker fails and whenever a query is cancelled.        *)
(***************************************************************************)
EXTENDS Operation, FiniteSetTheorems, SequenceTheorems, TLAPS

(* The inductive invariant. *)

Calls == [worker : Worker \cup {"none"}, ok : BOOLEAN,
          phase : {"none", "entered", "running", "closed"}]
Shapes ==
    /\ asks \in [Query -> Text] /\ pc \in [Query -> Stage]
    /\ plan \in [Query -> [calls : Nat, used : Nat]]
    /\ inv \in [Query -> Calls] /\ calls \in [Query -> Nat]
    /\ ending \in [Query -> Endings] /\ row \in [Text -> SUBSET Query]
Event == Terminal \union {"rejected", "query_started", "response_incomplete"}
Typed == Shapes /\ path \in Paths /\ slots \in Int /\ log \in [Query -> Seq(Event)]

\* The permits are accounted for, of finitely many queries inside the guard.
Holders == {q \in Query : pc[q] \in Inside}
Slots == IsFiniteSet(Holders) /\ slots + Cardinality(Holders) = MaxPending

\* Each impasse has taken one attempt, and at most one more plan() was made.
Budget(q) ==
    /\ plan[q].used <= MaxRecovery /\ plan[q].calls \in {plan[q].used, plan[q].used + 1}
    /\ pc[q] \in {"idle", "waiting", "understanding", "planning"} =>
          plan[q].calls = plan[q].used
    /\ ending[q] = "impasse" => plan[q].used = MaxRecovery

\* A query has an ending when it is over, and no terminal event before that.
Quiet(s) == \A i \in DOMAIN s : s[i] \notin Terminal
Ended(s) == Len(s) > 0 /\ s[Len(s)] \in Terminal
            /\ \A i \in DOMAIN s : s[i] \in Terminal => i = Len(s)
Unanswered == {"rejected", "overloaded", "cancelled"}
Ending(q) ==
    /\ pc[q] = "done" <=> ending[q] # "none"
    /\ pc[q] # "done" => Quiet(log[q])
    /\ ending[q] \in Unanswered => Quiet(log[q])
    /\ ending[q] \notin Unanswered \union {"none"} => Ended(log[q])

\* A query leaves something behind only from its workflow on; where the orchestrator
\* writes, only once it is saved.
NoTrace(q) == q \notin turns /\ q \notin taught /\ \A t \in Text : q \notin row[t]
Early == {"idle", "waiting", "understanding", "planning", "compiling", "surfacing"}
Traces(q) ==
    /\ inv[q].worker = "step" => pc[q] = "running"
    /\ pc[q] \in Early \/ ending[q] \in Refusals => calls[q] = 0 /\ NoTrace(q)
    /\ path # "k22" /\ (pc[q] \notin {"recording", "done"}
                         \/ ending[q] \notin {"none", "answered", "cancelled"}) => NoTrace(q)

Sound(q) == Budget(q) /\ Ending(q) /\ Traces(q)
IInv == Typed /\ Slots /\ \A q \in Query : Sound(q)

-----------------------------------------------------------------------------
(* Events *)

LEMMA Says ==
    ASSUME NEW S, NEW s \in Seq(S), NEW e \in S, Quiet(s)
    PROVE  /\ Append(s, e) \in Seq(S)
           /\ e \notin Terminal => Quiet(Append(s, e))
           /\ e \in Terminal => Ended(Append(s, e))
<1>1. /\ Append(s, e) \in Seq(S) /\ Len(Append(s, e)) = Len(s) + 1
      /\ DOMAIN s = 1..Len(s) /\ Len(s) \in Nat /\ DOMAIN Append(s, e) = 1..Len(s) + 1
      /\ Append(s, e)[Len(s) + 1] = e /\ \A i \in 1..Len(s) : Append(s, e)[i] = s[i]
  BY AppendProperties, LenProperties
<1>2. ASSUME NEW i \in DOMAIN Append(s, e) PROVE i = Len(s) + 1 \/ Append(s, e)[i] \notin Terminal
  BY <1>1 DEF Quiet
<1> QED BY <1>1, <1>2 DEF Quiet, Ended

\* What the property says of a log that is quiet, or ended.
LEMMA Terminals ==
    ASSUME NEW q, NEW S, NEW s \in Seq(S), log[q] = s
    PROVE  /\ Quiet(s) => EventsOf(q) = {}
           /\ Ended(s) => EventsOf(q) = {Len(s)}
<1>1. DOMAIN s = 1..Len(s) /\ Len(s) \in Nat
  BY LenProperties
<1> QED BY <1>1 DEF Quiet, Ended, EventsOf

-----------------------------------------------------------------------------
(* Steps *)

\* The guard's permits follow the stage.
Holds(stage) == IF stage \in Inside THEN 1 ELSE 0
LEMMA SlotsFollow ==
    ASSUME Typed, Slots, NEW q \in Query, NEW stage \in Stage,
           pc' = [pc EXCEPT ![q] = stage],
           slots' = slots + Holds(pc[q]) - Holds(stage)
    PROVE  Slots' /\ slots' \in Int
<1>1. pc \in [Query -> Stage] /\ slots \in Int /\ Cardinality(Holders) \in Nat
  BY FS_CardinalityType DEF Typed, Shapes, Slots
<1>2. CASE pc[q] \in Inside /\ stage \in Inside
  BY <1>1, <1>2 DEF Slots, Holders, Holds
<1>3. CASE pc[q] \notin Inside /\ stage \notin Inside
  <2>1. Holders' = Holders
    BY <1>1, <1>3 DEF Holders
  <2> QED BY <1>1, <1>3, <2>1 DEF Slots, Holds
<1>4. CASE pc[q] \in Inside /\ stage \notin Inside
  <2>1. Holders' = Holders \ {q} /\ q \in Holders
    BY <1>1, <1>4 DEF Holders
  <2>2. IsFiniteSet(Holders') /\ Cardinality(Holders') = Cardinality(Holders) - 1
    BY <2>1, FS_RemoveElement DEF Slots
  <2> QED BY <1>1, <1>4, <2>2 DEF Slots, Holds
<1>5. CASE pc[q] \notin Inside /\ stage \in Inside
  <2>1. Holders' = Holders \union {q} /\ q \notin Holders
    BY <1>1, <1>5 DEF Holders
  <2>2. IsFiniteSet(Holders') /\ Cardinality(Holders') = Cardinality(Holders) + 1
    BY <2>1, FS_AddElement DEF Slots
  <2> QED BY <1>1, <1>5, <2>2 DEF Slots, Holds
<1> QED BY <1>2, <1>3, <1>4, <1>5

\* A step of one query leaves what is known of another alone.
OnlyOf(q) ==
    /\ \A p \in Query \ {q} :
         /\ pc'[p] = pc[p] /\ plan'[p] = plan[p] /\ inv'[p] = inv[p]
         /\ calls'[p] = calls[p] /\ ending'[p] = ending[p]
         /\ p \in turns' => p \in turns
         /\ p \in taught' => p \in taught
    /\ row' \in {row, [row EXCEPT ![asks[q]] = {q}]}
    /\ path' = path /\ asks' = asks

Logs(q) == log' = log \/ \E e \in Event : Emit(q, e)

LEMMA OthersKeep ==
    ASSUME IInv, NEW q \in Query, OnlyOf(q), Logs(q), NEW p \in Query, p # q
    PROVE  Sound(p)'
<1>1. /\ pc'[p] = pc[p] /\ plan'[p] = plan[p] /\ inv'[p] = inv[p]
      /\ calls'[p] = calls[p] /\ ending'[p] = ending[p] /\ log'[p] = log[p]
      /\ path' = path /\ Sound(p)
  BY DEF OnlyOf, Logs, Emit, IInv, Typed
<1>2. NoTrace(p) => NoTrace(p)'
  <2>1. \A t \in Text : p \in row'[t] => p \in row[t]
    <3>1. row' = row \/ row' = [row EXCEPT ![asks[q]] = {q}]
      BY DEF OnlyOf
    <3>2. row \in [Text -> SUBSET Query] /\ asks[q] \in Text
      BY DEF IInv, Typed, Shapes
    <3> QED BY <3>1, <3>2
  <2> QED BY <2>1 DEF OnlyOf, NoTrace
<1> QED BY <1>1, <1>2 DEF Sound, Budget, Ending, Traces

LEMMA LogIs ==
    ASSUME IInv, NEW q \in Query
    PROVE  /\ Logs(q) => log' \in [Query -> Seq(Event)]
           /\ Quiet(log[q]) => \A e \in Event : Emit(q, e) =>
                  /\ e \notin Terminal => Quiet(log'[q])
                  /\ e \in Terminal => Ended(log'[q])
<1>1. log \in [Query -> Seq(Event)] /\ log[q] \in Seq(Event)
  BY DEF IInv, Typed
<1>2. ASSUME NEW e \in Event, Emit(q, e)
      PROVE  log' = [log EXCEPT ![q] = Append(log[q], e)] /\ Append(log[q], e) \in Seq(Event)
  BY <1>1, <1>2, AppendProperties DEF Emit
<1>3. Logs(q) => log' \in [Query -> Seq(Event)]
  BY <1>1, <1>2 DEF Logs
<1>4. ASSUME Quiet(log[q]), NEW e \in Event, Emit(q, e)
      PROVE  /\ e \notin Terminal => Quiet(log'[q])
             /\ e \in Terminal => Ended(log'[q])
  <2>1. log'[q] = Append(log[q], e)
    BY <1>1, <1>2, <1>4
  <2>2. /\ e \notin Terminal => Quiet(Append(log[q], e))
        /\ e \in Terminal => Ended(Append(log[q], e))
    BY <1>1, <1>4, Says
  <2> QED BY <2>1, <2>2
<1> QED BY <1>3, <1>4

\* So a step keeps the invariant if it does for its query.
LEMMA OneMoves ==
    ASSUME IInv, NEW q \in Query, OnlyOf(q), Logs(q), Shapes', slots' \in Int, Slots',
           Sound(q)'
    PROVE  IInv'
<1>1. \A p \in Query : Sound(p)'
  BY OthersKeep
<1>2. log' \in [Query -> Seq(Event)]
  BY LogIs
<1> QED BY <1>1, <1>2 DEF IInv, Typed, OnlyOf

LEMMA Initially == Init => IInv
<1> SUFFICES ASSUME Init PROVE IInv
  OBVIOUS
<1>1. Typed
  BY PendingAssumption DEF Init, Typed, Shapes, Stage, NoCall, Calls, Endings
<1>2. Holders = {}
  BY DEF Init, Holders, Inside
<1>3. Slots
  BY <1>2, FS_EmptySet, PendingAssumption DEF Init, Slots
<1>4. ASSUME NEW q \in Query PROVE Sound(q)
  BY BudgetAssumption DEF Init, Sound, Budget, Ending, Traces, NoTrace, Quiet, Unanswered,
     NoCall, Refusals
<1> QED BY <1>1, <1>3, <1>4 DEF IInv

-----------------------------------------------------------------------------
(* A step that goes on, and a step that ends a query inside the guard. *)

LEMMA GoesOn ==
    ASSUME IInv, NEW q \in Query, NEW stage \in Stage \ {"done"}, pc[q] # "done",
           pc' = [pc EXCEPT ![q] = stage], slots' = slots + Holds(pc[q]) - Holds(stage),
           ending' = ending, log' = log \/ \E e \in Event \ Terminal : Emit(q, e),
           Shapes', OnlyOf(q), Budget(q)', Traces(q)'
    PROVE  IInv'
<1>1. Logs(q)
  BY DEF Logs, Event
<1>2. Quiet(log[q]) /\ ending[q] = "none" /\ pc'[q] # "done"
  BY DEF IInv, Typed, Shapes, Sound, Ending
<1>3. Quiet(log'[q])
  BY <1>2, LogIs
<1>4. Ending(q)'
  BY <1>2, <1>3 DEF Ending, Unanswered
<1>5. Slots' /\ slots' \in Int
  BY SlotsFollow DEF IInv
<1> QED BY <1>1, <1>4, <1>5, OneMoves DEF Sound

LEMMA Ends ==
    ASSUME IInv, NEW q \in Query, pc[q] \in Inside, NEW how \in Endings \ {"none"},
           EndsWith(q, how),
           \/ how \in Unanswered /\ log' = log
           \/ how \notin Unanswered /\ \E e \in Terminal : Emit(q, e),
           plan' \in [Query -> [calls : Nat, used : Nat]], calls' = calls,
           row' \in [Text -> SUBSET Query], OnlyOf(q), Budget(q)',
           how \in Refusals => calls[q] = 0 /\ NoTrace(q)',
           path # "k22" /\ how \notin {"answered", "cancelled"} => NoTrace(q)'
    PROVE  IInv'
<1>1. Logs(q)
  BY DEF Logs, Event
<1>2. /\ pc' = [pc EXCEPT ![q] = "done"] /\ ending' = [ending EXCEPT ![q] = how]
      /\ slots' = slots + 1 /\ inv' = [inv EXCEPT ![q] = NoCall]
      /\ pc \in [Query -> Stage] /\ ending \in [Query -> Endings] /\ inv \in [Query -> Calls]
      /\ Quiet(log[q]) /\ slots \in Int
  BY DEF EndsWith, Go, IInv, Typed, Shapes, Sound, Ending, Inside
<1>3. Shapes'
  BY <1>2 DEF Shapes, IInv, Typed, OnlyOf, Stage, NoCall, Calls
<1>4. pc'[q] = "done" /\ ending'[q] = how /\ inv'[q] = NoCall
  BY <1>2
<1>5. IF how \in Unanswered THEN Quiet(log'[q]) ELSE Ended(log'[q])
  <2>1. CASE how \in Unanswered
    BY <1>2, <2>1
  <2>2. CASE how \notin Unanswered
    <3>1. PICK e \in Terminal : Emit(q, e)
      BY <2>2
    <3>2. Ended(log'[q])
      BY <1>2, <3>1, LogIs DEF Event
    <3> QED BY <2>2, <3>2
  <2> QED BY <2>1, <2>2
<1>6. Ending(q)'
  BY <1>4, <1>5 DEF Ending
<1>7. Traces(q)'
  BY <1>4 DEF Traces, NoCall, Early, OnlyOf
<1>8. Slots' /\ slots' \in Int
  <2>1. Holds(pc[q]) = 1 /\ Holds("done") = 0 /\ "done" \in Stage
    BY DEF Holds, Inside, Stage
  <2>2. slots' = slots + Holds(pc[q]) - Holds("done")
    BY <1>2, <2>1
  <2> QED BY <1>2, <2>1, <2>2, SlotsFollow DEF IInv
<1> QED BY <1>1, <1>3, <1>6, <1>7, <1>8, OneMoves DEF Sound

\* What the invariant says of one query.
LEMMA Known ==
    ASSUME IInv, NEW q \in Query
    PROVE  /\ pc \in [Query -> Stage] /\ plan \in [Query -> [calls : Nat, used : Nat]]
           /\ inv \in [Query -> Calls] /\ calls \in [Query -> Nat]
           /\ ending \in [Query -> Endings] /\ row \in [Text -> SUBSET Query]
           /\ asks \in [Query -> Text] /\ slots \in Int /\ asks[q] \in Text
           /\ path = "k42" \/ path = "k22" \/ path = "legacy"
           /\ Budget(q) /\ Ending(q) /\ Traces(q)
  BY PathAssumption DEF IInv, Typed, Shapes, Sound

-----------------------------------------------------------------------------
(* The steps before a workflow. *)

LEMMA ApproveKeeps ==
    ASSUME IInv, NEW q \in Query, Approve(q)
    PROVE  IInv'
<1> USE Known
<1>1. pc' = [pc EXCEPT ![q] = "waiting"] /\ pc'[q] = "waiting" /\ pc[q] = "idle"
  BY DEF Approve, Go
<1>2. Shapes' /\ OnlyOf(q)
  BY <1>1 DEF Approve, wiring, stores, Shapes, OnlyOf, Stage
<1>3. Budget(q)' /\ Traces(q)'
  BY <1>1 DEF Approve, wiring, stores, Budget, Traces, NoTrace, Early
<1>4. slots' = slots + Holds(pc[q]) - Holds("waiting") /\ "waiting" \in Stage \ {"done"}
  BY <1>1 DEF Approve, Holds, Inside, Stage
<1> QED BY <1>1, <1>2, <1>3, <1>4, GoesOn DEF Approve

LEMMA AdmitKeeps ==
    ASSUME IInv, NEW q \in Query, Admit(q)
    PROVE  IInv'
<1> USE Known
<1> DEFINE stage == FirstStage
<1>1. /\ pc' = [pc EXCEPT ![q] = stage] /\ pc'[q] = stage /\ pc[q] = "waiting"
  BY DEF Admit, Go
<1>2. stage \in {"understanding", "running", "dispatching"}
  BY <1>1 DEF FirstStage
<1> HIDE DEF stage
<1>3. Shapes' /\ OnlyOf(q)
  BY <1>1, <1>2 DEF Admit, wiring, stores, Shapes, OnlyOf, Stage, Inside
<1>4. Budget(q)' /\ Traces(q)'
  BY <1>1, <1>2 DEF Admit, wiring, stores, Budget, Traces, NoTrace, Early
<1>5. slots' = slots + Holds(pc[q]) - Holds(stage) /\ stage \in Stage \ {"done"}
  BY <1>1, <1>2 DEF Admit, Holds, Inside, Stage
<1>6. \E e \in Event \ Terminal : Emit(q, e)
  BY DEF Admit, Event, Terminal
<1> QED BY <1>1, <1>3, <1>4, <1>5, <1>6, GoesOn DEF Admit

LEMMA UnderstandKeeps ==
    ASSUME IInv, NEW q \in Query, Understand(q)
    PROVE  IInv'
<1> USE Known
<1>1. /\ pc' = [pc EXCEPT ![q] = "planning"] /\ pc'[q] = "planning" /\ pc[q] = "understanding"
  BY DEF Understand, Go
<1>2. Shapes' /\ OnlyOf(q)
  BY <1>1 DEF Understand, wiring, stores, Shapes, OnlyOf, Stage, Inside
<1>3. Budget(q)' /\ Traces(q)'
  BY <1>1 DEF Understand, wiring, stores, Budget, Traces, NoTrace, Early
<1>4. slots' = slots + Holds(pc[q]) - Holds("planning") /\ "planning" \in Stage \ {"done"}
  BY <1>1 DEF Understand, Holds, Inside, Stage
<1> QED BY <1>1, <1>2, <1>3, <1>4, GoesOn DEF Understand

LEMMA PlanReadyKeeps ==
    ASSUME IInv, NEW q \in Query, PlanReady(q)
    PROVE  IInv'
<1> USE Known
<1>1. /\ pc' = [pc EXCEPT ![q] = "compiling"] /\ pc'[q] = "compiling" /\ pc[q] = "planning"
  BY DEF PlanReady, Go
<1>2. Shapes' /\ OnlyOf(q)
  <2>1. /\ asks' = asks /\ inv' = inv /\ calls' = calls /\ ending' = ending
        /\ turns' = turns /\ taught' = taught /\ row' = row /\ path' = path
        /\ plan' = [plan EXCEPT ![q].calls = @ + 1]
    BY DEF PlanReady, wiring, stores
  <2>2. Shapes'
    BY <1>1, <2>1 DEF Shapes, Stage, Inside
  <2>3. OnlyOf(q)
    BY <1>1, <2>1 DEF Shapes, OnlyOf
  <2> QED BY <2>2, <2>3
<1>3. Budget(q)' /\ Traces(q)'
  BY <1>1 DEF PlanReady, wiring, stores, Budget, Traces, NoTrace, Early
<1>4. slots' = slots + Holds(pc[q]) - Holds("compiling") /\ "compiling" \in Stage \ {"done"}
  BY <1>1 DEF PlanReady, Holds, Inside, Stage
<1> QED BY <1>1, <1>2, <1>3, <1>4, GoesOn DEF PlanReady

LEMMA CompiledKeeps ==
    ASSUME IInv, NEW q \in Query, Compiled(q)
    PROVE  IInv'
<1> USE Known
<1>1. /\ pc' = [pc EXCEPT ![q] = "running"] /\ pc'[q] = "running" /\ pc[q] = "compiling"
  BY DEF Compiled, Go
<1>2. Shapes' /\ OnlyOf(q)
  BY <1>1 DEF Compiled, wiring, stores, Shapes, OnlyOf, Stage, Inside
<1>3. Budget(q)' /\ Traces(q)'
  BY <1>1 DEF Compiled, wiring, stores, Budget, Traces, NoTrace, Early
<1>4. slots' = slots + Holds(pc[q]) - Holds("running") /\ "running" \in Stage \ {"done"}
  BY <1>1 DEF Compiled, Holds, Inside, Stage
<1> QED BY <1>1, <1>2, <1>3, <1>4, GoesOn DEF Compiled

LEMMA NotCompiledKeeps ==
    ASSUME IInv, NEW q \in Query, NotCompiled(q)
    PROVE  IInv'
<1> USE Known
<1>1. /\ pc' = [pc EXCEPT ![q] = "surfacing"] /\ pc'[q] = "surfacing" /\ pc[q] = "compiling"
  BY DEF NotCompiled, Go
<1>2. Shapes' /\ OnlyOf(q)
  BY <1>1 DEF NotCompiled, wiring, stores, Invoke, Calls, Worker, Shapes, OnlyOf, Stage, Inside
<1>3. Budget(q)' /\ Traces(q)'
  BY <1>1 DEF NotCompiled, wiring, stores, Invoke, Calls, Worker, Budget, Traces, NoTrace, Early
<1>4. slots' = slots + Holds(pc[q]) - Holds("surfacing") /\ "surfacing" \in Stage \ {"done"}
  BY <1>1 DEF NotCompiled, Holds, Inside, Stage
<1> QED BY <1>1, <1>2, <1>3, <1>4, GoesOn DEF NotCompiled

-----------------------------------------------------------------------------
(* The steps that end a query inside the guard. *)

LEMMA PlanContradictionKeeps ==
    ASSUME IInv, NEW q \in Query, PlanContradiction(q)
    PROVE  IInv'
<1> USE Known
<1>1. /\ EndsWith(q, "contradiction") /\ \E e \in Terminal : Emit(q, e)
      /\ "contradiction" \in Endings \ {"none"} /\ "contradiction" \notin Unanswered
  BY DEF PlanContradiction, Terminal, Endings, Refusals, Unanswered
<1>2. pc[q] \in Inside /\ ending[q] = "none" /\ ending'[q] = "contradiction" /\ pc'[q] = "done"
  BY DEF PlanContradiction, Inside, EndsWith, Go, Ending
<1>3. plan' \in [Query -> [calls : Nat, used : Nat]] /\ OnlyOf(q)
  <2>1. plan' \in [Query -> [calls : Nat, used : Nat]]
    BY DEF PlanContradiction
  <2>2. OnlyOf(q)
    BY DEF PlanContradiction, EndsWith, Go, wiring, stores, OnlyOf
  <2> QED BY <2>1, <2>2
<1>4. Budget(q)'
  BY <1>2, BudgetAssumption DEF PlanContradiction, EndsWith, Go, Budget
<1>5. /\ calls' = calls /\ row' \in [Text -> SUBSET Query]
      /\ "contradiction" \in Refusals => calls[q] = 0 /\ NoTrace(q)'
      /\ path # "k22" /\ "contradiction" \notin {"answered", "cancelled"} => NoTrace(q)'
  BY <1>2 DEF PlanContradiction, wiring, stores, Traces, NoTrace, Early, Refusals
<1> QED BY <1>1, <1>2, <1>3, <1>4, <1>5, Ends

LEMMA CompleteKeeps ==
    ASSUME IInv, NEW q \in Query, Complete(q)
    PROVE  IInv'
<1> USE Known
<1>1. /\ EndsWith(q, "answered") /\ \E e \in Terminal : Emit(q, e)
      /\ "answered" \in Endings \ {"none"} /\ "answered" \notin Unanswered
  BY DEF Complete, Terminal, Endings, Refusals, Unanswered
<1>2. pc[q] \in Inside /\ ending[q] = "none" /\ ending'[q] = "answered" /\ pc'[q] = "done"
  BY DEF Complete, Inside, EndsWith, Go, Ending
<1>3. plan' \in [Query -> [calls : Nat, used : Nat]] /\ OnlyOf(q)
  BY DEF Complete, EndsWith, Go, wiring, stores, OnlyOf
<1>4. Budget(q)'
  BY <1>2, BudgetAssumption DEF Complete, EndsWith, Go, Budget
<1>5. /\ calls' = calls /\ row' \in [Text -> SUBSET Query]
      /\ "answered" \in Refusals => calls[q] = 0 /\ NoTrace(q)'
      /\ path # "k22" /\ "answered" \notin {"answered", "cancelled"} => NoTrace(q)'
  BY <1>2 DEF Complete, wiring, stores, Traces, NoTrace, Early, Refusals
<1> QED BY <1>1, <1>2, <1>3, <1>4, <1>5, Ends

LEMMA FailKeeps ==
    ASSUME IInv, NEW q \in Query, Fail(q)
    PROVE  IInv'
<1> USE Known
<1>1. /\ EndsWith(q, "error") /\ \E e \in Terminal : Emit(q, e)
      /\ "error" \in Endings \ {"none"} /\ "error" \notin Unanswered
  BY DEF Fail, Terminal, Endings, Refusals, Unanswered
<1>2. pc[q] \in Inside /\ ending[q] = "none" /\ ending'[q] = "error" /\ pc'[q] = "done"
  BY DEF Fail, Inside, EndsWith, Go, Ending
<1>3. plan' \in [Query -> [calls : Nat, used : Nat]] /\ OnlyOf(q)
  BY DEF Fail, EndsWith, Go, wiring, stores, OnlyOf
<1>4. Budget(q)'
  BY <1>2, BudgetAssumption DEF Fail, EndsWith, Go, Budget
<1>5. /\ calls' = calls /\ row' \in [Text -> SUBSET Query]
      /\ "error" \in Refusals => calls[q] = 0 /\ NoTrace(q)'
      /\ path # "k22" /\ "error" \notin {"answered", "cancelled"} => NoTrace(q)'
  BY <1>2 DEF Fail, wiring, stores, Traces, NoTrace, Early, Refusals
<1> QED BY <1>1, <1>2, <1>3, <1>4, <1>5, Ends

LEMMA PlanImpasseKeeps ==
    ASSUME IInv, NEW q \in Query, PlanImpasse(q)
    PROVE  IInv'
<1> USE Known
<1>1. CASE Permitted(q)
  <2>1. /\ pc[q] = "planning" /\ pc' = pc /\ slots' = slots /\ ending' = ending /\ log' = log
        /\ plan' = [plan EXCEPT ![q].calls = @ + 1, ![q].used = @ + 1]
    BY <1>1 DEF PlanImpasse
  <2>2. Shapes' /\ OnlyOf(q)
    BY <1>1, <2>1 DEF PlanImpasse, wiring, stores, Shapes, OnlyOf
  <2>3. Budget(q)'
    BY <1>1, <2>1, BudgetAssumption DEF Permitted, Budget
  <2>4. Traces(q)'
    BY <1>1, <2>1 DEF PlanImpasse, wiring, stores, Traces, NoTrace
  <2>5. pc' = [pc EXCEPT ![q] = "planning"] /\ "planning" \in Stage \ {"done"}
        /\ slots' = slots + Holds(pc[q]) - Holds("planning")
    BY <2>1 DEF Stage, Inside, Holds
  <2> QED BY <2>1, <2>2, <2>3, <2>4, <2>5, GoesOn
<1>2. CASE ~ Permitted(q)
  <2>1. /\ EndsWith(q, "impasse") /\ \E e \in Terminal : Emit(q, e)
        /\ plan' = [plan EXCEPT ![q].calls = @ + 1] /\ pc[q] = "planning"
    BY <1>2 DEF PlanImpasse, Terminal
  <2>2. /\ pc[q] \in Inside /\ ending'[q] = "impasse" /\ pc'[q] = "done"
        /\ "impasse" \in Endings \ {"none"} /\ "impasse" \notin Unanswered
    BY <2>1 DEF Inside, EndsWith, Go, Ending, Endings, Refusals, Unanswered
  <2>3. plan' \in [Query -> [calls : Nat, used : Nat]] /\ OnlyOf(q)
    BY <2>1 DEF PlanImpasse, EndsWith, Go, wiring, stores, OnlyOf
  <2>4. Budget(q)'
    BY <1>2, <2>1, <2>2, BudgetAssumption DEF Permitted, Budget
  <2>5. calls' = calls /\ row' \in [Text -> SUBSET Query] /\ calls[q] = 0 /\ NoTrace(q)'
    BY <2>1 DEF PlanImpasse, wiring, stores, Traces, NoTrace, Early
  <2> QED BY <2>1, <2>2, <2>3, <2>4, <2>5, Ends
<1> QED BY <1>1, <1>2

LEMMA SurfacedKeeps ==
    ASSUME IInv, NEW q \in Query, Surfaced(q)
    PROVE  IInv'
<1> USE Known
<1>1. PICK how \in {"clarify", "notCompiled"} : EndsWith(q, how)
  BY DEF Surfaced
<1>2. /\ \E e \in Terminal : Emit(q, e)
      /\ how \in Endings \ {"none"} /\ how \notin Unanswered /\ how \in Refusals
  BY DEF Surfaced, Terminal, Endings, Refusals, Unanswered
<1>3. pc[q] = "surfacing" /\ pc[q] \in Inside /\ ending'[q] = how /\ pc'[q] = "done"
  BY <1>1 DEF Surfaced, Inside, EndsWith, Go
<1>4. plan' = plan /\ OnlyOf(q)
  BY <1>1 DEF Surfaced, EndsWith, Go, wiring, stores, OnlyOf
<1>5. Budget(q)'
  BY <1>3, <1>4 DEF Budget
<1>6. calls' = calls /\ row' \in [Text -> SUBSET Query] /\ calls[q] = 0 /\ NoTrace(q)'
  BY <1>3 DEF Surfaced, wiring, stores, Traces, NoTrace, Early
<1> QED BY <1>1, <1>2, <1>3, <1>4, <1>5, <1>6, Ends

LEMMA ClassifyKeeps ==
    ASSUME IInv, NEW q \in Query, Classify(q)
    PROVE  IInv'
<1> USE Known
<1>1. pc[q] = "dispatching" /\ pc[q] \in Inside /\ plan' = plan /\ calls' = calls
  BY DEF Classify, Inside
<1>2. CASE Go(q, "merging") /\ UNCHANGED <<slots, frame, inv, ending, log>>
  <2>1. pc' = [pc EXCEPT ![q] = "merging"] /\ pc'[q] = "merging"
    BY <1>2 DEF Go
  <2>2. Shapes' /\ OnlyOf(q)
    BY <1>2, <2>1 DEF Classify, wiring, stores, Shapes, OnlyOf, Stage, Inside
  <2>3. Budget(q)' /\ Traces(q)'
    BY <1>1, <1>2, <2>1 DEF Classify, wiring, stores, Budget, Traces, NoTrace, Early
  <2>4. slots' = slots + Holds(pc[q]) - Holds("merging") /\ "merging" \in Stage \ {"done"}
    BY <1>1, <1>2 DEF Holds, Inside, Stage
  <2> QED BY <1>1, <1>2, <2>1, <2>2, <2>3, <2>4, GoesOn
<1>3. CASE Emit(q, "query_completed") /\ EndsWith(q, "unclassified")
  <2>1. /\ \E e \in Terminal : Emit(q, e) /\ "unclassified" \notin Refusals
        /\ "unclassified" \in Endings \ {"none"} /\ "unclassified" \notin Unanswered
    BY <1>3 DEF Terminal, Endings, Refusals, Unanswered
  <2>2. ending'[q] = "unclassified" /\ pc'[q] = "done" /\ OnlyOf(q)
    BY <1>3 DEF Classify, EndsWith, Go, wiring, stores, OnlyOf
  <2>3. Budget(q)'
    BY <1>1, <2>2 DEF Budget
  <2>4. row' \in [Text -> SUBSET Query] /\ (path # "k22" => NoTrace(q)')
    BY <1>1 DEF Classify, wiring, stores, Traces, NoTrace, Ending
  <2> QED BY <1>1, <1>3, <2>1, <2>2, <2>3, <2>4, Ends
<1> QED BY <1>2, <1>3 DEF Classify

LEMMA RejectKeeps ==
    ASSUME IInv, NEW q \in Query, Reject(q)
    PROVE  IInv'
<1> USE Known
<1>1. /\ pc' = [pc EXCEPT ![q] = "done"] /\ pc'[q] = "done" /\ pc[q] = "idle"
      /\ ending' = [ending EXCEPT ![q] = "rejected"] /\ ending'[q] = "rejected"
      /\ slots' = slots /\ Emit(q, "rejected")
  BY DEF Reject, Go
<1>2. Shapes' /\ OnlyOf(q) /\ Logs(q)
  BY <1>1 DEF Reject, wiring, stores, Shapes, OnlyOf, Stage, Logs, Event, Endings, Refusals
<1>3. Budget(q)' /\ Traces(q)'
  BY <1>1 DEF Reject, wiring, stores, Budget, Traces, NoTrace, Early, Refusals
<1>4. Quiet(log'[q])
  BY <1>1, LogIs DEF Ending, Event, Terminal
<1>5. Ending(q)'
  BY <1>1, <1>4 DEF Ending, Unanswered
<1>6. slots' = slots + Holds(pc[q]) - Holds("done") /\ "done" \in Stage
  BY <1>1 DEF Holds, Inside, Stage
<1>7. Slots' /\ slots' \in Int
  BY <1>1, <1>6, SlotsFollow DEF IInv
<1> QED BY <1>2, <1>3, <1>5, <1>7, OneMoves DEF Sound

\* A query that leaves before it is admitted says nothing more.
LEMMA LeavesWaiting ==
    ASSUME IInv, NEW q \in Query, pc[q] = "waiting", Go(q, "done"),
           NEW how \in {"overloaded", "cancelled"}, ending' = [ending EXCEPT ![q] = how],
           UNCHANGED <<wiring, slots, plan, inv, calls, log, stores>>
    PROVE  IInv'
<1> USE Known
<1>1. /\ pc' = [pc EXCEPT ![q] = "done"] /\ pc'[q] = "done"
      /\ ending'[q] = how /\ log' = log /\ slots' = slots
  BY DEF Go
<1>2. Shapes' /\ OnlyOf(q) /\ Logs(q)
  BY <1>1 DEF wiring, stores, Shapes, OnlyOf, Stage, Logs, Endings, Refusals
<1>3. Budget(q)' /\ Traces(q)'
  BY <1>1 DEF wiring, stores, Budget, Traces, NoTrace, Early, Refusals
<1>4. Ending(q)'
  BY <1>1 DEF Ending, Unanswered
<1>5. slots' = slots + Holds(pc[q]) - Holds("done") /\ "done" \in Stage
  BY <1>1 DEF Holds, Inside, Stage
<1>6. Slots' /\ slots' \in Int
  BY <1>1, <1>5, SlotsFollow DEF IInv
<1> QED BY <1>2, <1>3, <1>4, <1>6, OneMoves DEF Sound

LEMMA OverloadKeeps ==
    ASSUME IInv, NEW q \in Query, Overload(q)
    PROVE  IInv'
  BY LeavesWaiting DEF Overload

LEMMA CancelQueryKeeps ==
    ASSUME IInv, NEW q \in Query, CancelQuery(q)
    PROVE  IInv'
<1> USE Known
<1>1. CASE pc[q] \in Inside /\ EndsWith(q, "cancelled")
  <2>1. /\ "cancelled" \in Endings \ {"none"} /\ "cancelled" \in Unanswered
        /\ "cancelled" \notin Refusals
    BY DEF Endings, Refusals, Unanswered
  <2>2. ending'[q] = "cancelled" /\ pc'[q] = "done" /\ log' = log /\ plan' = plan /\ calls' = calls
    BY <1>1 DEF CancelQuery, EndsWith, Go
  <2>3. OnlyOf(q) /\ row' \in [Text -> SUBSET Query]
    <3>1. row' = row \/ row' = [row EXCEPT ![asks[q]] = {q}]
      BY DEF CancelQuery, Stores
    <3>2. \A p \in Query \ {q} : (p \in turns' => p \in turns) /\ taught' = taught
      BY DEF CancelQuery, Stores
    <3> QED BY <1>1, <2>2, <3>1, <3>2 DEF CancelQuery, EndsWith, Go, wiring, OnlyOf
  <2>4. Budget(q)'
    BY <2>2 DEF Budget
  <2> QED BY <1>1, <2>1, <2>2, <2>3, <2>4, Ends
<1>2. CASE /\ pc[q] = "waiting" /\ Go(q, "done")
           /\ ending' = [ending EXCEPT ![q] = "cancelled"]
           /\ UNCHANGED <<slots, frame, inv>>
  BY <1>2, LeavesWaiting DEF CancelQuery, stores
<1> QED BY <1>1, <1>2 DEF CancelQuery

-----------------------------------------------------------------------------
(* The steps of a worker, at whatever stage its query is. *)

LEMMA Stays ==
    ASSUME IInv, NEW q \in Query, UNCHANGED <<pc, slots, ending, log, plan>>,
           inv' \in [Query -> Calls], calls' \in [Query -> Nat],
           row' \in [Text -> SUBSET Query], OnlyOf(q), Traces(q)'
    PROVE  IInv'
<1> USE Known
<1>1. Shapes' /\ Logs(q) /\ Budget(q)' /\ Ending(q)'
  BY DEF OnlyOf, Shapes, Logs, Budget, Ending
<1>2. Slots' /\ slots' \in Int
  BY DEF IInv, Slots, Holders
<1> QED BY <1>1, <1>2, OneMoves DEF Sound

\* A call that is closed stays the call it was.
LEMMA Closing ==
    ASSUME IInv, NEW q \in Query, NEW ok \in BOOLEAN, Close(q, ok)
    PROVE  /\ inv' \in [Query -> Calls] /\ inv'[q].worker = inv[q].worker
           /\ \A p \in Query \ {q} : inv'[p] = inv[p]
<1>1. inv \in [Query -> Calls] /\ inv' = [inv EXCEPT ![q].phase = "closed", ![q].ok = ok]
  BY Known DEF Close
<1>2. inv'[q] = [inv[q] EXCEPT !.phase = "closed", !.ok = ok] /\ inv[q] \in Calls
  BY <1>1
<1>3. inv'[q] \in Calls /\ inv'[q].worker = inv[q].worker
  BY <1>2 DEF Calls
<1> QED BY <1>1, <1>3

\* The K2.2 node writes from a running workflow, and only on that path.
LEMMA Persisting ==
    ASSUME IInv, NEW q \in Query, Persists(q)
    PROVE  /\ row' \in {row, [row EXCEPT ![asks[q]] = {q}]}
           /\ row' \in [Text -> SUBSET Query]
           /\ \A p \in Query \ {q} : p \in turns' => p \in turns
           /\ UNCHANGED <<row, turns>> \/ (path = "k22" /\ pc[q] = "running")
<1> USE Known
<1>1. \/ row' = row /\ turns' = turns
      \/ /\ row' = [row EXCEPT ![asks[q]] = {q}] /\ turns' = turns \union {q}
         /\ path = "k22" /\ pc[q] = "running"
  BY DEF Persists, Traces
<1> QED BY <1>1

LEMMA NotRunKeeps ==
    ASSUME IInv, NEW q \in Query, NotRun(q)
    PROVE  IInv'
<1> USE Known
<1>1. UNCHANGED <<pc, slots, ending, log, plan, calls, path, asks, taught>>
  BY DEF NotRun, wiring, stores
<1>2. /\ inv' \in [Query -> Calls] /\ inv'[q].worker = inv[q].worker
      /\ \A p \in Query \ {q} : inv'[p] = inv[p]
  BY Closing DEF NotRun
<1>3. Persists(q) \/ UNCHANGED <<row, turns>>
  BY DEF NotRun, stores
<1>4. /\ row' \in {row, [row EXCEPT ![asks[q]] = {q}]}
      /\ row' \in [Text -> SUBSET Query]
      /\ \A p \in Query \ {q} : p \in turns' => p \in turns
      /\ UNCHANGED <<row, turns>> \/ (path = "k22" /\ pc[q] = "running")
  BY <1>3, Persisting
<1>5. OnlyOf(q)
  BY <1>1, <1>2, <1>4 DEF OnlyOf
<1>6. ending[q] = "none" \/ UNCHANGED <<row, turns>>
  BY <1>4 DEF Ending
<1>7. Traces(q)'
  BY <1>1, <1>2, <1>4, <1>6 DEF Traces, NoTrace, Early, Refusals
<1> QED BY <1>1, <1>2, <1>4, <1>5, <1>7, Stays

LEMMA RaisesKeeps ==
    ASSUME IInv, NEW q \in Query, Raises(q)
    PROVE  IInv'
<1> USE Known
<1>1. UNCHANGED <<pc, slots, ending, log, plan, calls, path, asks, taught>>
  BY DEF Raises, wiring, stores
<1>2. /\ inv' \in [Query -> Calls] /\ inv'[q].worker = inv[q].worker
      /\ \A p \in Query \ {q} : inv'[p] = inv[p]
  BY Closing DEF Raises
<1>3. Persists(q) \/ UNCHANGED <<row, turns>>
  BY DEF Raises, stores
<1>4. /\ row' \in {row, [row EXCEPT ![asks[q]] = {q}]}
      /\ row' \in [Text -> SUBSET Query]
      /\ \A p \in Query \ {q} : p \in turns' => p \in turns
      /\ UNCHANGED <<row, turns>> \/ (path = "k22" /\ pc[q] = "running")
  BY <1>3, Persisting
<1>5. OnlyOf(q)
  BY <1>1, <1>2, <1>4 DEF OnlyOf
<1>6. ending[q] = "none" \/ UNCHANGED <<row, turns>>
  BY <1>4 DEF Ending
<1>7. Traces(q)'
  BY <1>1, <1>2, <1>4, <1>6 DEF Traces, NoTrace, Early, Refusals
<1> QED BY <1>1, <1>2, <1>4, <1>5, <1>7, Stays

LEMMA NodeTimeoutKeeps ==
    ASSUME IInv, NEW q \in Query, NodeTimeout(q)
    PROVE  IInv'
<1> USE Known
<1>1. UNCHANGED <<pc, slots, ending, log, plan, calls, path, asks, taught>>
  BY DEF NodeTimeout, wiring, stores
<1>2. /\ inv' \in [Query -> Calls] /\ inv'[q].worker = inv[q].worker
      /\ \A p \in Query \ {q} : inv'[p] = inv[p]
  BY Closing DEF NodeTimeout
<1>3. Persists(q) \/ UNCHANGED <<row, turns>>
  BY DEF NodeTimeout, stores
<1>4. /\ row' \in {row, [row EXCEPT ![asks[q]] = {q}]}
      /\ row' \in [Text -> SUBSET Query]
      /\ \A p \in Query \ {q} : p \in turns' => p \in turns
      /\ UNCHANGED <<row, turns>> \/ (path = "k22" /\ pc[q] = "running")
  BY <1>3, Persisting
<1>5. OnlyOf(q)
  BY <1>1, <1>2, <1>4 DEF OnlyOf
<1>6. ending[q] = "none" \/ UNCHANGED <<row, turns>>
  BY <1>4 DEF Ending
<1>7. Traces(q)'
  BY <1>1, <1>2, <1>4, <1>6 DEF Traces, NoTrace, Early, Refusals
<1> QED BY <1>1, <1>2, <1>4, <1>5, <1>7, Stays

LEMMA CancelWorkerKeeps ==
    ASSUME IInv, NEW q \in Query, CancelWorker(q)
    PROVE  IInv'
<1> USE Known
<1>1. UNCHANGED <<pc, slots, ending, log, plan, calls, path, asks, taught>>
  BY DEF CancelWorker, wiring, stores
<1>2. /\ inv' \in [Query -> Calls] /\ inv'[q].worker = inv[q].worker
      /\ \A p \in Query \ {q} : inv'[p] = inv[p]
  BY Closing DEF CancelWorker
<1>3. Persists(q) \/ UNCHANGED <<row, turns>>
  BY DEF CancelWorker, stores
<1>4. /\ row' \in {row, [row EXCEPT ![asks[q]] = {q}]}
      /\ row' \in [Text -> SUBSET Query]
      /\ \A p \in Query \ {q} : p \in turns' => p \in turns
      /\ UNCHANGED <<row, turns>> \/ (path = "k22" /\ pc[q] = "running")
  BY <1>3, Persisting
<1>5. OnlyOf(q)
  BY <1>1, <1>2, <1>4 DEF OnlyOf
<1>6. ending[q] = "none" \/ UNCHANGED <<row, turns>>
  BY <1>4 DEF Ending
<1>7. Traces(q)'
  BY <1>1, <1>2, <1>4, <1>6 DEF Traces, NoTrace, Early, Refusals
<1> QED BY <1>1, <1>2, <1>4, <1>5, <1>7, Stays

LEMMA ReturnsKeeps ==
    ASSUME IInv, NEW q \in Query, NEW ok \in BOOLEAN, Returns(q, ok)
    PROVE  IInv'
<1> USE Known
<1>1. UNCHANGED <<pc, slots, ending, log, plan, calls, path, asks, taught>>
  BY DEF Returns, wiring, stores
<1>2. /\ inv' \in [Query -> Calls] /\ inv'[q].worker = inv[q].worker
      /\ \A p \in Query \ {q} : inv'[p] = inv[p]
  BY Closing DEF Returns
<1>3. Persists(q) \/ UNCHANGED <<row, turns>>
  BY DEF Returns, stores
<1>4. /\ row' \in {row, [row EXCEPT ![asks[q]] = {q}]}
      /\ row' \in [Text -> SUBSET Query]
      /\ \A p \in Query \ {q} : p \in turns' => p \in turns
      /\ UNCHANGED <<row, turns>> \/ (path = "k22" /\ pc[q] = "running")
  BY <1>3, Persisting
<1>5. OnlyOf(q)
  BY <1>1, <1>2, <1>4 DEF OnlyOf
<1>6. ending[q] = "none" \/ UNCHANGED <<row, turns>>
  BY <1>4 DEF Ending
<1>7. Traces(q)'
  BY <1>1, <1>2, <1>4, <1>6 DEF Traces, NoTrace, Early, Refusals
<1> QED BY <1>1, <1>2, <1>4, <1>5, <1>7, Stays

LEMMA StartedKeeps ==
    ASSUME IInv, NEW q \in Query, Started(q)
    PROVE  IInv'
<1> USE Known
<1>1. UNCHANGED <<pc, slots, ending, log, plan, calls, path, asks, taught>>
  BY DEF Started, wiring, stores
<1>2. /\ inv' \in [Query -> Calls] /\ inv'[q].worker = inv[q].worker
      /\ \A p \in Query \ {q} : inv'[p] = inv[p]
  BY DEF Started, Calls
<1>3. row' = row /\ turns' = turns
  BY DEF Started, stores
<1>4. OnlyOf(q) /\ Traces(q)'
  BY <1>1, <1>2, <1>3 DEF OnlyOf, Traces, NoTrace, Early
<1> QED BY <1>1, <1>2, <1>3, <1>4, Stays

LEMMA CallStepKeeps ==
    ASSUME IInv, NEW q \in Query, CallStep(q)
    PROVE  IInv'
<1> USE Known
<1>1. UNCHANGED <<pc, slots, ending, log, plan, path, asks, stores>> /\ pc[q] = "running"
  BY DEF CallStep, wiring, stores
<1>2. /\ inv' \in [Query -> Calls] /\ calls' \in [Query -> Nat]
      /\ \A p \in Query \ {q} : inv'[p] = inv[p] /\ calls'[p] = calls[p]
  BY DEF CallStep, Invoke, Calls, Worker
<1>3. OnlyOf(q) /\ Traces(q)'
  BY <1>1, <1>2 DEF OnlyOf, Traces, NoTrace, Early, stores, Refusals, Ending
<1> QED BY <1>1, <1>2, <1>3, Stays DEF stores

LEMMA StepDoneKeeps ==
    ASSUME IInv, NEW q \in Query, StepDone(q)
    PROVE  IInv'
<1> USE Known
<1>1. UNCHANGED <<pc, slots, ending, log, plan, calls, path, asks, stores>> /\ pc[q] = "running"
  BY DEF StepDone, wiring, stores
<1>2. /\ inv' \in [Query -> Calls] /\ \A p \in Query \ {q} : inv'[p] = inv[p]
  BY DEF StepDone, NoCall, Calls
<1>3. OnlyOf(q) /\ Traces(q)'
  BY <1>1, <1>2 DEF OnlyOf, Traces, NoTrace, Early, stores, Refusals, Ending
<1> QED BY <1>1, <1>2, <1>3, Stays DEF stores

-----------------------------------------------------------------------------
(* The steps of a workflow and of the hooks after it. *)

LEMMA ReflectedKeeps ==
    ASSUME IInv, NEW q \in Query, Reflected(q)
    PROVE  IInv'
<1> USE Known
<1>1. /\ pc' = [pc EXCEPT ![q] = "saving"] /\ pc'[q] = "saving" /\ pc[q] = "reflecting"
  BY DEF Reflected, Go
<1>2. Shapes' /\ OnlyOf(q)
  BY <1>1 DEF Reflected, wiring, stores, NoCall, Calls, Shapes, OnlyOf, Stage, Inside
<1>3. Budget(q)' /\ Traces(q)'
  BY <1>1 DEF Reflected, wiring, stores, NoCall, Calls, Budget, Traces, NoTrace, Early, Ending
<1>4. slots' = slots + Holds(pc[q]) - Holds("saving") /\ "saving" \in Stage \ {"done"}
  BY <1>1 DEF Reflected, Holds, Inside, Stage
<1> QED BY <1>1, <1>2, <1>3, <1>4, GoesOn DEF Reflected

LEMMA MergeKeeps ==
    ASSUME IInv, NEW q \in Query, Merge(q)
    PROVE  IInv'
<1> USE Known
<1>1. /\ pc' = [pc EXCEPT ![q] = "saving"] /\ pc'[q] = "saving" /\ pc[q] = "merging"
  BY DEF Merge, Go
<1>2. Shapes' /\ OnlyOf(q)
  BY <1>1 DEF Merge, wiring, stores, Shapes, OnlyOf, Stage, Inside
<1>3. Budget(q)' /\ Traces(q)'
  BY <1>1 DEF Merge, wiring, stores, Budget, Traces, NoTrace, Early, Ending
<1>4. slots' = slots + Holds(pc[q]) - Holds("saving") /\ "saving" \in Stage \ {"done"}
  BY <1>1 DEF Merge, Holds, Inside, Stage
<1> QED BY <1>1, <1>2, <1>3, <1>4, GoesOn DEF Merge

LEMMA K42WorkflowDoneKeeps ==
    ASSUME IInv, NEW q \in Query, K42WorkflowDone(q)
    PROVE  IInv'
<1> USE Known
<1>1. /\ pc' = [pc EXCEPT ![q] = "evaluating"] /\ pc'[q] = "evaluating"
      /\ pc[q] = "running"
  BY DEF K42WorkflowDone, Go
<1>2. Shapes' /\ OnlyOf(q)
  BY <1>1 DEF K42WorkflowDone, wiring, stores, Invoke, Calls, Worker, Shapes, OnlyOf, Stage, Inside
<1>3. Budget(q)' /\ Traces(q)'
  BY <1>1 DEF K42WorkflowDone, wiring, stores, Invoke, Budget, Traces, NoTrace, Early
<1>4. slots' = slots + Holds(pc[q]) - Holds("evaluating") /\ "evaluating" \in Stage \ {"done"}
  BY <1>1 DEF K42WorkflowDone, Holds, Inside, Stage
<1>5. "response_incomplete" \in Event \ Terminal
  BY DEF Event, Terminal
<1>6. log' = log \/ \E e \in Event \ Terminal : Emit(q, e)
  BY <1>5 DEF K42WorkflowDone
<1>7. ending' = ending
  BY DEF K42WorkflowDone
<1> QED BY <1>1, <1>2, <1>3, <1>4, <1>6, <1>7, GoesOn

LEMMA EvaluatedKeeps ==
    ASSUME IInv, NEW q \in Query, Evaluated(q)
    PROVE  IInv'
<1> USE Known
<1>1. PICK stage \in {"reflecting", "saving"} : Go(q, stage)
  BY DEF Evaluated
<1>2. /\ pc' = [pc EXCEPT ![q] = stage] /\ pc'[q] = stage /\ pc[q] = "evaluating"
  BY <1>1 DEF Evaluated, Go
<1>3. /\ inv' \in [Query -> Calls] /\ inv'[q].worker # "step"
      /\ \A p \in Query \ {q} : inv'[p] = inv[p]
  <2>1. PICK call \in Calls : inv' = [inv EXCEPT ![q] = call] /\ call.worker # "step"
    <3>1. NoCall \in Calls /\ NoCall.worker # "step"
      BY DEF NoCall, Calls
    <3>2. [worker |-> "ReflectionWorker", phase |-> "entered", ok |-> FALSE] \in Calls
      BY DEF Calls, Worker
    <3> QED BY <3>1, <3>2 DEF Evaluated, Invoke
  <2> QED BY <2>1
<1>4. Shapes' /\ OnlyOf(q)
  BY <1>2, <1>3 DEF Evaluated, wiring, stores, Shapes, OnlyOf, Stage, Inside
<1>5. Budget(q)' /\ Traces(q)'
  BY <1>2, <1>3 DEF Evaluated, wiring, stores, Budget, Traces, NoTrace, Early
<1>6. slots' = slots + Holds(pc[q]) - Holds(stage) /\ stage \in Stage \ {"done"}
  BY <1>2 DEF Evaluated, Holds, Inside, Stage
<1> QED BY <1>2, <1>4, <1>5, <1>6, GoesOn DEF Evaluated

LEMMA SaveKeeps ==
    ASSUME IInv, NEW q \in Query, Save(q)
    PROVE  IInv'
<1> USE Known
<1>1. /\ pc' = [pc EXCEPT ![q] = "recording"] /\ pc'[q] = "recording" /\ pc[q] = "saving"
  BY DEF Save, Go
<1>2. row' = row \/ row' = [row EXCEPT ![asks[q]] = {q}]
  BY DEF Save, Stores
<1>3. \A p \in Query \ {q} : (p \in turns' => p \in turns) /\ (p \in taught' => p \in taught)
  BY DEF Save, Stores
<1>4. Shapes' /\ OnlyOf(q)
  BY <1>1, <1>2, <1>3 DEF Save, wiring, Shapes, OnlyOf, Stage, Inside
<1>5. Budget(q)' /\ Traces(q)'
  BY <1>1 DEF Save, wiring, Budget, Traces, Early, Ending, Refusals
<1>6. slots' = slots + Holds(pc[q]) - Holds("recording") /\ "recording" \in Stage \ {"done"}
  BY <1>1 DEF Save, Holds, Inside, Stage
<1> QED BY <1>1, <1>4, <1>5, <1>6, GoesOn DEF Save

LEMMA K22WorkflowDoneKeeps ==
    ASSUME IInv, NEW q \in Query, K22WorkflowDone(q)
    PROVE  IInv'
<1> USE Known
<1>1. /\ pc[q] = "running" /\ path = "k22" /\ ending[q] = "none" /\ pc[q] \in Inside
      /\ UNCHANGED <<wiring, plan, calls, row, turns>>
  BY DEF K22WorkflowDone, Ending, Inside
<1>2. CASE /\ taught' = taught \union {q} /\ Go(q, "recording")
           /\ inv' = [inv EXCEPT ![q] = NoCall]
           /\ UNCHANGED <<slots, frame, ending, log>>
  <2>1. pc' = [pc EXCEPT ![q] = "recording"] /\ pc'[q] = "recording"
    BY <1>2 DEF Go
  <2>2. Shapes' /\ OnlyOf(q)
    BY <1>1, <1>2, <2>1 DEF wiring, Shapes, OnlyOf, NoCall, Calls, Stage, Inside
  <2>3. Budget(q)' /\ Traces(q)'
    BY <1>1, <1>2, <2>1 DEF wiring, Budget, Traces, Early, NoCall, Refusals
  <2>4. slots' = slots + Holds(pc[q]) - Holds("recording") /\ "recording" \in Stage \ {"done"}
    BY <1>1, <1>2 DEF Holds, Inside, Stage
  <2> QED BY <1>1, <1>2, <2>1, <2>2, <2>3, <2>4, GoesOn
<1>3. CASE /\ Emit(q, "query_failed") /\ EndsWith(q, "workflowFailed") /\ UNCHANGED taught
  <2>1. /\ \E e \in Terminal : Emit(q, e) /\ "workflowFailed" \notin Refusals
        /\ "workflowFailed" \in Endings \ {"none"} /\ "workflowFailed" \notin Unanswered
    BY <1>3 DEF Terminal, Endings, Refusals, Unanswered
  <2>2. ending'[q] = "workflowFailed" /\ pc'[q] = "done" /\ OnlyOf(q)
    BY <1>1, <1>3 DEF EndsWith, Go, wiring, OnlyOf
  <2>3. Budget(q)'
    BY <1>1, <2>2 DEF Budget
  <2> QED BY <1>1, <1>3, <2>1, <2>2, <2>3, Ends
<1> QED BY <1>2, <1>3 DEF K22WorkflowDone

-----------------------------------------------------------------------------
LEMMA Inductive == IInv /\ [Next]_vars => IInv'
<1> SUFFICES ASSUME IInv, [Next]_vars PROVE IInv'
  OBVIOUS
<1>1. CASE Next
  <2>1. PICK q \in Query : \/ Reject(q) \/ Approve(q) \/ Progress(q)
                           \/ CancelWorker(q) \/ CancelQuery(q)
    BY <1>1 DEF Next
  <2>2. CASE Progress(q)
    BY <2>2, AdmitKeeps, OverloadKeeps, UnderstandKeeps, PlanReadyKeeps, PlanImpasseKeeps,
       PlanContradictionKeeps, CompiledKeeps, NotCompiledKeeps, SurfacedKeeps, NotRunKeeps,
       StartedKeeps, RaisesKeeps, NodeTimeoutKeeps, ReturnsKeeps, CallStepKeeps,
       StepDoneKeeps, K42WorkflowDoneKeeps, EvaluatedKeeps, ReflectedKeeps, SaveKeeps,
       CompleteKeeps, K22WorkflowDoneKeeps, ClassifyKeeps, MergeKeeps, FailKeeps DEF Progress
  <2> QED BY <2>1, <2>2, RejectKeeps, ApproveKeeps, CancelWorkerKeeps, CancelQueryKeeps
<1>2. CASE UNCHANGED vars
  BY <1>2 DEF vars, IInv, Typed, Shapes, Slots, Holders, Sound, Budget, Ending, Traces, NoTrace
<1> QED BY <1>1, <1>2

LEMMA Invariant == Spec => []IInv
  BY Initially, Inductive, PTL DEF Spec

\* No way out of handle() keeps a permit or gives one back twice, and the recovery
\* budget bounds plan() for the whole operation: however many queries run, whatever
\* the limits are, and wherever a query fails or is cancelled.
THEOREM BothBudgetsHold == Spec => []BudgetsHold
<1>1. IInv => BudgetsHold
  <2> SUFFICES ASSUME IInv PROVE BudgetsHold
    OBVIOUS
  <2>1. SlotsAccounted
    BY DEF IInv, Slots, Holders, SlotsAccounted
  <2>2. ReplanWithinBudget
    BY Known, BudgetAssumption DEF ReplanWithinBudget, Budget
  <2> QED BY <2>1, <2>2 DEF BudgetsHold
<1> QED BY <1>1, Invariant, PTL

\* Whoever reads the lifecycle events of a query meets at most one terminal event,
\* as the last one, and meets one if the query was admitted and not cancelled.
THEOREM EndingsAreOne == Spec => []OneEnding
<1>1. IInv => OneEnding
  <2> SUFFICES ASSUME IInv, NEW q \in Query
               PROVE  /\ EventsOf(q) \subseteq {Len(log[q])}
                      /\ ending[q] \notin {"none", "rejected", "overloaded", "cancelled"} =>
                            EventsOf(q) # {}
    BY DEF OneEnding
  <2>1. log[q] \in Seq(Event) /\ Ending(q)
    BY DEF IInv, Typed, Sound
  <2>2. /\ Quiet(log[q]) => EventsOf(q) = {}
        /\ Ended(log[q]) => EventsOf(q) = {Len(log[q])}
    BY <2>1, Terminals
  <2> QED BY <2>1, <2>2 DEF Ending, Unanswered
<1> QED BY <1>1, Invariant, PTL

\* What memory, the context and the training data keep of a query agrees with how it
\* ended: nothing of a refused one, and on the paths where the orchestrator writes,
\* nothing of one that failed.
THEOREM StoresAgree == Spec => []StoresMatchEnding
<1>1. IInv => StoresMatchEnding
  <2> SUFFICES ASSUME IInv PROVE StoresMatchEnding
    OBVIOUS
  <2>1. RefusedLeavesNoTrace
    BY Known DEF RefusedLeavesNoTrace, Traces, NoTrace
  <2>2. ASSUME path # "k22", NEW q \in Query, q \in row[asks[q]] \union turns \union taught
        PROVE  ending[q] \in {"answered", "cancelled"} \/ pc[q] = "recording"
    <3>1. ~ NoTrace(q)
      BY <2>2, Known DEF NoTrace
    <3>2. pc[q] \in {"recording", "done"} /\ ending[q] \in {"none", "answered", "cancelled"}
      BY <2>2, <3>1, Known DEF Traces
    <3> QED BY <3>2, Known DEF Ending
  <2>3. RememberedWasAnswered
    BY <2>2 DEF RememberedWasAnswered
  <2> QED BY <2>1, <2>3 DEF StoresMatchEnding
<1> QED BY <1>1, Invariant, PTL
=============================================================================
