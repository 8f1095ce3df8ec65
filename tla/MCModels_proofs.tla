---------------------------- MODULE MCModels_proofs ----------------------------
(***************************************************************************)
(* The parts of MCModels, each for every value of its constants: the       *)
(* circuit breaker, the configuration, the router of a module's requests   *)
(* and a monitored generation; then the composition of the four.           *)
(***************************************************************************)
EXTENDS MCModels, Sequences, TLAPS

IInv == TypeOK /\ CountMatchesState

\* A call that ends leaves the set of calls in flight, and of the probes.
LEMMA EndsTypes ==
    ASSUME TypeOK, NEW c \in Call, Ends(c)
    PROVE  flight' \subseteq Call /\ probes' \subseteq flight'
BY DEF TypeOK, Ends

\* The invariant holds in the initial state ...
LEMMA Initially == Init => IInv
<1> SUFFICES ASSUME Init PROVE IInv
  OBVIOUS
<1>1. 0 \in 0..Threshold /\ 0 < Threshold
  BY ThresholdAssumption
<1>2. /\ state = "CLOSED" /\ failures = 0 /\ cooled = TRUE
      /\ flight = {} /\ probes = {} /\ lost = FALSE
  BY DEF Init
<1> QED BY <1>1, <1>2 DEF IInv, TypeOK, CountMatchesState

\* ... and is kept by every step.
LEMMA Inductive == IInv /\ [Next]_vars => IInv'
<1> SUFFICES ASSUME IInv, [Next]_vars PROVE IInv'
  OBVIOUS
<1>0. Threshold \in Nat /\ 0 < Threshold /\ failures \in 0..Threshold
  BY ThresholdAssumption DEF IInv, TypeOK
<1>1. ASSUME NEW c \in Call, Admit(c) PROVE IInv'
  BY <1>1 DEF Admit, IInv, TypeOK, CountMatchesState
<1>2. ASSUME NEW c \in Call, Probe(c) PROVE IInv'
  BY <1>2 DEF Probe, IInv, TypeOK, CountMatchesState
<1>3. ASSUME NEW c \in Call, Reject(c) PROVE IInv'
  BY <1>3 DEF Reject, vars, IInv, TypeOK, CountMatchesState
<1>4. ASSUME NEW c \in Call, Succeed(c) PROVE IInv'
  <2>1. flight' \subseteq Call /\ probes' \subseteq flight'
    BY <1>4, EndsTypes DEF Succeed, IInv
  <2>2. CASE state = "HALF_OPEN"
    <3>1. state' = "CLOSED" /\ failures' = 0 /\ UNCHANGED <<cooled, lost>>
      BY <1>4, <2>2 DEF Succeed
    <3> QED BY <1>0, <2>1, <3>1 DEF IInv, TypeOK, CountMatchesState
  <2>3. CASE state # "HALF_OPEN"
    <3>1. UNCHANGED <<state, failures, cooled, lost>>
      BY <1>4, <2>3 DEF Succeed
    <3> QED BY <2>1, <3>1 DEF IInv, TypeOK, CountMatchesState
  <2> QED BY <2>2, <2>3
<1>5. ASSUME NEW c \in Call, Fail(c) PROVE IInv'
  <2>1. flight' \subseteq Call /\ probes' \subseteq flight'
    BY <1>5, EndsTypes DEF Fail, IInv
  <2>2. cooled' = FALSE /\ lost' = lost
    BY <1>5 DEF Fail
  <2>3. CASE failures + 1 < Threshold
    <3>1. failures' = failures + 1 /\ state' = state /\ failures < Threshold
      BY <1>0, <1>5, <2>3 DEF Fail
    <3>2. failures + 1 \in 0..Threshold
      BY <1>0, <2>3
    <3> QED BY <2>1, <2>2, <2>3, <3>1, <3>2 DEF IInv, TypeOK, CountMatchesState
  <2>4. CASE ~(failures + 1 < Threshold)
    <3>1. failures' = Threshold /\ state' = "OPEN"
      BY <1>0, <1>5, <2>4 DEF Fail
    <3>2. Threshold \in 0..Threshold /\ ~(Threshold < Threshold)
      BY <1>0
    <3> QED BY <2>1, <2>2, <3>1, <3>2 DEF IInv, TypeOK, CountMatchesState
  <2> QED BY <2>3, <2>4
<1>6. ASSUME NEW c \in Call, Cancelled(c) PROVE IInv'
  <2>1. flight' \subseteq Call /\ probes' \subseteq flight'
    BY <1>6, EndsTypes DEF Cancelled, IInv
  <2>2. lost' \in BOOLEAN /\ UNCHANGED <<state, failures, cooled>>
    BY <1>6 DEF Cancelled, IInv, TypeOK
  <2> QED BY <2>1, <2>2 DEF IInv, TypeOK, CountMatchesState
<1>7. CASE TimePasses
  BY <1>7 DEF TimePasses, IInv, TypeOK, CountMatchesState
<1>8. CASE UNCHANGED vars
  BY <1>8 DEF vars, IInv, TypeOK, CountMatchesState
<1> QED BY <1>1, <1>2, <1>3, <1>4, <1>5, <1>6, <1>7, <1>8 DEF Next

\* For every number of callers and every threshold, the circuit is closed
\* exactly while the failure count is below the threshold.
THEOREM CountMatches == Spec => [](TypeOK /\ CountMatchesState)
<1>1. IInv => TypeOK /\ CountMatchesState
  BY DEF IInv
<1> QED BY <1>1, Initially, Inductive, PTL DEF Spec
-----------------------------------------------------------------------------
(***************************************************************************)
(* The configuration: the state of the modules survives reloads and deaths,*)
(* for any settings, edits, numbers of writes and of deaths.               *)
(***************************************************************************)

(* The inductive invariant. *)
ConfigCounters == [critical : Nat, other : Nat]
ConfigTyped == {models, modelsFile, writes} \subseteq ConfigCounters
\* With nothing deferred, the file is what is in memory; its stages always are.
ConfigSavedIsSame ==
    /\ ~unsaved => modelsFile = models
    /\ modelsFile.critical = models.critical
ConfigIInv == ConfigTyped /\ ConfigSavedIsSame /\ Config!StateIsKept

\* A step that touches no module's state and no stage of one.
LEMMA ConfigOthersKeep == ASSUME ConfigIInv, UNCHANGED Config!modelVars PROVE ConfigIInv'
BY DEF ConfigIInv, ConfigTyped, ConfigSavedIsSame, Config!StateIsKept, Config!modelVars

\* One more write of the counter named k.
LEMMA ConfigRaised ==
    ASSUME NEW r \in ConfigCounters
    PROVE  LET c == [r EXCEPT !.critical = @ + 1]
               o == [r EXCEPT !.other = @ + 1]
           IN  /\ c \in ConfigCounters /\ c.critical = r.critical + 1 /\ c.other = r.other
               /\ o \in ConfigCounters /\ o.other = r.other + 1 /\ o.critical = r.critical
BY DEF ConfigCounters

LEMMA ConfigInitially == Config!Init => ConfigIInv
BY DEF Config!Init, Config!Fresh, ConfigIInv, ConfigTyped, ConfigCounters,
   ConfigSavedIsSame, Config!StateIsKept

LEMMA ConfigInductive == ConfigIInv /\ [Config!Next]_(Config!vars) => ConfigIInv'
<1> SUFFICES ASSUME ConfigIInv, [Config!Next]_(Config!vars) PROVE ConfigIInv'
  OBVIOUS
<1>0. models \in ConfigCounters /\ modelsFile \in ConfigCounters
      /\ writes \in ConfigCounters
  BY DEF ConfigIInv, ConfigTyped
<1>1. ASSUME models' = [models EXCEPT !.critical = @ + 1], modelsFile' = models',
             writes' = [writes EXCEPT !.critical = @ + 1], unsaved' = FALSE, cut' = cut
      PROVE  ConfigIInv'
  <2>1. /\ models' \in ConfigCounters /\ writes' \in ConfigCounters
        /\ modelsFile' \in ConfigCounters
        /\ models'.critical = models.critical + 1 /\ models'.other = models.other
        /\ writes'.critical = writes.critical + 1 /\ writes'.other = writes.other
    BY <1>0, <1>1, ConfigRaised
  <2> QED BY <1>1, <2>1 DEF ConfigIInv, ConfigTyped, ConfigSavedIsSame, Config!StateIsKept
<1>2. CASE Config!SetCritical
  BY <1>1, <1>2 DEF Config!SetCritical, Config!Persist
<1>3. CASE Config!SetOther
  <2>1. /\ writes' = [writes EXCEPT !.other = @ + 1]
        /\ models' = [models EXCEPT !.other = @ + 1]
        /\ unsaved' = TRUE /\ UNCHANGED <<modelsFile, cut>>
    BY <1>3 DEF Config!SetOther, Config!Defer
  <2>2. /\ models' \in ConfigCounters /\ writes' \in ConfigCounters
        /\ models'.critical = models.critical /\ models'.other = models.other + 1
        /\ writes'.critical = writes.critical /\ writes'.other = writes.other + 1
    BY <1>0, <2>1, ConfigRaised
  <2> QED BY <1>0, <2>1, <2>2 DEF ConfigIInv, ConfigTyped, ConfigSavedIsSame,
             Config!StateIsKept
<1>4. CASE Config!flush
  BY <1>4 DEF Config!flush, Config!Persist, ConfigIInv, ConfigTyped, ConfigSavedIsSame,
     Config!StateIsKept
<1>5. ASSUME NEW key \in Setting, Config!set(key) PROVE ConfigIInv'
  BY <1>5, ConfigOthersKeep DEF Config!set
<1>6. ASSUME NEW key \in Setting, Config!register_module(key) PROVE ConfigIInv'
  BY <1>1, <1>6 DEF Config!register_module
<1>7. ASSUME NEW e \in Edit, Config!EditorOpens(e) PROVE ConfigIInv'
  BY <1>7, ConfigOthersKeep DEF Config!EditorOpens
<1>8. CASE Config!EditorCloses
  BY <1>8, ConfigOthersKeep DEF Config!EditorCloses
<1>9. ASSUME NEW file \in {"models", "settings"}, Config!Watch(file) PROVE ConfigIInv'
  \* What is read is what is in memory already, or is not taken over.
  <2>1. models' = models /\ UNCHANGED <<modelsFile, unsaved, writes, cut>>
    BY <1>9 DEF Config!Watch, Config!LoadAll, ConfigIInv, ConfigSavedIsSame
  <2> QED BY <2>1, ConfigOthersKeep DEF Config!modelVars
<1>10. CASE Config!Restart
  <2>1. /\ models' = modelsFile' /\ unsaved' = FALSE
        /\ writes' = [writes EXCEPT !.other = models'.other]
        /\ \/ modelsFile' = modelsFile /\ cut' = cut
           \/ modelsFile' = Config!Fresh /\ cut' = TRUE
    BY <1>10 DEF Config!Restart
  <2>2. modelsFile' \in ConfigCounters
    BY <1>0, <2>1 DEF Config!Fresh, ConfigCounters
  <2>3. /\ writes' \in ConfigCounters
        /\ writes'.critical = writes.critical /\ writes'.other = models'.other
    BY <1>0, <2>1, <2>2 DEF ConfigCounters
  <2> QED BY <2>1, <2>2, <2>3 DEF ConfigIInv, ConfigTyped, ConfigSavedIsSame,
             Config!StateIsKept
<1>11. CASE UNCHANGED Config!vars
  BY <1>11, ConfigOthersKeep DEF Config!vars, Config!modelVars
<1> QED BY <1>2, <1>3, <1>4, <1>5, <1>6, <1>7, <1>8, <1>9, <1>10, <1>11 DEF Config!Next

\* A stage that was set is in memory and on disk, whatever the watcher loaded since and
\* over any number of deaths, but for one that comes while the file is written; a reload
\* takes no counter back (config.py:51-67, 184-220).
THEOREM ConfigStateKept == Config!Spec => []Config!StateIsKept
<1>1. ConfigIInv => Config!StateIsKept
  BY DEF ConfigIInv
<1> QED BY ConfigInitially, ConfigInductive, <1>1, PTL DEF Config!Spec
-----------------------------------------------------------------------------
(***************************************************************************)
(* The router: the stage of a module, its requests and their calls, for any *)
(* models, prompts, thresholds, windows, numbers of requests and restarts. *)
(***************************************************************************)

(* The inductive invariant. *)
Stages == {"bootstrap", "shadow", "native"}
Places == {
    "idle", "external", "shadow", "native", "spot", "monitored", "streaming",
    "counting", "scored", "judged", "unwinding"}
At == {"idle", "lookup", "asked", "done", "failed", "cancelled"}

\* A call, and a request, are records of exactly these fields.
IsCall(c) ==
    /\ c = [at |-> c.at, todo |-> c.todo, prompt |-> c.prompt, text |-> c.text]
    /\ c.at \in At
    /\ Router!Running(c) => c.prompt \in Prompt
    /\ c.at = "done" => c.text.prompt = c.prompt
IsRequest(q) ==
    /\ q = [pc |-> q.pc, stage |-> q.stage, ext |-> q.ext, own |-> q.own, sim |-> q.sim,
            count |-> q.count]
    /\ q.pc \in Places
    /\ q.sim \in Nat
    /\ IsCall(q.ext) /\ IsCall(q.own)
    /\ q.pc = "idle" => ~Router!Running(q.ext) /\ ~Router!Running(q.own)
\* The average of a module never exceeds its best comparison ...
IsState(s, b) ==
    /\ s = [stage |-> s.stage, count |-> s.count, maturity |-> s.maturity]
    /\ s.stage \in Stages
    /\ s.count \in Nat /\ s.maturity \in Nat
    /\ s.maturity <= 100 * b
    /\ s.stage = "native" => b >= PromoteAt
RouterStages ==
    /\ best \in Nat
    /\ IsState(lifecycle, best) /\ IsState(disk, best) /\ disk.stage = lifecycle.stage
\* ... nor does a similarity that a request carries to its promotion.
RouterRequests ==
    /\ req = [r \in Request |-> req[r]]
    /\ \A r \in Request : IsRequest(req[r]) /\ req[r].sim <= best
RouterCache ==
    /\ cache = [p \in Prompt |-> cache[p]]
    /\ \A p \in Prompt : cache[p] \in {Router!NoText, Router!Empty} \/ cache[p].prompt = p
RouterIInv == RouterStages /\ RouterRequests /\ RouterCache

LEMMA RouterSound ==
    RouterIInv => /\ Router!PromotedOnEvidence /\ Router!StageIsDurable
                  /\ Router!AnsweredOwnPrompt /\ Router!NoOrphanCall
<1> SUFFICES ASSUME RouterIInv
             PROVE  /\ Router!PromotedOnEvidence /\ Router!StageIsDurable
                    /\ Router!AnsweredOwnPrompt /\ Router!NoOrphanCall
  OBVIOUS
<1>1. Router!PromotedOnEvidence /\ Router!StageIsDurable
  BY DEF RouterIInv, RouterStages, IsState, Router!PromotedOnEvidence, Router!StageIsDurable
<1>2. Router!NoOrphanCall
  BY DEF RouterIInv, RouterRequests, IsRequest, Router!NoOrphanCall
<1>3. ASSUME NEW r \in Request, NEW w \in {"ext", "own"}, req[r][w].at = "done"
      PROVE  req[r][w].text.prompt = req[r][w].prompt
  <2>1. IsCall(req[r].ext) /\ IsCall(req[r].own)
    BY DEF RouterIInv, RouterRequests, IsRequest
  <2>2. CASE w = "ext"
    BY <1>3, <2>1, <2>2 DEF IsCall
  <2>3. CASE w = "own"
    BY <1>3, <2>1, <2>3 DEF IsCall
  <2> QED BY <2>2, <2>3
<1> QED BY <1>1, <1>2, <1>3 DEF Router!AnsweredOwnPrompt

LEMMA NothingAsked ==
    /\ IsCall(Router!Idle) /\ ~Router!Running(Router!Idle)
    /\ Router!NoRequest.sim = 0
    /\ IsRequest(Router!NoRequest)
<1>1. IsCall(Router!Idle) /\ ~Router!Running(Router!Idle)
  BY DEF IsCall, At, Router!Idle, Router!Running
<1>2. Router!NoRequest =
        [pc |-> "idle", stage |-> "none", ext |-> Router!Idle, own |-> Router!Idle,
         sim |-> 0, count |-> 0]
  BY DEF Router!NoRequest
<1> QED BY <1>1, <1>2 DEF IsRequest, Places

LEMMA RouterInitially == Router!Init => RouterIInv
<1> SUFFICES ASSUME Router!Init PROVE RouterIInv
  OBVIOUS
<1>1. RouterStages
  BY RoutingAssumption DEF Router!Init, RouterStages, IsState, Stages
<1>2. RouterRequests
  BY NothingAsked DEF Router!Init, RouterRequests
<1>3. RouterCache
  BY DEF Router!Init, RouterCache
<1> QED BY <1>1, <1>2, <1>3 DEF RouterIInv

-----------------------------------------------------------------------------
\* A state of the module that Put() takes, with the best comparison as it will be.
LEMMA PutKeeps ==
    ASSUME RouterStages, NEW s, IsState(s, best'), best' \in Nat, best' >= best, Router!Put(s)
    PROVE  RouterStages'
<1>1. CASE s.stage # lifecycle.stage
  BY <1>1 DEF Router!Put, Router!Persist, RouterStages
<1>2. CASE s.stage = lifecycle.stage
  <2>1. lifecycle' = s /\ disk' = disk
    BY <1>2 DEF Router!Put, Router!Defer
  <2>2. IsState(disk, best')
    BY RoutingAssumption DEF RouterStages, IsState
  <2> QED BY <1>2, <2>1, <2>2 DEF RouterStages
<1> QED BY <1>1, <1>2

\* _maybe_promote() promotes on a score that is no better than the best comparison.
LEMMA PromotedIsState ==
    ASSUME NEW b \in Nat, NEW s, IsState(s, b), NEW n, NEW score \in Nat, score <= 100 * b
    PROVE  IsState(Router!Promoted(s, n, score), b)
<1>1. CASE n < MinQueries
  BY <1>1 DEF Router!Promoted
<1>2. CASE ~(n < MinQueries) /\ s.stage = "bootstrap"
  BY <1>2 DEF Router!Promoted, IsState, Stages
<1>3. CASE ~(n < MinQueries) /\ s.stage = "shadow" /\ score >= 100 * PromoteAt
  <2>1. b >= PromoteAt
    BY <1>3, RoutingAssumption
  <2> QED BY <1>3, <2>1 DEF Router!Promoted, IsState, Stages
<1>4. CASE ~(n < MinQueries) /\ s.stage # "bootstrap"
            /\ ~(s.stage = "shadow" /\ score >= 100 * PromoteAt)
  BY <1>4 DEF Router!Promoted
<1> QED BY <1>1, <1>2, <1>3, <1>4

LEMMA CountedIsState ==
    ASSUME NEW b \in Nat, NEW s, IsState(s, b) PROVE IsState(Router!Counted(s), b)
BY DEF IsState, Router!Counted, Stages

LEMMA ScoredIsState ==
    ASSUME NEW b \in Nat, NEW s, IsState(s, b), NEW sim \in Nat, NEW b2 \in Nat, b <= b2, sim <= b2
    PROVE  IsState(Router!Scored(s, sim), b2)
<1>1. s.maturity \in Nat /\ s.maturity <= 100 * b
  BY DEF IsState
<1>2. Router!Blend(s.maturity, sim) \in Nat /\ Router!Blend(s.maturity, sim) <= 100 * b2
  BY <1>1 DEF Router!Blend
<1> QED BY <1>2, RoutingAssumption DEF IsState, Router!Scored

LEMMA RolledBackIsState ==
    ASSUME NEW b \in Nat, NEW s, IsState(s, b) PROVE IsState(Router!RolledBack(s), b)
<1>1. CASE s.stage = "native" /\ Router!Regressed(s)
  BY <1>1 DEF Router!RolledBack, IsState, Stages
<1>2. CASE ~(s.stage = "native" /\ Router!Regressed(s))
  BY <1>2 DEF Router!RolledBack
<1> QED BY <1>1, <1>2
-----------------------------------------------------------------------------
\* One request becomes q.
LEMMA BecomesKeeps ==
    ASSUME RouterRequests, best \in Nat, best' \in Nat, best' >= best,
           NEW r \in Request, NEW q, IsRequest(q), q.sim <= best',
           req' = [req EXCEPT ![r] = q]
    PROVE  RouterRequests'
<1>1. req' = [x \in Request |-> IF x = r THEN q ELSE req[x]]
  BY DEF RouterRequests
<1>2. ASSUME NEW x \in Request PROVE IsRequest(req'[x]) /\ req'[x].sim <= best'
  <2>1. IsRequest(req[x]) /\ req[x].sim <= best /\ req[x].sim \in Nat
    BY DEF RouterRequests, IsRequest
  <2> QED BY <1>1, <2>1
<1> QED BY <1>1, <1>2 DEF RouterRequests

\* One call of a request that has begun becomes c.
LEMMA CallKeeps ==
    ASSUME RouterRequests, RouterStages, UNCHANGED lifecycle, best' = best,
           NEW r \in Request, NEW w \in {"ext", "own"}, NEW c, IsCall(c),
           req[r].pc # "idle", req' = [req EXCEPT ![r][w] = c]
    PROVE  RouterRequests'
<1> DEFINE q == [req[r] EXCEPT ![w] = c]
<1>0. IsRequest(req[r]) /\ req[r].sim <= best /\ best \in Nat
  BY DEF RouterRequests, RouterStages
<1>1. q = [pc |-> req[r].pc, stage |-> req[r].stage,
           ext |-> IF w = "ext" THEN c ELSE req[r].ext,
           own |-> IF w = "own" THEN c ELSE req[r].own,
           sim |-> req[r].sim, count |-> req[r].count]
  BY <1>0 DEF IsRequest
<1>2. IsRequest(q) /\ q.sim = req[r].sim
  <2> HIDE DEF q
  <2> QED BY <1>0, <1>1 DEF IsRequest
<1>3. req' = [req EXCEPT ![r] = q]
  OBVIOUS
<1>4. best' >= best /\ best' \in Nat
  BY <1>0
<1> QED
  <2> HIDE DEF q
  <2> QED BY <1>0, <1>2, <1>3, <1>4, BecomesKeeps

LEMMA GotIsCall ==
    ASSUME NEW c, IsCall(c), Router!Running(c), NEW t, t = Router!Empty \/ t.prompt = c.prompt
    PROVE  IsCall(Router!Got(c, t)) /\ IsCall(Router!FallThrough(c))
<1>1. IsCall(Router!FallThrough(c))
  <2> DEFINE at == IF Len(c.todo) = 1 THEN "failed" ELSE "lookup"
  <2>0. c = [at |-> c.at, todo |-> c.todo, prompt |-> c.prompt, text |-> c.text]
    BY DEF IsCall
  <2>1. Router!FallThrough(c) = [c EXCEPT !.todo = Tail(@), !.at = at]
    BY DEF Router!FallThrough
  <2> DEFINE rest == Tail(c.todo)
  <2>a. [c EXCEPT !.todo = Tail(@), !.at = at] = [c EXCEPT !.todo = rest, !.at = at]
    BY <2>0
  <2>b. at \in {"failed", "lookup"}
    OBVIOUS
  <2> HIDE DEF at, rest
  <2>c. Router!FallThrough(c) =
             [at |-> at, todo |-> rest, prompt |-> c.prompt, text |-> c.text]
    BY <2>0, <2>1, <2>a
  <2>2. c.prompt \in Prompt
    BY DEF IsCall
  <2> QED BY <2>b, <2>c, <2>2 DEF IsCall, At, Router!Running
<1>2. CASE t = Router!Empty
  BY <1>1, <1>2 DEF Router!Got
<1>3. CASE t # Router!Empty
  BY <1>1, <1>3 DEF Router!Got, IsCall, At, Router!Running
<1> QED BY <1>1, <1>2, <1>3

LEMMA RouterCallStepKeeps ==
    ASSUME RouterIInv, NEW r \in Request, Router!CallStep(r) PROVE RouterIInv'
<1>0. IsRequest(req[r])
  BY DEF RouterIInv, RouterRequests
<1>a. \A w \in {"ext", "own"} : IsCall(req[r][w])
  BY <1>0 DEF IsRequest
<1>b. UNCHANGED Router!lifecycle
  BY DEF Router!CallStep, Router!Lookup, Router!Answer, Router!ProviderFails,
         Router!CallUnwinds
<1>c. UNCHANGED <<lifecycle, disk, best>> /\ RouterStages'
  BY <1>b DEF Router!lifecycle, RouterIInv, RouterStages
<1>1. ASSUME NEW w \in {"ext", "own"}, Router!Lookup(r, w) PROVE RouterIInv'
  <2> DEFINE c == req[r][w]
  <2>0. IsCall(c) /\ Router!Running(c) /\ c.prompt \in Prompt /\ c.at = "lookup"
    BY <1>a, <1>1 DEF IsCall, Router!Lookup, Router!Running
  <2>1. PICK hit \in {cache[c.prompt], Router!NoText} :
          req' = [req EXCEPT ![r][w] =
                    IF hit # Router!NoText THEN Router!Got(c, hit)
                    ELSE [c EXCEPT !.at = "asked"]]
    BY <1>1 DEF Router!Lookup, Router!Hits, Router!Key
  <2>2. cache' = cache /\ req[r].pc # "idle"
    BY <1>1 DEF Router!Lookup, Router!Waiting
  <2>3. CASE hit # Router!NoText
    <3>1. hit = Router!Empty \/ hit.prompt = c.prompt
      BY <2>0, <2>1, <2>3 DEF RouterIInv, RouterCache
    <3>2. IsCall(Router!Got(c, hit)) /\ req' = [req EXCEPT ![r][w] = Router!Got(c, hit)]
      BY <2>0, <2>1, <2>3, <3>1, GotIsCall
    <3>3. RouterRequests'
      BY <1>c, <2>2, <3>2, CallKeeps DEF RouterIInv
    <3> QED BY <1>c, <2>2, <3>3 DEF RouterIInv, RouterCache
  <2>4. CASE hit = Router!NoText
    <3> DEFINE d == [c EXCEPT !.at = "asked"]
    <3>1. IsCall(d) /\ req' = [req EXCEPT ![r][w] = d]
      BY <2>0, <2>1, <2>4 DEF IsCall, At, Router!Running
    <3> HIDE DEF d
    <3>2. RouterRequests'
      BY <1>c, <2>2, <3>1, CallKeeps DEF RouterIInv
    <3> QED BY <1>c, <2>2, <3>2 DEF RouterIInv, RouterCache
  <2> QED BY <2>3, <2>4
<1>2. ASSUME NEW w \in {"ext", "own"}, Router!Answer(r, w) PROVE RouterIInv'
  <2> DEFINE c == req[r][w]
  <2>0. IsCall(c) /\ Router!Running(c) /\ c.prompt \in Prompt
    BY <1>a, <1>2 DEF IsCall, Router!Answer, Router!Running
  <2>1. PICK t \in {[model |-> Head(c.todo), prompt |-> c.prompt], Router!Empty} :
          /\ req' = [req EXCEPT ![r][w] = Router!Got(c, t)]
          /\ cache' = [cache EXCEPT ![c.prompt] = t]
    BY <1>2 DEF Router!Answer, Router!Key
  <2>2. t = Router!Empty \/ t.prompt = c.prompt
    BY <2>1
  <2>3. IsCall(Router!Got(c, t)) /\ req[r].pc # "idle"
    BY <1>2, <2>0, <2>2, GotIsCall DEF Router!Answer, Router!Waiting
  <2>4. RouterRequests'
    BY <1>c, <2>1, <2>3, CallKeeps DEF RouterIInv
  <2>5. RouterCache'
    BY <2>0, <2>1, <2>2 DEF RouterIInv, RouterCache
  <2> QED BY <1>c, <2>4, <2>5 DEF RouterIInv
<1>3. ASSUME NEW w \in {"ext", "own"}, Router!ProviderFails(r, w) PROVE RouterIInv'
  <2>1. IsCall(req[r][w]) /\ Router!Running(req[r][w]) /\ req[r].pc # "idle"
    BY <1>a, <1>3 DEF Router!ProviderFails, Router!Running, Router!Waiting
  <2>2. IsCall(Router!FallThrough(req[r][w]))
    BY <2>1, GotIsCall
  <2>3. req' = [req EXCEPT ![r][w] = Router!FallThrough(req[r][w])] /\ cache' = cache
    BY <1>3 DEF Router!ProviderFails
  <2>4. RouterRequests'
    BY <1>c, <2>1, <2>2, <2>3, CallKeeps DEF RouterIInv
  <2> QED BY <1>c, <2>3, <2>4 DEF RouterIInv, RouterCache
<1>4. ASSUME NEW w \in {"ext", "own"}, Router!CallUnwinds(r, w) PROVE RouterIInv'
  <2> DEFINE d == [req[r][w] EXCEPT !.at = "cancelled"]
  <2>1. IsCall(d) /\ req[r].pc # "idle"
    BY <1>a, <1>4 DEF Router!CallUnwinds, IsCall, At, Router!Running
  <2>2. req' = [req EXCEPT ![r][w] = d] /\ cache' = cache
    BY <1>4 DEF Router!CallUnwinds
  <2> HIDE DEF d
  <2>3. RouterRequests'
    BY <1>c, <2>1, <2>2, CallKeeps DEF RouterIInv
  <2> QED BY <1>c, <2>2, <2>3 DEF RouterIInv, RouterCache
<1> QED BY <1>1, <1>2, <1>3, <1>4 DEF Router!CallStep

-----------------------------------------------------------------------------
\* A step of one request that leaves the cache alone, puts a state that may be put and
\* makes the request one of the shapes it may take.
LEMMA RequestKeeps ==
    ASSUME RouterIInv, RouterStages', best' \in Nat, best' >= best, cache' = cache,
           NEW r \in Request, NEW q, IsRequest(q), q.sim <= best',
           req' = [req EXCEPT ![r] = q]
    PROVE  RouterIInv'
<1>1. RouterRequests'
  BY BecomesKeeps DEF RouterIInv, RouterStages
<1> QED BY <1>1 DEF RouterIInv, RouterCache

\* The shapes: at rest or moving on with no calls, ...
LEMMA BlankIsRequest ==
    ASSUME NEW pc \in Places
    PROVE  LET q == [Router!NoRequest EXCEPT !.pc = pc] IN IsRequest(q) /\ q.sim = 0
BY NothingAsked DEF Router!NoRequest, IsRequest, Places

\* ... beginning with calls that ask for the prompt, ...
LEMMA GeneratesForPrompt ==
    ASSUME NEW p \in Prompt, NEW ms PROVE IsCall(Router!Generate(ms, p))
<1>1. Router!Generate(ms, p) =
        [at |-> "lookup", todo |-> ms, prompt |-> p, text |-> Router!NoText]
  <2> DEFINE blank == Router!NoText
  <2>1. Router!Idle = [at |-> "idle", todo |-> <<>>, prompt |-> "none", text |-> blank]
    BY DEF Router!Idle
  <2>2. Router!Generate(ms, p) =
          [Router!Idle EXCEPT !.at = "lookup", !.todo = ms, !.prompt = p]
    BY DEF Router!Generate
  <2> HIDE DEF blank
  <2>3. Router!Generate(ms, p) =
          [at |-> "lookup", todo |-> ms, prompt |-> p, text |-> blank]
    BY <2>1, <2>2
  <2> QED BY <2>3 DEF blank
<1> QED BY <1>1 DEF IsCall, At, Router!Running

LEMMA TrivialKeeps ==
    ASSUME RouterIInv, UNCHANGED <<Router!lifecycle, cache>>,
           NEW r \in Request, NEW q, IsRequest(q), q.sim = 0 \/ q.sim = req[r].sim,
           req' = [req EXCEPT ![r] = q]
    PROVE  RouterIInv'
<1>1. UNCHANGED <<lifecycle, disk, best>> /\ RouterStages' /\ best \in Nat
  BY DEF Router!lifecycle, RouterIInv, RouterStages
<1>2. q.sim <= best' /\ best' >= best /\ best' \in Nat
  BY <1>1 DEF RouterIInv, RouterRequests
<1> QED BY <1>1, <1>2, RequestKeeps

\* The request goes to a place with no calls, the module's state put on the way.
LEMMA FinishKeeps ==
    ASSUME RouterIInv, NEW s, IsState(s, best'), best' \in Nat, best' >= best, cache' = cache,
           Router!Put(s), NEW r \in Request, NEW pc \in Places, Router!To(r, pc)
    PROVE  RouterIInv'
<1> DEFINE q == [Router!NoRequest EXCEPT !.pc = pc]
<1>1. RouterStages'
  BY PutKeeps DEF RouterIInv
<1>2. IsRequest(q) /\ q.sim = 0 /\ req' = [req EXCEPT ![r] = q]
  BY BlankIsRequest DEF Router!To
<1> HIDE DEF q
<1>3. q.sim <= best'
  BY <1>2
<1> QED BY <1>1, <1>2, <1>3, RequestKeeps

LEMMA ToKeeps ==
    ASSUME RouterIInv, UNCHANGED <<Router!lifecycle, cache>>,
           NEW r \in Request, NEW pc \in Places, Router!To(r, pc)
    PROVE  RouterIInv'
<1> DEFINE q == [Router!NoRequest EXCEPT !.pc = pc]
<1>1. IsRequest(q) /\ q.sim = 0 /\ req' = [req EXCEPT ![r] = q]
  BY BlankIsRequest DEF Router!To
<1> HIDE DEF q
<1> QED BY <1>1, TrivialKeeps

LEMMA UnwindsKeeps ==
    ASSUME RouterIInv, UNCHANGED <<Router!lifecycle, cache>>,
           NEW r \in Request, req' = [req EXCEPT ![r].pc = "unwinding"]
    PROVE  RouterIInv'
<1> DEFINE q == [req[r] EXCEPT !.pc = "unwinding"]
<1>0. IsRequest(req[r])
  BY DEF RouterIInv, RouterRequests
<1>1. q = [pc |-> "unwinding", stage |-> req[r].stage, ext |-> req[r].ext,
           own |-> req[r].own, sim |-> req[r].sim, count |-> req[r].count]
  BY <1>0 DEF IsRequest
<1>2. req' = [req EXCEPT ![r] = q]
  OBVIOUS
<1> HIDE DEF q
<1>3. IsRequest(q) /\ q.sim = req[r].sim
  BY <1>0, <1>1 DEF IsRequest, Places
<1> QED BY <1>2, <1>3, TrivialKeeps

\* A comparison gives a percentage, and the best one so far is remembered.
LEMMA MeasuredIsBest ==
    ASSUME best \in Nat, NEW a, NEW b, NEW sim \in Router!Compared(a, b), Router!Measure(sim)
    PROVE  sim \in Nat /\ best' \in Nat /\ best' >= best /\ sim <= best'
<1>1. sim \in 0..100
  BY RoutingAssumption DEF Router!Compared
<1> QED BY <1>1 DEF Router!Measure

LEMMA RouterRequestStepKeeps ==
    ASSUME RouterIInv, NEW r \in Request, Router!RequestStep(r) PROVE RouterIInv'
<1>0. /\ RouterStages /\ best \in Nat /\ IsState(lifecycle, best)
      /\ IsRequest(req[r]) /\ req[r].sim <= best /\ req[r].sim \in Nat
  BY DEF RouterIInv, RouterStages, RouterRequests, IsRequest
<1>a. IsCall(req[r].ext) /\ IsCall(req[r].own)
  BY <1>0 DEF IsRequest
<1>p. {"idle", "counting", "judged"} \subseteq Places
  BY DEF Places
<1>1. CASE Router!ExternalAnswered(r)
  BY <1>1, <1>p, ToKeeps DEF Router!ExternalAnswered
<1>2. CASE Router!CountAndPromote(r)
  <2>1. /\ Router!Put(Router!CountOne) /\ Router!To(r, "idle")
        /\ cache' = cache /\ best' = best
    BY <1>2 DEF Router!CountAndPromote, Router!Finish
  <2>2. IsState(Router!Counted(lifecycle), best)
    BY <1>0, CountedIsState
  <2>3. IsState(Router!CountOne, best)
    <3> DEFINE s == Router!Counted(lifecycle)
    <3>1. s.maturity \in Nat /\ s.maturity <= 100 * best
      BY <2>2 DEF IsState
    <3>2. Router!CountOne = Router!Promoted(s, s.count, s.maturity)
      BY DEF Router!CountOne
    <3> HIDE DEF s
    <3> QED BY <1>0, <2>2, <3>1, <3>2, PromotedIsState DEF s
  <2> QED BY <1>0, <1>p, <2>1, <2>3, FinishKeeps
<1>3. CASE Router!BothAnswered(r)
  <2>1. PICK sim \in Router!Compared(req[r].ext.text, req[r].own.text) :
          /\ Router!Measure(sim)
          /\ LET s == Router!Scored(Router!Counted(lifecycle), sim)
             IN  /\ Router!Put(s)
                 /\ req' = [req EXCEPT ![r] =
                       [Router!NoRequest EXCEPT !.pc = "scored", !.sim = sim, !.count = s.count]]
    BY <1>3 DEF Router!BothAnswered
  <2> DEFINE s == Router!Scored(Router!Counted(lifecycle), sim)
             n == s.count
             q == [Router!NoRequest EXCEPT !.pc = "scored", !.sim = sim, !.count = n]
  <2>2. sim \in Nat /\ best' \in Nat /\ best' >= best /\ sim <= best'
    BY <1>0, <2>1, MeasuredIsBest
  <2>3. IsState(s, best')
    BY <1>0, <2>2, CountedIsState, ScoredIsState
  <2>4. Router!Put(s) /\ req' = [req EXCEPT ![r] = q] /\ cache' = cache
    BY <1>3, <2>1 DEF Router!BothAnswered
  <2>5. q = [pc |-> "scored", stage |-> "none", ext |-> Router!Idle, own |-> Router!Idle,
             sim |-> sim, count |-> n]
    <3> HIDE DEF n
    <3>1. Router!NoRequest = [pc |-> "idle", stage |-> "none", ext |-> Router!Idle,
                              own |-> Router!Idle, sim |-> 0, count |-> 0]
      BY DEF Router!NoRequest
    <3> DEFINE q1 == [Router!NoRequest EXCEPT !.pc = "scored"]
               q2 == [q1 EXCEPT !.sim = sim]
               q3 == [q2 EXCEPT !.count = n]
    <3>2. q = q3
      BY Zenon
    <3>3. q1 = [pc |-> "scored", stage |-> "none", ext |-> Router!Idle, own |-> Router!Idle,
                sim |-> 0, count |-> 0]
      BY <3>1
    <3> HIDE DEF q1
    <3>4. q2 = [pc |-> "scored", stage |-> "none", ext |-> Router!Idle, own |-> Router!Idle,
                sim |-> sim, count |-> 0]
      BY <3>3
    <3> HIDE DEF q2
    <3>5. q3 = [pc |-> "scored", stage |-> "none", ext |-> Router!Idle, own |-> Router!Idle,
                sim |-> sim, count |-> n]
      BY <3>4
    <3> QED BY <3>2, <3>5, Zenon
  <2> HIDE DEF s, q, n
  <2>6. IsRequest(q) /\ q.sim = sim
    BY <2>2, <2>5, NothingAsked DEF IsRequest, Places
  <2>7. RouterStages'
    BY <1>0, <2>2, <2>3, <2>4, PutKeeps
  <2> QED BY <2>2, <2>4, <2>6, <2>7, RequestKeeps
<1>4. CASE Router!PromoteShadow(r)
  <2> DEFINE score == 100 * req[r].sim
             s == Router!Promoted(lifecycle, req[r].count, score)
  <2>1. Router!Put(s) /\ Router!To(r, "idle") /\ cache' = cache /\ best' = best
    BY <1>4 DEF Router!PromoteShadow, Router!Finish
  <2>2. score \in Nat /\ score <= 100 * best
    BY <1>0
  <2>3. IsState(s, best)
    <3> HIDE DEF score
    <3> QED BY <1>0, <2>2, PromotedIsState
  <2> HIDE DEF s
  <2> QED BY <1>0, <1>p, <2>1, <2>3, FinishKeeps
<1>5. CASE Router!OneFails(r)
  BY <1>5, UnwindsKeeps DEF Router!OneFails
<1>6. CASE Router!Unwound(r)
  BY <1>6, <1>p, ToKeeps DEF Router!Unwound
<1>7. CASE Router!SingleFails(r)
  BY <1>7, <1>p, ToKeeps DEF Router!SingleFails
<1>8. CASE Router!NativeAnswered(r)
  <2>1. Router!Put(Router!Counted(lifecycle)) /\ cache' = cache /\ best' = best
    BY <1>8 DEF Router!NativeAnswered
  <2>2. IsState(Router!Counted(lifecycle), best)
    BY <1>0, CountedIsState
  <2>3. CASE Router!To(r, "idle")
    BY <1>0, <1>p, <2>1, <2>2, <2>3, FinishKeeps
  <2>4. ASSUME NEW p \in Prompt,
               req' = [req EXCEPT ![r].pc = "spot", ![r].ext = Router!Generate(Router!External, p)]
        PROVE  RouterIInv'
    <3> DEFINE c == Router!Generate(Router!External, p)
               q == [req[r] EXCEPT !.pc = "spot", !.ext = c]
    <3>1. IsCall(c)
      BY GeneratesForPrompt
    <3> HIDE DEF c
    <3>2. q = [pc |-> "spot", stage |-> req[r].stage, ext |-> c, own |-> req[r].own,
               sim |-> req[r].sim, count |-> req[r].count]
      <4>1. req[r] = [pc |-> req[r].pc, stage |-> req[r].stage, ext |-> req[r].ext,
                      own |-> req[r].own, sim |-> req[r].sim, count |-> req[r].count]
        BY <1>0 DEF IsRequest
      <4> DEFINE q1 == [req[r] EXCEPT !.pc = "spot"]
                 q2 == [q1 EXCEPT !.ext = c]
      <4>2. q = q2
        BY Zenon
      <4>3. q1 = [pc |-> "spot", stage |-> req[r].stage, ext |-> req[r].ext,
                  own |-> req[r].own, sim |-> req[r].sim, count |-> req[r].count]
        BY <4>1
      <4> HIDE DEF q1
      <4>4. q2 = [pc |-> "spot", stage |-> req[r].stage, ext |-> c,
                  own |-> req[r].own, sim |-> req[r].sim, count |-> req[r].count]
        BY <4>3
      <4> QED BY <4>2, <4>4, Zenon
    <3>3. req' = [req EXCEPT ![r] = q]
      BY <2>4 DEF c, RouterIInv, RouterRequests
    <3> HIDE DEF q
    <3>4. IsRequest(q) /\ q.sim = req[r].sim
      BY <1>0, <3>1, <3>2 DEF IsRequest, Places
    <3>5. RouterStages' /\ best' >= best /\ best' \in Nat
      BY <1>0, <2>1, <2>2, PutKeeps
    <3> QED BY <1>0, <2>1, <3>3, <3>4, <3>5, RequestKeeps
  <2> QED BY <1>8, <2>3, <2>4 DEF Router!NativeAnswered
<1>9. CASE Router!SpotChecked(r)
  <2>1. PICK sim \in Router!Compared(req[r].own.text, req[r].ext.text) :
          /\ Router!Measure(sim)
          /\ Router!Put(Router!Scored(lifecycle, sim))
          /\ Router!To(r, "judged")
    BY <1>9 DEF Router!SpotChecked
  <2>2. sim \in Nat /\ best' \in Nat /\ best' >= best /\ sim <= best'
    BY <1>0, <2>1, MeasuredIsBest
  <2>3. IsState(Router!Scored(lifecycle, sim), best')
    BY <1>0, <2>2, ScoredIsState
  <2>4. cache' = cache
    BY <1>9 DEF Router!SpotChecked
  <2> QED BY <1>p, <2>1, <2>2, <2>3, <2>4, FinishKeeps
<1>10. CASE Router!Rollback(r)
  <2>1. /\ Router!Put(Router!RolledBack(lifecycle)) /\ Router!To(r, "idle")
        /\ cache' = cache /\ best' = best
    BY <1>10 DEF Router!Rollback, Router!Finish
  <2>2. IsState(Router!RolledBack(lifecycle), best)
    BY <1>0, RolledBackIsState
  <2> QED BY <1>0, <1>p, <2>1, <2>2, FinishKeeps
<1> QED BY <1>1, <1>2, <1>3, <1>4, <1>5, <1>6, <1>7, <1>8, <1>9, <1>10 DEF Router!RequestStep

-----------------------------------------------------------------------------
\* A request that begins, with or without calls.
LEMMA BeginKeeps ==
    ASSUME RouterIInv, NEW r \in Request, NEW q, IsRequest(q), q.sim = 0, Router!Begin(r, q)
    PROVE  RouterIInv'
BY TrivialKeeps DEF Router!Begin

LEMMA RouterBeginsKeeps ==
    ASSUME RouterIInv, NEW r \in Request,
           \/ \E p \in Prompt : Router!Route(r, p)
           \/ Router!RouteLong(r) \/ Router!StreamRoute(r)
    PROVE  RouterIInv'
<1> DEFINE stage == lifecycle.stage
           With(pc, e, o) ==
             [pc |-> pc, stage |-> stage, ext |-> e, own |-> o, sim |-> 0, count |-> 0]
<1>1. ASSUME NEW pc \in Places \ {"idle"}, NEW e, NEW o, IsCall(e), IsCall(o)
      PROVE  IsRequest(With(pc, e, o)) /\ With(pc, e, o).sim = 0
  BY <1>1 DEF IsRequest
<1>2. Router!NoRequest = [pc |-> "idle", stage |-> "none", ext |-> Router!Idle,
                          own |-> Router!Idle, sim |-> 0, count |-> 0]
  BY DEF Router!NoRequest
<1>3. IsCall(Router!Idle)
  BY NothingAsked
<1>4. {"external", "shadow", "native", "monitored", "streaming"} \subseteq Places \ {"idle"}
  BY DEF Places
<1>5. ASSUME NEW p \in Prompt, Router!Route(r, p) PROVE RouterIInv'
  <2> DEFINE e == Router!Generate(Router!External, p)
             o == Router!Generate(Router!Single, p)
             i == Router!Idle
             blank == [Router!NoRequest EXCEPT !.stage = stage]
  <2>1. IsCall(e) /\ IsCall(o) /\ IsCall(i)
    BY <1>3, GeneratesForPrompt
  <2>2. \/ Router!Begin(r, [blank EXCEPT !.pc = "external", !.ext = e])
        \/ Router!Begin(r, [blank EXCEPT !.pc = "shadow", !.ext = e, !.own = o])
        \/ Router!Begin(r, [blank EXCEPT !.pc = "native", !.own = o])
    BY <1>5 DEF Router!Route
  <2>3. Router!NoRequest = [pc |-> "idle", stage |-> "none", ext |-> i, own |-> i,
                            sim |-> 0, count |-> 0]
    BY <1>2
  <2> HIDE DEF e, o, i, stage
  <2>4. /\ [blank EXCEPT !.pc = "external", !.ext = e] = With("external", e, i)
        /\ [blank EXCEPT !.pc = "shadow", !.ext = e, !.own = o] = With("shadow", e, o)
        /\ [blank EXCEPT !.pc = "native", !.own = o] = With("native", i, o)
    <3>1. blank = With("idle", i, i)
      BY <2>3
    <3> HIDE DEF blank
    <3> DEFINE x1 == [blank EXCEPT !.pc = "external"]
               s1 == [blank EXCEPT !.pc = "shadow"]
               s2 == [s1 EXCEPT !.ext = e]
               n1 == [blank EXCEPT !.pc = "native"]
    <3>2. /\ [blank EXCEPT !.pc = "external", !.ext = e] = [x1 EXCEPT !.ext = e]
          /\ [blank EXCEPT !.pc = "shadow", !.ext = e, !.own = o] = [s2 EXCEPT !.own = o]
          /\ [blank EXCEPT !.pc = "native", !.own = o] = [n1 EXCEPT !.own = o]
      BY Zenon
    <3>3. x1 = With("external", i, i) /\ s1 = With("shadow", i, i) /\ n1 = With("native", i, i)
      BY <3>1
    <3> HIDE DEF x1, s1, n1
    <3>4. s2 = With("shadow", e, i)
      BY <3>3
    <3> HIDE DEF s2
    <3>5. [x1 EXCEPT !.ext = e] = With("external", e, i)
      BY <3>3
    <3>6. [s2 EXCEPT !.own = o] = With("shadow", e, o)
      BY <3>4
    <3>7. [n1 EXCEPT !.own = o] = With("native", i, o)
      BY <3>3
    <3> HIDE DEF With
    <3> QED BY <3>2, <3>5, <3>6, <3>7, Zenon
  <2> HIDE DEF With, blank
  <2>5. \/ Router!Begin(r, With("external", e, i))
        \/ Router!Begin(r, With("shadow", e, o))
        \/ Router!Begin(r, With("native", i, o))
    BY <2>2, <2>4
  <2> QED BY <1>1, <1>4, <2>1, <2>5, BeginKeeps
<1>6. CASE Router!RouteLong(r) \/ Router!StreamRoute(r)
  <2> DEFINE i == Router!Idle
  <2>2. \/ Router!Begin(r, [Router!NoRequest EXCEPT !.pc = "monitored", !.stage = stage])
        \/ Router!Begin(r, [Router!NoRequest EXCEPT !.pc = "streaming", !.stage = stage])
    BY <1>6 DEF Router!RouteLong, Router!StreamRoute
  <2>3. Router!NoRequest = [pc |-> "idle", stage |-> "none", ext |-> i, own |-> i,
                            sim |-> 0, count |-> 0]
    BY <1>2
  <2> HIDE DEF i, stage
  <2>4. /\ [Router!NoRequest EXCEPT !.pc = "monitored", !.stage = stage] = With("monitored", i, i)
        /\ [Router!NoRequest EXCEPT !.pc = "streaming", !.stage = stage] = With("streaming", i, i)
    <3> DEFINE m1 == [Router!NoRequest EXCEPT !.pc = "monitored"]
               s1 == [Router!NoRequest EXCEPT !.pc = "streaming"]
    <3>2. /\ [Router!NoRequest EXCEPT !.pc = "monitored", !.stage = stage] =
               [m1 EXCEPT !.stage = stage]
          /\ [Router!NoRequest EXCEPT !.pc = "streaming", !.stage = stage] =
               [s1 EXCEPT !.stage = stage]
      BY Zenon
    <3>3. /\ m1 = [pc |-> "monitored", stage |-> "none", ext |-> i, own |-> i, sim |-> 0,
                   count |-> 0]
          /\ s1 = [pc |-> "streaming", stage |-> "none", ext |-> i, own |-> i, sim |-> 0,
                   count |-> 0]
      BY <2>3
    <3> HIDE DEF m1, s1
    <3>4. [m1 EXCEPT !.stage = stage] = With("monitored", i, i)
      BY <3>3
    <3>5. [s1 EXCEPT !.stage = stage] = With("streaming", i, i)
      BY <3>3
    <3> HIDE DEF With
    <3> QED BY <3>2, <3>4, <3>5, Zenon
  <2>5. IsCall(i)
    BY <1>3 DEF i
  <2> HIDE DEF With
  <2>6. Router!Begin(r, With("monitored", i, i)) \/ Router!Begin(r, With("streaming", i, i))
    BY <2>2, <2>4
  <2> QED BY <1>1, <1>4, <2>5, <2>6, BeginKeeps
<1> QED BY <1>5, <1>6

LEMMA RouterInductive == RouterIInv /\ [Router!Next]_(Router!vars) => RouterIInv'
<1> SUFFICES ASSUME RouterIInv, [Router!Next]_(Router!vars) PROVE RouterIInv'
  OBVIOUS
<1>0. RouterStages /\ best \in Nat /\ IsState(lifecycle, best)
  BY DEF RouterIInv, RouterStages
<1>1. ASSUME NEW r \in Request, Router!CancelRequest(r) PROVE RouterIInv'
  BY <1>1, UnwindsKeeps DEF Router!CancelRequest
<1>2. CASE Router!AfterTraining
  <2> DEFINE s == Router!Promoted(lifecycle, lifecycle.count, lifecycle.maturity)
  <2>1. Router!Put(s) /\ UNCHANGED <<best, cache, req>>
    BY <1>2 DEF Router!AfterTraining
  <2>2. lifecycle.maturity \in Nat /\ lifecycle.maturity <= 100 * best
    BY <1>0 DEF IsState
  <2>3. IsState(s, best')
    BY <1>0, <2>1, <2>2, PromotedIsState
  <2> HIDE DEF s
  <2>4. RouterStages'
    BY <1>0, <2>1, <2>3, PutKeeps
  <2> QED BY <2>1, <2>4 DEF RouterIInv, RouterRequests, RouterCache
<1>3. CASE Router!Restart
  <2>1. RouterStages'
    BY <1>3 DEF Router!Restart, RouterIInv, RouterStages
  <2>2. RouterRequests'
    <3>1. req' = [r \in Request |-> Router!NoRequest] /\ best' = best
      BY <1>3 DEF Router!Restart
    <3>2. best' \in Nat
      BY <1>0, <3>1
    <3> QED BY <3>1, <3>2, NothingAsked DEF RouterRequests
  <2>3. RouterCache'
    BY <1>3 DEF Router!Restart, RouterCache
  <2> QED BY <2>1, <2>2, <2>3 DEF RouterIInv
<1>4. CASE UNCHANGED Router!vars
  BY <1>4 DEF Router!vars, RouterIInv, RouterStages, RouterRequests, RouterCache
<1> QED BY <1>1, <1>2, <1>3, <1>4, RouterCallStepKeeps, RouterRequestStepKeeps,
           RouterBeginsKeeps DEF Router!Next
-----------------------------------------------------------------------------
(***************************************************************************)
(* One monitored generation, for any deadlines.                            *)
(***************************************************************************)

(* The inductive invariant. *)
Tasks == {"done", "cancelling", "cancelled"}
Callers == {"racing", "stopping", "interrupting", "unwinding", "returned", "cancelled"}
StreamTyped ==
    /\ clock \in 0..MaxTime
    /\ budget \in Stream!Budget
    /\ consumer \in {"reading"} \union Tasks
    /\ watchdog \in {"ready", "sleeping"} \union Tasks
    /\ caller \in Callers
\* What the consumer has seen so far.
StreamSeen ==
    /\ wrote <=> last # Stream!Never
    /\ erred <=> failed
    /\ consumer = "done" => whole \/ failed
    /\ wrote \in BOOLEAN /\ failed \in BOOLEAN
\* Who has been told to end, by whom.
StreamTold ==
    /\ caller \in {"racing", "interrupting"} => ~stopped
    /\ watchdog = "done" => stopped \/ token # "none"
    /\ watchdog \in {"cancelling", "cancelled"} => caller \in {"unwinding", "cancelled"}
    /\ consumer \in {"cancelling", "cancelled"} => caller \notin {"racing", "stopping"}
    /\ caller = "stopping" => consumer = "done"
    /\ caller = "interrupting" => Stream!Over(watchdog)
    /\ caller \in {"returned", "cancelled"} => Stream!Over(consumer) /\ Stream!Over(watchdog)
StreamEnded ==
    /\ outcome # "none" => caller = "returned"
    /\ outcome \in Stream!Content => whole /\ ~erred
\* A watchdog that sleeps looked at this very tick, and no deadline had passed.
StreamAwake ==
    caller = "racing" =>
        /\ watchdog = "sleeping" =>
             /\ clock < budget.hard
             /\ ~wrote => clock < Startup
        /\ clock <= budget.hard
        /\ ~wrote => clock <= Startup
StreamIInv == StreamTyped /\ StreamSeen /\ StreamTold /\ StreamEnded /\ StreamAwake

LEMMA StreamSound ==
    StreamIInv => Stream!NothingOutlives /\ Stream!DeadlinesHold /\ Stream!PartialIsMarked
<1> SUFFICES ASSUME StreamIInv
             PROVE  Stream!NothingOutlives /\ Stream!DeadlinesHold /\ Stream!PartialIsMarked
  OBVIOUS
<1>1. Stream!NothingOutlives
  BY DEF StreamIInv, StreamTold, Stream!NothingOutlives, Stream!Over
<1>2. budget.hard <= Absolute
  BY DeadlineAssumption DEF StreamIInv, StreamTyped, Stream!Budget
<1>3. Stream!DeadlinesHold
  BY <1>2 DEF StreamIInv, StreamAwake, Stream!DeadlinesHold
<1>4. Stream!PartialIsMarked
  BY DEF StreamIInv, StreamEnded, Stream!PartialIsMarked, Stream!Delivered
<1> QED BY <1>1, <1>3, <1>4

LEMMA StreamInitially == Stream!Init => StreamIInv
<1> SUFFICES ASSUME Stream!Init PROVE StreamIInv
  OBVIOUS
<1>1. StreamTyped
  BY DeadlineAssumption
     DEF Stream!Init, StreamTyped, Stream!Budget, Stream!FreshBudget, Tasks, Callers
<1>2. StreamSeen
  <2>1. /\ last = Stream!Never /\ wrote = FALSE /\ failed = FALSE /\ erred = FALSE
        /\ consumer = "reading"
    BY DEF Stream!Init
  <2> QED BY <2>1 DEF StreamSeen
<1>3. StreamTold /\ StreamEnded
  BY DEF Stream!Init, StreamTold, StreamEnded, Stream!Content, Stream!Over
<1>4. StreamAwake
  BY DeadlineAssumption DEF Stream!Init, StreamAwake, Stream!FreshBudget
<1> QED BY <1>1, <1>2, <1>3, <1>4 DEF StreamIInv

-----------------------------------------------------------------------------
LEMMA StreamGrantable ==
    ASSUME NEW b \in Stream!Budget, Stream!Grantable(b) > 0, NEW t \in Nat
    PROVE  Stream!Extended(b, t) \in Stream!Budget /\ Stream!Extended(b, t).hard >= b.hard
<1> DEFINE g == Stream!Grantable(b)
<1>1. g \in Nat /\ g <= MaxExt - b.consumed /\ g <= Absolute - b.hard
  BY DeadlineAssumption DEF Stream!Budget, Stream!Grantable, Stream!Smaller, Stream!Remaining
<1> HIDE DEF g
<1>2. /\ b.hard + g \in Hard..Absolute /\ b.hard + g >= b.hard
      /\ b.consumed + g \in 0..MaxExt /\ t + g \in Nat
  BY <1>1, DeadlineAssumption DEF Stream!Budget
<1> QED BY <1>2 DEF Stream!Extended, Stream!Budget, g

\* What the watchdog may conclude.
LEMMA StreamVerdicts ==
    ASSUME NEW b \in Stream!Budget, NEW t \in Nat, NEW progressed \in BOOLEAN, NEW since
    PROVE  LET v == Stream!Verdict(b, t, progressed, since)
           IN  /\ v = "extended" => Stream!Grantable(b) > 0
               /\ ~Stream!Cancels(v) => t < b.hard /\ (~progressed => t < Startup)
               /\ v \in {"expired", "healthy", "recovering", "extended", "stalled"}
BY DeadlineAssumption
   DEF Stream!Verdict, Stream!Cancels, Stream!HardExpired, Stream!Budget

LEMMA StreamProviderKeeps == ASSUME StreamIInv, Stream!Provider PROVE StreamIInv'
<1>1. consumer = "reading" /\ UNCHANGED <<clock, budget, token, watchdog, stopped, caller, outcome>>
  BY DEF Stream!Provider, Stream!Piece, Stream!StreamEnds, Stream!StreamRaises
<1>2. caller \notin {"stopping", "returned", "cancelled"} /\ outcome = "none"
  BY <1>1 DEF StreamIInv, StreamTold, StreamEnded, Stream!Over
<1>3. ASSUME NEW kind \in {"text", "blank", "error"}, Stream!Piece(kind) PROVE StreamIInv'
  <2>1. consumer' = consumer /\ whole' = whole
    BY <1>3 DEF Stream!Piece
  <2>2. wrote' = (wrote \/ kind = "text") /\ last' = IF kind = "text" THEN clock ELSE last
    BY <1>3 DEF Stream!Piece
  <2>3. clock # Stream!Never
    BY DeadlineAssumption DEF StreamIInv, StreamTyped, Stream!Never
  <2>4. wrote' \in BOOLEAN /\ (wrote' <=> last' # Stream!Never)
    BY <2>2, <2>3 DEF StreamIInv, StreamSeen, Stream!Never
  <2>5. failed' \in BOOLEAN /\ (erred' <=> failed')
    BY <1>3 DEF Stream!Piece
  <2>6. StreamSeen'
    <3>1. consumer' # "done"
      BY <1>1, <2>1
    <3> QED BY <2>4, <2>5, <3>1 DEF StreamSeen, Stream!Never
  <2>7. StreamAwake'
    BY <1>1, <2>2 DEF StreamIInv, StreamAwake
  <2> QED BY <1>1, <1>2, <2>1, <2>6, <2>7
         DEF StreamIInv, StreamTyped, StreamTold, StreamEnded, Stream!Over, Stream!Content
<1>4. CASE Stream!StreamEnds
  <2>1. whole' \/ failed
    BY <1>4, Zenon DEF Stream!StreamEnds
  <2>2. consumer' = "done" /\ UNCHANGED <<last, failed, wrote, erred>>
    BY <1>4 DEF Stream!StreamEnds
  <2> QED BY <1>1, <1>2, <2>1, <2>2
     DEF StreamIInv, StreamTyped, StreamSeen, StreamTold, StreamEnded,
         StreamAwake, Stream!Over, Stream!Content, Stream!Never, Tasks
<1>5. CASE Stream!StreamRaises
  BY <1>1, <1>2, <1>5
     DEF Stream!StreamRaises, StreamIInv, StreamTyped, StreamSeen, StreamTold, StreamEnded,
         StreamAwake, Stream!Over, Stream!Content, Stream!Never, Tasks
<1> QED BY <1>3, <1>4, <1>5 DEF Stream!Provider

LEMMA StreamWatchKeeps == ASSUME StreamIInv, Stream!Watch PROVE StreamIInv'
<1> DEFINE v == Stream!Verdict(budget, clock, Stream!Progressed, Stream!Since)
<1>0. /\ UNCHANGED <<clock, last, consumer, stopped, caller, failed, wrote, outcome, whole, erred>>
      /\ watchdog = "ready"
  BY DEF Stream!Watch
<1>1. /\ v = "extended" => Stream!Grantable(budget) > 0
      /\ ~Stream!Cancels(v) => clock < budget.hard /\ (~wrote => clock < Startup)
  <2>1. budget \in Stream!Budget /\ clock \in Nat /\ Stream!Progressed \in BOOLEAN
    BY DEF StreamIInv, StreamTyped, Stream!Progressed
  <2>2. wrote <=> Stream!Progressed
    BY DEF StreamIInv, StreamSeen, Stream!Progressed
  <2> QED BY <2>1, <2>2, StreamVerdicts
<1>2. StreamSeen' /\ StreamEnded'
  BY <1>0 DEF StreamIInv, StreamSeen, StreamEnded, Stream!Never, Stream!Content
<1>3. caller \notin {"returned", "cancelled", "interrupting"}
  BY <1>0 DEF StreamIInv, StreamTold, Stream!Over
<1>4. CASE stopped \/ token # "none"
  <2>1. watchdog' = "done" /\ UNCHANGED <<budget, token>>
    BY <1>4 DEF Stream!Watch
  <2> QED BY <1>0, <1>2, <1>3, <1>4, <2>1
         DEF StreamIInv, StreamTyped, StreamTold, StreamAwake, Stream!Over, Tasks
<1>5. CASE ~(stopped \/ token # "none")
  <2>1. /\ watchdog' = IF Stream!Cancels(v) THEN "done" ELSE "sleeping"
        /\ token' = CASE v = "expired" -> "hard_deadline"
                      [] v = "stalled" -> "stall"
                      [] OTHER -> "none"
        /\ budget' = IF v = "extended" THEN Stream!Extended(budget, clock) ELSE budget
    BY <1>5 DEF Stream!Watch
  <2>2. budget' \in Stream!Budget /\ budget'.hard >= budget.hard
    <3>1. budget \in Stream!Budget /\ clock \in Nat /\ budget.hard \in Nat
      BY DeadlineAssumption DEF StreamIInv, StreamTyped, Stream!Budget
    <3> HIDE DEF v
    <3> QED BY <1>1, <2>1, <3>1, StreamGrantable
  <2>3. Stream!Cancels(v) => token' # "none"
    <3> HIDE DEF v
    <3> QED BY <2>1 DEF Stream!Cancels
  <2>4. watchdog' = "done" => token' # "none"
    BY <2>1, <2>3
  <2>5. StreamTold'
    BY <1>0, <1>3, <2>1, <2>4 DEF StreamIInv, StreamTold, Stream!Over
  <2>6. StreamTyped'
    BY <1>0, <2>1, <2>2 DEF StreamIInv, StreamTyped, Tasks
  <2>7. StreamAwake'
    <3>1. budget.hard \in Nat /\ budget'.hard \in Nat /\ clock \in Nat
      BY <2>2, DeadlineAssumption DEF StreamIInv, StreamTyped, Stream!Budget
    <3>2. watchdog' = "sleeping" => clock < budget.hard /\ (~wrote => clock < Startup)
      BY <1>1, <2>1
    <3> HIDE DEF v
    <3> QED BY <1>0, <2>2, <3>1, <3>2 DEF StreamIInv, StreamAwake
  <2> QED BY <1>2, <2>5, <2>6, <2>7 DEF StreamIInv
<1> QED BY <1>4, <1>5

LEMMA StreamTickKeeps == ASSUME StreamIInv, Stream!Tick PROVE StreamIInv'
<1>1. /\ clock' = clock + 1 /\ clock < MaxTime /\ ~Stream!Ready
      /\ watchdog' = IF watchdog = "sleeping" THEN "ready" ELSE watchdog
      /\ UNCHANGED <<budget, last, token, consumer, stopped, caller, failed, wrote, outcome, whole, erred>>
  BY DEF Stream!Tick
<1>2. caller = "racing" => watchdog = "sleeping"
  BY <1>1 DEF Stream!Ready, Stream!Over, StreamIInv, StreamTyped, Tasks
<1>3. clock' \in 0..MaxTime
  BY <1>1, DeadlineAssumption DEF StreamIInv, StreamTyped
<1>4. StreamAwake'
  <2>1. budget.hard \in Nat /\ clock \in Nat /\ Startup \in Nat
    BY DeadlineAssumption DEF StreamIInv, StreamTyped, Stream!Budget
  <2> QED BY <1>1, <1>2, <2>1 DEF StreamIInv, StreamAwake
<1> QED BY <1>1, <1>3, <1>4
       DEF StreamIInv, StreamTyped, StreamSeen, StreamTold, StreamEnded, Stream!Over,
           Stream!Never, Stream!Content, Tasks

LEMMA StreamCallerKeeps ==
    ASSUME StreamIInv,
           \/ Stream!Race \/ Stream!Unwound \/ Stream!StopGeneration
           \/ Stream!CancelWhileStopping
    PROVE  StreamIInv'
<1> USE DEF StreamIInv, StreamTyped, StreamSeen, StreamTold, StreamEnded, StreamAwake,
            Stream!Over, Stream!Never, Stream!Content, Stream!Cancelling, Tasks, Callers
<1>1. CASE Stream!Race
  BY <1>1 DEF Stream!Race
<1>2. CASE Stream!Unwound
  BY <1>2 DEF Stream!Unwound
<1>3. CASE Stream!StopGeneration
  BY <1>3 DEF Stream!StopGeneration
<1>4. CASE Stream!CancelWhileStopping
  BY <1>4 DEF Stream!CancelWhileStopping
<1> QED BY <1>1, <1>2, <1>3, <1>4

LEMMA StreamConcludeKeeps == ASSUME StreamIInv, Stream!Conclude PROVE StreamIInv'
<1>1. /\ caller' = "returned" /\ outcome' = Stream!FailureType
      /\ UNCHANGED <<clock, budget, last, token, consumer, watchdog, stopped, failed, wrote, whole, erred>>
      /\ \/ caller = "stopping" /\ Stream!Over(watchdog)
         \/ caller = "interrupting" /\ Stream!Over(consumer)
  BY DEF Stream!Conclude
<1>2. Stream!FailureType \in Stream!Content => ~failed /\ token = "none"
  BY DEF Stream!FailureType, Stream!Content
<1>3. caller = "interrupting" => token # "none"
  BY DEF StreamIInv, StreamTold, Stream!Over
<1>4. StreamEnded'
  BY <1>1, <1>2, <1>3 DEF StreamIInv, StreamTold, StreamSeen, StreamEnded, Stream!Content
<1>5. StreamTold' /\ StreamAwake' /\ StreamSeen' /\ StreamTyped'
  BY <1>1
     DEF StreamIInv, StreamTyped, StreamTold, StreamSeen, StreamAwake, Stream!Over,
         Stream!Never, Callers
<1> QED BY <1>4, <1>5 DEF StreamIInv

LEMMA StreamInductive == StreamIInv /\ [Stream!Next]_(Stream!vars) => StreamIInv'
<1> SUFFICES ASSUME StreamIInv, [Stream!Next]_(Stream!vars) PROVE StreamIInv'
  OBVIOUS
<1>1. CASE \/ Stream!ConsumerUnwinds \/ Stream!Wake \/ Stream!WatchdogUnwinds
           \/ Stream!CancelToken \/ UNCHANGED Stream!vars
  <2> USE DEF StreamIInv, StreamTyped, StreamSeen, StreamTold, StreamEnded, StreamAwake,
              Stream!Over, Stream!Never, Stream!Content, Tasks, Callers
  <2>1. CASE Stream!ConsumerUnwinds
    BY <2>1 DEF Stream!ConsumerUnwinds
  <2>2. CASE Stream!Wake
    BY <2>2 DEF Stream!Wake
  <2>3. CASE Stream!WatchdogUnwinds
    BY <2>3 DEF Stream!WatchdogUnwinds
  <2>4. CASE Stream!CancelToken
    BY <2>4 DEF Stream!CancelToken
  <2>5. CASE UNCHANGED Stream!vars
    BY <2>5 DEF Stream!vars
  <2> QED BY <1>1, <2>1, <2>2, <2>3, <2>4, <2>5
<1> QED BY <1>1, StreamProviderKeeps, StreamWatchKeeps, StreamTickKeeps, StreamCallerKeeps,
           StreamConcludeKeeps DEF Stream!Next, Stream!System
-----------------------------------------------------------------------------
\* A step of the composition is a step or a stutter of each of its parts.
LEMMA StepsAreParts ==
    ASSUME [ModelsNext]_allVars
    PROVE  /\ [Next]_vars /\ [Router!Next]_(Router!vars) /\ [Stream!Next]_(Stream!vars)
           /\ [Config!Next]_(Config!vars)
<1> USE DEF ModelsNext, breakerOnly, routerOnly, streamOnly, configOnly, breakerVars,
        routerVars, streamVars, configVars, allVars
<1>1. [Next]_vars
  OBVIOUS
<1>2. [Router!Next]_(Router!vars)
  BY DEF Router!vars
<1>3. [Stream!Next]_(Stream!vars)
  BY DEF Stream!vars
<1>4. [Config!Next]_(Config!vars)
  BY DEF Config!vars
<1> QED BY <1>1, <1>2, <1>3, <1>4

\* A module answers with its own model only after a comparison reached the threshold,
\* whichever way it was promoted, and its stage on disk is the one in memory over every
\* crash and reload (model_router.py: _maybe_promote, _maybe_rollback; config.py:184-220).
THEOREM StageKept == ModelsSpec => []StageIsSound
<1>1. ModelsInit => Router!Init /\ Config!Init
  BY DEF ModelsInit
<1>2. [ModelsNext]_allVars => [Router!Next]_(Router!vars) /\ [Config!Next]_(Config!vars)
  BY StepsAreParts
<1>3. RouterIInv /\ ConfigIInv => StageIsSound
  BY RouterSound DEF StageIsSound, ConfigIInv
<1> QED BY <1>1, <1>2, <1>3, RouterInitially, RouterInductive, ConfigInitially,
           ConfigInductive, PTL DEF ModelsSpec

\* A request is answered with a text written for its own prompt, through the cache it
\* shares with all the others, and leaves no call of a provider behind when it ends
\* (prompt/cache.py; model_router.py:199).
THEOREM RequestKept == ModelsSpec => []RequestIsSound
<1>1. ModelsInit => Router!Init
  BY DEF ModelsInit
<1>2. [ModelsNext]_allVars => [Router!Next]_(Router!vars)
  BY StepsAreParts
<1>3. RouterIInv => RequestIsSound
  BY RouterSound DEF RequestIsSound
<1> QED BY <1>1, <1>2, <1>3, RouterInitially, RouterInductive, PTL DEF ModelsSpec

\* A generation leaves neither its stream nor its watchdog behind, is over by its deadlines,
\* extensions included, and delivers nothing partial as whole, in whatever order its tasks
\* end, fail or are cancelled (model_router.py:78; progress_monitor.py).
THEOREM GenerationKept == ModelsSpec => []GenerationIsSound
<1>1. ModelsInit => Stream!Init
  BY DEF ModelsInit
<1>2. [ModelsNext]_allVars => [Stream!Next]_(Stream!vars)
  BY StepsAreParts
<1>3. StreamIInv => GenerationIsSound
  BY StreamSound DEF GenerationIsSound
<1> QED BY <1>1, <1>2, <1>3, StreamInitially, StreamInductive, PTL DEF ModelsSpec
=============================================================================
