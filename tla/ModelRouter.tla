------------------------------ MODULE ModelRouter ------------------------------
(***************************************************************************)
(* core/model_router.py with core/provider_mesh.py, core/prompt/cache.py   *)
(* and the module state of core/config.py: how one module's requests are   *)
(* answered while the module moves from bootstrap (another model answers)  *)
(* over shadow (both answer and are compared) to native (its own model     *)
(* answers) and back.                                                      *)
(*                                                                         *)
(* An event loop runs requests one step at a time; a request gives way at  *)
(* the await of a provider's call and of the state store.  A text is the   *)
(* model that wrote it and the prompt it was written for.  The monitored   *)
(* generation of a long text is one step here; module MonitoredStream has  *)
(* its inside.  Permits are the AdaptiveSemaphore's.                       *)
(***************************************************************************)
EXTENDS Integers, Sequences, FiniteSets

CONSTANTS
    Request,     \* requests that can be in flight at once
    Prompt,      \* prompts, conversation history included
    Bootstrap,   \* bootstrap_model: the model that answers for the module
    Own,         \* own_model_tag
    Compat,      \* the OpenAI-compatible endpoint, second in the mesh ...
    Configured,  \* ... if openai_compat_url is set, which it is not by default
    MinQueries,  \* SHADOW_PROMOTE_MIN_QUERIES
    Threshold,   \* SHADOW_PROMOTE_THRESHOLD, in percent
    Regression,  \* REGRESSION_THRESHOLD, in percent
    Window,      \* REGRESSION_WINDOW
    Similarity,  \* what comparing two texts may give, in percent
    MaxRequests, \* bound: requests started
    MaxRestarts  \* bound: restarts of the process

Model == {Bootstrap, Own, Compat}
NoText == [model |-> "none", prompt |-> "none"]
Empty == [model |-> "empty", prompt |-> "empty"]
Text == [model : Model, prompt : Prompt] \union {Empty}

\* resolve_provider() and the single provider of _call_own_model(), in order.
External == IF Configured THEN <<Bootstrap, Compat>> ELSE <<Bootstrap>>
Single == <<Own>>

VARIABLES
    state,   \* config._models[module]: stage, query_count, maturity_score * 10^4
    disk,    \* the same, in models.toml
    recent,  \* _recent_scores[module]
    cache,   \* _prompt_cache
    req,     \* the requests, with their calls "ext" and "own"
    started, \* requests started
    restarts,
    best     \* history: the best similarity measured so far

vars == <<state, disk, recent, cache, req, started, restarts, best>>
lifecycle == <<state, disk, recent, best>>

Idle == [at |-> "idle", todo |-> <<>>, prompt |-> "none", text |-> NoText]
NoRequest == [pc |-> "idle", stage |-> "none",
              ext |-> Idle, own |-> Idle, sim |-> 0, count |-> 0]
Running(c) == c.at \in {"lookup", "asked"}
Waiting == {"external", "shadow", "native", "spot", "monitored", "streaming"}

Init ==
    /\ state = [stage |-> "bootstrap", count |-> 0, maturity |-> 0]
    /\ disk = state
    /\ recent = <<>>
    /\ cache = [p \in Prompt |-> NoText]
    /\ req = [r \in Request |-> NoRequest]
    /\ started = 0 /\ restarts = 0 /\ best = 0

-----------------------------------------------------------------------------
\* The module's state: config.set_module_state() persists the stage at once,
\* with everything deferred until then; counts and scores are deferred.

PersistLater(s) ==  \* mutant: the stage is deferred like the counts
    state' = s /\ UNCHANGED disk
Persist(s) == state' = s /\ disk' = s
Defer(s) == state' = s /\ UNCHANGED disk
Put(s) == IF s.stage # state.stage THEN Persist(s) ELSE Defer(s)

\* _increment_query_count(), _update_maturity(): round(.9 old + .1 score, 4).
Counted(s) == [s EXCEPT !.count = @ + 1]
Blend(old, sim) == (9 * old + 100 * sim + 5) \div 10
Scored(s, sim) == [s EXCEPT !.maturity = Blend(@, sim)]
Recorded(sim) ==
    LET grown == Append(recent, sim)
    IN  IF Len(grown) > Window THEN Tail(grown) ELSE grown

\* _maybe_promote(): the stage as it is now, the count and the score given.
Promoted(s, n, score) ==
    IF n < MinQueries THEN s
    ELSE IF s.stage = "bootstrap" THEN [s EXCEPT !.stage = "shadow"]
    ELSE IF s.stage = "shadow" /\ score >= 100 * Threshold
         THEN [s EXCEPT !.stage = "native"] ELSE s

\* _maybe_rollback(): the window's mean once it is full, until then the
\* maturity, of which 0 counts as 1.
SumOf(s) ==
    LET sum[i \in 0..Len(s)] == IF i = 0 THEN 0 ELSE sum[i - 1] + s[i]
    IN  sum[Len(s)]
Regressed(s) ==
    IF Len(recent) >= Window THEN SumOf(recent) < Regression * Window
    ELSE s.maturity # 0 /\ s.maturity < 100 * Regression
RolledBack(s) ==
    IF s.stage = "native" /\ Regressed(s) THEN [s EXCEPT !.stage = "shadow"] ELSE s

-----------------------------------------------------------------------------
\* generate_with_fallback(): the providers in turn, each through the cache.

Generate(providers, p) == [Idle EXCEPT !.at = "lookup", !.todo = providers, !.prompt = p]

\* A provider that failed or answered nothing: the next one, if there is one.
FallThroughAgain(c) ==  \* mutant: the failed provider stays first in line
    [c EXCEPT !.at = "lookup"]
FallThrough(c) ==
    [c EXCEPT !.todo = Tail(@), !.at = IF Len(c.todo) = 1 THEN "failed" ELSE "lookup"]
Got(c, t) == IF t = Empty THEN FallThrough(c) ELSE [c EXCEPT !.at = "done", !.text = t]

\* cached_generate()'s key: the whole prompt.
KeyCompressed(p) ==  \* mutant: CTX-CACHE-001, the key is taken from the compressed prompt
    CHOOSE q \in Prompt : TRUE
Key(p) == p

\* The entry may be past its hour, or the cache was cleared at its limit.
Hits(c) == {cache[Key(c.prompt)], NoText}
Lookup(r, w) ==
    /\ req[r].pc \in Waiting
    /\ req[r][w].at = "lookup"
    /\ LET c == req[r][w]
       IN  \E hit \in Hits(c) :
             req' = [req EXCEPT ![r][w] =
                       IF hit # NoText THEN Got(c, hit)
                       ELSE [c EXCEPT !.at = "asked"]]
    /\ UNCHANGED <<lifecycle, cache, started, restarts>>

\* The provider answers, perhaps nothing; whatever it is, it is cached.
Answer(r, w) ==
    /\ req[r].pc \in Waiting
    /\ req[r][w].at = "asked"
    /\ LET c == req[r][w]
       IN  \E t \in {[model |-> Head(c.todo), prompt |-> c.prompt], Empty} :
             /\ req' = [req EXCEPT ![r][w] = Got(c, t)]
             /\ cache' = [cache EXCEPT ![Key(c.prompt)] = t]
    /\ UNCHANGED <<lifecycle, started, restarts>>

\* It raises, or safe_llm_call() times out.
ProviderFails(r, w) ==
    /\ req[r].pc \in Waiting
    /\ req[r][w].at = "asked"
    /\ req' = [req EXCEPT ![r][w] = FallThrough(@)]
    /\ UNCHANGED <<lifecycle, cache, started, restarts>>

-----------------------------------------------------------------------------
\* route(), from the stage it reads once.

Begin(r, q) ==
    /\ req[r].pc = "idle"
    /\ started < MaxRequests
    /\ started' = started + 1
    /\ req' = [req EXCEPT ![r] = q]
    /\ UNCHANGED <<lifecycle, cache, restarts>>

Route(r, p) ==
    LET q == [NoRequest EXCEPT !.stage = state.stage]
    IN  \/ /\ state.stage = "bootstrap"
           /\ Begin(r, [q EXCEPT !.pc = "external", !.ext = Generate(External, p)])
        \/ /\ state.stage = "shadow"
           /\ Begin(r, [q EXCEPT !.pc = "shadow", !.ext = Generate(External, p), !.own = Generate(Single, p)])
        \/ /\ state.stage = "native"
           /\ Begin(r, [q EXCEPT !.pc = "native", !.own = Generate(Single, p)])

\* A text that needs many tokens: generated under supervision, not in shadow.
RouteLong(r) ==
    /\ state.stage # "shadow"
    /\ Begin(r, [NoRequest EXCEPT !.pc = "monitored", !.stage = state.stage])

\* stream_route(): one model in every stage.
StreamRoute(r) ==
    Begin(r, [NoRequest EXCEPT !.pc = "streaming", !.stage = state.stage])

\* Moves on, with what its calls brought no longer needed.
To(r, pc) == req' = [req EXCEPT ![r] = [NoRequest EXCEPT !.pc = pc]]
Finish(r, s) == Put(s) /\ To(r, "idle")

\* The count and, with the maturity on record, the promotion.
CountOne ==
    LET s == Counted(state) IN Promoted(s, s.count, s.maturity)

\* An answer is at hand and its training pair goes to the state store.
ExternalAnswered(r) ==
    /\ \/ req[r].pc = "external" /\ req[r].ext.at = "done"
       \/ req[r].pc = "monitored"
       \/ req[r].pc = "streaming" /\ req[r].stage # "native"
    /\ To(r, "counting")
    /\ UNCHANGED <<lifecycle, cache, started, restarts>>

\* The pair is stored; a native stream has none and counts at once.
CountAndPromote(r) ==
    /\ \/ req[r].pc = "counting"
       \/ req[r].pc = "streaming" /\ req[r].stage = "native"
    /\ Finish(r, CountOne)
    /\ UNCHANGED <<recent, best, cache, started, restarts>>

\* What a comparison of two texts gives.
Compared(a, b) == IF a = b THEN {100} ELSE Similarity

Measure(sim) ==
    /\ recent' = Recorded(sim)
    /\ best' = IF sim > best THEN sim ELSE best

\* Both models answered in shadow: score, count and maturity at once, then
\* the store's awaits, then the promotion on this one similarity.
BothAnswered(r) ==
    /\ req[r].pc = "shadow" /\ req[r].ext.at = "done" /\ req[r].own.at = "done"
    /\ \E sim \in Compared(req[r].ext.text, req[r].own.text) :
         /\ Measure(sim)
         /\ LET s == Scored(Counted(state), sim)
            IN  /\ Put(s)
                /\ req' = [req EXCEPT ![r] = [NoRequest EXCEPT !.pc = "scored", !.sim = sim, !.count = s.count]]
    /\ UNCHANGED <<cache, started, restarts>>

PromoteShadow(r) ==
    /\ req[r].pc = "scored"
    /\ Finish(r, Promoted(state, req[r].count, 100 * req[r].sim))
    /\ UNCHANGED <<recent, best, cache, started, restarts>>

\* Either model failed: gather() raises, the other call is cancelled and
\* waited for, and the request fails, an external answer at hand or not.
OneFails(r) ==
    /\ req[r].pc = "shadow" /\ "failed" \in {req[r].ext.at, req[r].own.at}
    /\ req' = [req EXCEPT ![r].pc = "unwinding"]
    /\ UNCHANGED <<lifecycle, cache, started, restarts>>

\* A cancelled call ends; then the request raises, what it was cancelled by.
CallUnwinds(r, w) ==
    /\ req[r].pc = "unwinding" /\ Running(req[r][w])
    /\ req' = [req EXCEPT ![r][w].at = "cancelled"]
    /\ UNCHANGED <<lifecycle, cache, started, restarts>>

Unwound(r) ==
    /\ req[r].pc = "unwinding"
    /\ ~Running(req[r].ext) /\ ~Running(req[r].own)
    /\ To(r, "idle")
    /\ UNCHANGED <<lifecycle, cache, started, restarts>>

\* A single call failed: the request fails with it, a spot check included.
SingleFails(r) ==
    /\ \/ req[r].pc \in {"external", "spot"} /\ req[r].ext.at = "failed"
       \/ req[r].pc = "native" /\ req[r].own.at = "failed"
    /\ To(r, "idle")
    /\ UNCHANGED <<lifecycle, cache, started, restarts>>

\* The own model answered in native: counted, and now and then checked
\* against the external one, for the prompt without its history.
NativeAnswered(r) ==
    /\ req[r].pc = "native" /\ req[r].own.at = "done"
    /\ Put(Counted(state))
    /\ \/ To(r, "idle")
       \/ \E p \in Prompt :
            req' = [req EXCEPT ![r].pc = "spot", ![r].ext = Generate(External, p)]
    /\ UNCHANGED <<recent, best, cache, started, restarts>>

SpotChecked(r) ==
    /\ req[r].pc = "spot" /\ req[r].ext.at = "done"
    /\ \E sim \in Compared(req[r].own.text, req[r].ext.text) :
         /\ Measure(sim)
         /\ Put(Scored(state, sim))
         /\ To(r, "judged")
    /\ UNCHANGED <<cache, started, restarts>>

Rollback(r) ==
    /\ req[r].pc = "judged"
    /\ Finish(r, RolledBack(state))
    /\ UNCHANGED <<recent, best, cache, started, restarts>>

-----------------------------------------------------------------------------
\* The caller is cancelled at one of the request's awaits.
CancelRequest(r) ==
    /\ req[r].pc \in Waiting \union {"counting", "scored", "judged"}
    /\ req' = [req EXCEPT ![r].pc = "unwinding"]
    /\ UNCHANGED <<lifecycle, cache, started, restarts>>

\* Scheduler._training_cycle() after new weights passed: with the maturity on
\* record, since its own update of it is never awaited.
AfterTraining ==
    /\ Put(Promoted(state, state.count, state.maturity))
    /\ state' # state
    /\ UNCHANGED <<recent, best, cache, req, started, restarts>>

\* The process stops, after config.flush() or not, and starts again.
Restart ==
    /\ restarts < MaxRestarts
    /\ restarts' = restarts + 1
    /\ \E kept \in {state, disk} : state' = kept /\ disk' = kept
    /\ recent' = <<>>
    /\ cache' = [p \in Prompt |-> NoText]
    /\ req' = [r \in Request |-> NoRequest]
    /\ UNCHANGED <<started, best>>

CallStep(r) ==
    \E w \in {"ext", "own"} :
        Lookup(r, w) \/ Answer(r, w) \/ ProviderFails(r, w) \/ CallUnwinds(r, w)
RequestStep(r) ==
    \/ ExternalAnswered(r) \/ CountAndPromote(r) \/ BothAnswered(r) \/ PromoteShadow(r)
    \/ OneFails(r) \/ Unwound(r) \/ SingleFails(r)
    \/ NativeAnswered(r) \/ SpotChecked(r) \/ Rollback(r)

Next ==
    \/ \E r \in Request :
         \/ \E p \in Prompt : Route(r, p)
         \/ RouteLong(r) \/ StreamRoute(r)
         \/ CallStep(r) \/ RequestStep(r) \/ CancelRequest(r)
    \/ AfterTraining
    \/ Restart

\* A provider's call is bounded by safe_llm_call()'s timeout and a monitored
\* generation by its budget; the loop runs what is ready.
Fairness == \A r \in Request : WF_vars(CallStep(r)) /\ WF_vars(RequestStep(r))
Spec == Init /\ [][Next]_vars /\ Fairness

-----------------------------------------------------------------------------
CallType ==
    [at : {"idle", "lookup", "asked", "done", "failed", "cancelled"},
     todo : {<<>>, External, <<Compat>>, Single},
     prompt : Prompt \union {"none"},
     text : Text \union {NoText}]

TypeOK ==
    /\ \A s \in {state, disk} :
         /\ s.stage \in {"bootstrap", "shadow", "native"}
         /\ s.count \in 0..MaxRequests /\ s.maturity \in 0..10000
    /\ recent \in Seq(0..100) /\ Len(recent) <= Window
    /\ cache \in [Prompt -> Text \union {NoText}]
    /\ \A r \in Request : req[r].ext \in CallType /\ req[r].own \in CallType
    /\ started \in 0..MaxRequests /\ restarts \in 0..MaxRestarts /\ best \in 0..100

\* A module answers natively only after a comparison with the external model
\* reached the threshold, whichever of the promotions of _maybe_promote() it
\* took: on one similarity, on the average, after a stream, after training,
\* again after a rollback or a restart.
PromotedOnEvidence == state.stage = "native" => best >= Threshold

\* A crash never takes a module to another stage: the stage on disk is the
\* one in memory, however many deferred writes lie between.
StageIsDurable == disk.stage = state.stage

\* A request never outlives its calls: when it has answered, raised or was
\* cancelled, no provider works for it any more (model_router.py:199).
NoOrphanCall ==
    \A r \in Request :
        req[r].pc = "idle" => ~Running(req[r].ext) /\ ~Running(req[r].own)

\* What a request is answered with was written for its own prompt, through
\* the cache it shares with every other request (CTX-CACHE-001).
AnsweredOwnPrompt ==
    \A r \in Request, w \in {"ext", "own"} :
        req[r][w].at = "done" => req[r][w].text.prompt = req[r][w].prompt

\* Every request is answered, fails or is cancelled, or the process restarts.
EveryRequestEnds ==
    \A r \in Request : req[r].pc # "idle" ~> req[r].pc = "idle"
=============================================================================
