--------------------------------- MODULE Adapters --------------------------------
(***************************************************************************)
(* A capability and the adapters that provide it                           *)
(* (core/capabilities/).  Invocations interleave at every await, and share *)
(* the adapters' health and cooldowns.  A unit of time is the cooldown     *)
(* after a first failure, a minute; health is in steps of 5.               *)
(***************************************************************************)
EXTENDS Integers, SequencesExt

CONSTANTS
    Type,       \* what may be asked for
    Provides,   \* Type -> the adapters registered for it, in order; no contract, no entry
    Configured, \* the adapters whose provider has an endpoint
    Invocation,
    MaxHealth, Gain, Loss,  \* 100, 5 and 20, in steps of 5
    MaxDelay,   \* 3600 seconds
    MaxNow      \* bound of the model

Adapter == UNION {ToSet(Provides[t]) : t \in DOMAIN Provides}

VARIABLES
    now,
    health, strikes, until,  \* Adapter -> health_score, consecutive_failures, cooldown_until
    pc, todo,   \* Invocation -> where it is, the adapters it will still ask
    tried,      \* Invocation -> the adapters that failed it
    choice,     \* Invocation -> what it had to choose from, and when
    failures    \* _total_failures

vars == <<now, health, strikes, until, pc, todo, tried, choice, failures>>

NoChoice == [able |-> {}, score |-> [a \in Adapter |-> 0], soonest |-> {}]

TypeOK ==
    /\ now \in 0 .. MaxNow
    /\ health \in [Adapter -> 0 .. MaxHealth]
    /\ strikes \in [Adapter -> Nat] /\ until \in [Adapter -> Nat]
    /\ pc \in [Invocation -> {"idle", "asking", "served", "failed", "unknown", "cancelled"}]
    /\ \A c \in Invocation : todo[c] \in Seq(Adapter) /\ tried[c] \in Seq(Adapter)
    /\ failures \in 0 .. Cardinality(Invocation)

Init ==
    /\ now = 0
    /\ health = [a \in Adapter |-> MaxHealth]
    /\ strikes = [a \in Adapter |-> 0] /\ until = [a \in Adapter |-> 0]
    /\ pc = [c \in Invocation |-> "idle"]
    /\ todo = [c \in Invocation |-> <<>>] /\ tried = [c \in Invocation |-> <<>>]
    /\ choice = [c \in Invocation |-> NoChoice]
    /\ failures = 0

\* is_available(): an adapter whose provider has no endpoint never is.
Available(a) == now >= until[a] /\ a \in Configured
\* The first of those whose cooldown ends first, an adapter that never had one included.
Soonest(adapters) ==
    adapters[CHOOSE i \in DOMAIN adapters :
        /\ \A j \in DOMAIN adapters : until[adapters[i]] <= until[adapters[j]]
        /\ \A j \in 1 .. i - 1 : until[adapters[j]] > until[adapters[i]]]
\* _rank_adapters(): the healthiest first, and in their order among the equally healthy.
\* There is one such ranking of the positions of those that are available.
Healthiest(adapters) ==
    LET able == {i \in DOMAIN adapters : Available(adapters[i])}
        Before(i, j) ==
            \/ health[adapters[i]] > health[adapters[j]]
            \/ health[adapters[i]] = health[adapters[j]] /\ i < j
        Ranked(order) ==
            /\ ToSet(order) = able
            /\ \A m, n \in DOMAIN order : m < n => Before(order[m], order[n])
    IN  {[n \in DOMAIN order |-> adapters[order[n]]] :
            order \in {o \in [1 .. Cardinality(able) -> able] : Ranked(o)}}
AbleOf(adapters) == {a \in ToSet(adapters) : Available(a)}
Rank(adapters) ==
    IF AbleOf(adapters) = {} THEN {<<Soonest(adapters)>>} ELSE Healthiest(adapters)

Invoke(c, t) ==
    /\ pc[c] = "idle"
    /\ IF t \notin DOMAIN Provides \/ Provides[t] = <<>>
       THEN /\ pc' = [pc EXCEPT ![c] = "unknown"]
            /\ failures' = failures + 1
            /\ UNCHANGED <<todo, choice>>
       ELSE /\ pc' = [pc EXCEPT ![c] = "asking"]
            /\ \E ranking \in Rank(Provides[t]) : todo' = [todo EXCEPT ![c] = ranking]
            /\ choice' = [choice EXCEPT ![c] =
                            [able |-> AbleOf(Provides[t]), score |-> health,
                             soonest |-> {Soonest(Provides[t])}]]
            /\ UNCHANGED failures
    /\ UNCHANGED <<now, health, strikes, until, tried>>

\* What an invocation had is gone when it returns.
Forget(c) ==
    /\ todo' = [todo EXCEPT ![c] = <<>>] /\ tried' = [tried EXCEPT ![c] = <<>>]
    /\ choice' = [choice EXCEPT ![c] = NoChoice]

\* What the router says of a generation, "none" unless it was streamed: an empty answer
\* is a success to its adapter.
Details == {"none", "success", "empty_response", "stalled", "provider_failure"}
IsSuccess(detail) == detail \in {"none", "success", "empty_response"}

\* execute() returns a success: mark_success() does not end a cooldown.
Gained(a) == IF health[a] + Gain > MaxHealth THEN MaxHealth ELSE health[a] + Gain
Serve(c, detail) ==
    /\ pc[c] = "asking" /\ IsSuccess(detail)
    /\ LET a == Head(todo[c])
       IN  /\ strikes' = [strikes EXCEPT ![a] = 0]
           /\ health' = [health EXCEPT ![a] = Gained(a)]
    /\ pc' = [pc EXCEPT ![c] = "served"]
    /\ Forget(c)
    /\ UNCHANGED <<now, until, failures>>

\* execute() raises or returns a failure: mark_failure(), and the next of the ranking
\* is asked, whatever has become of it since.
Delay(n) == IF 2 ^ (n - 1) > MaxDelay THEN MaxDelay ELSE 2 ^ (n - 1)
GiveUp(c) ==  \* mutant: the first failure is the answer
    todo' = [todo EXCEPT ![c] = <<>>]
AskNext(c) == todo' = [todo EXCEPT ![c] = Tail(@)]
FailAdapter(c, detail) ==
    /\ pc[c] = "asking" /\ ~IsSuccess(detail)
    /\ LET a == Head(todo[c])
       IN  /\ strikes' = [strikes EXCEPT ![a] = @ + 1]
           /\ health' = [health EXCEPT ![a] = IF @ < Loss THEN 0 ELSE @ - Loss]
           /\ until' = [until EXCEPT ![a] = now + Delay(strikes'[a])]
           /\ tried' = [tried EXCEPT ![c] = Append(@, a)]
    /\ AskNext(c)
    /\ IF todo'[c] = <<>>
       THEN pc' = [pc EXCEPT ![c] = "failed"] /\ failures' = failures + 1
       ELSE UNCHANGED <<pc, failures>>
    /\ UNCHANGED <<now, choice>>

\* The worker is cancelled: neither the adapter nor the runtime counts that.
Cancel(c) ==
    /\ pc[c] = "asking"
    /\ pc' = [pc EXCEPT ![c] = "cancelled"]
    /\ Forget(c)
    /\ UNCHANGED <<now, health, strikes, until, failures>>

Tick ==
    /\ now < MaxNow
    /\ now' = now + 1
    /\ UNCHANGED <<health, strikes, until, pc, todo, tried, choice, failures>>

Next ==
    \/ \E c \in Invocation :
          \/ Cancel(c)
          \/ \E t \in Type : Invoke(c, t)
          \/ \E detail \in Details : Serve(c, detail) \/ FailAdapter(c, detail)
    \/ Tick
Spec == Init /\ [][Next]_vars

----------------------------------------------------------------------------
\* An invocation answers with a failure only when every adapter that was available to
\* it has failed, the healthier before the others; when none was, when the one that
\* would be back first has (AdapterRuntime.invoke()).
EveryAdapterTried ==
    \A c \in Invocation : pc[c] = "failed" =>
        IF choice[c].able = {} THEN ToSet(tried[c]) = choice[c].soonest
        ELSE /\ ToSet(tried[c]) = choice[c].able
             /\ \A i, j \in DOMAIN tried[c] :
                  i < j => choice[c].score[tried[c][i]] >= choice[c].score[tried[c][j]]

\* "All in cooldown -- pick whichever recovers soonest": an adapter asked because none
\* is available will be, when its cooldown ends (AdapterRuntime._rank_adapters()).
ForcedRecovers ==
    \A c \in Invocation : choice[c].able = {} => choice[c].soonest \subseteq Configured
=============================================================================
