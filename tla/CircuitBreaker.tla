---------------------------- MODULE CircuitBreaker ----------------------------
(***************************************************************************)
(* core/runtime/resilience.py, class CircuitBreaker: one per module, around *)
(* every routed model call (modules/base.py run_routed).                   *)
(*                                                                         *)
(* The breaker's lock covers the decision to admit a call and, separately, *)
(* the accounting when it ends; the call itself runs outside the lock, so  *)
(* calls admitted in one state end in another.  Each locked block has no   *)
(* await in it and is one action; a rejected call changes nothing.         *)
(***************************************************************************)
EXTENDS Naturals, FiniteSets

CONSTANTS
    Call,      \* concurrent callers
    Threshold  \* failures that open the circuit

ASSUME ThresholdAssumption == Threshold \in Nat \ {0}

VARIABLES
    state,     \* CLOSED, OPEN or HALF_OPEN
    failures,  \* failure count; only whether it reached Threshold is asked,
               \* so it stays there
    cooled,    \* reset_timeout has passed since last_failure_time
    flight,    \* calls admitted and not ended
    probes,    \* history: the calls in flight admitted as probes
    lost       \* history: the last probe of this half-open phase was cancelled

vars == <<state, failures, cooled, flight, probes, lost>>

Init ==
    /\ state = "CLOSED"
    /\ failures = 0
    /\ cooled = TRUE
    /\ flight = {}
    /\ probes = {}
    /\ lost = FALSE

Admit(c) ==
    /\ c \notin flight
    /\ state = "CLOSED"
    /\ flight' = flight \cup {c}
    /\ UNCHANGED <<state, failures, cooled, probes, lost>>

ProbeForgets(c) ==  \* mutant: the count restarts when the circuit half-opens
    /\ c \notin flight
    /\ state = "OPEN" /\ cooled
    /\ state' = "HALF_OPEN"
    /\ failures' = 0
    /\ flight' = flight \cup {c}
    /\ probes' = probes \cup {c}
    /\ lost' = FALSE
    /\ UNCHANGED cooled
Probe(c) ==
    /\ c \notin flight
    /\ state = "OPEN" /\ cooled
    /\ state' = "HALF_OPEN"
    /\ flight' = flight \cup {c}
    /\ probes' = probes \cup {c}
    /\ lost' = FALSE
    /\ UNCHANGED <<failures, cooled>>

\* RuntimeError before the call: it is not counted as a failure.
Reject(c) ==
    /\ c \notin flight
    /\ (state = "OPEN" /\ ~cooled) \/ state = "HALF_OPEN"
    /\ UNCHANGED vars

Ends(c) ==
    /\ c \in flight
    /\ flight' = flight \ {c}
    /\ probes' = probes \ {c}

\* Any call that succeeds closes a half-open circuit, the probe or not.
Succeed(c) ==
    /\ Ends(c)
    /\ IF state = "HALF_OPEN"
       THEN state' = "CLOSED" /\ failures' = 0
       ELSE UNCHANGED <<state, failures>>
    /\ UNCHANGED <<cooled, lost>>

\* Any failure counts and, from the threshold on, (re)opens the circuit.
Fail(c) ==
    /\ Ends(c)
    /\ failures' = IF failures < Threshold THEN failures + 1 ELSE failures
    /\ cooled' = FALSE
    /\ state' = IF failures' = Threshold THEN "OPEN" ELSE state
    /\ UNCHANGED lost

\* CancelledError is no Exception: neither block runs.
Cancelled(c) ==
    /\ Ends(c)
    /\ lost' = (lost \/ (state = "HALF_OPEN" /\ probes = {c}))
    /\ UNCHANGED <<state, failures, cooled>>

TimePasses ==
    /\ ~cooled
    /\ cooled' = TRUE
    /\ UNCHANGED <<state, failures, flight, probes, lost>>

Next ==
    \/ \E c \in Call : \/ Admit(c) \/ Probe(c) \/ Reject(c)
                       \/ Succeed(c) \/ Fail(c) \/ Cancelled(c)
    \/ TimePasses

Spec == Init /\ [][Next]_vars

(***************************************************************************)
(* A call in flight ends: safe_llm_call bounds each attempt of the route.  *)
(***************************************************************************)
FairSpec == Spec /\ \A c \in Call : WF_vars(Succeed(c) \/ Fail(c) \/ Cancelled(c))
-----------------------------------------------------------------------------
(* Properties *)

\* Every variable keeps its type; a probe is a call in flight.
TypeOK ==
    /\ state \in {"CLOSED", "OPEN", "HALF_OPEN"}
    /\ failures \in 0..Threshold
    /\ cooled \in BOOLEAN
    /\ flight \subseteq Call
    /\ probes \subseteq flight
    /\ lost \in BOOLEAN

\* The circuit is closed exactly while the count is below the threshold, so a
\* single failure after half-opening reopens it, however calls admitted in
\* earlier states end in between.
CountMatchesState == state = "CLOSED" <=> failures < Threshold

\* Every half-open phase is decided, unless its probe was cancelled.
HalfOpenIsDecided == state = "HALF_OPEN" ~> (state # "HALF_OPEN" \/ lost)

\* resilience.py:38 rejects calls because of "probing in progress": a probe
\* is then in flight.  After its cancellation none is, and none is admitted.
HalfOpenIsProbing == state = "HALF_OPEN" => probes # {}
=============================================================================
