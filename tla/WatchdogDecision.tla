--------------------------- MODULE WatchdogDecision ---------------------------
(***************************************************************************)
(* core/runtime/execution_budget.py and core/runtime/watchdog_decision.py: *)
(* the time budget of one execution and the decision both watchdogs share. *)
(*                                                                         *)
(* Time is counted in ticks since the budget was created; a budget is the  *)
(* part of ExecutionBudget that changes.  Verdicts "healthy" and "slow but *)
(* progressing" lead to the same behaviour and are one here.               *)
(***************************************************************************)
EXTENDS Naturals

CONSTANTS
    Startup,   \* startup_deadline_s
    Progress,  \* progress_deadline_s
    Hard,      \* hard_ceiling_s, as created
    Absolute,  \* absolute_ceiling_s
    MaxExt     \* max_extension_s

ASSUME BudgetAssumption ==
    /\ Startup \in Nat /\ Progress \in Nat /\ MaxExt \in Nat
    /\ Hard \in Nat /\ Absolute \in Nat /\ Hard <= Absolute

\* hard: the ceiling now; consumed: extension granted so far; grace: the end
\* of the grace period, 0 when there was none.
Budget == [hard : Hard..Absolute, consumed : 0..MaxExt, grace : Nat]
FreshBudget == [hard |-> Hard, consumed |-> 0, grace |-> 0]

Smaller(a, b) == IF a <= b THEN a ELSE b
Remaining(b) == MaxExt - b.consumed
HardExpired(b, t) == t >= b.hard
InGrace(b, t) == t < b.grace

\* What grant_extension() grants when asked for a progress deadline more, as
\* decide() does: never beyond either limit.
GrantableUncapped(b) ==  \* mutant: the absolute ceiling is forgotten
    Smaller(Progress, Remaining(b))
Grantable(b) ==
    Smaller(Smaller(Progress, Remaining(b)), Absolute - b.hard)

Extended(b, t) ==
    [hard |-> b.hard + Grantable(b),
     consumed |-> b.consumed + Grantable(b),
     grace |-> t + Grantable(b)]

\* decide() at time t, when the last progress was `since` ago.
Verdict(b, t, progressed, since) ==
    IF HardExpired(b, t) THEN "expired"
    ELSE IF ~progressed THEN IF t >= Startup THEN "expired" ELSE "healthy"
    ELSE IF since < Progress THEN "healthy"
    ELSE IF InGrace(b, t) THEN "recovering"
    ELSE IF Grantable(b) > 0 THEN "extended"
    ELSE "stalled"
=============================================================================
