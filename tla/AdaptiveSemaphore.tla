-------------------------- MODULE AdaptiveSemaphore --------------------------
(***************************************************************************)
(* core/runtime/resilience.py, class AdaptiveSemaphore: the latency-driven *)
(* concurrency limit every LLM call passes through (limits.safe_llm_call). *)
(*                                                                         *)
(* The unit of concurrency is one acquisition (one `async with` block).    *)
(* The asyncio.Semaphore underneath is external code; it is modelled as    *)
(* CPython 3.11 behaves: a FIFO of parked waiters, and a release that      *)
(* finds one takes the permit back out of the counter and hands it to that *)
(* waiter, which records its hold only when it next runs.                  *)
(*                                                                         *)
(* __aenter__ after the acquire and the whole of __aexit__ contain no      *)
(* suspension point, so each is one action.  The EMA of the latencies is   *)
(* abstracted to the one bit the code takes from it: `slow`.               *)
(***************************************************************************)
EXTENDS Naturals, Sequences, FiniteSets

CONSTANTS
    Acquisition,  \* the `async with` blocks
    MinLimit,     \* min_limit
    MaxLimit      \* max_limit

ASSUME LimitAssumption ==
    /\ MinLimit \in Nat \ {0}
    /\ MaxLimit \in Nat
    /\ MinLimit <= MaxLimit

ASSUME AcquisitionAssumption == IsFiniteSet(Acquisition)

VARIABLES
    current_limit,  \* the limit the controller aims at
    available,      \* Semaphore._value
    drain_count,    \* permits the next exits absorb instead of releasing
    waiters,        \* acquisitions parked in Semaphore._waiters, oldest first
    handoff,        \* waiters given a permit that have not resumed yet
    held            \* acquisitions that recorded a _Hold

vars == <<current_limit, available, drain_count, waiters, handoff, held>>

Parked == {waiters[i] : i \in DOMAIN waiters}

Init ==
    /\ current_limit = MinLimit
    /\ available = MinLimit
    /\ drain_count = 0
    /\ waiters = <<>>
    /\ handoff = {}
    /\ held = {}
-----------------------------------------------------------------------------
(* asyncio.Semaphore *)

\* A newcomer queues behind every waiter that has not resumed, woken or not.
Locked == available = 0 \/ waiters # <<>> \/ handoff # {}

\* release() called n times: each permit goes to the oldest parked waiter, or
\* back to the counter when nobody is parked.
Release(n) ==
    LET woken == IF n <= Len(waiters) THEN n ELSE Len(waiters)
    IN  /\ handoff' = handoff \cup {waiters[i] : i \in 1..woken}
        /\ waiters' = SubSeq(waiters, woken + 1, Len(waiters))
        /\ available' = (available + n) - woken
-----------------------------------------------------------------------------
(* __aenter__ *)

\* A free permit and no queue: acquire() does not suspend and the hold is
\* recorded in the same step.
EnterAtOnce(a) ==
    /\ a \notin held \cup handoff \cup Parked
    /\ ~Locked
    /\ available' = available - 1
    /\ held' = held \cup {a}
    /\ UNCHANGED <<current_limit, drain_count, waiters, handoff>>

Park(a) ==
    /\ a \notin held \cup handoff \cup Parked
    /\ Locked
    /\ waiters' = Append(waiters, a)
    /\ UNCHANGED <<current_limit, available, drain_count, handoff, held>>

\* Mutant: acquire() without its second wake-up.
ResumeKeepsRest(a) ==
    /\ a \in handoff
    /\ held' = held \cup {a}
    /\ handoff' = handoff \ {a}
    /\ UNCHANGED <<current_limit, drain_count, waiters, available>>

\* The waiter resumes with the permit it was handed, passes on a free permit
\* it may see, and records its hold.
Resume(a) ==
    /\ a \in handoff
    /\ held' = held \cup {a}
    /\ IF available > 0 /\ waiters # <<>>
       THEN /\ handoff' = (handoff \ {a}) \cup {Head(waiters)}
            /\ waiters' = Tail(waiters)
            /\ available' = available - 1
       ELSE /\ handoff' = handoff \ {a}
            /\ UNCHANGED <<waiters, available>>
    /\ UNCHANGED <<current_limit, drain_count>>

\* The awaiting task is cancelled while parked: no permit was taken.
CancelParked(a) ==
    /\ \E i \in DOMAIN waiters :
        /\ waiters[i] = a
        /\ waiters' = SubSeq(waiters, 1, i - 1)
                         \o SubSeq(waiters, i + 1, Len(waiters))
    /\ UNCHANGED <<current_limit, available, drain_count, handoff, held>>

\* The awaiting task is cancelled after it was handed a permit and before it
\* resumed: acquire() puts the permit back and wakes the next waiter.
CancelHandoff(a) ==
    /\ a \in handoff
    /\ IF waiters # <<>>
       THEN /\ handoff' = (handoff \ {a}) \cup {Head(waiters)}
            /\ waiters' = Tail(waiters)
            /\ UNCHANGED available
       ELSE /\ handoff' = handoff \ {a}
            /\ available' = available + 1
            /\ UNCHANGED waiters
    /\ UNCHANGED <<current_limit, drain_count, held>>
-----------------------------------------------------------------------------
(* __aexit__, for any reason the block ends *)

Smaller(x, y) == IF x <= y THEN x ELSE y
Larger(x, y)  == IF x >= y THEN x ELSE y

\* Mutant: the upper clamp is dropped.
NewLimitUnclamped(slow) ==
    IF slow THEN Larger(MinLimit, (current_limit * 9) \div 10)
            ELSE current_limit + 1

\* int(current_limit * 0.9), never below min_limit; one more, never above
\* max_limit.
NewLimit(slow) ==
    IF slow THEN Larger(MinLimit, (current_limit * 9) \div 10)
            ELSE Smaller(MaxLimit, current_limit + 1)

\* Pending drains once this holder's permit was absorbed, if one is pending.
DrainedForgotten == drain_count  \* mutant: the absorbed permit is not counted
Drained == IF drain_count > 0 THEN drain_count - 1 ELSE 0

\* How much of a growth only cancels pending drains.
CancelledDrains(grown) == Smaller(grown, Drained)

Exit(a, slow) ==
    LET new   == NewLimit(slow)
        grown == IF new > current_limit THEN new - current_limit ELSE 0
        shrunk == IF new < current_limit THEN current_limit - new ELSE 0
        own   == IF drain_count > 0 THEN 0 ELSE 1
    IN  /\ a \in held
        /\ held' = held \ {a}
        /\ drain_count' = (Drained - CancelledDrains(grown)) + shrunk
        /\ Release(own + (grown - CancelledDrains(grown)))
        /\ current_limit' = new

Next == \E a \in Acquisition :
    \/ EnterAtOnce(a)
    \/ Park(a)
    \/ Resume(a)
    \/ CancelParked(a)
    \/ CancelHandoff(a)
    \/ \E slow \in BOOLEAN : Exit(a, slow)

Spec == Init /\ [][Next]_vars

(***************************************************************************)
(* A handed permit resumes its waiter because the future's callback is in  *)
(* the event loop's ready queue.  A holder leaves because safe_llm_call    *)
(* wraps the call in wait_for with a hard ceiling.  Nobody is obliged to   *)
(* ask for a permit or to cancel.                                          *)
(***************************************************************************)
FairSpec ==
    /\ Spec
    /\ \A a \in Acquisition :
        /\ WF_vars(Resume(a))
        /\ WF_vars(\E slow \in BOOLEAN : Exit(a, slow))
-----------------------------------------------------------------------------
(* Properties *)

\* Types and ranges; an acquisition is in at most one place, and once.
TypeOK ==
    /\ current_limit \in MinLimit..MaxLimit
    /\ available \in Nat
    /\ drain_count \in Nat
    /\ waiters \in Seq(Acquisition)
    /\ handoff \in SUBSET Acquisition
    /\ held \in SUBSET Acquisition

\* The docstring's FZ-04 invariant, in every state and not only the idle ones:
\* no permit is lost or minted by any order of enters, exits, cancellations,
\* hand-offs and limit changes.
PermitConservation ==
    available + Cardinality(held) + Cardinality(handoff)
        = current_limit + drain_count

\* Shrinking and growing again never lets more than max_limit calls be in
\* flight, although permits scheduled for draining are still in use.
ConcurrencyCap == Cardinality(held) + Cardinality(handoff) <= MaxLimit

\* A free permit never sits beside a parked waiter unless a woken waiter is
\* about to run and pass it on (acquire's second wake-up): no lost wake-up.
NoLostWakeup == waiters # <<>> /\ available > 0 => handoff # {}

\* The limiter is a pool of max_limit permits as far as its callers can tell.
Pool == INSTANCE PermitPool WITH Capacity <- MaxLimit, inside <- held
ImplementsPermitPool == Pool!Spec

\* A parked acquisition is eventually let in or cancelled: FIFO hand-off
\* means newcomers cannot overtake it for ever.
EveryWaiterServed ==
    \A a \in Acquisition : (a \in Parked) ~> (a \notin Parked \cup handoff)
=============================================================================
