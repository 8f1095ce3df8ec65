----------------------------- MODULE PermitPool -----------------------------
(***************************************************************************)
(* What a caller of a concurrency limiter may rely on, with no mechanism:  *)
(* an acquisition that is inside holds one of at most Capacity permits,    *)
(* it gets in only while a permit is free, and it gives back exactly its   *)
(* own.  AdaptiveSemaphore implements this (its ImplementsPermitPool).     *)
(***************************************************************************)
EXTENDS Naturals, FiniteSets

CONSTANTS
    Acquisition,  \* the `async with` blocks that ask for a permit
    Capacity      \* the most that may ever be inside together

VARIABLE inside   \* the acquisitions that hold a permit

Init == inside = {}

Enter(a) ==
    /\ a \notin inside
    /\ Cardinality(inside) < Capacity
    /\ inside' = inside \cup {a}

Leave(a) ==
    /\ a \in inside
    /\ inside' = inside \ {a}

Next == \E a \in Acquisition : Enter(a) \/ Leave(a)

Spec == Init /\ [][Next]_inside
=============================================================================
