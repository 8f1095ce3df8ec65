------------------------------ MODULE GraphBounds ------------------------------
\* The size of the executions that are watched.
EXTENDS Naturals

CONSTANTS
    Nodes,     \* bound: nodes 1..Nodes in the chain
    MaxFaults  \* bound: event appends that raise

ASSUME GraphAssumption == Nodes \in Nat /\ MaxFaults \in Nat
=============================================================================
