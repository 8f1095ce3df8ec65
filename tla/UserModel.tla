------------------------------- MODULE UserModel -------------------------------
(***************************************************************************)
(* The user model a request is interpreted with                            *)
(* (core/cognitive/user_model.py): a projection of the raw signals of L1   *)
(* and the promoted records of L3, read one layer after the other while    *)
(* both are written.  An entry keeps its layer and its importance.  A slot *)
(* is a field, or one key of a field with keys.                            *)
(***************************************************************************)
EXTENDS Naturals, Sequences, FiniteSets, SequencesExt

CONSTANTS
    Signal,      \* entries
    Promoted,    \* those of L3
    SlotOf,      \* entry -> its slot
    ListSlot,    \* slots that collect; the others have one value
    Weight,      \* entry -> its importance
    Text,
    PerLayer,    \* limit_per_layer
    MaxUpdates   \* bound: writes of entries

Absent == "absent"

VARIABLES
    record,   \* entry -> its text and updated_at, 0 for one that is not stored
    updates,
    reading,  \* the layer that is read next
    slots,    \* the projection: the values of each slot
    sources,  \* its source_entry_ids
    moved     \* history: entries written or deleted since the assembly began

vars == <<record, updates, reading, slots, sources, moved>>

Slot == {SlotOf[e] : e \in Signal}
Init ==
    /\ record = [e \in Signal |-> [text |-> Absent, at |-> 0]]
    /\ updates = 0 /\ reading = "none"
    /\ slots = [s \in Slot |-> <<>>] /\ sources = {} /\ moved = {}

\* The gate writes an entry, or updates it; the user deletes one.
Put(e, text) ==
    /\ updates < MaxUpdates /\ updates' = updates + 1
    /\ record' = [record EXCEPT ![e] = [text |-> text, at |-> updates']]
    /\ moved' = moved \union {e}
    /\ UNCHANGED <<reading, slots, sources>>
delete_user_model_entry(e) ==
    /\ record[e].at > 0 /\ record' = [record EXCEPT ![e] = [text |-> Absent, at |-> 0]]
    /\ moved' = moved \union {e}
    /\ UNCHANGED <<updates, reading, slots, sources>>

Layer(name) == IF name = "l3" THEN Promoted ELSE Signal \ Promoted
Stored(name) == {e \in Layer(name) : record[e].at > 0}
\* get_layer(): the most important ones.
get_layer(name) ==
    {e \in Stored(name) : Cardinality({f \in Stored(name) : Weight[f] > Weight[e]}) < PerLayer}

\* _apply(): a single value is replaced, a collection gets what it does not have.
Apply(projection, e) ==
    LET s == SlotOf[e]
    IN  IF s \notin ListSlot THEN [projection EXCEPT ![s] = <<record[e].text>>]
        ELSE IF record[e].text \in ToSet(projection[s]) THEN projection
        ELSE [projection EXCEPT ![s] = Append(@, record[e].text)]

\* sorted(): the orders of entries from the oldest update to the newest.
OldestFirst(S) ==
    {q \in [1 .. Cardinality(S) -> S] :
        /\ ToSet(q) = S
        /\ \A i, j \in DOMAIN q : i < j => record[q[i]].at < record[q[j]].at}
Applied(order) ==
    LET done[n \in 0 .. Len(order)] ==
          IF n = 0 THEN slots ELSE Apply(done[n - 1], order[n])
    IN  done[Len(order)]

\* assemble_user_cognitive_model(): each layer from the oldest update to the newest.
Assemble ==
    /\ reading = "none" /\ reading' = "l1"
    /\ slots' = [s \in Slot |-> <<>>] /\ sources' = {} /\ moved' = {}
    /\ UNCHANGED <<record, updates>>
ReadLayer(name) ==
    /\ reading = name /\ reading' = IF name = "l1" THEN "l3" ELSE "done"
    /\ \E order \in OldestFirst(get_layer(name)) : slots' = Applied(order)
    /\ sources' = sources \union get_layer(name)
    /\ UNCHANGED <<record, updates, moved>>
Use ==
    /\ reading = "done" /\ reading' = "none"
    /\ UNCHANGED <<record, updates, slots, sources, moved>>

Next ==
    \/ \E e \in Signal : (\E t \in Text : Put(e, t)) \/ delete_user_model_entry(e)
    \/ Assemble \/ (\E name \in {"l1", "l3"} : ReadLayer(name)) \/ Use
Spec == Init /\ [][Next]_vars

----------------------------------------------------------------------------
Fits == \A name \in {"l1", "l3"} :
            Cardinality(Stored(name) \union (moved \intersect Layer(name))) <= PerLayer
Holding(s) == {e \in Signal : SlotOf[e] = s /\ record[e].at > 0}
Newest(S) == CHOOSE e \in S : \A f \in S : record[f].at <= record[e].at

\* For a slot whose entries nobody touched meanwhile, and layers within the limit: a value
\* is that of the promoted record updated last, or else of the raw signal updated last; a
\* collection has every text, once; and every entry behind it is named as a source.
ProjectionIsSound ==
    reading = "done" /\ Fits =>
        \A s \in Slot : {e \in moved : SlotOf[e] = s} = {} =>
            /\ Holding(s) \subseteq sources
            /\ LET best == IF Holding(s) \intersect Promoted # {}
                           THEN Holding(s) \intersect Promoted ELSE Holding(s)
                   texts == {record[e].text : e \in Holding(s)}
               IN  IF Holding(s) = {} THEN slots[s] = <<>>
                   ELSE IF s \notin ListSlot THEN slots[s] = <<record[Newest(best)].text>>
                   ELSE ToSet(slots[s]) = texts /\ Len(slots[s]) = Cardinality(texts)
=============================================================================
