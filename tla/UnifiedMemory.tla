---------------------------- MODULE UnifiedMemory ----------------------------
(***************************************************************************)
(* core/memory/unified_memory.py: one knowledge entry in the L0 cache, the *)
(* L1 table, the L2 vector index and the graph index, under concurrent     *)
(* write(), read(), update(), delete() and consolidate() calls.            *)
(*                                                                         *)
(* Entries meet only in the LRU cache, where others may push this one out. *)
(* Every backend call runs in an executor thread: its effect is one action *)
(* and what the coroutine does when it resumes, up to the next await, is   *)
(* another.  There is no lock.                                             *)
(*                                                                         *)
(* L0 holds KnowledgeEntry objects, not copies: _sync_graph sets the       *)
(* graph_node_id of an object that may sit in L0, or be held by another    *)
(* call.  Objects therefore have an identity, that of the operation which  *)
(* created them.  An entry's data is the revision, named after the         *)
(* operation that made it, its layer and whether it is graph-eligible.     *)
(* The archive (L4) only receives events: its awaits are places where      *)
(* others run.  Layer l3 is written as l2, l4 as l2 without the vectors.   *)
(***************************************************************************)
EXTENDS Naturals, FiniteSets, TLC

CONSTANTS
    Op,        \* the calls, each made once
    Seed,      \* the revision the store starts with, made by no call
    NoEntry,   \* no row
    NoObject,  \* an empty cache slot, or a call without an entry
    MaxFaults  \* bound: backend failures and crashes

ASSUME SeedAssumption == Seed \notin Op /\ NoObject \notin Op
ASSUME FaultAssumption == MaxFaults \in Nat

Layer == {"l0", "l1", "l2"}
Entry == [rev : Op \cup {Seed}, layer : Layer, eligible : BOOLEAN,
          node : BOOLEAN]
ASSUME EntryAssumption == NoEntry \notin Entry

VARIABLES
    row,       \* L1: the row of the entry (graph_node_id as a boolean)
    l0,        \* L0: the object cached under the entry's id
    vec,       \* L2: the entry is in the (in-process) vector index
    node,      \* the graph has the node of the entry
    heap,      \* the object each call created
    ref,       \* the object each call works on
    kind,      \* what each call is
    pc,        \* where each call awaits
    committed, \* history: revisions that were ever in L1
    disturbed, \* history: updates in flight that overlapped another call or
               \* met a failure
    deleted,   \* history: a delete() returned True with no write() in flight,
               \* and none came since
    faults     \* history: failures and crashes

store == <<row, node>>
memory == <<l0, vec>>
calls == <<heap, ref, kind, pc>>
history == <<committed, disturbed, deleted, faults>>
vars == <<store, memory, calls, history>>

Active == {o \in Op : pc[o] \notin {"idle", "done", "lost"}}

\* A row that an earlier process left behind, indexed if it is eligible.
Kept(layer, e) == [rev |-> Seed, layer |-> layer, eligible |-> e, node |-> e]

Init ==
    /\ row \in {NoEntry} \cup {Kept(y, e) : y \in {"l1", "l2"}, e \in BOOLEAN}
    /\ node = (row # NoEntry /\ row.eligible)
    /\ l0 = NoObject
    /\ vec = FALSE
    /\ heap = [o \in Op |-> NoEntry]
    /\ ref = [o \in Op |-> NoObject]
    /\ kind = [o \in Op |-> "none"]
    /\ pc = [o \in Op |-> "idle"]
    /\ committed = {Seed}
    /\ disturbed = {}
    /\ deleted = FALSE
    /\ faults = 0
-----------------------------------------------------------------------------
(* Moves of a call *)

Goto(o, l) == pc' = [pc EXCEPT ![o] = l] /\ UNCHANGED <<ref, kind>>
GotoWith(o, l, b) ==
    /\ pc' = [pc EXCEPT ![o] = l]
    /\ ref' = [ref EXCEPT ![o] = b]
    /\ UNCHANGED kind
Return(o) ==
    /\ pc' = [pc EXCEPT ![o] = "done"]
    /\ ref' = [ref EXCEPT ![o] = NoObject]
    /\ kind' = [kind EXCEPT ![o] = "none"]

\* A call begins (one that governance or a before_write hook refuses changes
\* nothing).  Calls in flight together disturb each other.
Begin(o, k, l) ==
    /\ pc[o] = "idle"
    /\ pc' = [pc EXCEPT ![o] = l]
    /\ kind' = [kind EXCEPT ![o] = k]
    /\ disturbed' = IF Active = {} THEN {}
                    ELSE {u \in Active \cup {o} : kind'[u] = "update"}
    /\ UNCHANGED <<committed, faults>>

\* A backend call made by o raised; what the call does then is the caller's.
Fails(o) ==
    /\ faults < MaxFaults
    /\ faults' = faults + 1
    /\ disturbed' = IF kind[o] = "update" THEN disturbed \cup {o} ELSE disturbed
    /\ UNCHANGED <<committed, deleted>>

\* _sync_graph up to its first await, for the entry e.
SyncPc(e) == IF e.eligible THEN "g_add" ELSE IF e.node THEN "g_drop" ELSE "synced"
-----------------------------------------------------------------------------
(* read() *)

BeginRead(o) ==
    /\ Begin(o, "read", "lookup")
    /\ UNCHANGED <<store, memory, heap, ref, deleted>>

\* read() returns the object b of entry e to whoever called it.
Found(o, b, e) ==
    \/ kind[o] = "read" /\ Return(o)
    \/ kind[o] = "update" /\ GotoWith(o, SyncPc(e), b)
    \/ kind[o] = "delete" /\ GotoWith(o, "d_archived", b)
    \/ kind[o] = "delete" /\ Return(o)  \* refused by governance or a hook

\* A hit ends the lookup at once; a miss goes to the table.
Lookup(o) ==
    /\ pc[o] = "lookup"
    /\ IF l0 # NoObject THEN Found(o, l0, heap[l0]) ELSE Goto(o, "r_load")
    /\ UNCHANGED <<store, memory, heap, history>>

ReadRow(o) ==
    /\ pc[o] = "r_load"
    /\ IF row # NoEntry
       THEN heap' = [heap EXCEPT ![o] = row] /\ Goto(o, "r_cache")
       ELSE UNCHANGED heap /\ Return(o)
    /\ UNCHANGED <<store, memory, history>>

Cache(o) ==
    /\ pc[o] = "r_cache"
    /\ l0' = o
    /\ Found(o, o, heap[o])
    /\ UNCHANGED <<store, vec, heap, history>>
-----------------------------------------------------------------------------
(* _sync_graph() *)

\* add_node creates or replaces; a failure counts as "not indexed".
AddNode(o) ==
    /\ pc[o] = "g_add"
    /\ \/ node' = TRUE /\ Goto(o, "g_linked") /\ UNCHANGED history
       \/ Fails(o) /\ Goto(o, "g_unlinked") /\ UNCHANGED node
    /\ UNCHANGED <<row, memory, heap>>

DropNode(o) ==
    /\ pc[o] = "g_drop"
    /\ \/ node' = FALSE /\ UNCHANGED history
       \/ Fails(o) /\ UNCHANGED node
    /\ Goto(o, "g_unlinked")
    /\ UNCHANGED <<row, memory, heap>>

\* If the id changed it is set on the object at once, in L1 by the next await.
Link(o) ==
    LET linked == pc[o] = "g_linked"
    IN  /\ pc[o] \in {"g_linked", "g_unlinked"}
        /\ heap' = [heap EXCEPT ![ref[o]].node = linked]
        /\ Goto(o, IF heap[ref[o]].node = linked THEN "synced"
                   ELSE IF linked THEN "p_link" ELSE "p_unlink")
        /\ UNCHANGED <<store, memory, history>>

PersistWhole(o) ==  \* mutant: the whole object is written back
    /\ pc[o] \in {"p_link", "p_unlink"}
    /\ row' = heap[ref[o]]
    /\ Goto(o, "synced")
    /\ UNCHANGED <<node, memory, heap, history>>

\* UPDATE ... SET graph_node_id: nothing else, and no row is created.
Persist(o) ==
    /\ pc[o] \in {"p_link", "p_unlink"}
    /\ \/ /\ row' = IF row = NoEntry THEN row
                    ELSE [row EXCEPT !.node = (pc[o] = "p_link")]
          /\ UNCHANGED history
       \/ Fails(o) /\ UNCHANGED row
    /\ Goto(o, "synced")
    /\ UNCHANGED <<node, memory, heap>>
-----------------------------------------------------------------------------
(* write() *)

Written(o) == {e \in Entry : e.rev = o /\ ~e.node}

BeginWriteCached(o) ==  \* mutant: L0 is populated before L1 is written
    \E e \in Written(o) :
        /\ Begin(o, "write", IF e.layer = "l0" THEN SyncPc(e) ELSE "w_store")
        /\ heap' = [heap EXCEPT ![o] = e]
        /\ ref' = [ref EXCEPT ![o] = o]
        /\ l0' = o
        /\ deleted' = FALSE
        /\ UNCHANGED <<store, vec>>

\* Layer l0 goes to the cache and never to the table.
BeginWrite(o) ==
    \E e \in Written(o) :
        /\ Begin(o, "write", IF e.layer = "l0" THEN SyncPc(e) ELSE "w_store")
        /\ heap' = [heap EXCEPT ![o] = e]
        /\ ref' = [ref EXCEPT ![o] = o]
        /\ l0' = IF e.layer = "l0" THEN o ELSE l0
        /\ deleted' = FALSE
        /\ UNCHANGED <<store, vec>>

\* An UPSERT of the whole row; a failure is the caller's.
WriteRow(o) ==
    /\ pc[o] = "w_store"
    /\ \/ /\ row' = heap[o]
          /\ committed' = committed \cup {o}
          /\ Goto(o, IF heap[o].layer = "l2" THEN "w_index" ELSE SyncPc(heap[o]))
          /\ UNCHANGED <<disturbed, deleted, faults>>
       \/ Fails(o) /\ Return(o) /\ UNCHANGED row
    /\ UNCHANGED <<node, memory, heap>>

\* The text is indexed at once; an embedding, if there is a model to compute
\* it, takes an await more (and is not modelled).
Index(o) ==
    /\ pc[o] = "w_index"
    /\ vec' = TRUE
    /\ \E l \in {"w_embed", SyncPc(heap[o])} : Goto(o, l)
    /\ UNCHANGED <<store, l0, heap, history>>

Embedded(o) ==
    /\ pc[o] = "w_embed"
    /\ Goto(o, SyncPc(heap[o]))
    /\ UNCHANGED <<store, memory, heap, history>>

\* The call is done, but for an l1 write, which reloads the entry for L0.
Settle(o) ==
    /\ pc[o] = "synced"
    /\ IF kind[o] = "write" /\ heap[o].layer = "l1"
       THEN /\ heap' = [heap EXCEPT ![o] = IF row = NoEntry THEN @ ELSE row]
            /\ Goto(o, "w_cache")
       ELSE Return(o) /\ UNCHANGED heap
    /\ UNCHANGED <<store, memory, history>>

CacheWritten(o) ==
    /\ pc[o] = "w_cache"
    /\ l0' = o
    /\ Return(o)
    /\ UNCHANGED <<store, vec, heap, history>>
-----------------------------------------------------------------------------
(* update() *)

BeginUpdate(o) ==
    /\ Begin(o, "update", "u_store")
    /\ UNCHANGED <<store, memory, heap, ref, deleted>>

\* The columns of the delta change, if there is a row.
UpdateRow(o) ==
    /\ pc[o] = "u_store"
    /\ \/ /\ row # NoEntry
          /\ \E e \in BOOLEAN : row' = [row EXCEPT !.rev = o, !.eligible = e]
          /\ committed' = committed \cup {o}
          /\ Goto(o, "u_evict")
          /\ UNCHANGED <<disturbed, deleted, faults>>
       \/ row = NoEntry /\ Return(o) /\ UNCHANGED <<row, history>>
       \/ Fails(o) /\ Return(o) /\ UNCHANGED row
    /\ UNCHANGED <<node, memory, heap>>

EvictNothing(o) ==  \* mutant: the cache is not invalidated
    /\ pc[o] = "u_evict"
    /\ Goto(o, "lookup")
    /\ UNCHANGED <<store, memory, heap, history>>

\* Invalidate L0, then (after the archive) read() the entry and sync it.
Evict(o) ==
    /\ pc[o] = "u_evict"
    /\ l0' = NoObject
    /\ Goto(o, "lookup")
    /\ UNCHANGED <<store, vec, heap, history>>
-----------------------------------------------------------------------------
(* delete() *)

BeginDelete(o) ==
    /\ Begin(o, "delete", "lookup")
    /\ UNCHANGED <<store, memory, heap, ref, deleted>>

\* The event is archived: on to the graph node, if the entry has one ...
Unlink(o) ==
    /\ pc[o] = "d_archived"
    /\ IF heap[ref[o]].node
       THEN Goto(o, "d_drop") /\ UNCHANGED vec
       ELSE Goto(o, "d_row") /\ vec' = FALSE
    /\ UNCHANGED <<store, l0, heap, history>>

DeleteNode(o) ==
    /\ pc[o] = "d_drop"
    /\ \/ node' = FALSE /\ UNCHANGED history
       \/ Fails(o) /\ UNCHANGED node
    /\ Goto(o, "d_vector")
    /\ UNCHANGED <<row, memory, heap>>

\* ... the vectors ...
Unindex(o) ==
    /\ pc[o] = "d_vector"
    /\ vec' = FALSE
    /\ Goto(o, "d_row")
    /\ UNCHANGED <<store, l0, heap, history>>

\* ... the row, whose removal decides what delete() returns ...
DeleteRow(o) ==
    /\ pc[o] = "d_row"
    /\ \/ /\ row' = NoEntry
          /\ Goto(o, IF row # NoEntry THEN "d_removed" ELSE "d_kept")
          /\ UNCHANGED history
       \/ Fails(o) /\ Goto(o, "d_kept") /\ UNCHANGED row
    /\ UNCHANGED <<node, memory, heap>>

\* ... and the cache, always.
EvictDeleted(o) ==
    /\ pc[o] \in {"d_removed", "d_kept"}
    /\ l0' = NoObject
    /\ deleted' = (deleted \/ /\ pc[o] = "d_removed"
                              /\ \A p \in Active : kind[p] # "write")
    /\ Return(o)
    /\ UNCHANGED <<store, vec, heap, committed, disturbed, faults>>
-----------------------------------------------------------------------------
(* consolidate(), as far as this entry goes *)

\* get_by_layer has listed the l1 entries, this one among them: it is
\* promoted or evicted by its importance and age (or left alone: no step).
BeginConsolidate(o) ==
    /\ row # NoEntry /\ row.layer = "l1"
    /\ \E l \in {"c_promote", "c_evict"} : Begin(o, "consolidate", l)
    /\ UNCHANGED <<store, memory, heap, ref, deleted>>

Promote(o) ==
    /\ pc[o] = "c_promote"
    /\ vec' = TRUE
    /\ Return(o)
    /\ UNCHANGED <<store, l0, heap, history>>

ConsolidateRow(o) ==
    /\ pc[o] = "c_evict"
    /\ \/ row' = NoEntry /\ Goto(o, "c_forget") /\ UNCHANGED history
       \/ Fails(o) /\ Return(o) /\ UNCHANGED row
    /\ UNCHANGED <<node, memory, heap>>

Forget(o) ==
    /\ pc[o] = "c_forget"
    /\ l0' = NoObject
    /\ vec' = FALSE
    /\ Return(o)
    /\ UNCHANGED <<store, heap, history>>
-----------------------------------------------------------------------------
(* Environment *)

\* Other entries push this one out of the cache.
EvictLRU ==
    /\ l0 # NoObject
    /\ l0' = NoObject
    /\ UNCHANGED <<store, vec, calls, history>>

\* The process dies and restarts: L0 and L2 are gone, and so are the calls.
Crash ==
    /\ faults < MaxFaults
    /\ faults' = faults + 1
    /\ disturbed' = {}
    /\ l0' = NoObject
    /\ vec' = FALSE
    /\ heap' = [o \in Op |-> NoEntry]
    /\ ref' = [o \in Op |-> NoObject]
    /\ kind' = [o \in Op |-> "none"]
    /\ pc' = [o \in Op |-> IF o \in Active THEN "lost" ELSE pc[o]]
    /\ UNCHANGED <<store, committed, deleted>>

BeginCall(o) == BeginWrite(o) \/ BeginRead(o) \/ BeginUpdate(o)
                    \/ BeginDelete(o) \/ BeginConsolidate(o)
Step(o) ==
    \/ Lookup(o) \/ ReadRow(o) \/ Cache(o)
    \/ AddNode(o) \/ DropNode(o) \/ Link(o) \/ Persist(o)
    \/ WriteRow(o) \/ Index(o) \/ Embedded(o) \/ Settle(o) \/ CacheWritten(o)
    \/ UpdateRow(o) \/ Evict(o)
    \/ Unlink(o) \/ DeleteNode(o) \/ Unindex(o) \/ DeleteRow(o) \/ EvictDeleted(o)
    \/ Promote(o) \/ ConsolidateRow(o) \/ Forget(o)

Next == (\E o \in Op : BeginCall(o) \/ Step(o)) \/ EvictLRU \/ Crash

Spec == Init /\ [][Next]_vars
-----------------------------------------------------------------------------
(* Properties *)

\* Where a call may be: before its first effect, or at an await.
Await == {"lookup", "r_load", "r_cache", "g_add", "g_drop", "g_linked", "g_unlinked",
          "p_link", "p_unlink", "synced", "w_index", "w_embed", "w_cache", "u_evict",
          "d_archived", "d_drop", "d_vector", "d_row", "d_removed", "d_kept",
          "c_promote", "c_evict", "c_forget"}
Starts == {"idle", "w_store", "u_store"}

\* Every variable keeps its type; what L0 holds and a call works on exists.
TypeOK ==
    /\ row \in Entry \cup {NoEntry}
    /\ l0 \in Op \cup {NoObject}
    /\ l0 # NoObject => heap[l0] # NoEntry
    /\ vec \in BOOLEAN
    /\ node \in BOOLEAN
    /\ heap \in [Op -> Entry \cup {NoEntry}]
    /\ ref \in [Op -> Op \cup {NoObject}]
    /\ \A o \in Op : ref[o] # NoObject => heap[ref[o]] # NoEntry
    /\ kind \in [Op -> {"none", "write", "read", "update", "delete",
                        "consolidate"}]
    /\ pc \in [Op -> Await \cup Starts \cup {"done", "lost"}]
    /\ committed \subseteq Op \cup {Seed}
    /\ disturbed \subseteq Op
    /\ deleted \in BOOLEAN
    /\ faults \in 0..MaxFaults

\* "No phantom-entry risk" (unified_memory.py): whatever calls interleave and
\* fail, L0 never serves data of a stored layer that was not in L1.
NoPhantom ==
    l0 # NoObject /\ heap[l0].layer # "l0" => heap[l0].rev \in committed

\* A revision that was replaced or deleted never comes back into the table:
\* the graph backref of a slow call neither undoes a later update nor
\* resurrects a deleted entry.
NoResurrection ==
    [][row' \notin {row, NoEntry} /\ (row = NoEntry \/ row'.rev # row.rev)
        => row'.rev \notin committed]_vars

\* An undisturbed update() ends with the cache equal to the row, and the row
\* and the graph linked as its eligibility asks, whatever races came before.
UpdateHeals ==
    [][\A o \in Op :
        /\ kind[o] = "update" /\ pc[o] = "synced" /\ pc'[o] = "done"
        /\ o \notin disturbed
        => /\ row # NoEntry
           /\ l0 # NoObject => heap[l0] = row
           /\ row.node = row.eligible
           /\ row.eligible => node]_vars

\* For TLC: the calls are interchangeable until they begin.
OpSymmetry == Permutations(Op)
=============================================================================
