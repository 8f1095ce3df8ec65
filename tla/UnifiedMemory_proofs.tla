------------------------- MODULE UnifiedMemory_proofs -------------------------
(***************************************************************************)
(* What the layers of UnifiedMemory promise of one entry, for any calls in *)
(* flight, any failures of the backends and any crashes: no phantom in the *)
(* cache, no revision back from the dead, and an update that heals.        *)
(***************************************************************************)
EXTENDS UnifiedMemory, TLAPS

(* The inductive invariant. *)

Kind == {"none", "write", "read", "update", "delete", "consolidate"}
Typed ==
    /\ row \in Entry \union {NoEntry} /\ l0 \in Op \union {NoObject}
    /\ vec \in BOOLEAN /\ node \in BOOLEAN
    /\ heap \in [Op -> Entry \union {NoEntry}] /\ ref \in [Op -> Op \union {NoObject}]
    /\ kind \in [Op -> Kind] /\ pc \in [Op -> Await \union Starts \union {"done", "lost"}]
    /\ committed \subseteq Op \union {Seed} /\ disturbed \subseteq Op
    /\ deleted \in BOOLEAN /\ faults \in 0..MaxFaults

\* An object that others may be given: not the entry of a write() under way to L1.
Stored(b) == heap[b] # NoEntry /\ (heap[b].layer = "l0" \/ heap[b].rev \in committed)

\* What L1 and L0 hold.
Holding == (row # NoEntry => row.rev \in committed) /\ (l0 # NoObject => Stored(l0))

\* A call stores its revision once, and nobody has its object before.
Fresh(o) ==
    /\ pc[o] \in Starts => o \notin committed
    /\ pc[o] = "idle" => heap[o] = NoEntry
    /\ pc[o] = "w_store" => heap[o] # NoEntry /\ heap[o].rev = o /\ ref[o] = o

\* A call works on a stored object, a write() on its own.
Refers(o) ==
    /\ kind[o] = "write" => ref[o] = o
    /\ ref[o] # NoObject /\ pc[o] # "w_store" => Stored(ref[o])
    /\ pc[o] \in {"r_cache", "w_cache"} => Stored(o)

\* An undisturbed update() is alone, and knows the row it is going to link.
Way == {"u_store", "u_evict", "lookup", "r_load", "r_cache", "g_add", "g_drop",
        "g_linked", "g_unlinked", "p_link", "p_unlink", "synced"}
Own(u) == ref[u] = u /\ l0 \in {NoObject, u}
OnItsWay(u) ==
    /\ pc[u] \in Way /\ (pc[u] # "u_store" => row # NoEntry)
    /\ pc[u] \in {"lookup", "r_load"} => l0 = NoObject
    /\ pc[u] = "r_cache" => heap[u] = row
    /\ pc[u] \in {"g_add", "g_linked"} => Own(u) /\ heap[u] = row /\ row.eligible
    /\ pc[u] \in {"g_drop", "g_unlinked"} => Own(u) /\ heap[u] = row /\ ~ row.eligible
    /\ pc[u] = "p_link" => Own(u) /\ heap[u] = [row EXCEPT !.node = TRUE] /\ row.eligible
    /\ pc[u] = "p_unlink" => Own(u) /\ heap[u] = [row EXCEPT !.node = FALSE] /\ ~ row.eligible
    /\ pc[u] \in {"g_linked", "p_link"} => node
    /\ pc[u] = "synced" => /\ Own(u) /\ heap[u] = row
                           /\ row.eligible => row.node /\ node
                           /\ ~ row.eligible => ~ row.node
Heals(u) == kind[u] = "update" /\ u \in Active /\ u \notin disturbed =>
               Active = {u} /\ OnItsWay(u)

IInv == Typed /\ Holding /\ \A o \in Op : Fresh(o) /\ Refers(o) /\ Heals(o)

-----------------------------------------------------------------------------
(* A step of a call. *)

\* Where the call is next, the object it works on, and what it still is.
Moved(o, stage, b, k) ==
    /\ pc' = [pc EXCEPT ![o] = stage]
    /\ ref' = [ref EXCEPT ![o] = b]
    /\ kind' = [kind EXCEPT ![o] = k]

LEMMA Known ==
    ASSUME IInv, NEW o \in Op
    PROVE  /\ Typed /\ Holding /\ Fresh(o) /\ Refers(o) /\ pc[o] \in Await \union Starts \union {"done", "lost"}
           /\ o # NoObject /\ o # Seed /\ kind[o] \in Kind /\ ref[o] \in Op \union {NoObject}
           /\ heap[o] \in Entry \union {NoEntry}
           /\ kind[o] = "update" /\ o \in Active /\ o \notin disturbed => OnItsWay(o)
  BY SeedAssumption DEF IInv, Typed, Heals

LEMMA Moving ==
    ASSUME IInv, NEW o \in Op, NEW l, NEW b
    PROVE  /\ Goto(o, l) => Moved(o, l, ref[o], kind[o])
           /\ GotoWith(o, l, b) => Moved(o, l, b, kind[o])
           /\ Return(o) => Moved(o, "done", NoObject, "none")
  BY Known DEF Goto, GotoWith, Return, Moved, Typed

LEMMA Moves ==
    ASSUME IInv, NEW o \in Op, o \in Active,
           NEW stage \in Await \union {"done"}, NEW b \in Op \union {NoObject},
           NEW k \in {"none", kind[o]}, Moved(o, stage, b, k),
           committed' \in {committed, committed \union {o}},
           disturbed' \in {disturbed, disturbed \union {o}},
           Typed', Holding',
           \A p \in Op : Stored(p) => Stored(p)',
           \A p \in Op \ {o} : IF heap[p] = NoEntry THEN heap'[p] = NoEntry
                               ELSE heap'[p] # NoEntry /\ heap'[p].rev = heap[p].rev,
           b # NoObject => Stored(b)',
           k = "write" => b = o,
           stage \in {"r_cache", "w_cache"} => Stored(o)',
           k = "update" /\ o \notin disturbed' /\ stage # "done" => OnItsWay(o)'
    PROVE  IInv'
<1> USE Known
<1>1. /\ pc'[o] = stage /\ ref'[o] = b /\ kind'[o] = k
      /\ \A p \in Op \ {o} : pc'[p] = pc[p] /\ ref'[p] = ref[p] /\ kind'[p] = kind[p]
  BY DEF Moved, Typed
<1>2. Fresh(o)' /\ Refers(o)'
  BY <1>1 DEF Fresh, Refers, Starts, Await
<1>3. ASSUME NEW p \in Op \ {o} PROVE Fresh(p)' /\ Refers(p)'
  <2>1. Fresh(p) /\ Refers(p) /\ ref[p] \in Op \union {NoObject}
    OBVIOUS
  <2>2. Fresh(p)'
    BY <1>1, <2>1 DEF Fresh
  <2>3. Refers(p)'
    BY <1>1, <2>1 DEF Refers
  <2> QED BY <2>2, <2>3
<1>4. Active' = IF stage \in {"done", "lost"} THEN Active \ {o} ELSE Active
  BY <1>1 DEF Active, Await
<1>5. ASSUME NEW p \in Op \ {o}, kind'[p] = "update", p \in Active', p \notin disturbed'
      PROVE  FALSE
  <2>1. Heals(p) /\ kind[p] = "update" /\ p \in Active /\ p \notin disturbed
    BY <1>1, <1>4, <1>5 DEF IInv
  <2> QED BY <2>1 DEF Heals
<1>6. ASSUME kind'[o] = "update", o \in Active', o \notin disturbed'
      PROVE  Active' = {o} /\ OnItsWay(o)'
  <2>1. kind[o] = "update" /\ o \notin disturbed /\ stage # "done" /\ stage # "lost" /\ Heals(o)
    BY <1>1, <1>4, <1>6 DEF IInv
  <2>2. Active = {o}
    BY <2>1 DEF Heals
  <2> QED BY <1>1, <1>4, <1>6, <2>1, <2>2
<1>7. \A p \in Op : Heals(p)'
  BY <1>5, <1>6 DEF Heals
<1> QED BY <1>2, <1>3, <1>7 DEF IInv

\* A step that leaves the objects alone.
LEMMA HeapStays ==
    ASSUME UNCHANGED heap, committed \subseteq committed'
    PROVE  /\ \A p \in Op : Stored(p) => Stored(p)'
           /\ \A p \in Op : IF heap[p] = NoEntry THEN heap'[p] = NoEntry
                            ELSE heap'[p] # NoEntry /\ heap'[p].rev = heap[p].rev
  BY DEF Stored

LEMMA Stays ==
    ASSUME IInv, NEW o \in Op, o \in Active,
           NEW stage \in Await \union {"done"}, NEW b \in Op \union {NoObject},
           NEW k \in {"none", kind[o]}, Moved(o, stage, b, k),
           UNCHANGED <<heap, committed>>, disturbed' \in {disturbed, disturbed \union {o}},
           row' \in Entry \union {NoEntry}, row' # NoEntry => row'.rev \in committed,
           l0' \in {l0, NoObject} \/ (l0' = o /\ Stored(o)),
           vec' \in BOOLEAN, node' \in BOOLEAN, deleted' \in BOOLEAN, faults' \in 0..MaxFaults,
           b # NoObject => (b = ref[o] /\ pc[o] # "w_store") \/ Stored(b),
           k = "write" => b = o,
           stage \in {"r_cache", "w_cache"} => Stored(o),
           k = "update" /\ o \notin disturbed' /\ stage # "done" => OnItsWay(o)'
    PROVE  IInv'
<1> USE Known
<1>1. /\ \A p \in Op : Stored(p) => Stored(p)'
      /\ \A p \in Op : IF heap[p] = NoEntry THEN heap'[p] = NoEntry
                       ELSE heap'[p] # NoEntry /\ heap'[p].rev = heap[p].rev
  BY HeapStays
<1>2. Typed'
  <2>1. pc' \in [Op -> Await \union Starts \union {"done", "lost"}] /\ ref' \in [Op -> Op \union {NoObject}] /\ kind' \in [Op -> Kind]
    BY DEF Typed, Moved, Kind
  <2>2. /\ heap' \in [Op -> Entry \union {NoEntry}] /\ committed' \subseteq Op \union {Seed}
        /\ disturbed' \subseteq Op /\ l0' \in Op \union {NoObject}
    BY DEF Typed
  <2> QED BY <2>1, <2>2 DEF Typed
<1>3. Holding'
  BY <1>1 DEF Holding, Stored
<1>4. b # NoObject => Stored(b)'
  BY <1>1 DEF Refers
<1>5. stage \in {"r_cache", "w_cache"} => Stored(o)'
  BY <1>1
<1> QED BY <1>1, <1>2, <1>3, <1>4, <1>5, Moves

\* A step at a stage is one of a call in flight.
LEMMA InFlight ==
    ASSUME NEW o \in Op, pc[o] \notin {"idle", "done", "lost"}
    PROVE  o \in Active
  BY DEF Active

LEMMA Syncing ==
    ASSUME NEW e
    PROVE  /\ SyncPc(e) \in {"g_add", "g_drop", "synced"}
           /\ SyncPc(e) = "g_add" => e.eligible
           /\ SyncPc(e) = "g_drop" => ~ e.eligible
           /\ SyncPc(e) = "synced" => ~ e.eligible /\ ~ e.node
<1>1. CASE e.eligible
  BY <1>1 DEF SyncPc
<1>2. CASE ~ e.eligible /\ e.node
  BY <1>2 DEF SyncPc
<1>3. CASE ~ e.eligible /\ ~ e.node
  BY <1>3 DEF SyncPc
<1> QED BY <1>1, <1>2, <1>3

LEMMA Finding ==
    ASSUME IInv, NEW o \in Op, NEW b, NEW e, Found(o, b, e)
    PROVE  \/ Moved(o, "done", NoObject, "none")
           \/ kind[o] = "update" /\ Moved(o, SyncPc(e), b, kind[o])
           \/ kind[o] = "delete" /\ Moved(o, "d_archived", b, kind[o])
  BY Moving DEF Found

LEMMA Values ==
    ASSUME IInv
    PROVE  /\ row \in Entry \union {NoEntry} /\ (row # NoEntry => row.rev \in committed)
           /\ vec \in BOOLEAN /\ node \in BOOLEAN /\ deleted \in BOOLEAN /\ faults \in 0..MaxFaults
           /\ l0 \in Op \union {NoObject} /\ (l0 # NoObject => Stored(l0))
           /\ \A o \in Op : kind[o] = "write" => ref[o] = o
  BY DEF IInv, Typed, Holding, Refers

\* A stage no undisturbed update() is at.
LEMMA OffTheWay ==
    ASSUME IInv, NEW o \in Op, o \in Active, pc[o] \notin Way, kind[o] = "update"
    PROVE  o \in disturbed
  BY Known DEF OnItsWay

LEMMA Failing ==
    ASSUME IInv, NEW o \in Op, Fails(o)
    PROVE  /\ faults' \in 0..MaxFaults /\ UNCHANGED <<committed, deleted>>
           /\ disturbed' \in {disturbed, disturbed \union {o}}
           /\ kind[o] = "update" => o \in disturbed'
  BY Known, FaultAssumption DEF Fails, Typed

\* The call is given the row as it is.
LEMMA Loading ==
    ASSUME IInv, NEW o \in Op, heap' = [heap EXCEPT ![o] = row], row # NoEntry,
           UNCHANGED committed
    PROVE  /\ Stored(o)' /\ heap'[o] = row /\ \A p \in Op : Stored(p) => Stored(p)'
           /\ \A p \in Op \ {o} : IF heap[p] = NoEntry THEN heap'[p] = NoEntry
                               ELSE heap'[p] # NoEntry /\ heap'[p].rev = heap[p].rev
           /\ heap' \in [Op -> Entry \union {NoEntry}]
<1>1. heap \in [Op -> Entry \union {NoEntry}] /\ row.rev \in committed
      /\ row \in Entry \union {NoEntry}
  BY DEF IInv, Typed, Holding
<1> QED BY <1>1 DEF Stored

-----------------------------------------------------------------------------
(* read() *)

LEMMA LookupKeeps ==
    ASSUME IInv, NEW o \in Op, Lookup(o)
    PROVE  IInv'
<1> USE Known
<1>1. /\ pc[o] = "lookup" /\ o \in Active
      /\ UNCHANGED <<row, node, l0, vec, heap, committed, disturbed, deleted, faults>>
  BY InFlight DEF Lookup, store, memory, history
<1>3. CASE l0 # NoObject
  <2>1. kind[o] = "update" => o \in disturbed
    BY <1>1, <1>3 DEF OnItsWay
  <2>2. \/ Moved(o, "done", NoObject, "none")
        \/ kind[o] = "update" /\ Moved(o, SyncPc(heap[l0]), l0, kind[o])
        \/ kind[o] = "delete" /\ Moved(o, "d_archived", l0, kind[o])
    BY <1>3, Finding DEF Lookup
  <2>3. CASE Moved(o, "done", NoObject, "none")
    BY <1>1, Values, <2>3, Stays DEF Await
  <2>4. CASE kind[o] = "update" /\ Moved(o, SyncPc(heap[l0]), l0, kind[o])
    BY <1>1, Values, <1>3, <2>1, <2>4, Syncing, Stays DEF Await
  <2>5. CASE kind[o] = "delete" /\ Moved(o, "d_archived", l0, kind[o])
    BY <1>1, Values, <1>3, <2>5, Stays DEF Await
  <2> QED BY <2>2, <2>3, <2>4, <2>5
<1>4. CASE l0 = NoObject
  <2>1. Moved(o, "r_load", ref[o], kind[o])
    BY <1>4, Moving DEF Lookup
  <2>2. pc'[o] = "r_load" /\ ref'[o] = ref[o]
    BY <2>1 DEF Moved, Typed
  <2>4. kind[o] = "update" /\ o \notin disturbed' => OnItsWay(o)'
    BY <1>1, <1>4, <2>2 DEF OnItsWay, Way
  <2> QED BY <1>1, Values, <2>1, <2>4, Stays DEF Await
<1> QED BY <1>3, <1>4

LEMMA ReadRowKeeps ==
    ASSUME IInv, NEW o \in Op, ReadRow(o)
    PROVE  IInv'
<1> USE Known, Values
<1>1. /\ pc[o] = "r_load" /\ o \in Active
      /\ UNCHANGED <<row, node, l0, vec, committed, disturbed, deleted, faults>>
  BY InFlight DEF ReadRow, store, memory, history
<1>2. CASE row = NoEntry
  <2>1. Moved(o, "done", NoObject, "none") /\ UNCHANGED heap
    BY <1>2, Moving DEF ReadRow
  <2> QED BY <1>1, <2>1, Stays DEF Await
<1>3. CASE row # NoEntry
  <2>1. Moved(o, "r_cache", ref[o], kind[o]) /\ heap' = [heap EXCEPT ![o] = row]
    BY <1>3, Moving DEF ReadRow
  <2>2. /\ Stored(o)' /\ heap'[o] = row /\ \A p \in Op : Stored(p) => Stored(p)'
        /\ \A p \in Op \ {o} : IF heap[p] = NoEntry THEN heap'[p] = NoEntry
                               ELSE heap'[p] # NoEntry /\ heap'[p].rev = heap[p].rev
        /\ heap' \in [Op -> Entry \union {NoEntry}]
    BY <1>1, <1>3, <2>1, Loading
  <2>3. pc'[o] = "r_cache" /\ pc' \in [Op -> Await \union Starts \union {"done", "lost"}]
        /\ ref' \in [Op -> Op \union {NoObject}] /\ kind' \in [Op -> Kind]
    BY <2>1 DEF Moved, Typed, Await
  <2>4. Typed' /\ Holding'
    BY <1>1, <2>2, <2>3 DEF Typed, Holding
  <2>5. kind[o] = "update" /\ o \notin disturbed' => OnItsWay(o)'
    BY <1>1, <1>3, <2>2, <2>3 DEF OnItsWay, Way
  <2>6. PICK b \in Op \union {NoObject} : b = ref[o]
    OBVIOUS
  <2>7. b # NoObject => Stored(b)'
    BY <1>1, <2>2, <2>6 DEF Refers
  <2>8. Moved(o, "r_cache", b, kind[o])
    BY <2>1, <2>6
  <2> QED BY <1>1, <2>2, <2>4, <2>5, <2>6, <2>7, <2>8, Moves DEF Await
<1> QED BY <1>2, <1>3

LEMMA CacheKeeps ==
    ASSUME IInv, NEW o \in Op, Cache(o)
    PROVE  IInv'
<1> USE Known, Values
<1>1. /\ pc[o] = "r_cache" /\ o \in Active /\ l0' = o /\ Stored(o)
      /\ UNCHANGED <<row, node, vec, heap, committed, disturbed, deleted, faults>>
  BY InFlight DEF Cache, store, memory, history, Refers
<1>2. \/ Moved(o, "done", NoObject, "none")
      \/ kind[o] = "update" /\ Moved(o, SyncPc(heap[o]), o, kind[o])
      \/ kind[o] = "delete" /\ Moved(o, "d_archived", o, kind[o])
  BY Finding DEF Cache
<1>3. CASE Moved(o, "done", NoObject, "none")
  BY <1>1, <1>3, Stays DEF Await
<1>4. CASE kind[o] = "update" /\ Moved(o, SyncPc(heap[o]), o, kind[o])
  <2> DEFINE to == SyncPc(heap[o])
  <2>1. /\ to \in {"g_add", "g_drop", "synced"}
        /\ to = "g_add" => heap[o].eligible
        /\ to = "g_drop" => ~ heap[o].eligible
        /\ to = "synced" => ~ heap[o].eligible /\ ~ heap[o].node
    BY Syncing
  <2> HIDE DEF to
  <2>2. pc'[o] = to /\ ref'[o] = o
    BY <1>4 DEF Moved, Typed, to
  <2>3. o \notin disturbed' => OnItsWay(o)'
    BY <1>1, <1>4, <2>1, <2>2 DEF OnItsWay, Way, Own
  <2>4. Moved(o, to, o, kind[o])
    BY <1>4 DEF to
  <2> QED BY <1>1, <1>4, <2>1, <2>3, <2>4, Stays DEF Await
<1>5. CASE kind[o] = "delete" /\ Moved(o, "d_archived", o, kind[o])
  BY <1>1, <1>5, Stays DEF Await
<1> QED BY <1>2, <1>3, <1>4, <1>5

-----------------------------------------------------------------------------
(* _sync_graph() *)

LEMMA AddNodeKeeps ==
    ASSUME IInv, NEW o \in Op, AddNode(o)
    PROVE  IInv'
<1> USE Known, Values
<1>1. pc[o] = "g_add" /\ o \in Active /\ UNCHANGED <<row, l0, vec, heap>>
  BY InFlight DEF AddNode, memory
<1>2. CASE node' = TRUE /\ Goto(o, "g_linked") /\ UNCHANGED history
  <2>1. Moved(o, "g_linked", ref[o], kind[o]) /\ UNCHANGED <<committed, disturbed, deleted, faults>>
    BY <1>2, Moving DEF history
  <2>2. pc'[o] = "g_linked" /\ ref'[o] = ref[o]
    BY <2>1 DEF Moved, Typed
  <2>3. kind[o] = "update" /\ o \notin disturbed' => OnItsWay(o)'
    BY <1>1, <1>2, <2>1, <2>2 DEF OnItsWay, Way, Own
  <2> QED BY <1>1, <1>2, <2>1, <2>3, Stays DEF Await
<1>3. CASE Fails(o) /\ Goto(o, "g_unlinked") /\ UNCHANGED node
  <2>1. Moved(o, "g_unlinked", ref[o], kind[o])
    BY <1>3, Moving
  <2> QED BY <1>1, <1>3, <2>1, Failing, Stays DEF Await
<1> QED BY <1>2, <1>3 DEF AddNode

LEMMA DropNodeKeeps ==
    ASSUME IInv, NEW o \in Op, DropNode(o)
    PROVE  IInv'
<1> USE Known, Values
<1>1. /\ pc[o] = "g_drop" /\ o \in Active /\ UNCHANGED <<row, l0, vec, heap>>
      /\ Moved(o, "g_unlinked", ref[o], kind[o])
  BY InFlight, Moving DEF DropNode, memory
<1>2. CASE node' = FALSE /\ UNCHANGED history
  <2>1. UNCHANGED <<committed, disturbed, deleted, faults>>
    BY <1>2 DEF history
  <2>2. pc'[o] = "g_unlinked" /\ ref'[o] = ref[o]
    BY <1>1 DEF Moved, Typed
  <2>3. kind[o] = "update" /\ o \notin disturbed' => OnItsWay(o)'
    BY <1>1, <1>2, <2>1, <2>2 DEF OnItsWay, Way, Own
  <2> QED BY <1>1, <1>2, <2>1, <2>3, Stays DEF Await
<1>3. CASE Fails(o) /\ UNCHANGED node
  BY <1>1, <1>3, Failing, Stays DEF Await
<1> QED BY <1>2, <1>3 DEF DropNode

LEMMA LinkKeeps ==
    ASSUME IInv, NEW o \in Op, Link(o)
    PROVE  IInv'
<1> USE Known, Values
<1> DEFINE linked == pc[o] = "g_linked"
           to == IF heap[ref[o]].node = linked THEN "synced" ELSE IF linked THEN "p_link" ELSE "p_unlink"
<1>1. /\ pc[o] \in {"g_linked", "g_unlinked"} /\ o \in Active /\ Goto(o, to)
      /\ UNCHANGED <<row, node, l0, vec, committed, disturbed, deleted, faults>>
      /\ heap' = [heap EXCEPT ![ref[o]].node = linked]
  BY InFlight DEF Link, store, memory, history
<1>2. to \in {"synced", "p_link", "p_unlink"} /\ Moved(o, to, ref[o], kind[o])
  BY <1>1, Moving
<1>3. PICK b \in Op \union {NoObject} : b = ref[o]
  OBVIOUS
<1>4. b # NoObject => heap[b] \in Entry /\ Stored(b)
  BY <1>1, <1>3 DEF Refers, Stored
<1>5. /\ \A p \in Op : p # b => heap'[p] = heap[p]
      /\ b # NoObject => /\ heap'[b] = [heap[b] EXCEPT !.node = linked] /\ heap'[b] \in Entry
                         /\ heap'[b].rev = heap[b].rev /\ heap'[b].layer = heap[b].layer
      /\ heap' \in [Op -> Entry \union {NoEntry}]
  <2>1. heap \in [Op -> Entry \union {NoEntry}]
    BY DEF Typed
  <2>2. CASE b = NoObject
    BY <1>1, <1>3, <2>1, <2>2, SeedAssumption
  <2>3. CASE b \in Op
    <3>1. heap'[b] = [heap[b] EXCEPT !.node = linked] /\ \A p \in Op : p # b => heap'[p] = heap[p]
      BY <1>1, <1>3, <2>1, <2>3
    <3>2. heap[b] \in Entry
      BY <1>4, <2>3
    <3>3. /\ heap'[b] \in Entry /\ heap'[b].rev = heap[b].rev /\ heap'[b].layer = heap[b].layer
      BY <3>1, <3>2 DEF Entry
    <3> QED BY <1>1, <1>3, <2>1, <2>3, <3>1, <3>3
  <2> QED BY <2>2, <2>3
<1>6. \A p \in Op : Stored(p) => Stored(p)'
  BY <1>1, <1>4, <1>5, EntryAssumption DEF Stored
<1>7. \A p \in Op : IF heap[p] = NoEntry THEN heap'[p] = NoEntry
                    ELSE heap'[p] # NoEntry /\ heap'[p].rev = heap[p].rev
  BY <1>4, <1>5, EntryAssumption
<1> HIDE DEF to
<1>8. /\ pc'[o] = to /\ ref'[o] = b /\ pc' \in [Op -> Await \union Starts \union {"done", "lost"}]
      /\ ref' \in [Op -> Op \union {NoObject}] /\ kind' \in [Op -> Kind]
  BY <1>2, <1>3 DEF Moved, Typed, Await
<1>9. Typed' /\ Holding'
  BY <1>1, <1>5, <1>6, <1>8 DEF Typed, Holding
<1>10. ASSUME kind[o] = "update", o \notin disturbed'
       PROVE  OnItsWay(o)'
  <2>1. /\ b = o /\ heap[o] = row /\ row # NoEntry /\ l0 \in {NoObject, o}
        /\ heap'[o] = [row EXCEPT !.node = linked]
        /\ row \in Entry
    BY <1>1, <1>3, <1>5, <1>10 DEF OnItsWay, Own
  <2>2. CASE linked
    <3>1. node /\ row.eligible /\ (row.node => to = "synced") /\ (~ row.node => to = "p_link")
      BY <1>1, <1>3, <1>10, <2>1, <2>2 DEF OnItsWay, to, Entry
    <3>2. row.node => [row EXCEPT !.node = TRUE] = row
      BY <2>1 DEF Entry
    <3> QED BY <1>1, <1>8, <2>1, <2>2, <3>1, <3>2 DEF OnItsWay, Way, Own
  <2>3. CASE ~ linked
    <3>1. ~ row.eligible /\ (~ row.node => to = "synced") /\ (row.node => to = "p_unlink")
      BY <1>1, <1>3, <1>10, <2>1, <2>3 DEF OnItsWay, to, Entry
    <3>2. ~ row.node => [row EXCEPT !.node = FALSE] = row
      BY <2>1 DEF Entry
    <3> QED BY <1>1, <1>8, <2>1, <2>3, <3>1, <3>2 DEF OnItsWay, Way, Own
  <2> QED BY <2>2, <2>3
<1>11. Moved(o, to, b, kind[o]) /\ (b # NoObject => Stored(b)') /\ (kind[o] = "write" => b = o)
  BY <1>2, <1>3, <1>4, <1>6
<1> QED BY <1>1, <1>2, <1>6, <1>7, <1>9, <1>10, <1>11, Moves DEF Await

LEMMA PersistKeeps ==
    ASSUME IInv, NEW o \in Op, Persist(o)
    PROVE  IInv'
<1> USE Known, Values
<1>1. /\ pc[o] \in {"p_link", "p_unlink"} /\ o \in Active /\ UNCHANGED <<node, l0, vec, heap>>
      /\ Moved(o, "synced", ref[o], kind[o])
  BY InFlight, Moving DEF Persist, memory
<1>2. CASE UNCHANGED history /\ row' = IF row = NoEntry THEN row
                                       ELSE [row EXCEPT !.node = (pc[o] = "p_link")]
  <2>1. UNCHANGED <<committed, disturbed, deleted, faults>>
    BY <1>2 DEF history
  <2>2. pc'[o] = "synced" /\ ref'[o] = ref[o]
    BY <1>1 DEF Moved, Typed
  <2>3. row' \in Entry \union {NoEntry} /\ (row' # NoEntry => row'.rev \in committed)
    BY <1>2 DEF Entry
  <2>4. kind[o] = "update" /\ o \notin disturbed' => OnItsWay(o)'
    <3> SUFFICES ASSUME kind[o] = "update", o \notin disturbed' PROVE OnItsWay(o)'
      OBVIOUS
    <3>1. row # NoEntry /\ row \in Entry /\ OnItsWay(o)
      BY <1>1, <2>1 DEF OnItsWay
    <3>2. row' # NoEntry
      BY <1>2, <3>1, EntryAssumption DEF Entry
    <3>3. CASE pc[o] = "p_link"
      <4>1. row' = [row EXCEPT !.node = TRUE] /\ row'.eligible = row.eligible /\ row'.node
        BY <1>2, <3>1, <3>3 DEF Entry
      <4> QED BY <1>1, <2>2, <3>1, <3>2, <3>3, <4>1 DEF OnItsWay, Way, Own
    <3>4. CASE pc[o] = "p_unlink"
      <4>1. row' = [row EXCEPT !.node = FALSE] /\ row'.eligible = row.eligible /\ ~ row'.node
        BY <1>2, <3>1, <3>4 DEF Entry
      <4> QED BY <1>1, <2>2, <3>1, <3>2, <3>4, <4>1 DEF OnItsWay, Way, Own
    <3> QED BY <1>1, <3>3, <3>4
  <2> QED BY <1>1, <2>1, <2>3, <2>4, Stays DEF Await
<1>3. CASE Fails(o) /\ UNCHANGED row
  BY <1>1, <1>3, Failing, Stays DEF Await
<1> QED BY <1>2, <1>3 DEF Persist

-----------------------------------------------------------------------------
(* write() *)

LEMMA WriteRowKeeps ==
    ASSUME IInv, NEW o \in Op, WriteRow(o)
    PROVE  IInv'
<1> USE Known, Values
<1>1. /\ pc[o] = "w_store" /\ o \in Active /\ UNCHANGED <<node, l0, vec, heap>>
      /\ heap[o] \in Entry /\ heap[o].rev = o /\ ref[o] = o /\ o \notin committed
  BY InFlight DEF WriteRow, memory, Fresh, Starts
<1>2. kind[o] = "update" => o \in disturbed
  BY <1>1, OffTheWay DEF Way
<1>3. CASE /\ row' = heap[o] /\ committed' = committed \union {o}
           /\ Goto(o, IF heap[o].layer = "l2" THEN "w_index" ELSE SyncPc(heap[o]))
           /\ UNCHANGED <<disturbed, deleted, faults>>
  <2> DEFINE to == IF heap[o].layer = "l2" THEN "w_index" ELSE SyncPc(heap[o])
  <2>1. to \in {"w_index", "g_add", "g_drop", "synced"}
    BY Syncing
  <2>2. Moved(o, to, ref[o], kind[o])
    BY <1>3, Moving
  <2> HIDE DEF to
  <2>3. /\ \A p \in Op : Stored(p) => Stored(p)'
        /\ \A p \in Op : IF heap[p] = NoEntry THEN heap'[p] = NoEntry
                         ELSE heap'[p] # NoEntry /\ heap'[p].rev = heap[p].rev
    BY <1>1, <1>3, HeapStays
  <2>4. Stored(o)' /\ Moved(o, to, o, kind[o])
    BY <1>1, <1>3, <2>2, EntryAssumption DEF Stored
  <2>5. /\ pc' \in [Op -> Await \union Starts \union {"done", "lost"}]
        /\ ref' \in [Op -> Op \union {NoObject}] /\ kind' \in [Op -> Kind]
    BY <2>1, <2>2 DEF Moved, Typed, Await
  <2>6. Typed' /\ Holding'
    BY <1>1, <1>3, <2>3, <2>5 DEF Typed, Holding
  <2> QED BY <1>1, <1>2, <1>3, <2>1, <2>3, <2>4, <2>6, Moves DEF Await
<1>4. CASE Fails(o) /\ Return(o) /\ UNCHANGED row
  <2>1. Moved(o, "done", NoObject, "none")
    BY <1>4, Moving
  <2> QED BY <1>1, <1>4, <2>1, Failing, Stays DEF Await
<1> QED BY <1>3, <1>4 DEF WriteRow

LEMMA IndexKeeps ==
    ASSUME IInv, NEW o \in Op, Index(o)
    PROVE  IInv'
<1> USE Known, Values
<1>1. /\ pc[o] = "w_index" /\ o \in Active /\ vec' = TRUE
      /\ UNCHANGED <<row, node, l0, heap, committed, disturbed, deleted, faults>>
  BY InFlight DEF Index, store, history
<1>2. PICK to \in {"w_embed", "g_add", "g_drop", "synced"} : Goto(o, to)
  BY Syncing DEF Index
<1>3. Moved(o, to, ref[o], kind[o])
  BY <1>2, Moving
<1>4. kind[o] = "update" => o \in disturbed
  BY <1>1, OffTheWay DEF Way
<1> QED BY <1>1, <1>3, <1>4, Stays DEF Await

LEMMA EmbeddedKeeps ==
    ASSUME IInv, NEW o \in Op, Embedded(o)
    PROVE  IInv'
<1> USE Known, Values
<1>1. /\ pc[o] = "w_embed" /\ o \in Active
      /\ UNCHANGED <<row, node, l0, vec, heap, committed, disturbed, deleted, faults>>
  BY InFlight DEF Embedded, store, memory, history
<1>2. PICK to \in {"g_add", "g_drop", "synced"} : Goto(o, to)
  BY Syncing DEF Embedded
<1>3. Moved(o, to, ref[o], kind[o])
  BY <1>2, Moving
<1>4. kind[o] = "update" => o \in disturbed
  BY <1>1, OffTheWay DEF Way
<1> QED BY <1>1, <1>3, <1>4, Stays DEF Await

LEMMA SettleKeeps ==
    ASSUME IInv, NEW o \in Op, Settle(o)
    PROVE  IInv'
<1> USE Known, Values
<1>1. /\ pc[o] = "synced" /\ o \in Active
      /\ UNCHANGED <<row, node, l0, vec, committed, disturbed, deleted, faults>>
  BY InFlight DEF Settle, store, memory, history
<1>2. CASE ~ (kind[o] = "write" /\ heap[o].layer = "l1")
  <2>1. Moved(o, "done", NoObject, "none") /\ UNCHANGED heap
    BY <1>2, Moving DEF Settle
  <2> QED BY <1>1, <2>1, Stays DEF Await
<1>3. CASE kind[o] = "write" /\ heap[o].layer = "l1"
  <2>1. /\ heap' = [heap EXCEPT ![o] = IF row = NoEntry THEN @ ELSE row]
        /\ Moved(o, "w_cache", o, kind[o]) /\ Stored(o)
    BY <1>1, <1>3, Moving DEF Settle, Refers
  <2>2. CASE row = NoEntry
    <3>1. UNCHANGED heap
      BY <2>1, <2>2 DEF Typed
    <3> QED BY <1>1, <1>3, <2>1, <3>1, Stays DEF Await
  <2>3. CASE row # NoEntry
    <3>1. heap' = [heap EXCEPT ![o] = row]
      BY <2>1, <2>3
    <3>2. /\ Stored(o)' /\ \A p \in Op : Stored(p) => Stored(p)'
          /\ \A p \in Op \ {o} : IF heap[p] = NoEntry THEN heap'[p] = NoEntry
                                 ELSE heap'[p] # NoEntry /\ heap'[p].rev = heap[p].rev
          /\ heap' \in [Op -> Entry \union {NoEntry}]
      BY <1>1, <2>3, <3>1, Loading
    <3>3. /\ pc' \in [Op -> Await \union Starts \union {"done", "lost"}]
          /\ ref' \in [Op -> Op \union {NoObject}] /\ kind' \in [Op -> Kind]
      BY <2>1 DEF Moved, Typed, Await
    <3>4. Typed' /\ Holding'
      BY <1>1, <3>2, <3>3 DEF Typed, Holding
    <3> QED BY <1>1, <1>3, <2>1, <3>2, <3>4, Moves DEF Await
  <2> QED BY <2>2, <2>3
<1> QED BY <1>2, <1>3

LEMMA CacheWrittenKeeps ==
    ASSUME IInv, NEW o \in Op, CacheWritten(o)
    PROVE  IInv'
<1> USE Known, Values
<1>1. /\ pc[o] = "w_cache" /\ o \in Active /\ l0' = o /\ Stored(o)
      /\ UNCHANGED <<row, node, vec, heap, committed, disturbed, deleted, faults>>
  BY InFlight DEF CacheWritten, store, memory, history, Refers
<1>2. Moved(o, "done", NoObject, "none")
  BY Moving DEF CacheWritten
<1> QED BY <1>1, <1>2, Stays DEF Await

-----------------------------------------------------------------------------
(* update() *)

LEMMA UpdateRowKeeps ==
    ASSUME IInv, NEW o \in Op, UpdateRow(o)
    PROVE  IInv'
<1> USE Known, Values
<1>1. pc[o] = "u_store" /\ o \in Active /\ UNCHANGED <<node, l0, vec, heap>>
  BY InFlight DEF UpdateRow, memory
<1>2. CASE /\ row # NoEntry
           /\ \E e \in BOOLEAN : row' = [row EXCEPT !.rev = o, !.eligible = e]
           /\ committed' = committed \union {o} /\ Goto(o, "u_evict")
           /\ UNCHANGED <<disturbed, deleted, faults>>
  <2>1. row' \in Entry /\ row'.rev = o /\ row' # NoEntry
    <3>1. PICK e \in BOOLEAN : row' = [row EXCEPT !.rev = o, !.eligible = e]
      BY <1>2
    <3>2. row \in Entry
      BY <1>2
    <3>3. row' \in Entry /\ row'.rev = o
      BY <3>1, <3>2 DEF Entry
    <3> QED BY <3>3, EntryAssumption
  <2>2. PICK b \in Op \union {NoObject} : b = ref[o]
    OBVIOUS
  <2>3. Moved(o, "u_evict", b, kind[o])
    BY <1>2, <2>2, Moving
  <2>4. pc'[o] = "u_evict"
    BY <2>3 DEF Moved, Typed
  <2>5. /\ \A p \in Op : Stored(p) => Stored(p)'
        /\ \A p \in Op : IF heap[p] = NoEntry THEN heap'[p] = NoEntry
                         ELSE heap'[p] # NoEntry /\ heap'[p].rev = heap[p].rev
    BY <1>1, <1>2, HeapStays
  <2>6. /\ pc' \in [Op -> Await \union Starts \union {"done", "lost"}]
        /\ ref' \in [Op -> Op \union {NoObject}] /\ kind' \in [Op -> Kind]
    BY <2>3 DEF Moved, Typed, Await
  <2>7. Typed' /\ Holding'
    BY <1>1, <1>2, <2>1, <2>5, <2>6 DEF Typed, Holding
  <2>8. OnItsWay(o)'
    BY <2>1, <2>4 DEF OnItsWay, Way
  <2>9. b # NoObject => Stored(b)'
    BY <1>1, <2>2, <2>5 DEF Refers
  <2> QED BY <1>1, <1>2, <2>2, <2>3, <2>5, <2>7, <2>8, <2>9, Moves DEF Await
<1>3. CASE row = NoEntry /\ Return(o) /\ UNCHANGED <<row, history>>
  <2>1. /\ Moved(o, "done", NoObject, "none")
        /\ UNCHANGED <<row, committed, disturbed, deleted, faults>>
    BY <1>3, Moving DEF history
  <2> QED BY <1>1, <2>1, Stays DEF Await
<1>4. CASE Fails(o) /\ Return(o) /\ UNCHANGED row
  <2>1. Moved(o, "done", NoObject, "none")
    BY <1>4, Moving
  <2> QED BY <1>1, <1>4, <2>1, Failing, Stays DEF Await
<1> QED BY <1>2, <1>3, <1>4 DEF UpdateRow

LEMMA EvictKeeps ==
    ASSUME IInv, NEW o \in Op, Evict(o)
    PROVE  IInv'
<1> USE Known, Values
<1>1. /\ pc[o] = "u_evict" /\ o \in Active /\ l0' = NoObject
      /\ UNCHANGED <<row, node, vec, heap, committed, disturbed, deleted, faults>>
      /\ Moved(o, "lookup", ref[o], kind[o])
  BY InFlight, Moving DEF Evict, store, history
<1>2. pc'[o] = "lookup"
  BY <1>1 DEF Moved, Typed
<1>3. kind[o] = "update" /\ o \notin disturbed' => OnItsWay(o)'
  BY <1>1, <1>2 DEF OnItsWay, Way
<1> QED BY <1>1, <1>3, Stays DEF Await

-----------------------------------------------------------------------------
(* delete() and consolidate() *)

LEMMA UnlinkKeeps ==
    ASSUME IInv, NEW o \in Op, Unlink(o)
    PROVE  IInv'
<1> USE Known, Values
<1>1. /\ pc[o] = "d_archived" /\ o \in Active /\ vec' \in BOOLEAN
      /\ UNCHANGED <<row, node, l0, heap, committed, disturbed, deleted, faults>>
  BY InFlight DEF Unlink, store, history
<1>2. PICK to \in {"d_drop", "d_row"} : Goto(o, to)
  BY DEF Unlink
<1>3. Moved(o, to, ref[o], kind[o])
  BY <1>2, Moving
<1>4. kind[o] = "update" => o \in disturbed
  BY <1>1, OffTheWay DEF Way
<1> QED BY <1>1, <1>3, <1>4, Stays DEF Await

LEMMA DeleteNodeKeeps ==
    ASSUME IInv, NEW o \in Op, DeleteNode(o)
    PROVE  IInv'
<1> USE Known, Values
<1>1. /\ pc[o] = "d_drop" /\ o \in Active /\ UNCHANGED <<row, l0, vec, heap>>
      /\ Moved(o, "d_vector", ref[o], kind[o])
  BY InFlight, Moving DEF DeleteNode, memory
<1>2. kind[o] = "update" => o \in disturbed
  BY <1>1, OffTheWay DEF Way
<1>3. CASE node' = FALSE /\ UNCHANGED history
  BY <1>1, <1>2, <1>3, Stays DEF Await, history
<1>4. CASE Fails(o) /\ UNCHANGED node
  BY <1>1, <1>4, Failing, Stays DEF Await
<1> QED BY <1>3, <1>4 DEF DeleteNode

LEMMA UnindexKeeps ==
    ASSUME IInv, NEW o \in Op, Unindex(o)
    PROVE  IInv'
<1> USE Known, Values
<1>1. /\ pc[o] = "d_vector" /\ o \in Active /\ vec' = FALSE
      /\ UNCHANGED <<row, node, l0, heap, committed, disturbed, deleted, faults>>
  BY InFlight DEF Unindex, store, memory, history
<1>2. Moved(o, "d_row", ref[o], kind[o])
  BY Moving DEF Unindex
<1>3. kind[o] = "update" => o \in disturbed
  BY <1>1, OffTheWay DEF Way
<1> QED BY <1>1, <1>2, <1>3, Stays DEF Await

LEMMA DeleteRowKeeps ==
    ASSUME IInv, NEW o \in Op, DeleteRow(o)
    PROVE  IInv'
<1> USE Known, Values
<1>1. pc[o] = "d_row" /\ o \in Active /\ UNCHANGED <<node, l0, vec, heap>>
  BY InFlight DEF DeleteRow, memory
<1>2. kind[o] = "update" => o \in disturbed
  BY <1>1, OffTheWay DEF Way
<1>3. PICK to \in {"d_removed", "d_kept"} : Goto(o, to)
  BY DEF DeleteRow
<1>4. Moved(o, to, ref[o], kind[o])
  BY <1>3, Moving
<1>5. CASE row' = NoEntry /\ UNCHANGED history
  BY <1>1, <1>2, <1>4, <1>5, Stays DEF Await, history
<1>6. CASE Fails(o) /\ UNCHANGED row
  BY <1>1, <1>4, <1>6, Failing, Stays DEF Await
<1> QED BY <1>5, <1>6 DEF DeleteRow

LEMMA EvictDeletedKeeps ==
    ASSUME IInv, NEW o \in Op, EvictDeleted(o)
    PROVE  IInv'
<1> USE Known, Values
<1>1. /\ pc[o] \in {"d_removed", "d_kept"} /\ o \in Active /\ l0' = NoObject
      /\ UNCHANGED <<row, node, vec, heap, committed, disturbed, faults>>
      /\ Moved(o, "done", NoObject, "none")
  BY InFlight, Moving DEF EvictDeleted, store
<1>2. deleted' \in BOOLEAN
  BY DEF EvictDeleted
<1> QED BY <1>1, <1>2, Stays DEF Await

LEMMA PromoteKeeps ==
    ASSUME IInv, NEW o \in Op, Promote(o)
    PROVE  IInv'
<1> USE Known, Values
<1>1. /\ pc[o] = "c_promote" /\ o \in Active /\ vec' = TRUE
      /\ UNCHANGED <<row, node, l0, heap, committed, disturbed, deleted, faults>>
  BY InFlight DEF Promote, store, memory, history
<1>2. Moved(o, "done", NoObject, "none")
  BY Moving DEF Promote
<1> QED BY <1>1, <1>2, Stays DEF Await

LEMMA ConsolidateRowKeeps ==
    ASSUME IInv, NEW o \in Op, ConsolidateRow(o)
    PROVE  IInv'
<1> USE Known, Values
<1>1. pc[o] = "c_evict" /\ o \in Active /\ UNCHANGED <<node, l0, vec, heap>>
  BY InFlight DEF ConsolidateRow, memory
<1>2. kind[o] = "update" => o \in disturbed
  BY <1>1, OffTheWay DEF Way
<1>3. CASE row' = NoEntry /\ Goto(o, "c_forget") /\ UNCHANGED history
  <2>1. Moved(o, "c_forget", ref[o], kind[o])
    BY <1>3, Moving
  <2> QED BY <1>1, <1>2, <1>3, <2>1, Stays DEF Await, history
<1>4. CASE Fails(o) /\ Return(o) /\ UNCHANGED row
  <2>1. Moved(o, "done", NoObject, "none")
    BY <1>4, Moving
  <2> QED BY <1>1, <1>4, <2>1, Failing, Stays DEF Await
<1> QED BY <1>3, <1>4 DEF ConsolidateRow

LEMMA ForgetKeeps ==
    ASSUME IInv, NEW o \in Op, Forget(o)
    PROVE  IInv'
<1> USE Known, Values
<1>1. /\ pc[o] = "c_forget" /\ o \in Active /\ l0' = NoObject /\ vec' = FALSE
      /\ UNCHANGED <<row, node, heap, committed, disturbed, deleted, faults>>
  BY InFlight DEF Forget, store, memory, history
<1>2. Moved(o, "done", NoObject, "none")
  BY Moving DEF Forget
<1> QED BY <1>1, <1>2, Stays DEF Await

-----------------------------------------------------------------------------
(* A call begins. *)

LEMMA Begins ==
    ASSUME IInv, NEW o \in Op, NEW k \in Kind \ {"none"},
           NEW l \in Await \union {"w_store", "u_store"}, Begin(o, k, l), Typed', Holding',
           \A p \in Op : Stored(p) => Stored(p)',
           \A p \in Op \ {o} : heap'[p] = heap[p] /\ ref'[p] = ref[p],
           Fresh(o)', Refers(o)', k = "update" => l = "u_store"
    PROVE  IInv'
<1> USE Known
<1>1. /\ pc'[o] = l /\ kind'[o] = k /\ committed' = committed
      /\ \A p \in Op \ {o} : pc'[p] = pc[p] /\ kind'[p] = kind[p]
  BY DEF Begin, Typed
<1>2. ASSUME NEW p \in Op \ {o} PROVE Fresh(p)' /\ Refers(p)'
  <2>1. Fresh(p) /\ Refers(p) /\ ref[p] \in Op \union {NoObject}
    OBVIOUS
  <2>2. Fresh(p)'
    BY <1>1, <2>1 DEF Fresh
  <2>3. Refers(p)'
    BY <1>1, <2>1 DEF Refers
  <2> QED BY <2>2, <2>3
<1>3. Active' = Active \union {o}
  BY <1>1 DEF Active, Await
<1>4. ASSUME NEW u \in Op, kind'[u] = "update", u \in Active', u \notin disturbed'
      PROVE  Active' = {u} /\ OnItsWay(u)'
  <2>1. Active = {}
    BY <1>3, <1>4 DEF Begin
  <2>2. u = o /\ k = "update" /\ l = "u_store"
    BY <1>1, <1>3, <1>4, <2>1
  <2> QED BY <1>1, <1>3, <2>1, <2>2 DEF OnItsWay, Way
<1>5. \A u \in Op : Heals(u)'
  BY <1>4 DEF Heals
<1> QED BY <1>2, <1>5 DEF IInv

\* One that brings no entry.
LEMMA BeginsPlainly ==
    ASSUME IInv, NEW o \in Op, NEW k \in Kind \ {"none", "write"},
           NEW l \in (Await \ {"r_cache", "w_cache"}) \union {"u_store"}, Begin(o, k, l),
           UNCHANGED <<store, memory, heap, ref, deleted>>, k = "update" => l = "u_store"
    PROVE  IInv'
<1> USE Known
<1>1. /\ UNCHANGED <<row, node, l0, vec, heap, ref, deleted, committed, faults>>
      /\ pc[o] = "idle" /\ pc' = [pc EXCEPT ![o] = l] /\ kind' = [kind EXCEPT ![o] = k]
      /\ disturbed' \subseteq Op
  BY DEF Begin, store, memory, Active
<1>2. \A p \in Op : Stored(p) => Stored(p)'
  BY <1>1, HeapStays
<1>3. pc' \in [Op -> Await \union Starts \union {"done", "lost"}] /\ kind' \in [Op -> Kind]
  BY <1>1 DEF Typed, Starts
<1>4. Typed' /\ Holding'
  BY <1>1, <1>2, <1>3 DEF Typed, Holding
<1>5. pc'[o] = l /\ kind'[o] = k /\ l # "idle" /\ l # "w_store"
  BY <1>1 DEF Typed, Await
<1>6. Fresh(o)'
  BY <1>1, <1>5 DEF Fresh, Starts
<1>7. Refers(o)'
  BY <1>1, <1>2, <1>5 DEF Refers
<1> QED BY <1>1, <1>2, <1>4, <1>6, <1>7, Begins

LEMMA BeginWriteKeeps ==
    ASSUME IInv, NEW o \in Op, BeginWrite(o)
    PROVE  IInv'
<1> USE Known
<1>1. PICK e \in Written(o) :
        /\ Begin(o, "write", IF e.layer = "l0" THEN SyncPc(e) ELSE "w_store")
        /\ heap' = [heap EXCEPT ![o] = e] /\ ref' = [ref EXCEPT ![o] = o]
        /\ l0' = (IF e.layer = "l0" THEN o ELSE l0) /\ deleted' = FALSE
        /\ UNCHANGED <<store, vec>>
  BY DEF BeginWrite
<1> DEFINE to == IF e.layer = "l0" THEN SyncPc(e) ELSE "w_store"
<1>2. to \in {"w_store", "g_add", "g_drop", "synced"} /\ (to = "w_store" => e.layer # "l0")
      /\ (e.layer # "l0" => to = "w_store")
  BY Syncing
<1>3. Begin(o, "write", to)
  BY <1>1
<1> HIDE DEF to
<1>4. /\ pc[o] = "idle" /\ pc' = [pc EXCEPT ![o] = to] /\ kind' = [kind EXCEPT ![o] = "write"]
      /\ UNCHANGED <<row, node, vec, committed, faults>> /\ disturbed' \subseteq Op
  BY <1>1, <1>3 DEF Begin, store, Active
<1>5. /\ e \in Entry /\ e.rev = o /\ heap[o] = NoEntry /\ o \notin committed
  BY <1>4 DEF Written, Fresh, Starts
<1>6. /\ heap'[o] = e /\ e # NoEntry /\ ref'[o] = o /\ pc'[o] = to /\ kind'[o] = "write"
      /\ \A p \in Op \ {o} : heap'[p] = heap[p] /\ ref'[p] = ref[p]
  BY <1>1, <1>4, <1>5, EntryAssumption DEF Typed
<1>7. \A p \in Op : Stored(p) => Stored(p)'
  BY <1>4, <1>5, <1>6 DEF Stored
<1>8. e.layer = "l0" => Stored(o)'
  BY <1>6 DEF Stored
<1>9. /\ pc' \in [Op -> Await \union Starts \union {"done", "lost"}] /\ kind' \in [Op -> Kind]
      /\ heap' \in [Op -> Entry \union {NoEntry}] /\ ref' \in [Op -> Op \union {NoObject}]
  BY <1>1, <1>2, <1>4, <1>5 DEF Typed, Starts, Await, Kind
<1>10. Typed'
  BY <1>1, <1>4, <1>9 DEF Typed
<1>11. Holding'
  <2>1. (row' # NoEntry => row'.rev \in committed') /\ l0' = IF e.layer = "l0" THEN o ELSE l0
    BY <1>1, <1>4 DEF Holding
  <2>2. CASE e.layer = "l0"
    BY <1>8, <2>1, <2>2 DEF Holding
  <2>3. CASE e.layer # "l0"
    BY <1>7, <2>1, <2>3 DEF Holding, Typed
  <2> QED BY <2>2, <2>3
<1>12. Fresh(o)'
  BY <1>2, <1>4, <1>5, <1>6 DEF Fresh, Starts
<1>13. Refers(o)'
  BY <1>2, <1>6, <1>8 DEF Refers
<1>14. "write" \in Kind \ {"none"} /\ to \in Await \union {"w_store", "u_store"}
  BY <1>2 DEF Kind, Await
<1> QED BY <1>3, <1>6, <1>7, <1>10, <1>11, <1>12, <1>13, <1>14, Begins

LEMMA BeginCallKeeps ==
    ASSUME IInv, NEW o \in Op, BeginCall(o)
    PROVE  IInv'
<1>1. CASE BeginRead(o)
  BY <1>1, BeginsPlainly DEF BeginRead, Kind, Await
<1>2. CASE BeginUpdate(o)
  BY <1>2, BeginsPlainly DEF BeginUpdate, Kind, Await
<1>3. CASE BeginDelete(o)
  BY <1>3, BeginsPlainly DEF BeginDelete, Kind, Await
<1>4. CASE BeginConsolidate(o)
  <2>1. PICK l \in {"c_promote", "c_evict"} : Begin(o, "consolidate", l)
    BY <1>4 DEF BeginConsolidate
  <2> QED BY <1>4, <2>1, BeginsPlainly DEF BeginConsolidate, Kind, Await
<1> QED BY <1>1, <1>2, <1>3, <1>4, BeginWriteKeeps DEF BeginCall

-----------------------------------------------------------------------------
(* The environment, and the invariant of every behaviour. *)

LEMMA EvictLRUKeeps ==
    ASSUME IInv, EvictLRU
    PROVE  IInv'
<1>1. l0' = NoObject /\ UNCHANGED <<row, node, vec, heap, ref, kind, pc, committed, disturbed, deleted, faults>>
  BY DEF EvictLRU, store, calls, history
<1>2. Typed' /\ Holding'
  BY <1>1 DEF IInv, Typed, Holding
<1>3. ASSUME NEW o \in Op PROVE Fresh(o)' /\ Refers(o)'
  BY <1>1 DEF IInv, Fresh, Refers, Stored
<1>4. ASSUME NEW o \in Op PROVE Heals(o)'
  <2>1. Heals(o) /\ Active' = Active
    BY <1>1 DEF IInv, Active
  <2>2. OnItsWay(o) => OnItsWay(o)'
    BY <1>1 DEF OnItsWay, Own
  <2> QED BY <1>1, <2>1, <2>2 DEF Heals
<1> QED BY <1>2, <1>3, <1>4 DEF IInv

LEMMA CrashKeeps ==
    ASSUME IInv, Crash
    PROVE  IInv'
<1> USE Known
<1>1. /\ l0' = NoObject /\ UNCHANGED <<row, node, committed, deleted>>
      /\ heap' = [o \in Op |-> NoEntry] /\ ref' = [o \in Op |-> NoObject]
      /\ kind' = [o \in Op |-> "none"]
      /\ pc' = [o \in Op |-> IF o \in Active THEN "lost" ELSE pc[o]]
  BY DEF Crash, store
<1>2. ASSUME NEW o \in Op PROVE pc'[o] \in {"idle", "done", "lost"} /\ (pc'[o] = "idle" => pc[o] = "idle")
  BY <1>1 DEF Active
<1>3. Typed'
  <2>1. pc' \in [Op -> Await \union Starts \union {"done", "lost"}] /\ kind' \in [Op -> Kind]
    BY <1>1 DEF Kind
  <2>2. faults' \in 0..MaxFaults /\ disturbed' = {} /\ vec' = FALSE
    <3>1. faults \in 0..MaxFaults
      BY DEF Typed, IInv
    <3> QED BY <3>1, FaultAssumption DEF Crash
  <2>3. /\ row' \in Entry \union {NoEntry} /\ node' \in BOOLEAN /\ deleted' \in BOOLEAN
        /\ committed' \subseteq Op \union {Seed}
    BY <1>1 DEF Typed, IInv
  <2> QED BY <1>1, <2>1, <2>2, <2>3 DEF Typed
<1>4. Holding'
  BY <1>1 DEF Holding, IInv
<1>5. ASSUME NEW o \in Op PROVE Fresh(o)' /\ Refers(o)'
  BY <1>1, <1>2 DEF Fresh, Refers, Starts
<1>6. ASSUME NEW o \in Op PROVE Heals(o)'
  BY <1>1 DEF Heals
<1> QED BY <1>3, <1>4, <1>5, <1>6 DEF IInv

LEMMA Initially == Init => IInv
<1> SUFFICES ASSUME Init PROVE IInv
  OBVIOUS
<1>1. row \in Entry \union {NoEntry} /\ (row # NoEntry => row.rev = Seed)
  <2>1. ASSUME NEW y \in {"l1", "l2"}, NEW e \in BOOLEAN
        PROVE  Kept(y, e) \in Entry /\ Kept(y, e).rev = Seed
    BY DEF Kept, Entry, Layer
  <2> QED BY <2>1 DEF Init
<1>2. node \in BOOLEAN
  BY DEF Init
<1>3. Typed
  <2>1. /\ pc \in [Op -> Await \union Starts \union {"done", "lost"}] /\ kind \in [Op -> Kind]
        /\ heap \in [Op -> Entry \union {NoEntry}] /\ ref \in [Op -> Op \union {NoObject}]
    BY DEF Init, Starts, Kind
  <2>2. /\ l0 = NoObject /\ vec = FALSE /\ committed = {Seed} /\ disturbed = {} /\ deleted = FALSE
        /\ faults \in 0..MaxFaults
    BY FaultAssumption DEF Init
  <2> QED BY <1>1, <1>2, <2>1, <2>2 DEF Typed
<1>4. Holding
  BY <1>1 DEF Init, Holding
<1>5. ASSUME NEW o \in Op PROVE Fresh(o) /\ Refers(o) /\ Heals(o)
  BY SeedAssumption DEF Init, Fresh, Refers, Heals
<1> QED BY <1>3, <1>4, <1>5 DEF IInv

LEMMA Inductive == IInv /\ [Next]_vars => IInv'
<1> SUFFICES ASSUME IInv, [Next]_vars PROVE IInv'
  OBVIOUS
<1>1. CASE \E o \in Op : BeginCall(o) \/ Step(o)
  <2>1. PICK o \in Op : BeginCall(o) \/ Step(o)
    BY <1>1
  <2>2. CASE Step(o)
    BY <2>2, LookupKeeps, ReadRowKeeps, CacheKeeps, AddNodeKeeps, DropNodeKeeps, LinkKeeps,
       PersistKeeps, WriteRowKeeps, IndexKeeps, EmbeddedKeeps, SettleKeeps,
       CacheWrittenKeeps, UpdateRowKeeps, EvictKeeps, UnlinkKeeps, DeleteNodeKeeps,
       UnindexKeeps, DeleteRowKeeps, EvictDeletedKeeps, PromoteKeeps, ConsolidateRowKeeps,
       ForgetKeeps DEF Step
  <2> QED BY <2>1, <2>2, BeginCallKeeps
<1>2. CASE UNCHANGED vars
  BY <1>2 DEF vars, store, memory, calls, history, IInv, Typed, Holding, Fresh, Refers, Heals,
     OnItsWay, Own, Stored, Active
<1> QED BY <1>1, <1>2, EvictLRUKeeps, CrashKeeps DEF Next

LEMMA Invariant == Spec => []IInv
  BY Initially, Inductive, PTL DEF Spec

-----------------------------------------------------------------------------
(* What it says. *)

\* Every variable keeps its type: what L0 holds and a call works on exists.
THEOREM TypeCorrect == Spec => []TypeOK
<1>1. IInv => TypeOK
  <2> SUFFICES ASSUME IInv PROVE TypeOK
    OBVIOUS
  <2>1. Typed /\ Holding /\ \A o \in Op : Fresh(o) /\ Refers(o)
    BY DEF IInv
  <2>2. \A o \in Op : ref[o] # NoObject => heap[ref[o]] # NoEntry
    BY <2>1 DEF Fresh, Refers, Stored
  <2>3. l0 # NoObject => heap[l0] # NoEntry
    BY <2>1 DEF Holding, Stored
  <2> QED BY <2>1, <2>2, <2>3 DEF Typed, TypeOK, Kind
<1> QED BY <1>1, Invariant, PTL

\* The cache serves data of a stored layer only once it was in the table, however many
\* calls interleave, fail or are lost in a crash.
THEOREM NoPhantomEver == Spec => []NoPhantom
<1>1. IInv => NoPhantom
  BY DEF IInv, Holding, Stored, NoPhantom
<1> QED BY <1>1, Invariant, PTL

\* No revision that was replaced or deleted comes back into the table.
THEOREM NothingResurrected == Spec => NoResurrection
<1>1. IInv /\ [Next]_vars =>
        [row' \notin {row, NoEntry} /\ (row = NoEntry \/ row'.rev # row.rev)
           => row'.rev \notin committed]_vars
  <2> SUFFICES ASSUME IInv, [Next]_vars, row' \notin {row, NoEntry},
                      row = NoEntry \/ row'.rev # row.rev
               PROVE  row'.rev \notin committed
    OBVIOUS
  <2> USE Known, Values
  <2>1. PICK o \in Op : Persist(o) \/ WriteRow(o) \/ UpdateRow(o)
    BY DEF Next, BeginCall, Step, vars, store, BeginWrite, BeginRead, BeginUpdate, BeginDelete,
       BeginConsolidate, Lookup, ReadRow, Cache, AddNode, DropNode, Link, Index, Embedded,
       Settle, CacheWritten, Evict, Unlink, DeleteNode, Unindex, DeleteRow, EvictDeleted,
       Promote, ConsolidateRow, Forget, EvictLRU, Crash
  <2>2. CASE Persist(o)
    <3>1. row' = row \/ (row # NoEntry /\ row' = [row EXCEPT !.node = (pc[o] = "p_link")])
      BY <2>2 DEF Persist
    <3>2. row # NoEntry /\ row' = [row EXCEPT !.node = (pc[o] = "p_link")]
      BY <3>1
    <3>3. row'.rev = row.rev
      BY <3>2 DEF Entry
    <3> QED BY <3>2, <3>3
  <2>3. CASE WriteRow(o)
    BY <2>3 DEF WriteRow, Fresh, Starts
  <2>4. CASE UpdateRow(o)
    <3>1. row \in Entry /\ (\E e \in BOOLEAN : row' = [row EXCEPT !.rev = o, !.eligible = e])
      BY <2>4 DEF UpdateRow
    <3>2. row'.rev = o /\ o \notin committed
      BY <2>4, <3>1 DEF UpdateRow, Fresh, Starts, Entry
    <3> QED BY <3>2
  <2> QED BY <2>1, <2>2, <2>3, <2>4
<1> QED BY <1>1, Invariant, PTL DEF Spec, NoResurrection

\* An update() that no other call and no failure disturbed ends with the cache equal to
\* the row, and the row and the graph linked as its eligibility asks.
THEOREM UpdatesHeal == Spec => UpdateHeals
<1>1. IInv => [\A o \in Op :
        /\ kind[o] = "update" /\ pc[o] = "synced" /\ pc'[o] = "done"
        /\ o \notin disturbed
        => /\ row # NoEntry
           /\ l0 # NoObject => heap[l0] = row
           /\ row.node = row.eligible
           /\ row.eligible => node]_vars
  <2> SUFFICES ASSUME IInv, NEW o \in Op, kind[o] = "update", pc[o] = "synced", o \notin disturbed
               PROVE  /\ row # NoEntry
                      /\ l0 # NoObject => heap[l0] = row
                      /\ row.node = row.eligible
                      /\ row.eligible => node
    OBVIOUS
  <2>1. OnItsWay(o) /\ row \in Entry \union {NoEntry}
    BY Known, Values, InFlight
  <2>2. /\ row # NoEntry /\ row \in Entry
        /\ row.eligible => row.node /\ node
        /\ ~ row.eligible => ~ row.node
    BY <2>1 DEF OnItsWay
  <2>3. row.node \in BOOLEAN /\ row.eligible \in BOOLEAN
    BY <2>2 DEF Entry
  <2>4. l0 # NoObject => heap[l0] = row
    BY <2>1 DEF OnItsWay, Own
  <2> QED BY <2>2, <2>3, <2>4
<1> QED BY <1>1, Invariant, PTL DEF UpdateHeals
=============================================================================
