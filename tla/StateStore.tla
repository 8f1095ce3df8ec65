------------------------------ MODULE StateStore ------------------------------
(***************************************************************************)
(* core/runtime/state.py, class StateStore: maturity scores (overwritten)  *)
(* and training pairs (appended) go through an in-memory queue that a      *)
(* background task writes to SQLite in batches, from an executor thread.   *)
(*                                                                         *)
(* A write transaction is external and atomic.  What is not atomic is its  *)
(* outcome: the statement after the commit may raise, and the awaiting     *)
(* task may be cancelled while the thread goes on.  The queue lock guards  *)
(* no await, so every locked block is part of one action.                  *)
(*                                                                         *)
(* Shutdown is main.py's: the first asyncio.run() cancels the flush task   *)
(* and joins the executor's threads, then a second one runs stop().        *)
(*                                                                         *)
(* Scores are reduced to versions: the n-th update of a module is n.       *)
(***************************************************************************)
EXTENDS Naturals, Sequences, FiniteSets, FiniteSetsExt

CONSTANTS
    Module,      \* modules with a maturity score
    Pair,        \* training pairs
    StartBatch, FloorBatch, CeilingBatch, Grow, Shrink,  \* the AIMD control
    MaxVersion,  \* bound: updates per module
    MaxFaults    \* bound: failed flushes and crashes

ASSUME BatchAssumption ==
    /\ {StartBatch, FloorBatch, CeilingBatch, Grow, Shrink} \subseteq Nat
    /\ FloorBatch > 0
    /\ StartBatch \in FloorBatch..CeilingBatch
ASSUME BoundAssumption == {MaxVersion, MaxFaults} \subseteq Nat

Score(m, v) == [kind |-> "maturity", mod |-> m, version |-> v]
Training(p) == [kind |-> "training", pair |-> p]
Item == {Score(m, v) : m \in Module, v \in 1..MaxVersion}
            \cup {Training(p) : p \in Pair}

VARIABLES
    cache,     \* _cache
    queue,     \* _queue
    batch,     \* the batch the running _flush_batch took, <<>> if none
    orphan,    \* the batch of a cancelled flush its thread is still writing
    size,      \* _current_batch_size
    phase,     \* running, stopping (stop()'s flush), stopped, or down
    db,        \* the maturity table
    pairs,     \* the training_pairs table: rows per pair
    recorded,  \* history: pairs record_training_pair() accepted
    torn,      \* history: a flush failed after its commit
    faults     \* history: failed flushes and crashes

memory == <<cache, queue, batch, orphan, size>>
disk == <<db, pairs>>
history == <<recorded, torn, faults>>
vars == <<memory, phase, disk, history>>

Init ==
    /\ cache = [m \in Module |-> 0]
    /\ queue = <<>>
    /\ batch = <<>>
    /\ orphan = <<>>
    /\ size = StartBatch
    /\ phase = "running"
    /\ db = [m \in Module |-> 0]
    /\ pairs = [p \in Pair |-> 0]
    /\ recorded = {}
    /\ torn = FALSE
    /\ faults = 0
-----------------------------------------------------------------------------
(* Producers *)

UpdateMaturity(m) ==
    /\ phase = "running"
    /\ cache[m] < MaxVersion
    /\ cache' = [cache EXCEPT ![m] = @ + 1]
    /\ queue' = Append(queue, Score(m, cache[m] + 1))
    /\ UNCHANGED <<batch, orphan, size, phase, disk, history>>

RecordPair(p) ==
    /\ phase = "running"
    /\ p \notin recorded
    /\ recorded' = recorded \cup {p}
    /\ queue' = Append(queue, Training(p))
    /\ UNCHANGED <<cache, batch, orphan, size, phase, disk, torn, faults>>
-----------------------------------------------------------------------------
(* _flush_batch and _flush_sync *)

\* Take up to `size` items; an empty batch ends a flush, and so stop().
Pull ==
    /\ phase \in {"running", "stopping"}
    /\ orphan = <<>>
    /\ batch = <<>>
    /\ LET n == IF Len(queue) < size THEN Len(queue) ELSE size
       IN  /\ batch' = SubSeq(queue, 1, n)
           /\ queue' = SubSeq(queue, n + 1, Len(queue))
    /\ phase' = IF phase = "stopping" /\ queue = <<>> THEN "stopped" ELSE phase
    /\ UNCHANGED <<cache, orphan, size, disk, history>>

Scored(b, m) == {i \in DOMAIN b : b[i].kind = "maturity" /\ b[i].mod = m}

\* One transaction: of each module's updates the newest in the batch, and
\* every training pair.
WriteOldest(b) ==  \* mutant: the oldest of a batch wins
    /\ db' = [m \in Module |-> IF Scored(b, m) = {} THEN db[m]
                               ELSE b[Min(Scored(b, m))].version]
    /\ pairs' = [p \in Pair |->
                    pairs[p] + Cardinality({i \in DOMAIN b : b[i] = Training(p)})]
Write(b) ==
    /\ db' = [m \in Module |-> IF Scored(b, m) = {} THEN db[m]
                               ELSE b[Max(Scored(b, m))].version]
    /\ pairs' = [p \in Pair |->
                    pairs[p] + Cardinality({i \in DOMAIN b : b[i] = Training(p)})]

\* Ending a flush ends stop(), whether the flush succeeded or not.
FlushEnds ==
    /\ batch' = <<>>
    /\ phase' = IF phase = "stopping" THEN "stopped" ELSE phase

\* The flush succeeded: fast, slow or in between, it adapts the batch size.
Adapted == {size,
            IF size + Grow < CeilingBatch THEN size + Grow ELSE CeilingBatch,
            IF size > FloorBatch + Shrink THEN size - Shrink ELSE FloorBatch}
Commit ==
    /\ batch # <<>>
    /\ Write(batch)
    /\ size' \in Adapted
    /\ FlushEnds
    /\ UNCHANGED <<cache, queue, orphan, history>>

Requeue ==
    /\ faults < MaxFaults
    /\ faults' = faults + 1
    /\ queue' = batch \o queue
    /\ FlushEnds
    /\ UNCHANGED <<cache, orphan, size, recorded>>

FailDropping ==  \* mutant: a failed batch is logged and dropped
    /\ batch # <<>>
    /\ faults < MaxFaults
    /\ faults' = faults + 1
    /\ FlushEnds
    /\ UNCHANGED <<cache, queue, orphan, size, disk, recorded, torn>>

\* The transaction failed: the batch goes back to the front of the queue.
FailBeforeCommit ==
    /\ batch # <<>>
    /\ Requeue
    /\ UNCHANGED <<disk, torn>>

\* The WAL checkpoint after the commit failed: the batch goes back as well.
FailAfterCommit ==
    /\ batch # <<>>
    /\ Write(batch)
    /\ Requeue
    /\ torn' = TRUE
-----------------------------------------------------------------------------
(* stop(), and the end of the process *)

\* The loop is torn down: the flush task is cancelled; a thread it is awaiting
\* goes on by itself, and is joined before stop()'s flush.
Stop ==
    /\ phase = "running"
    /\ phase' = "stopping"
    /\ orphan' = batch
    /\ batch' = <<>>
    /\ UNCHANGED <<cache, queue, size, disk, history>>

\* That thread commits, or fails with nobody to put the batch back.
OrphanEnds ==
    /\ orphan # <<>>
    /\ orphan' = <<>>
    /\ \/ Write(orphan) /\ UNCHANGED faults
       \/ faults < MaxFaults /\ faults' = faults + 1 /\ UNCHANGED disk
    /\ UNCHANGED <<cache, queue, batch, size, phase, recorded, torn>>

Exit ==
    /\ phase = "stopped"
    /\ phase' = "down"
    /\ queue' = <<>>
    /\ UNCHANGED <<cache, batch, orphan, size, disk, history>>

Crash ==
    /\ phase \in {"running", "stopping"}
    /\ faults < MaxFaults
    /\ faults' = faults + 1
    /\ phase' = "down"
    /\ queue' = <<>>
    /\ batch' = <<>>
    /\ orphan' = <<>>
    /\ UNCHANGED <<cache, size, disk, recorded, torn>>

\* A new process: _load_cache reads the maturity table.
Start ==
    /\ phase = "down"
    /\ phase' = "running"
    /\ cache' = db
    /\ queue' = <<>>
    /\ batch' = <<>>
    /\ orphan' = <<>>
    /\ size' = StartBatch
    /\ recorded' = {p \in Pair : pairs[p] > 0}
    /\ UNCHANGED <<disk, torn, faults>>

Produce == (\E m \in Module : UpdateMaturity(m)) \/ (\E p \in Pair : RecordPair(p))
Flush == Pull \/ Commit \/ FailBeforeCommit \/ FailAfterCommit
Next == Produce \/ Flush \/ Stop \/ OrphanEnds \/ Exit \/ Crash \/ Start

Spec == Init /\ [][Next]_vars

(***************************************************************************)
(* _flush_loop never ends by itself and wakes after at most 5 seconds, and *)
(* a flush ends; MaxFaults makes it commit after finitely many failures.   *)
(***************************************************************************)
FairSpec == Spec /\ WF_vars(Flush) /\ WF_vars(OrphanEnds)
-----------------------------------------------------------------------------
(* Properties *)

\* Every variable keeps its type; the adaptive batch size stays within its
\* floor and its ceiling.
TypeOK ==
    /\ cache \in [Module -> 0..MaxVersion]
    /\ queue \in Seq(Item)
    /\ batch \in Seq(Item)
    /\ orphan \in Seq(Item)
    /\ size \in FloorBatch..CeilingBatch
    /\ phase \in {"running", "stopping", "stopped", "down"}
    /\ db \in [Module -> 0..MaxVersion]
    /\ pairs \in [Pair -> Nat]
    /\ recorded \subseteq Pair
    /\ torn \in BOOLEAN
    /\ faults \in 0..MaxFaults

Copies(p) ==
    pairs[p] + Cardinality({i \in DOMAIN batch : batch[i] = Training(p)})
             + Cardinality({i \in DOMAIN queue : queue[i] = Training(p)})

\* While the store runs, every training pair it accepted is in exactly one
\* place, whatever flushes failed; only a failure after a commit (torn) can
\* make it two, and nothing can make it none.
PairsConserved ==
    phase = "running" => \A p \in recorded : /\ Copies(p) >= 1
                                             /\ ~torn => Copies(p) = 1

\* Once the queue is drained the table agrees with the cache the readers saw.
DrainedIsCurrent ==
    phase = "running" /\ queue = <<>> /\ batch = <<>> => db = cache

\* A maturity score in the table is never overwritten by an older one:
\* "batching, ordering, WAL mode, durability ... are all preserved"
\* (state.py:166), through requeued batches and the thread of a cancelled
\* flush, which the loop's teardown joins before stop() writes.
NeverOlder == [][\A m \in Module : db'[m] >= db[m]]_vars

\* An accepted pair reaches the table unless the process stops first.
PairsReachDisk ==
    \A p \in Pair : p \in recorded ~> (pairs[p] > 0 \/ phase # "running")
=============================================================================
