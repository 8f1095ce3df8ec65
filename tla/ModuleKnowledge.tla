---------------------------- MODULE ModuleKnowledge ----------------------------
(***************************************************************************)
(* The knowledge of one module and the cache before it (modules/base.py).  *)
(* retrieve() runs in executor threads, ingest() in the caller's; only the *)
(* cache's own operations hold its lock.  A retrieval asks for at least as *)
(* many chunks as there are.                                               *)
(***************************************************************************)
EXTENDS Naturals, Sequences, SequencesExt

CONSTANTS
    Query,     \* cache keys: the hash of a query and the number of chunks
    Chunk,
    LowGrade,  \* chunks with a quality score below 0.4
    Reader, Writer,
    CacheSize  \* _CACHE_MAX_SIZE

Absent == {"absent"}

VARIABLES
    db,      \* chunks in the collection
    cache,   \* Query -> what is cached
    order,   \* the cached queries, the one stored longest ago first
    reader, result, asks,  \* each retrieval: where it is, its chunks, its query
    writer,  \* each ingest
    crossed, \* history: retrievals an ingest ended in
    raced    \* history: cached queries stored by such a retrieval

vars == <<db, cache, order, reader, result, asks, writer, crossed, raced>>

Init ==
    /\ db = {} /\ cache = [q \in Query |-> Absent] /\ order = <<>>
    /\ reader = [r \in Reader |-> "idle"] /\ result = [r \in Reader |-> {}]
    /\ asks \in [Reader -> {CHOOSE q \in Query : TRUE}]
    /\ writer = [w \in Writer |-> "idle"]
    /\ crossed = {} /\ raced = {}

Served(chunks) == chunks \ LowGrade
\* A query is cached once.
Without(s, q) ==
    IF \E i \in DOMAIN s : s[i] = q THEN RemoveAt(s, CHOOSE i \in DOMAIN s : s[i] = q) ELSE s

\* _cache_get(): a hit ends the retrieval; an entry that is too old is removed.
Hit(r, q) ==
    /\ reader[r] = "idle" /\ cache[q] # Absent
    /\ asks' = [asks EXCEPT ![r] = q]
    /\ result' = [result EXCEPT ![r] = cache[q]]
    /\ UNCHANGED <<db, cache, order, reader, writer, crossed, raced>>
Miss(r, q) ==
    /\ reader[r] = "idle"
    /\ asks' = [asks EXCEPT ![r] = q]
    /\ cache' = [cache EXCEPT ![q] = Absent] /\ order' = Without(order, q)
    /\ raced' = raced \ {q}
    /\ reader' = [reader EXCEPT ![r] = "asking"]
    /\ crossed' = crossed \ {r}
    /\ UNCHANGED <<db, result, writer>>

\* The collection is empty, or raises: nothing is cached.
FindNothing(r) ==
    /\ reader[r] = "asking"
    /\ result' = [result EXCEPT ![r] = {}]
    /\ reader' = [reader EXCEPT ![r] = "idle"]
    /\ UNCHANGED <<db, cache, order, asks, writer, crossed, raced>>
AskDb(r) ==
    /\ reader[r] = "asking" /\ db # {}
    /\ result' = [result EXCEPT ![r] = Served(db)]
    /\ reader' = [reader EXCEPT ![r] = "storing"]
    /\ UNCHANGED <<db, cache, order, asks, writer, crossed, raced>>

\* _cache_set(): a full cache loses the entry stored longest ago.
Full(s) == Len(s) >= CacheSize
Store(r) ==
    /\ reader[r] = "storing"
    /\ LET q == asks[r]
           evicted == IF Full(order) THEN {Head(order)} ELSE {}
           kept == IF Full(order) THEN Tail(order) ELSE order
       IN  /\ cache' = [p \in Query |-> IF p = q THEN result[r]
                                        ELSE IF p \in evicted THEN Absent ELSE cache[p]]
           /\ order' = Append(Without(kept, q), q)
           /\ raced' = IF r \in crossed THEN raced \union {q} ELSE raced \ {q}
    /\ reader' = [reader EXCEPT ![r] = "idle"]
    /\ UNCHANGED <<db, result, asks, writer, crossed>>

\* ingest(): the chunks are stored, then the module's entries are dropped; if
\* the store raises the ingest is over.
Upsert(w) ==
    /\ writer[w] = "idle"
    /\ \E c \in Chunk \ db : db' = db \union {c}
    /\ writer' = [writer EXCEPT ![w] = "stored"]
    /\ UNCHANGED <<cache, order, reader, result, asks, crossed, raced>>
KeepEntries(w) ==  \* mutant: the module's entries are kept
    /\ writer[w] = "stored" /\ writer' = [writer EXCEPT ![w] = "idle"]
    /\ crossed' = {r \in Reader : reader[r] # "idle"}
    /\ UNCHANGED <<db, cache, order, reader, result, asks, raced>>
Invalidate(w) ==
    /\ writer[w] = "stored" /\ writer' = [writer EXCEPT ![w] = "idle"]
    /\ cache' = [q \in Query |-> Absent] /\ order' = <<>> /\ raced' = {}
    /\ crossed' = {r \in Reader : reader[r] # "idle"}
    /\ UNCHANGED <<db, reader, result, asks>>

Next ==
    \/ \E r \in Reader :
         \/ \E q \in Query : Hit(r, q) \/ Miss(r, q)
         \/ FindNothing(r) \/ AskDb(r) \/ Store(r)
    \/ \E w \in Writer : Upsert(w) \/ Invalidate(w)
Spec == Init /\ [][Next]_vars

-----------------------------------------------------------------------------
TypeOK ==
    /\ db \subseteq Chunk
    /\ \A q \in Query : cache[q] = Absent \/ cache[q] \subseteq Chunk
    /\ \A i \in DOMAIN order : order[i] \in Query
    /\ reader \in [Reader -> {"idle", "asking", "storing"}]
    /\ result \in [Reader -> SUBSET Chunk] /\ asks \in [Reader -> Query]
    /\ writer \in [Writer -> {"idle", "stored"}]
    /\ crossed \subseteq Reader /\ raced \subseteq Query

\* The cache keeps to its size, and knows the age of what it holds.
CacheBounded ==
    /\ Len(order) <= CacheSize
    /\ {order[i] : i \in DOMAIN order} = {q \in Query : cache[q] # Absent}

\* When no ingest is under way a cached answer is what the collection would
\* answer, unless a retrieval that an ingest ended in has stored it: then it is
\* stale until it expires or the next ingest.
CacheIsFresh ==
    (\A w \in Writer : writer[w] = "idle")
    => \A q \in Query \ raced : cache[q] = Absent \/ cache[q] = Served(db)
=============================================================================
