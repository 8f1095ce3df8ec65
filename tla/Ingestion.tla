------------------------------- MODULE Ingestion -------------------------------
(***************************************************************************)
(* From the web into a module's knowledge: the crawler saves pages as      *)
(* files, the cleaner reads them, has the chunks embedded and moves the    *)
(* files away (learning/crawler.py, cleaner.py, embedder.py, ingest() in   *)
(* modules/base.py).  The crawlers of the modules interleave at their      *)
(* awaits; the cleaner is called on the event loop and has no await, so    *)
(* nothing but the death of the process comes between its steps.  A file   *)
(* stands for its text.                                                    *)
(***************************************************************************)
EXTENDS Naturals, Sequences

CONSTANTS
    Area,      \* the modules, in the order of the registry
    Source, Page,
    Listed,    \* module -> its sources
    Linked,    \* source -> the pages a fetch of it saves: itself, or a feed's entries
    Alike,     \* texts the deduplication takes for one, as sets of two
    Barren,    \* pages whose text leaves no chunk: too short, or not Latin
    MaxTroubles,  \* bound: upserts and moves that raise, files that cannot be read
    MaxStops      \* bound: deaths of the process

VARIABLES
    raw, chunks, \* the pages in data/raw and in data/chunks
    db,       \* the pages whose chunks are in the collection of their module
    ahead,    \* each module's crawler: the sources it has still to do
    links,    \* the pages it has still to get of the source it is at
    cleaner,  \* where the cleaner is
    todo,     \* the modules it has still to do
    texts,    \* the pages whose chunks it has
    excused,  \* history: pages a logged error kept out of the collection
    troubles, stops

vars == <<raw, chunks, db, ahead, links, cleaner, todo, texts, excused, troubles, stops>>
files == <<raw, chunks, db, excused>>
cleaning == <<cleaner, todo, texts>>
crawling == <<ahead, links>>

Areas == {Area[i] : i \in DOMAIN Area}
PagesOf(m) == UNION {Linked[s] : s \in Listed[m]}

Init ==
    /\ raw = {} /\ chunks = {} /\ db = {}
    /\ ahead = [m \in Areas |-> {}] /\ links = [m \in Areas |-> {}]
    /\ cleaner = "idle" /\ todo = <<>> /\ texts = {}
    /\ excused = {} /\ troubles = 0 /\ stops = 0

Trouble == troubles < MaxTroubles /\ troubles' = troubles + 1

----------------------------------------------------------------------------
LoopIsShared == TRUE  \* mutant: the cleaner runs in a thread of its own
\* The loop runs the crawlers only when the cleaner does not hold it.
LoopIsFree == cleaner = "idle"

\* run_all() of the crawler: every module; the job waits for the slowest.
Crawl ==
    /\ LoopIsFree
    /\ \A m \in Areas : ahead[m] = {} /\ links[m] = {}
    /\ ahead' = Listed
    /\ UNCHANGED <<files, cleaning, links, troubles, stops>>

\* _fetch_source(): there is nothing to get when the source was fetched within the
\* interval, or when its request raises.
Fetch(m, s) ==
    /\ LoopIsFree /\ links[m] = {} /\ s \in ahead[m]
    /\ ahead' = [ahead EXCEPT ![m] = @ \ {s}]
    /\ links' = [links EXCEPT ![m] = Linked[s]] \/ links' = links
    /\ UNCHANGED <<files, cleaning, troubles, stops>>

\* _save_raw(), unless the page's request raises or the extract is too short.
Save(m, p) ==
    /\ LoopIsFree /\ p \in links[m]
    /\ links' = [links EXCEPT ![m] = @ \ {p}]
    /\ raw' = raw \union {p} \/ raw' = raw
    /\ UNCHANGED <<chunks, db, excused, cleaning, ahead, troubles, stops>>

\* The job is cancelled: its crawlers stop where they are.
Cancelled ==
    /\ LoopIsFree /\ \E m \in Areas : ahead[m] # {} \/ links[m] # {}
    /\ ahead' = [m \in Areas |-> {}] /\ links' = [m \in Areas |-> {}]
    /\ UNCHANGED <<files, cleaning, troubles, stops>>

----------------------------------------------------------------------------
\* run_all() of the cleaner: one module after the other, each read, stored and moved.
Begin ==
    /\ cleaner = "idle"
    /\ todo' = Area /\ cleaner' = "reading" /\ texts' = {}
    /\ UNCHANGED <<files, crawling, troubles, stops>>

Waiting(m) == raw \intersect PagesOf(m)
\* A file that raises is passed over, and moved with the rest.
Read ==
    /\ cleaner = "reading" /\ todo # <<>>
    /\ \/ texts' = Waiting(Head(todo)) /\ UNCHANGED <<excused, troubles>>
       \/ /\ Trouble
          /\ \E p \in Waiting(Head(todo)) :
               texts' = Waiting(Head(todo)) \ {p} /\ excused' = excused \union {p}
    /\ cleaner' = "storing"
    /\ UNCHANGED <<raw, chunks, db, todo, crawling, stops>>

\* deduplicate(): of texts that are alike, the one that is met first.
Distinct(t) ==
    {u \in SUBSET t :
        /\ \A p, q \in u : {p, q} \notin Alike
        /\ \A p \in t \ u : \E q \in u : {p, q} \in Alike}

\* ingest(): an upsert that raises is logged, and the files are moved all the same.
Store ==
    /\ cleaner = "storing"
    /\ \/ /\ \E unique \in Distinct(texts \ Barren) : db' = db \union unique
          /\ UNCHANGED <<excused, troubles>>
       \/ /\ Trouble /\ texts \ Barren # {}
          /\ excused' = excused \union texts /\ UNCHANGED db
    /\ cleaner' = "moving"
    /\ UNCHANGED <<raw, chunks, todo, texts, crawling, stops>>

\* The directory is listed again for the moves.
Move ==
    /\ cleaner = "moving"
    /\ \E p \in Waiting(Head(todo)) : raw' = raw \ {p} /\ chunks' = chunks \union {p}
    /\ UNCHANGED <<db, excused, cleaning, crawling, troubles, stops>>

\* A move that raises ends the run: the modules that come later are not reached.
MoveRaises ==
    /\ cleaner = "moving" /\ Waiting(Head(todo)) # {}
    /\ Trouble
    /\ cleaner' = "idle" /\ todo' = <<>> /\ texts' = {}
    /\ UNCHANGED <<files, crawling, stops>>

NextModule ==
    /\ cleaner = "moving" /\ Waiting(Head(todo)) = {}
    /\ todo' = Tail(todo) /\ texts' = {}
    /\ cleaner' = IF Tail(todo) = <<>> THEN "idle" ELSE "reading"
    /\ UNCHANGED <<files, crawling, troubles, stops>>

\* The process dies: a file it was writing may be cut short, so that its text is no
\* chunk's.
Die ==
    /\ stops < MaxStops /\ stops' = stops + 1
    /\ \/ UNCHANGED <<raw, excused>>
       \/ \E m \in Areas : \E p \in links[m] :
            LoopIsFree /\ raw' = raw \union {p} /\ excused' = excused \union {p}
    /\ ahead' = [m \in Areas |-> {}] /\ links' = [m \in Areas |-> {}]
    /\ cleaner' = "idle" /\ todo' = <<>> /\ texts' = {}
    /\ UNCHANGED <<chunks, db, troubles>>

Cleaning == Begin \/ Read \/ Store \/ Move \/ NextModule
Next ==
    \/ Crawl
    \/ \E m \in Areas :
         (\E s \in Source : Fetch(m, s)) \/ (\E p \in Page : Save(m, p))
    \/ Cancelled
    \/ Cleaning \/ MoveRaises \/ Die

Spec == Init /\ [][Next]_vars

----------------------------------------------------------------------------
\* A page that was moved away is known: its text is in the collection, or that of a page
\* like it, or it leaves no chunk, or an error was logged.
NothingSkipped ==
    \A p \in chunks :
        \/ p \in db \union Barren \union excused
        \/ \E q \in db : {p, q} \in Alike
=============================================================================
