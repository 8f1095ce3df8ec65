------------------------------ MODULE EventStream ------------------------------
(***************************************************************************)
(* Events of one execution: appended by several tasks, each in a thread of *)
(* the executor, then broadcast by the task when it resumes; the execution *)
(* registry queues them for the server-sent events of the API              *)
(* (core/events/event_stream.py, ExecutionRegistry, interface/api.py).     *)
(***************************************************************************)
EXTENDS Naturals, Sequences, FiniteSets, SequencesExt

CONSTANTS
    Task,       \* tasks that append
    Client,     \* HTTP clients of /executions/{id}/events
    Capacity,   \* the queue's maxsize
    MaxEvents   \* bound: events of one task

\* The nth event of a task; an "end" event is one the API ends a stream at.
Event == [by : Task, n : 1..MaxEvents, end : BOOLEAN]

VARIABLES
    log,       \* the events table, by sequence
    writing,   \* events handed to a thread
    resumable, \* events in the table whose task has not resumed
    made,      \* events each task has made
    waiting,   \* ExecutionRegistry's queue
    client,    \* where each client is
    got,       \* the events each client was sent
    delivered, \* history: events broadcast, in that order
    dropped    \* history: events the full queue gave up

vars == <<log, writing, resumable, made, waiting, client, got, delivered, dropped>>

Init ==
    /\ log = <<>> /\ writing = {} /\ resumable = {}
    /\ made = [t \in Task |-> 0]
    /\ waiting = <<>> /\ delivered = <<>> /\ dropped = {}
    /\ client = [c \in Client |-> "away"] /\ got = [c \in Client |-> <<>>]

Pending(t) == {e \in writing \union resumable : e.by = t}

\* EventStream.append(): the event is made and handed to a thread.
Emit(t) ==
    /\ Pending(t) = {}
    /\ made[t] < MaxEvents /\ made' = [made EXCEPT ![t] = made[t] + 1]
    /\ \E end \in BOOLEAN :
         writing' = writing \union {[by |-> t, n |-> made[t] + 1, end |-> end]}
    /\ UNCHANGED <<log, resumable, waiting, client, got, delivered, dropped>>

\* _append_sync(): a row with the next sequence, or an exception to the task.
Insert(e) ==
    /\ e \in writing /\ writing' = writing \ {e}
    /\ log' = Append(log, e) /\ resumable' = resumable \union {e}
    /\ UNCHANGED <<made, waiting, client, got, delivered, dropped>>
InsertFails(e) ==
    /\ e \in writing /\ writing' = writing \ {e}
    /\ UNCHANGED <<log, resumable, made, waiting, client, got, delivered, dropped>>

\* _on_event(): a full queue gives up its oldest event.
PutLosingNew(e) ==  \* mutant: the new event is given up
    IF Len(waiting) < Capacity
    THEN waiting' = Append(waiting, e) /\ UNCHANGED dropped
    ELSE dropped' = dropped /\ UNCHANGED waiting
Put(e) ==
    IF Len(waiting) < Capacity
    THEN waiting' = Append(waiting, e) /\ UNCHANGED dropped
    ELSE waiting' = Append(Tail(waiting), e) /\ dropped' = dropped \union {Head(waiting)}

\* The task resumes and calls the subscribers.
Notify(e) ==
    /\ e \in resumable /\ resumable' = resumable \ {e}
    /\ delivered' = Append(delivered, e)
    /\ Put(e)
    /\ UNCHANGED <<log, writing, made, client, got>>

\* execution_events()
Connect(c) ==
    /\ client[c] = "away" /\ client' = [client EXCEPT ![c] = "reading"]
    /\ UNCHANGED <<log, writing, resumable, made, waiting, got, delivered, dropped>>
SendOn(c) ==  \* mutant: the stream goes on after an end event
    /\ client[c] = "reading" /\ waiting # <<>>
    /\ waiting' = Tail(waiting)
    /\ got' = [got EXCEPT ![c] = Append(got[c], Head(waiting))]
    /\ UNCHANGED <<log, writing, resumable, made, client, delivered, dropped>>
Send(c) ==
    /\ client[c] = "reading" /\ waiting # <<>>
    /\ waiting' = Tail(waiting)
    /\ got' = [got EXCEPT ![c] = Append(got[c], Head(waiting))]
    /\ client' = [client EXCEPT ![c] = IF Head(waiting).end THEN "closed" ELSE "reading"]
    /\ UNCHANGED <<log, writing, resumable, made, delivered, dropped>>
Disconnect(c) ==
    /\ client[c] = "reading" /\ client' = [client EXCEPT ![c] = "gone"]
    /\ UNCHANGED <<log, writing, resumable, made, waiting, got, delivered, dropped>>

Next ==
    \/ \E t \in Task : Emit(t)
    \/ \E e \in writing : Insert(e) \/ InsertFails(e)
    \/ \E e \in resumable : Notify(e)
    \/ \E c \in Client : Connect(c) \/ Send(c) \/ Disconnect(c)

Spec == Init /\ [][Next]_vars /\ \A c \in Client : WF_vars(Send(c))

-----------------------------------------------------------------------------
TypeOK ==
    /\ ToSet(log) \subseteq Event /\ writing \subseteq Event /\ resumable \subseteq Event
    /\ made \in [Task -> 0..MaxEvents]
    /\ ToSet(waiting) \subseteq Event /\ Len(waiting) <= Capacity
    /\ client \in [Client -> {"away", "reading", "closed", "gone"}]
    /\ \A c \in Client : ToSet(got[c]) \subseteq Event
    /\ ToSet(delivered) \subseteq Event /\ dropped \subseteq Event

InOrder(s) == \A i, j \in DOMAIN s : i < j /\ s[i].by = s[j].by => s[i].n < s[j].n

\* Whatever the threads do, the events of one task are stored and reach every
\* client in the order it made them.  The promise is "order of emission"
\* (event_stream.py:16): between tasks the order is that of their resumption.
TaskOrder == InOrder(log) /\ InOrder(delivered) /\ \A c \in Client : InOrder(got[c])

\* A subscriber never hears of an event that a replay of the log would not show.
HeardIsStored == ToSet(delivered) \subseteq ToSet(log)

\* The queue gives up old events only: what was broadcast and is neither sent
\* nor waiting is older than everything waiting.
NewestKept ==
    \A i \in DOMAIN delivered :
        delivered[i] \notin ToSet(waiting) \union UNION {ToSet(got[c]) : c \in Client}
        => \A j \in DOMAIN delivered : delivered[j] \in ToSet(waiting) => i < j

\* An execution's only client comes to its end once an end event was
\* broadcast, unless the queue has given it up.
Alone(c) == \A d \in Client \ {c} : client[d] = "away"
Ended == \E e \in ToSet(delivered) \ dropped : e.end
StreamEnds ==
    \A c \in Client :
        (client[c] = "reading" /\ Ended) ~> (client[c] # "reading" \/ ~Alone(c) \/ ~Ended)
=============================================================================
