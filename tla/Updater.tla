-------------------------------- MODULE Updater --------------------------------
(***************************************************************************)
(* How an installation cloned with git updates itself and undoes it        *)
(* (interface/updater.py, and the endpoints of interface/api.py).          *)
(* Commits are numbered, and the newest release is the newest of them.  An *)
(* install runs in a thread of its own; a rollback holds the event loop,   *)
(* beside the threads.  Any of their commands may fail or time out.        *)
(***************************************************************************)
EXTENDS Naturals

CONSTANTS
    Installation,     \* bound: the installs that are started
    MaxCommit,   \* bound: commits on main
    MaxRestarts  \* bound: restarts and deaths of the process

None == 0
Nobody == "nobody"

VARIABLES
    newest,   \* the newest commit of origin/main
    head,     \* HEAD of the working copy
    point,    \* the commit in .rollback_commit; None: the file is empty or absent
    step,     \* where each install is
    version,  \* the commit each was started for
    undo,     \* where rollback() is
    target,   \* the commit it read
    restarts,
    before,   \* history: HEAD before the last update; None once that is undone
    owner     \* history: the install that wrote the point, with nothing beside it since

vars == <<newest, head, point, step, version, undo, target, restarts, before, owner>>
commits == <<newest, restarts>>

Init ==
    /\ newest = 1 /\ head = 1 /\ point = None
    /\ step = [i \in Installation |-> "new"] /\ version = [i \in Installation |-> None]
    /\ undo = "idle" /\ target = None /\ restarts = 0
    /\ before = None /\ owner = Nobody

To(i, s) == step' = [step EXCEPT ![i] = s]
UnderWay == {i \in Installation : step[i] \in {"asked", "pointed", "fetched"}}
Alone(i) == undo = "idle" /\ UnderWay \subseteq {i}

Publish ==
    /\ newest < MaxCommit /\ newest' = newest + 1
    /\ UNCHANGED <<head, point, step, version, undo, target, restarts, before, owner>>

\* install_update(): check() finds a newer release or, without releases, another commit on
\* main; when it fails or finds none nothing is started.  A rollback holds the loop.
Ask(i) ==
    /\ undo = "idle" /\ step[i] = "new" /\ newest > head
    /\ To(i, "asked") /\ version' = [version EXCEPT ![i] = newest]
    /\ UNCHANGED <<commits, head, point, undo, target, before, owner>>

\* _install_via_git(), 1: the point to come back to, over the one that is there; that
\* stays if HEAD cannot be read.
SavePoint(i) ==
    /\ step[i] = "asked" /\ To(i, "pointed")
    /\ \/ point' = head /\ owner' = IF Alone(i) THEN i ELSE Nobody
       \/ UNCHANGED point /\ owner' = Nobody
    /\ UNCHANGED <<commits, head, version, undo, target, before>>

\* 2: git fetch.
FetchOrigin(i) ==
    /\ step[i] = "pointed"
    /\ To(i, "fetched") \/ To(i, "ended")
    /\ UNCHANGED <<commits, head, point, version, undo, target, before, owner>>

\* 3: git checkout of the release, or git pull.  4 installs what it needs, and whether
\* that fails is not looked at.
Switch(i) ==
    /\ step[i] = "fetched"
    /\ \/ /\ head' \in {version[i], newest}
          /\ before' = head /\ To(i, "updated")
       \/ To(i, "ended") /\ UNCHANGED <<head, before>>
    /\ UNCHANGED <<commits, point, version, undo, target, owner>>

----------------------------------------------------------------------------
\* rollback(): refused without a point.
Rollback ==
    /\ undo = "idle" /\ point # None
    /\ target' = point /\ undo' = "checkout"
    /\ owner' = IF UnderWay = {} THEN owner ELSE Nobody
    /\ UNCHANGED <<commits, head, point, step, version, before>>

CheckedOut ==
    /\ undo = "checkout"
    /\ head' = target /\ undo' = "installing"
    /\ before' = None /\ owner' = Nobody
    /\ UNCHANGED <<commits, point, step, version, target>>
CheckoutFails ==
    /\ undo = "checkout" /\ undo' = "idle"
    /\ UNCHANGED <<commits, head, point, step, version, target, before, owner>>

\* The point is removed at the end, unless the installation of what is needed times out.
RolledBack ==
    /\ undo = "installing" /\ undo' = "idle"
    /\ point' = None \/ UNCHANGED point
    /\ UNCHANGED <<commits, head, step, version, target, before, owner>>

\* restart() replaces the process, and its threads; a death may come while the point is
\* written, and leaves the file empty.
Restart ==
    /\ restarts < MaxRestarts /\ restarts' = restarts + 1
    /\ step' = [i \in Installation |-> IF i \in UnderWay THEN "ended" ELSE step[i]]
    /\ undo' = "idle"
    /\ \/ UNCHANGED <<point, owner>>
       \/ (\E i \in Installation : step[i] = "asked") /\ point' = None /\ owner' = Nobody
    /\ UNCHANGED <<newest, head, version, target, before>>

Next ==
    \/ Publish
    \/ \E i \in Installation : Ask(i) \/ SavePoint(i) \/ FetchOrigin(i) \/ Switch(i)
    \/ Rollback \/ CheckedOut \/ CheckoutFails \/ RolledBack
    \/ Restart
Spec == Init /\ [][Next]_vars

----------------------------------------------------------------------------
\* After an update the way back is kept, through failed rollbacks and restarts, until it
\* is taken or another install is started.
UndoIsKept ==
    owner # Nobody /\ step[owner] = "updated" => before # None /\ point = before

\* "Roll back to the commit before the last update?": that is where a rollback goes, when
\* no install is under way.
RollbackIsPrevious ==
    [][undo = "checkout" /\ undo' = "installing" /\ UnderWay = {} /\ before # None
        => head' = before]_vars
=============================================================================
