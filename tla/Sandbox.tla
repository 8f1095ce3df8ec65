--------------------------------- MODULE Sandbox ---------------------------------
(***************************************************************************)
(* Programs run in a sandbox (core/sandbox/backends/namespace_backend.py). *)
(* run() is in a thread of the executor, create(), cancel(), destroy() and *)
(* inspect() on the event loop, so they come between any two steps of it.  *)
(* A group of processes is one process here: one signal kills them all.    *)
(***************************************************************************)
EXTENDS Naturals

CONSTANTS
    Handle, Workspace  \* what create() returns, the directories policies name

VARIABLES
    dir,      \* Handle -> its policy's directory
    known,    \* the handles of self._handles
    state, pgid, cancel,  \* Handle -> _RunState: state, is the group known, cancel_requested
    cgroup,   \* Handle -> "none", or has its memory limit been met: "met", "unmet"
    process,  \* Handle -> "none", "alive", "zero", "other", "signal": how it ended
    run,      \* Handle -> where its run() is
    out,      \* Handle -> how communicate() ended: "exit", "timeout"
    result,   \* Handle -> what run() returned
    disk,     \* Workspace -> "gone", "empty", "output"
    destroyed \* the handles destroy() has been called for

vars == <<dir, known, state, pgid, cancel, cgroup, process, run, out, result, disk, destroyed>>

NoResult == [reason |-> "none"]

TypeOK ==
    /\ dir \in [Handle -> Workspace]
    /\ known \subseteq Handle /\ destroyed \subseteq Handle
    /\ state \in [Handle -> {"pending", "provisioning", "running", "terminated"}]
    /\ pgid \in [Handle -> BOOLEAN] /\ cancel \in [Handle -> BOOLEAN]
    /\ cgroup \in [Handle -> {"none", "unmet", "met"}]
    /\ process \in [Handle -> {"none", "alive", "zero", "other", "signal"}]
    /\ run \in [Handle -> {"none", "queued", "spawned", "waiting", "timedOut", "ended",
                           "classified", "returned", "raised"}]
    /\ disk \in [Workspace -> {"gone", "empty", "output"}]

Init ==
    /\ dir \in [Handle -> Workspace]
    /\ known = {} /\ destroyed = {}
    /\ state = [h \in Handle |-> "pending"]
    /\ pgid = [h \in Handle |-> FALSE] /\ cancel = [h \in Handle |-> FALSE]
    /\ cgroup = [h \in Handle |-> "none"]
    /\ process = [h \in Handle |-> "none"]
    /\ run = [h \in Handle |-> "none"] /\ out = [h \in Handle |-> "none"]
    /\ result = [h \in Handle |-> NoResult]
    /\ disk = [w \in Workspace |-> "gone"]

Go(h, step) == run' = [run EXCEPT ![h] = step]
Alive(h) == process[h] = "alive"

\* create(): the directory, which may be another handle's too, and the cgroups.
Create(h) ==
    /\ run[h] = "none" /\ h \notin known \union destroyed
    /\ disk' = [disk EXCEPT ![dir[h]] = IF @ = "gone" THEN "empty" ELSE @]
    /\ cgroup' = [cgroup EXCEPT ![h] = "unmet"]
    /\ known' = known \union {h}
    /\ state' = [state EXCEPT ![h] = "provisioning"]
    /\ UNCHANGED <<dir, pgid, cancel, process, run, out, result, destroyed>>

\* run(): a thread of the executor takes it up when there is one.
Run(h) ==
    /\ h \in known /\ run[h] = "none"
    /\ Go(h, "queued")
    /\ UNCHANGED <<dir, known, state, pgid, cancel, cgroup, process, out, result, disk, destroyed>>

\* A handle destroyed by now is a KeyError.  Popen() raises when the cgroups are gone,
\* or for what has nothing to do with them; the state is TERMINATED all the same.
Forgotten(h) ==
    /\ run[h] = "queued" /\ h \notin known
    /\ Go(h, "raised")
    /\ UNCHANGED <<dir, known, state, pgid, cancel, cgroup, process, out, result, disk, destroyed>>
SpawnFails(h) ==
    /\ run[h] = "queued" /\ h \in known
    /\ state' = [state EXCEPT ![h] = "terminated"]
    /\ Go(h, "raised")
    /\ UNCHANGED <<dir, known, pgid, cancel, cgroup, process, out, result, disk, destroyed>>
Spawn(h) ==
    /\ run[h] = "queued" /\ h \in known
    /\ state' = [state EXCEPT ![h] = "running"]
    /\ process' = [process EXCEPT ![h] = "alive"]
    /\ Go(h, "spawned")
    /\ UNCHANGED <<dir, known, pgid, cancel, cgroup, out, result, disk, destroyed>>
\* os.getpgid(): the process has not been waited for, so it is there even if it ended.
KnowGroup(h) ==
    /\ run[h] = "spawned"
    /\ pgid' = [pgid EXCEPT ![h] = TRUE]
    /\ Go(h, "waiting")
    /\ UNCHANGED <<dir, known, state, cancel, cgroup, process, out, result, disk, destroyed>>

\* The process: it writes what it was to write, meets its limit, ends, with zero if it
\* has written it.
Writes(h) ==
    /\ Alive(h) /\ disk[dir[h]] # "gone"
    /\ disk' = [disk EXCEPT ![dir[h]] = "output"]
    /\ UNCHANGED <<dir, known, state, pgid, cancel, cgroup, process, run, out, result, destroyed>>
MeetsLimit(h) ==
    /\ Alive(h) /\ cgroup[h] # "none"
    /\ cgroup' = [cgroup EXCEPT ![h] = "met"]
    /\ UNCHANGED <<dir, known, state, pgid, cancel, process, run, out, result, disk, destroyed>>
Exits(h, how) ==
    /\ Alive(h)
    /\ how = "zero" => disk[dir[h]] # "empty"
    /\ process' = [process EXCEPT ![h] = how]
    /\ UNCHANGED <<dir, known, state, pgid, cancel, cgroup, run, out, result, disk, destroyed>>

\* _killpg()
KillNobody(h) ==  \* mutant: nothing is killed
    UNCHANGED process
Kill(h) ==
    process' = [process EXCEPT ![h] = IF pgid[h] /\ @ = "alive" THEN "signal" ELSE @]

\* communicate(): the process ends, or the time is over, and the group is killed and
\* waited for.
Ends(h) ==
    /\ run[h] = "waiting" /\ ~Alive(h)
    /\ out' = [out EXCEPT ![h] = "exit"]
    /\ Go(h, "ended")
    /\ UNCHANGED <<dir, known, state, pgid, cancel, cgroup, process, result, disk, destroyed>>
TimeIsOver(h) ==
    /\ run[h] = "waiting"
    /\ Kill(h)
    /\ out' = [out EXCEPT ![h] = "timeout"]
    /\ Go(h, "ended")
    /\ UNCHANGED <<dir, known, state, pgid, cancel, cgroup, result, disk, destroyed>>

\* _classify(): the cgroup first; the counter of one that is gone reads as zero.
HowItEnded(h) ==  \* mutant: how the process ended comes first
    IF process[h] \in {"zero", "other"} THEN "completed"
    ELSE IF cgroup[h] = "met" THEN "exceeded"
    ELSE IF cancel[h] THEN "cancelled" ELSE "error"
Reason(h) ==
    IF cgroup[h] = "met" THEN "exceeded"
    ELSE IF process[h] = "signal" THEN (IF cancel[h] THEN "cancelled" ELSE "error")
    ELSE "completed"
Classify(h) ==
    /\ run[h] = "ended"
    /\ result' = [result EXCEPT ![h] =
                    [reason |-> IF out[h] = "timeout" THEN "timeout" ELSE Reason(h),
                     exit |-> IF out[h] = "timeout" THEN "none" ELSE process[h]]]
    /\ state' = [state EXCEPT ![h] = "terminated"]
    /\ Go(h, "classified")
    /\ UNCHANGED <<dir, known, pgid, cancel, cgroup, process, out, disk, destroyed>>
\* _collect_artifacts(), of whatever is in the directory.
Return(h) ==
    /\ run[h] = "classified"
    /\ result' = [result EXCEPT ![h] =
                    [reason |-> @.reason, exit |-> @.exit,
                     artifacts |-> disk[dir[h]] = "output"]]
    /\ Go(h, "returned")
    /\ UNCHANGED <<dir, known, state, pgid, cancel, cgroup, process, out, disk, destroyed>>

Cancel(h) ==
    /\ h \in known
    /\ cancel' = [cancel EXCEPT ![h] = TRUE]
    /\ Kill(h)
    /\ UNCHANGED <<dir, known, state, pgid, cgroup, run, out, result, disk, destroyed>>

\* destroy(): a cgroup with a process cannot be removed; after five attempts it is left.
Destroy(h) ==
    /\ h \in known
    /\ known' = known \ {h}
    /\ Kill(h)
    /\ \/ UNCHANGED cgroup
       \/ process'[h] # "alive" /\ cgroup' = [cgroup EXCEPT ![h] = "none"]
    /\ disk' = [disk EXCEPT ![dir[h]] = "gone"]
    /\ destroyed' = destroyed \union {h}
    /\ UNCHANGED <<dir, state, pgid, cancel, run, out, result>>

Succeeded(h) == result[h].reason = "completed" /\ result[h].exit = "zero"

Thread(h) ==
    \/ Forgotten(h) \/ SpawnFails(h) \/ Spawn(h) \/ KnowGroup(h)
    \/ Ends(h) \/ TimeIsOver(h) \/ Classify(h) \/ Return(h)
Process(h) ==
    \/ Writes(h) \/ MeetsLimit(h)
    \/ \E how \in {"zero", "other", "signal"} : Exits(h, how)
Next ==
    \E h \in Handle :
        Create(h) \/ Run(h) \/ Thread(h) \/ Process(h) \/ Cancel(h) \/ Destroy(h)
\* The executor's threads run; a process need not end.
Spec == Init /\ [][Next]_vars /\ \A h \in Handle : WF_vars(Thread(h))

----------------------------------------------------------------------------
\* A run that succeeded ended by itself with zero, within its memory, in its time, and
\* reports what it wrote, unless its handle, or another with the directory, was
\* destroyed meanwhile (_classify(), _collect_artifacts()).
SuccessIsEarned ==
    \A h \in Handle :
        run[h] = "returned" /\ Succeeded(h) =>
            /\ process[h] = "zero" /\ out[h] = "exit"
            /\ h \notin destroyed => cgroup[h] = "unmet"
            /\ (\A g \in destroyed : dir[g] # dir[h]) => result[h].artifacts

\* What destroy() or cancel() came too early to kill does not stay for ever: the time
\* out of the run kills it (_run_sync()).
NoOrphans == \A h \in Handle : (h \in destroyed \/ cancel[h]) ~> ~Alive(h)

=============================================================================
