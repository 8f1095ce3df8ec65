------------------------------ MODULE TrainingJobs ------------------------------
(***************************************************************************)
(* The training of one module: the scheduler's cycle and the one the API   *)
(* triggers, which share a directory of pending weights (learning/         *)
(* scheduler.py, trainer.py, finetuner.py, evaluator.py, modules/base.py). *)
(* Between two awaits a job has the event loop to itself, but not the      *)
(* disk: the process may die, and a copy may fail, inside such a section.  *)
(***************************************************************************)
EXTENDS Integers

CONSTANTS
    MinPairs,     \* learning.min_pairs_to_train
    MaxPairs,     \* bound: pairs counted
    MaxTrained,   \* bound: trainings that deliver weights
    MaxMishaps    \* bound: deaths of the process, failed copies and trainings

Trainer == {"cycle", "trigger"}
Empty == 0
Part == -1              \* some files of a set of weights
Dir == {"active", "previous", "pending"}

VARIABLES
    disk,      \* Dir -> the weights in it
    at,        \* where each trainer is
    mine,      \* the weights each trainer has trained
    held,      \* the trainer that has the event loop, or "nobody"
    trained, mishaps, pairs,
    passed,    \* history: weights that passed their evaluation
    mixed,     \* history: weights trained while the other trainer was at work
    installed  \* history: a whole set of weights was installed

weights == <<disk, at, mine, held, trained, passed, mixed, installed>>
vars == <<weights, mishaps, pairs>>

Init ==
    /\ disk = [d \in Dir |-> Empty]
    /\ at = [t \in Trainer |-> "idle"] /\ mine = [t \in Trainer |-> Empty]
    /\ held = "nobody" /\ trained = 0 /\ mishaps = 0 /\ pairs = 0
    /\ passed = {} /\ mixed = {} /\ installed = FALSE

Goto(t, pc) == at' = [at EXCEPT ![t] = pc]
Free == held = "nobody"
Mishap == mishaps < MaxMishaps /\ mishaps' = mishaps + 1

-----------------------------------------------------------------------------
\* Training

\* trainer.prepare(): enough pairs, or the cycle passes the module over; the
\* scheduler's cycle announces the training, and waits for that.
Prepare(t) ==
    /\ Free /\ at[t] = "idle" /\ trained < MaxTrained
    /\ pairs >= MinPairs
    /\ Goto(t, "prepared")
    /\ held' = IF t = "trigger" THEN t ELSE held
    /\ UNCHANGED <<disk, mine, trained, passed, mixed, installed, mishaps, pairs>>

\* finetuner.train() writes into the pending directory and blocks the loop.
StartTraining(t) ==
    /\ at[t] = "prepared" /\ held \in {"nobody", t} /\ trained < MaxTrained
    /\ held' = t
    /\ Goto(t, "training")
    /\ disk' = [disk EXCEPT !.pending = Part]
    /\ UNCHANGED <<mine, trained, passed, mixed, installed, mishaps, pairs>>

Others(t) == {u \in Trainer \ {t} : at[u] # "idle"}
Trained(t) ==
    /\ at[t] = "training"
    /\ trained' = trained + 1
    /\ disk' = [disk EXCEPT !.pending = trained + 1]
    /\ mine' = [mine EXCEPT ![t] = trained + 1]
    /\ mixed' = IF Others(t) = {} THEN mixed
                ELSE mixed \union {trained + 1} \union {mine[u] : u \in Others(t)}
    /\ Goto(t, "evaluating")
    /\ held' = "nobody"
    /\ UNCHANGED <<passed, installed, mishaps, pairs>>

\* It raises: None, and what it has written stays.
TrainingFails(t) ==
    /\ at[t] = "training" /\ Mishap
    /\ Goto(t, "idle") /\ held' = "nobody"
    /\ UNCHANGED <<disk, mine, trained, passed, mixed, installed, pairs>>

\* evaluator.evaluate(): both models and the external one answer the
\* evaluation set; without a set the weights pass.
Passes(t) ==
    /\ at[t] = "evaluating" /\ Free
    /\ passed' = passed \union {mine[t]}
    /\ Goto(t, "save") /\ held' = t
    /\ UNCHANGED <<disk, mine, trained, mixed, installed, mishaps, pairs>>
FailsOpen(t) ==  \* mutant: the weights that failed stay pending and are loaded
    /\ at[t] = "evaluating" /\ Free
    /\ Goto(t, "save") /\ held' = t
    /\ UNCHANGED <<disk, mine, trained, passed, mixed, installed, mishaps, pairs>>
Fails(t) ==
    /\ at[t] = "evaluating" /\ Free
    /\ disk' = [disk EXCEPT !.pending = Empty]
    /\ Goto(t, "idle")
    /\ UNCHANGED <<mine, held, trained, passed, mixed, installed, mishaps, pairs>>

\* load_weights(): the active weights are copied to previous, the pending ones
\* to active; a directory is removed, then filled.
Emptied(d) == \E c \in {Empty, Part} : disk' = [disk EXCEPT ![d] = c]
Save(t) ==
    /\ at[t] = "save"
    /\ IF disk.active # Empty
       THEN Emptied("previous") /\ Goto(t, "saving")
       ELSE UNCHANGED disk /\ Goto(t, "swap")
    /\ UNCHANGED <<mine, held, trained, passed, mixed, installed, mishaps, pairs>>
Saved(t) ==
    /\ at[t] = "saving"
    /\ disk' = [disk EXCEPT !.previous = disk.active]
    /\ Goto(t, "swap")
    /\ UNCHANGED <<mine, held, trained, passed, mixed, installed, mishaps, pairs>>
Swap(t) ==
    /\ at[t] = "swap"
    /\ IF disk.pending # Empty
       THEN Emptied("active") /\ Goto(t, "install")
       ELSE UNCHANGED disk /\ Goto(t, "loaded")
    /\ UNCHANGED <<mine, held, trained, passed, mixed, installed, mishaps, pairs>>
Install(t) ==
    /\ at[t] = "install"
    /\ disk' = [disk EXCEPT !.active = disk.pending]
    /\ installed' = (installed \/ disk.pending > 0)
    /\ Goto(t, "loaded")
    /\ UNCHANGED <<mine, held, trained, passed, mixed, mishaps, pairs>>
\* A file error is logged and the training is recorded all the same.
LoadFails(t) ==
    /\ at[t] \in {"saving", "install"} /\ Mishap
    /\ Goto(t, "loaded")
    /\ UNCHANGED <<disk, mine, held, trained, passed, mixed, installed, pairs>>
\* record_training() and the announcements.
Announce(t) ==
    /\ at[t] = "loaded"
    /\ Goto(t, "idle") /\ held' = "nobody"
    /\ UNCHANGED <<disk, mine, trained, passed, mixed, installed, mishaps, pairs>>

Training(t) ==
    \/ StartTraining(t) \/ Trained(t) \/ TrainingFails(t) \/ Passes(t) \/ Fails(t)
    \/ Save(t) \/ Saved(t) \/ Swap(t) \/ Install(t) \/ LoadFails(t) \/ Announce(t)

-----------------------------------------------------------------------------
\* A user's question is saved as a pair.
Interaction == Free /\ pairs < MaxPairs /\ pairs' = pairs + 1 /\ UNCHANGED <<weights, mishaps>>

\* The process dies; what is on disk remains.
Die ==
    /\ Mishap
    /\ at' = [t \in Trainer |-> "idle"] /\ held' = "nobody"
    /\ UNCHANGED <<disk, mine, trained, passed, mixed, installed, pairs>>

Next ==
    \/ \E t \in Trainer : Prepare(t) \/ Training(t)
    \/ Interaction \/ Die

Spec == Init /\ [][Next]_vars

-----------------------------------------------------------------------------
TypeOK ==
    /\ disk \in [Dir -> {Empty, Part} \union 1..MaxTrained]
    /\ at \in [Trainer -> {"idle", "prepared", "training", "evaluating", "save", "saving",
                           "swap", "install", "loaded"}]
    /\ mine \in [Trainer -> 0..MaxTrained]
    /\ held \in Trainer \union {"nobody"}
    /\ (held # "nobody" => at[held] \notin {"idle", "evaluating"})
    /\ trained \in 0..MaxTrained /\ mishaps \in 0..MaxMishaps /\ pairs \in 0..MaxPairs
    /\ passed \subseteq 1..MaxTrained /\ mixed \subseteq 0..MaxTrained /\ installed \in BOOLEAN

\* A module that has had a whole set of weights keeps one, in one of its directories: after
\* a failed copy, a failed training or a death of the process too, as long as no two
\* trainings have overlapped (base.py:155).  Then a pass of the one can find the pending
\* directory removed by the other's failure, and copy a broken set over the previous one.
Kept == \E d \in Dir : disk[d] > 0
WeightsSurvive ==
    /\ mishaps = 0 /\ installed => Kept
    /\ mishaps = 1 /\ mixed = {} /\ installed => Kept

\* Weights that did not pass their evaluation do not become active, unless two
\* trainings were under way at once: they share the pending directory.
OnlyPassedServe == disk.active > 0 => disk.active \in passed \union mixed
=============================================================================
