----------------------------- MODULE Configuration -----------------------------
(***************************************************************************)
(* The configuration in memory and on disk (core/config.py): the modules'  *)
(* state in models.toml, the settings in settings.toml, a thread that      *)
(* loads what changed, and a user who edits the settings.  Calls and loads *)
(* hold one lock; a file is written by opening it, which empties it, and   *)
(* then filling it.                                                        *)
(***************************************************************************)
EXTENDS Naturals

CONSTANTS
    Setting,         \* settings that calls of set() add
    Edit,        \* settings that the user adds
    MaxWrites,   \* bound: changes of a module's stage, and of its counters
    MaxRestarts  \* bound: deaths of the process

Torn == {"torn"}  \* a file that is cut off within a line, and does not parse

VARIABLES
    models,     \* _models: how often the critical and the other keys were written
    modelsFile, \* models.toml
    unsaved,    \* _models_dirty
    settings,   \* _settings
    settingsFile,
    editing,    \* what the user's editor has yet to write, or {}
    changed,    \* the files whose modification time the watcher has not seen
    watcher,    \* its thread
    restarts,
    writes,     \* history: how often they were set; of the other keys, what a death left
    cut         \* history: a death emptied models.toml

vars == <<models, modelsFile, unsaved, settings, settingsFile, editing, changed, watcher,
          writes, restarts, cut>>
modelVars == <<models, modelsFile, unsaved, writes, cut>>
settingVars == <<settings, settingsFile, editing>>

Fresh == [critical |-> 0, other |-> 0]
Init ==
    /\ models = Fresh /\ modelsFile = Fresh /\ unsaved = FALSE
    /\ settings = {} /\ settingsFile = {} /\ editing = {}
    /\ changed = {"models", "settings"} /\ watcher = "polling"
    /\ writes = Fresh /\ restarts = 0 /\ cut = FALSE

\* _persist_models(): the whole of it, deferred keys included.
Persist(m) ==
    /\ models' = m /\ modelsFile' = m /\ unsaved' = FALSE
    /\ changed' = changed \union {"models"}
Defer(m) ==
    /\ models' = m /\ unsaved' = TRUE
    /\ UNCHANGED <<modelsFile, changed>>

\* set_module_state() with a key of _CRITICAL_STATE_KEYS, and with any other.
SetCritical ==
    /\ writes.critical < MaxWrites
    /\ writes' = [writes EXCEPT !.critical = @ + 1]
    /\ Persist([models EXCEPT !.critical = @ + 1])
    /\ UNCHANGED <<settingVars, watcher, restarts, cut>>
SetOther ==
    /\ writes.other < MaxWrites
    /\ writes' = [writes EXCEPT !.other = @ + 1]
    /\ Defer([models EXCEPT !.other = @ + 1])
    /\ UNCHANGED <<settingVars, watcher, restarts, cut>>
flush ==
    /\ unsaved /\ Persist(models)
    /\ UNCHANGED <<settingVars, watcher, writes, restarts, cut>>

\* set(): the settings as they are in memory, with one more, replace the file.
set(key) ==
    /\ key \notin settings
    /\ settings' = settings \union {key} /\ settingsFile' = settings \union {key}
    /\ changed' = changed \union {"settings"}
    /\ UNCHANGED <<modelVars, editing, watcher, restarts>>

\* register_module(): its state, then its settings.
register_module(key) ==
    /\ key \notin settings /\ writes.critical < MaxWrites
    /\ writes' = [writes EXCEPT !.critical = @ + 1]
    /\ models' = [models EXCEPT !.critical = @ + 1] /\ modelsFile' = models'
    /\ unsaved' = FALSE
    /\ settings' = settings \union {key} /\ settingsFile' = settings \union {key}
    /\ changed' = {"models", "settings"}
    /\ UNCHANGED <<editing, watcher, restarts, cut>>

\* The user saves: at once, or by way of a file that is empty, then cut off.
EditorOpens(e) ==
    /\ editing = {} /\ settingsFile # Torn /\ e \notin settingsFile
    /\ \/ editing' = {} /\ settingsFile' = settingsFile \union {e}
       \/ editing' = settingsFile \union {e} /\ settingsFile' \in {{}, Torn}
    /\ changed' = changed \union {"settings"}
    /\ UNCHANGED <<modelVars, settings, watcher, restarts>>
EditorCloses ==
    /\ editing # {} /\ settingsFile' = editing /\ editing' = {}
    /\ changed' = changed \union {"settings"}
    /\ UNCHANGED <<modelVars, settings, watcher, restarts>>

\* _load_all(): nothing is taken over from files that do not parse; unsaved state is not
\* replaced by what is on disk.
LoadAll ==
    /\ settings' = settingsFile
    /\ models' = IF unsaved THEN models ELSE modelsFile
Watch(file) ==
    /\ watcher = "polling" /\ file \in changed
    /\ changed' = changed \ {file}
    /\ \/ settingsFile # Torn /\ LoadAll /\ UNCHANGED watcher
       \/ settingsFile = Torn /\ watcher' = "dead" /\ UNCHANGED <<settings, models>>
    /\ UNCHANGED <<modelsFile, unsaved, settingsFile, editing, writes, restarts, cut>>

\* The process dies, also while it writes a file, and starts on what it finds; it does not
\* start on a file that does not parse.
Restart ==
    /\ restarts < MaxRestarts /\ restarts' = restarts + 1
    /\ settingsFile # Torn
    /\ \/ UNCHANGED <<modelsFile, cut>>
       \/ modelsFile' = Fresh /\ cut' = TRUE
    /\ settingsFile' \in {settingsFile, {}}
    /\ models' = modelsFile' /\ unsaved' = FALSE /\ settings' = settingsFile'
    /\ writes' = [writes EXCEPT !.other = models'.other]
    /\ changed' = {"models", "settings"} /\ watcher' = "polling"
    /\ UNCHANGED editing

Next ==
    \/ SetCritical \/ SetOther \/ flush
    \/ \E key \in Setting : set(key) \/ register_module(key)
    \/ \E e \in Edit : EditorOpens(e)
    \/ EditorCloses
    \/ \E file \in {"models", "settings"} : Watch(file)
    \/ Restart

\* The thread polls every two seconds, and a user's editor writes the file in the end.
Spec ==
    /\ Init /\ [][Next]_vars
    /\ \A file \in {"models", "settings"} : WF_vars(Watch(file))
    /\ WF_vars(EditorCloses)

----------------------------------------------------------------------------
\* A stage that was set is in memory and on disk, whatever was loaded since, and over any
\* number of deaths, but for one that comes while the file is written; a reload takes no
\* counter back.
StateIsKept ==
    /\ ~cut => models.critical = writes.critical /\ modelsFile.critical = writes.critical
    /\ models.other = writes.other

\* An edit is loaded, unless a call replaces the file before that or the watcher has
\* died of a file that was cut off when it looked.
EditsAreSeen ==
    \A e \in Edit :
        e \in settingsFile ~> e \in settings \/ e \notin settingsFile \/ watcher = "dead"
=============================================================================
