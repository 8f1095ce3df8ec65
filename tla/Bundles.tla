--------------------------------- MODULE Bundles ---------------------------------
(***************************************************************************)
(* The folders of modules, and the bundles they are exported to and        *)
(* imported from (core/brain_export.py, module_factory.py,                 *)
(* module_registry.py).  An import has the event loop to itself, but any   *)
(* of its copies may raise, and the process may die between two of them.   *)
(* What a folder holds is a number, 0 if nothing.                          *)
(***************************************************************************)
EXTENDS Naturals

CONSTANTS
    Folder,    \* names of modules
    Lower,     \* Folder -> the name the factory makes of it
    MaxMade,   \* bounds of the model: contents made,
    MaxMishaps \* copies that raise and processes that die

VARIABLES
    folder,    \* Folder -> what is under modules/
    evals,     \* Folder -> its set under data/evals
    stage,     \* Folder -> its stage in models.toml
    factory,   \* global.module_factory_enabled
    modules,   \* the modules the orchestrator has loaded
    bundles,   \* the bundles under the import root
    importing, \* the bundle being imported, and what is done next
    imported,  \* history: the bundle imported last, until its module changes again
    made, mishaps

vars == <<folder, evals, stage, factory, modules, bundles, importing, imported, made, mishaps>>

Content == 0 .. MaxMade
Stage == {"none", "bootstrap", "native"}
Absent == [code |-> FALSE, weights |-> 0, knowledge |-> 0]
Scaffold == [code |-> TRUE, weights |-> 0, knowledge |-> 0]
Bundle == [name : Folder, weights : Content, knowledge : Content, evals : Content, stage : Stage]
Nothing == [at |-> "none"]
NoBundle == [name |-> "none"]

TypeOK ==
    /\ folder \in [Folder -> [code : BOOLEAN, weights : Content, knowledge : Content]]
    /\ evals \in [Folder -> Content] /\ stage \in [Folder -> Stage]
    /\ factory \in BOOLEAN /\ modules \subseteq Folder /\ bundles \subseteq Bundle
    /\ importing = Nothing \/ importing.bundle \in Bundle
    /\ imported = NoBundle \/ imported \in Bundle

Exists(n) == folder[n] # Absent
\* load_all(): the folders with a module.py.
Loadable == {n \in Folder : folder[n].code}

\* The modules of the repository; a folder may also have been dropped in, of any name.
Init ==
    /\ folder \in [Folder -> {Absent, Scaffold}]
    /\ evals = [n \in Folder |-> 0]
    /\ stage = [n \in Folder |-> "none"]
    /\ factory \in BOOLEAN
    /\ modules = Loadable
    /\ bundles = {} /\ importing = Nothing /\ imported = NoBundle
    /\ made = 0 /\ mishaps = 0

Changed(n) == imported' = IF imported # NoBundle /\ imported.name = n THEN NoBundle ELSE imported

\* The training jobs, the crawler and the evaluation builder fill what is there.
Fill(n, part) ==
    /\ importing = Nothing /\ n \in modules /\ made < MaxMade
    /\ made' = made + 1
    /\ IF part = "evals"
       THEN evals' = [evals EXCEPT ![n] = made'] /\ UNCHANGED folder
       ELSE folder' = [folder EXCEPT ![n][part] = made'] /\ UNCHANGED evals
    /\ stage' = [stage EXCEPT ![n] = IF part = "weights" THEN "native" ELSE @]
    /\ Changed(n)
    /\ UNCHANGED <<factory, modules, bundles, importing, mishaps>>

Export(n) ==
    /\ importing = Nothing /\ Exists(n)
    /\ bundles' = bundles \union
         {[name |-> n, weights |-> folder[n].weights, knowledge |-> folder[n].knowledge,
           evals |-> evals[n], stage |-> IF stage[n] = "none" THEN "bootstrap" ELSE stage[n]]}
    /\ UNCHANGED <<folder, evals, stage, factory, modules, importing, imported, made, mishaps>>

\* module_factory.create() and config.register_module().
Create(n) ==
    /\ folder' = [folder EXCEPT ![n] = Scaffold]
    /\ stage' = [stage EXCEPT ![n] = "bootstrap"]
\* POST /modules/new; reload_module() looks under the name as it was given.
NewModule(n) ==
    /\ importing = Nothing /\ factory /\ ~Exists(Lower[n])
    /\ Create(Lower[n])
    /\ modules' = modules \union {m \in {n} : folder'[m].code}
    /\ Changed(Lower[n])
    /\ UNCHANGED <<evals, factory, bundles, importing, made, mishaps>>

\* import_module(): the folder of an older module goes first.
Keep(n) ==  \* mutant: the older folder is left for the copies to overwrite
    UNCHANGED folder
Remove(n) == folder' = [folder EXCEPT ![n] = Absent]
Import(b, overwrite) ==
    /\ importing = Nothing
    /\ Exists(b.name) => overwrite
    /\ Remove(b.name)
    /\ importing' = [bundle |-> b, at |-> "scaffold"]
    /\ Changed(b.name)
    /\ UNCHANGED <<evals, stage, factory, modules, bundles, made, mishaps>>

At(step) == importing # Nothing /\ importing.at = step
Then(step) == importing' = [importing EXCEPT !.at = step]

\* The factory that is disabled raises what nobody catches; its ValueError, a name that
\* exists, is caught.
Refused ==
    /\ At("scaffold") /\ ~factory
    /\ importing' = Nothing
    /\ UNCHANGED <<folder, evals, stage, factory, modules, bundles, imported, made, mishaps>>
Scaffolded ==
    /\ At("scaffold") /\ factory
    /\ LET n == Lower[importing.bundle.name]
       IN  IF Exists(n)
           THEN UNCHANGED <<folder, stage, imported>>
           ELSE Create(n) /\ Changed(n)
    /\ Then("weights")
    /\ UNCHANGED <<evals, factory, modules, bundles, made, mishaps>>

\* Each part is replaced if the bundle has it.
Copied(old, new) == IF new = 0 THEN old ELSE new
Restore(part, next) ==
    /\ At(part)
    /\ LET b == importing.bundle
       IN  folder' = [folder EXCEPT ![b.name][part] = Copied(@, b[part])]
    /\ Then(next)
    /\ UNCHANGED <<evals, stage, factory, modules, bundles, imported, made, mishaps>>
RestoreEvals ==
    /\ At("evals")
    /\ LET b == importing.bundle
       IN  evals' = [evals EXCEPT ![b.name] = Copied(@, b.evals)]
    /\ Then("stage")
    /\ UNCHANGED <<folder, stage, factory, modules, bundles, imported, made, mishaps>>
\* The modules that are loaded stay what they were.
SetStage ==
    /\ At("stage")
    /\ LET b == importing.bundle
       IN  stage' = [stage EXCEPT ![b.name] = b.stage] /\ imported' = b
    /\ importing' = Nothing
    /\ UNCHANGED <<folder, evals, factory, modules, bundles, made, mishaps>>

Raises ==
    /\ importing # Nothing /\ mishaps < MaxMishaps
    /\ importing' = Nothing /\ mishaps' = mishaps + 1
    /\ UNCHANGED <<folder, evals, stage, factory, modules, bundles, imported, made>>
Restart ==
    /\ mishaps < MaxMishaps
    /\ importing' = Nothing /\ mishaps' = mishaps + 1
    /\ modules' = Loadable
    /\ UNCHANGED <<folder, evals, stage, factory, bundles, imported, made>>

Next ==
    \/ \E n \in Folder :
          \/ Export(n) \/ NewModule(n)
          \/ \E part \in {"weights", "knowledge", "evals"} : Fill(n, part)
    \/ \E b \in bundles, overwrite \in BOOLEAN : Import(b, overwrite)
    \/ Refused \/ Scaffolded
    \/ Restore("weights", "knowledge") \/ Restore("knowledge", "evals")
    \/ RestoreEvals \/ SetStage
    \/ Raises \/ Restart
Spec == Init /\ [][Next]_vars

----------------------------------------------------------------------------
\* What an import that returned has left is the bundle and nothing of the module that was
\* there before, whatever was imported, filled or cut short meanwhile: only an
\* evaluation set may be older, when the bundle has none (import_module()).
ImportedIsBundle ==
    imported # NoBundle =>
        LET n == imported.name
        IN  /\ folder[n].weights = imported.weights
            /\ folder[n].knowledge = imported.knowledge
            /\ evals[n] = imported.evals \/ imported.evals = 0
            /\ stage[n] = imported.stage
=============================================================================
