------------------------------ MODULE AppRegistry ------------------------------
(***************************************************************************)
(* The registry of installed apps (core/apps) that create_app and a Celery *)
(* worker fill: three phases under a lock, calls from several threads and  *)
(* out of an app's ready(), a reset after a failure, and the routers,      *)
(* admin views and task modules that are then taken from it.               *)
(***************************************************************************)
EXTENDS Naturals, Sequences, FiniteSets, SequencesExt

CONSTANTS Entry,    \* what the entries of INSTALLED_APPS lead to, see MCProcess
          Lists,    \* the INSTALLED_APPS that are tried
          Threads,  \* other threads that call populate
          NoCall

VARIABLES
    apps,       \* the registry
    call,       \* the call of populate that holds the lock: [by, list, run, stage, i]
    came,       \* how the last call of each thread came out
    hooked,     \* history: the ready() that have run since the registry was last empty
    wired,      \* what ready() has set in other modules: "sink", "credentials"
    installed,  \* INSTALLED_APPS
    entry,      \* "api" or "worker"
    app         \* what is assembled: [stage, admin, routers, views, tasks]

registryVars == <<apps, call, came, hooked, wired>>
assemblyVars == <<registryVars, installed, entry, app>>

Main == "main"
Callers == Threads \cup {Main}

Stages == {"load", "models", "ready", "reset"}

\* A path names one class; a package may hold several, or none.
ASSUME EntryAssumption ==
    \A n \in DOMAIN Entry :
        LET e == Entry[n]
        IN  /\ IsFiniteSet(e.classes)
            /\ e.package = "itself" => Cardinality(e.classes) = 1
            /\ \A c \in e.classes \cup {e.base} : c.tasks \in {"there", "itself", "inner"}

ASSUME RegistryAssumption ==
    /\ Lists \subseteq Seq(DOMAIN Entry)
    /\ NoCall \notin [by : Callers, list : Seq(DOMAIN Entry), run : BOOLEAN, i : Nat, stage : Stages]
    /\ Main \notin Threads

Empty ==
    [configs |-> <<>>, imported |-> {}, entries |-> <<>>, appsReady |-> FALSE,
     modelsReady |-> FALSE, ready |-> FALSE, populated |-> FALSE]

NotAssembled(admin) ==
    [stage |-> "none", admin |-> admin, routers |-> {}, views |-> {}, tasks |-> {}]

Unassembled ==
    /\ apps = Empty
    /\ call = NoCall
    /\ came = [t \in Callers |-> "none"]
    /\ hooked = <<>>
    /\ wired = {}
    /\ installed \in Lists
    /\ entry \in {"api", "worker"}
    /\ app \in {NotAssembled(admin) : admin \in BOOLEAN}

-----------------------------------------------------------------------------
(* AppConfig.  A module is "there", or its import cannot find "itself" or another that it *)
(* needs, "inner".                                                                        *)

\* Mutant of ModuleIsAbsent: any ModuleNotFoundError will do.
ModuleIsAbsentAny(module) == module # "there"

ModuleIsAbsent(module) == module = "itself"

ImportOptional(module) ==
    IF module = "there" THEN "module" ELSE IF ModuleIsAbsent(module) THEN "none" ELSE "raises"

\* The config that an entry stands for, or none if it raises.
SelectConfigClass(e) ==
    LET selectable == {c \in e.classes : c.default # "no"}
        preferred == {c \in selectable : c.default = "yes"}
    IN  CASE ImportOptional(e.apps) = "raises" -> {}
          [] ImportOptional(e.apps) = "none" \/ selectable = {} -> {e.base}
          [] Cardinality(selectable) = 1 -> selectable
          [] Cardinality(preferred) = 1 -> preferred
          [] OTHER -> {}

LoadConfigClass(e) == IF e.path = "there" THEN e.classes ELSE {}

Create(e) ==
    IF e.package = "there" THEN SelectConfigClass(e)
    ELSE IF ModuleIsAbsent(e.package) THEN LoadConfigClass(e)
    ELSE {}

-----------------------------------------------------------------------------
(* populate *)

\* Mutant of Done: it does not look at what has been done.
DoneNever(run) == FALSE

Done(run) == apps.populated /\ (apps.ready \/ ~run)

Other(list) == apps.populated /\ list # apps.entries

Populate(t, list, run) ==
    /\ call = NoCall
    /\ IF Other(list) THEN came' = [came EXCEPT ![t] = "raised"] /\ UNCHANGED call
       ELSE IF Done(run) THEN came' = [came EXCEPT ![t] = "returned"] /\ UNCHANGED call
       ELSE /\ call' = [by |-> t, list |-> list, run |-> run, i |-> 1,
                        stage |-> IF apps.populated THEN "ready" ELSE "load"]
            /\ UNCHANGED came
    /\ UNCHANGED <<apps, hooked, wired>>

\* The phase goes on with the next app, or the next phase begins.
Step == call' = [call EXCEPT !.i = @ + 1]
Phase(stage) == call' = [call EXCEPT !.stage = stage, !.i = 1]

\* _reset, whose first statement readers may see alone.
Fail ==
    /\ apps' = [apps EXCEPT !.configs = <<>>]
    /\ call' = [call EXCEPT !.stage = "reset"]

\* Mutant of Reset: _populated is not taken back.
ResetFlags == [Empty EXCEPT !.populated = apps.populated]

Reset == Empty

Raise ==
    /\ call # NoCall /\ call.stage = "reset"
    /\ apps' = Reset
    /\ hooked' = <<>>
    /\ came' = [came EXCEPT ![call.by] = "raised"]
    /\ call' = NoCall
    /\ UNCHANGED wired

Return == call' = NoCall /\ came' = [came EXCEPT ![call.by] = "returned"]

Labels == {apps.configs[i].label : i \in DOMAIN apps.configs}
Names == {apps.configs[i].name : i \in DOMAIN apps.configs}

LoadConfigs ==
    /\ call # NoCall /\ call.stage = "load"
    /\ IF call.i > Len(call.list)
       THEN /\ apps' = [apps EXCEPT !.entries = call.list, !.appsReady = TRUE]
            /\ Phase("models")
       ELSE LET found == Create(Entry[call.list[call.i]])
            IN  IF ~IsInjective(call.list) \/ \A c \in found : c.name \in Names \/ c.label \in Labels
                THEN Fail
                ELSE /\ \E c \in found : apps' = [apps EXCEPT !.configs = Append(@, c)]
                     /\ Step
    /\ UNCHANGED <<came, hooked, wired>>

ImportModels ==
    /\ call # NoCall /\ call.stage = "models"
    /\ IF call.i > Len(apps.configs)
       THEN /\ apps' = [apps EXCEPT !.modelsReady = TRUE, !.populated = TRUE]
            /\ IF call.run THEN Phase("ready") /\ UNCHANGED came ELSE Return
       ELSE LET c == apps.configs[call.i]
            IN  /\ IF ImportOptional(c.models) = "raises" THEN Fail
                   ELSE apps' = [apps EXCEPT !.imported = @ \cup {c.label}] /\ Step
                /\ UNCHANGED came
    /\ UNCHANGED <<hooked, wired>>

\* populate out of a ready(), in the thread that holds the lock.
NestedRaises(list, run) == Other(list) \/ ~Done(run)

\* An app's ready() sets something elsewhere, raises, or calls populate; it may handle
\* what that raises.
HookRaises(hook) ==
    \/ hook = "raises"
    \/ hook = "populates" /\ NestedRaises(call.list, TRUE)

RunReady ==
    /\ call # NoCall /\ call.stage = "ready"
    /\ IF call.i > Len(apps.configs)
       THEN apps' = [apps EXCEPT !.ready = TRUE] /\ Return /\ UNCHANGED <<hooked, wired>>
       ELSE LET c == apps.configs[call.i]
            IN  /\ hooked' = Append(hooked, c.label)
                /\ wired' = wired \cup (c.hook \cap {"sink", "credentials"})
                /\ IF \E hook \in c.hook : HookRaises(hook) THEN Fail ELSE Step /\ UNCHANGED apps
                /\ UNCHANGED came

RegistryStep ==
    /\ Raise \/ LoadConfigs \/ ImportModels \/ RunReady
    /\ UNCHANGED <<installed, entry, app>>

-----------------------------------------------------------------------------
(* create_app and discover_task_modules *)

LabelsOf(configs) == [i \in DOMAIN configs |-> configs[i].label]

\* The apps of which that module is so.  No two of them have a route in common, so that their
\* order is of no consequence.
Configs(part, states) == {i \in DOMAIN apps.configs : apps.configs[i][part] \in states}
LabelsAt(configs) == {apps.configs[i].label : i \in configs}

Assemble ==
    /\ app.stage = "none"
    /\ Populate(Main, installed, entry = "api")
    /\ app' = [app EXCEPT !.stage = "populating"]
    /\ UNCHANGED <<installed, entry>>

\* Another app has one of the routes.
Conflict(configs) ==
    \E i, j \in configs : i # j /\ apps.configs[i].routes \cap apps.configs[j].routes # {}

Mounted(configs) ==
    /\ \A i \in DOMAIN apps.configs : ImportOptional(apps.configs[i].router) # "raises"
    /\ ~Conflict(configs)

InstallRouters ==
    LET configs == Configs("router", {"there"})
    IN  /\ app.stage = "populating" /\ entry = "api" /\ came[Main] = "returned"
        /\ app' = IF Mounted(configs) THEN [app EXCEPT !.routers = LabelsAt(configs), !.stage = "admin"]
                  ELSE [app EXCEPT !.stage = "failed"]
        /\ UNCHANGED <<registryVars, installed, entry>>

\* create_admin is called unless it is disabled; without somebody to check credentials it
\* raises.
InstallAdmin ==
    LET configs == Configs("admin", {"there"})
    IN  /\ app.stage = "admin"
        /\ app' = IF ~app.admin THEN [app EXCEPT !.stage = "serving"]
                  ELSE IF \/ "credentials" \notin wired
                          \/ \E i \in DOMAIN apps.configs : ImportOptional(apps.configs[i].admin) = "raises"
                       THEN [app EXCEPT !.stage = "failed"]
                  ELSE [app EXCEPT !.views = LabelsAt(configs), !.stage = "serving"]
        /\ UNCHANGED <<registryVars, installed, entry>>

\* A task module is looked for, not imported.
TaskModules ==
    /\ app.stage = "populating" /\ entry = "worker" /\ came[Main] = "returned"
    /\ app' = [app EXCEPT !.stage = "working",
                          !.tasks = LabelsAt(Configs("tasks", {"there", "inner"}))]
    /\ UNCHANGED <<registryVars, installed, entry>>

NotPopulated ==
    /\ app.stage = "populating" /\ came[Main] = "raised"
    /\ app' = [app EXCEPT !.stage = "failed"]
    /\ UNCHANGED <<registryVars, installed, entry>>

\* Other threads call populate while an API process starts, with its list or with another;
\* a worker's registry is its own.
Elsewhere(t) ==
    /\ entry = "api" /\ app.stage \in {"none", "populating"}
    /\ came[t] # "returned"
    /\ \E list \in {installed, SubSeq(installed, 2, Len(installed))}, run \in BOOLEAN : Populate(t, list, run)
    /\ UNCHANGED <<installed, entry, app>>

AssemblyStep ==
    \/ RegistryStep
    \/ Assemble \/ InstallRouters \/ InstallAdmin \/ TaskModules \/ NotPopulated
    \/ \E t \in Threads : Elsewhere(t)

-----------------------------------------------------------------------------
(* Properties *)

\* Whoever has called populate and however that came out, a registry that nobody is filling
\* is empty, or has every app of one caller's list, in its order, with their models
\* (registry.py:17, registry.py:94).
AllOrNothing ==
    call = NoCall =>
        \/ apps = Empty
        \/ /\ apps.populated /\ apps.appsReady /\ apps.modelsReady
           /\ Len(apps.configs) = Len(apps.entries)
           /\ \A i \in DOMAIN apps.entries : apps.configs[i] \in Create(Entry[apps.entries[i]])
           /\ apps.imported = Labels

\* ready() runs once for each app, in order, and when the models of all of them are there,
\* whatever threads call populate again and whether it is called out of a ready()
\* (registry.py:3-13).  A population that fails takes its hooks back with the apps: what is
\* called next runs them anew.
HooksOnce ==
    /\ (call # NoCall /\ call.stage = "reset") \/ IsPrefix(hooked, LabelsOf(apps.configs))
    /\ hooked # <<>> => apps.modelsReady
    /\ apps.ready => hooked = LabelsOf(apps.configs)

\* What an installed app declares is served or stops the start: no router, admin view or
\* task module is missing because one of its imports is broken, and no route of one app
\* hides that of another (wiring.py:16-19).
NothingVanishes ==
    LET All(Has(_)) == {c.label : c \in {d \in UNION {Create(Entry[e]) : e \in ToSet(installed)} : Has(d)}}
    IN  /\ app.stage = "serving" =>
            /\ app.routers = All(LAMBDA c : c.router # "itself")
            /\ app.admin => app.views = All(LAMBDA c : c.admin # "itself")
            /\ ~Conflict(Configs("router", {"there"}))
        /\ app.stage = "working" => app.tasks = All(LAMBDA c : c.tasks # "itself")
===============================================================================
