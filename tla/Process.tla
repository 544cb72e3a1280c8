-------------------------------- MODULE Process --------------------------------
(***************************************************************************)
(* A process from its settings to its end: they let it start, the apps are *)
(* assembled, and an API process then goes through its lifespan with them. *)
(***************************************************************************)
EXTENDS Lifespan, AppRegistry, Startup

CONSTANTS Followed  \* bound: the one list whose process is followed into its lifespan

processVars == <<vars, assemblyVars, startupVars>>

\* Bound: only the deployments that are about apps go on to assemble some.
ProcessInit ==
    /\ Init
    /\ Unassembled
    /\ Down
    /\ deployment.about # "apps" => installed = Followed /\ entry = "api" /\ ~app.admin

\* Importing main or app.celery has come past the settings.
Started == deployment.about = "apps" /\ boot = "running"

\* owned_tables
Owned == UNION {apps.configs[i].tables : i \in DOMAIN apps.configs}

\* _prepare_database connects to the database, and may fail, only if it is to create
\* tables and an app has some.
PrepareDatabase ==
    phase = "prepare" /\ (~Value(deployment.given).DEBUG \/ Owned = {}) => phase' = "serving"

Live ==
    /\ Started
    /\ app.stage = "serving" /\ app.admin /\ installed = Followed
    /\ Next
    /\ PrepareDatabase
    /\ UNCHANGED <<assemblyVars, startupVars>>

ProcessNext ==
    \/ StartupStep /\ UNCHANGED <<vars, assemblyVars>>
    \/ Started /\ AssemblyStep /\ UNCHANGED <<vars, startupVars>>
    \/ Live

ProcessSpec == ProcessInit /\ [][ProcessNext]_processVars /\ Fairness
===============================================================================
