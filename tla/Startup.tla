-------------------------------- MODULE Startup --------------------------------
(***************************************************************************)
(* A deployment of the program: the settings it is given, the start they   *)
(* allow or refuse, the pools its processes open connections from, and the *)
(* records they log.                                                       *)
(***************************************************************************)
EXTENDS Logging, LogFiles

CONSTANTS Deployments,  \* the deployments that are tried, see MCProcess
          Records       \* the records they log: [source, logger, level]

\* The settings have validated types; a level that logging does not know raises.
ASSUME LevelAssumption ==
    /\ \A rec \in Records : rec.level \in DOMAIN Severity
    /\ \A d \in Deployments :
           /\ "level" \in DOMAIN d.log => d.log.level \in DOMAIN Severity \cup {Unset}
           /\ "appLevels" \in DOMAIN d.log =>
                  \A h \in DOMAIN d.log.appLevels :
                      d.log.appLevels[h] \in DOMAIN Severity \ {"NOTSET"}

\* Sizes are numbers, and hosts names.
ASSUME PoolAssumption ==
    \A d \in Deployments :
        /\ d.pools.router \in BOOLEAN /\ d.pools.replication \in BOOLEAN
        /\ d.pools.hosts \in Seq(STRING)
        /\ {d.pools.size, d.pools.overflow, d.pools.bgSize, d.pools.bgOverflow,
            d.pools.processes, d.pools.server} \subseteq Nat

VARIABLES
    deployment, \* [about, given, log, loglevel, logfile, pools]: what is set, and what it tries
    boot,       \* "down", "running" or "refused"
    open,       \* open connections: [process, engine] -> Nat
    last        \* the last record and the handlers that wrote it, or none yet

startupVars == <<logVars, deployment, boot, open, last>>

-----------------------------------------------------------------------------

Env == Value(deployment.given).ENV

\* What the logging settings come to.
LogSettings ==
    [name \in {"env", "debug"} \cup DOMAIN LogDefaults |->
        IF name = "env" THEN Env
        ELSE IF name = "debug" THEN Value(deployment.given).DEBUG
        ELSE IF name \in DOMAIN deployment.log THEN deployment.log[name] ELSE LogDefaults[name]]

\* The engines of session.py: the background engine, 0, the writer, 1, and the readers.
Engines == 0..(1 + Len(ReplicaUrls(deployment.pools)))

ServerOf(e) == IF e <= 1 THEN "primary" ELSE ReplicaUrls(deployment.pools)[e - 1]

PoolOf(e) ==
    LET p == deployment.pools
    IN  IF e = 0 THEN p.bgSize + p.bgOverflow ELSE p.size + p.overflow

Slots == (1..deployment.pools.processes) \X Engines

WritesFile == "file" \in DOMAIN Handlers(LogSettings, deployment.logfile)

Down ==
    /\ NoFiles
    /\ deployment \in Deployments
    /\ boot = "down"
    /\ open = [s \in Slots |-> 0]
    /\ last = {}

\* Importing config, session and logs.
Boot ==
    /\ boot = "down"
    /\ IF Starts(deployment.given, LogSettings, deployment.pools)
       THEN /\ boot' = "running"
            /\ IF WritesFile THEN OpenFile ELSE UNCHANGED logVars
       ELSE boot' = "refused" /\ UNCHANGED logVars
    /\ UNCHANGED <<deployment, open, last>>

\* The processes end, for whatever reason.  Bound: one that is to be followed through its
\* apps and its lifespan is not started again.
Exit ==
    /\ boot = "running" /\ deployment.about # "apps"
    /\ boot' = "down"
    /\ open' = [s \in Slots |-> 0]
    /\ IF WritesFile THEN CloseFile ELSE UNCHANGED logVars
    /\ UNCHANGED <<deployment, last>>

Connect(s) ==
    /\ deployment.about = "pools" /\ boot = "running"
    /\ open[s] < PoolOf(s[2])
    /\ open' = [open EXCEPT ![s] = @ + 1]
    /\ UNCHANGED <<logVars, deployment, boot, last>>

Disconnect(s) ==
    /\ open[s] > 0
    /\ open' = [open EXCEPT ![s] = @ - 1]
    /\ UNCHANGED <<logVars, deployment, boot, last>>

\* Bound: the deployments that are about files log one record again and again, the ones
\* about levels each record once.
Log(rec, size) ==
    /\ boot = "running"
    /\ deployment.about \in {"levels", "files"}
    /\ deployment.about = "levels" => last = {} /\ size = 1
    /\ deployment.about = "files" => rec = [source |-> "app/core", logger |-> "app", level |-> "ERROR"]
    /\ LET by == WrittenBy(LogSettings, deployment.loglevel, deployment.logfile, rec)
       IN  /\ last' = {[rec |-> rec, by |-> by]}
           /\ IF "file" \in by THEN FileRecord(size) ELSE UNCHANGED logVars
    /\ UNCHANGED <<deployment, boot, open>>

NextDay ==
    /\ deployment.about = "files"
    /\ Midnight
    /\ UNCHANGED <<deployment, boot, open, last>>

StartupStep ==
    \/ Boot \/ Exit \/ NextDay
    \/ \E s \in Slots : Connect(s) \/ Disconnect(s)
    \/ \E rec \in Records, size \in 1..2 : Log(rec, size)

-----------------------------------------------------------------------------
(* Properties *)

\* The connections from those slots, each numbered in its pool.
Total(slots) == Cardinality(UNION {{s} \X (1..open[s]) : s \in slots})

\* All processes with all their pools full: no server gets more connections than the
\* limit that the settings state, though replicas may share a server with each other or
\* with the primary (config.py:564).
ServersNotOverrun ==
    deployment.pools.server # 0 =>
        \A server \in {ServerOf(e) : e \in Engines} :
            Total({s \in Slots : ServerOf(s[2]) = server}) <= deployment.pools.server

\* A deployment signs and logs in with secrets of its own: from whichever of the environment,
\* the .env file and the defaults a value comes, no process outside tests uses one that
\* stands in config.py or .env.example, nor takes a refresh token for an access token
\* (config.py:1333, config.py:1355).  The exception is a password that is set for the
\* replicas alone, which validate_deployment_safety does not look at (config.py:1379); the
\* one that they share with the primary is no exception.
RunsOnOwnSecrets ==
    boot = "running" /\ Env # "test" =>
        LET v == Value(deployment.given)
            used == Keys \cup {"MYSQL", "REDIS"} \cup
                    (IF Replicated(deployment.pools) THEN {"REPLICA"} ELSE {})
        IN  /\ \A n \in used : Secret(v, n) \in Published => n = "REPLICA" /\ v.REPLICA # <<>>
            /\ v.ACCESS # v.REFRESH

\* What carries statements stays out of every output of a deployed process below WARNING,
\* whatever the levels of headers, files and the command line (filters.py:120,
\* config.py:1255, config.py:1395): always where the ORM or a driver says it; where a session
\* says why it was rolled back, unless its header is asked for at DEBUG, or all levels are
\* given up by LOG_LEVEL=NOTSET, neither of which the start refuses.
SqlStaysOut ==
    \A l \in last :
        /\ Deployed(Env) /\ CarriesSql(l.rec) /\ Severity[l.rec.level] < Severity["WARNING"]
        /\ l.by # {}
        => /\ l.rec = Rollback
           /\ IF "core" \in DOMAIN LogSettings.appLevels THEN LogSettings.appLevels["core"] = "DEBUG"
              ELSE LogSettings.level = "NOTSET"

\* A level that is set for a header holds for its records, up and down, on every handler
\* that takes their level; with --loglevel the root may be above it (utils/logs/config.py:170).
HeadersHeard ==
    \A l \in last :
        LET s == LogSettings
            header == AppFromPath(l.rec.source, l.rec.logger)
            all == Handlers(s, deployment.logfile)
            takes == {h \in DOMAIN all : Severity[l.rec.level] >= Severity[all[h]]}
        IN  header \in DOMAIN s.appLevels /\ l.rec.logger \notin SqlLoggers
            => IF Severity[l.rec.level] < Severity[s.appLevels[header]] THEN l.by = {}
               ELSE deployment.loglevel = Unset => l.by = takes
===============================================================================
