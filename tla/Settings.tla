------------------------------- MODULE Settings -------------------------------
(***************************************************************************)
(* config.py: where a setting comes from, what a settings class refuses,   *)
(* what is refused of all of them together, and what is derived from them. *)
(* A value is abstracted to what the checks tell apart.                    *)
(***************************************************************************)
EXTENDS Integers, Sequences, TLC

\* A setting that is not given.
Unset == "unset"

-----------------------------------------------------------------------------
(* Sources *)

\* Keys and passwords are sequences of words, <<>> a blank one: those that stand in the
\* code or in .env.example, some that are too short for a key, and whatever else one sets.
Published ==
    {<<"change-this", n>> : n \in {"access", "refresh", "session", "mysql", "replica"}}
TooShort == {<<"short">>}

AppDefaults == [ENV |-> "development", DEBUG |-> TRUE]
KeyDefaults ==
    [ACCESS |-> <<"change-this", "access">>, REFRESH |-> <<"change-this", "refresh">>,
     SESSION |-> <<"change-this", "session">>]
PasswordDefaults == [MYSQL |-> <<>>, REDIS |-> <<>>, REPLICA |-> <<>>]

Default == AppDefaults @@ KeyDefaults @@ PasswordDefaults

\* Environment variables come before the .env file, if there is one, and that before the
\* defaults.  A given g: [file, environ, dotenv], the last two functions from names.
InFile(g) == IF g.file THEN g.dotenv ELSE <<>>
Given(g) == DOMAIN g.environ \cup DOMAIN InFile(g)
Value(g) == g.environ @@ InFile(g) @@ Default

\* What is used where v are the values: replicas take the primary's password if they are
\* given none.
Secret(v, n) == IF n = "REPLICA" /\ v.REPLICA = <<>> THEN v.MYSQL ELSE v[n]

-----------------------------------------------------------------------------
(* What ends the start *)

\* Mutant of Placeholder: the words of the defaults are not among them.
PlaceholderExample(secret) == secret = <<>> \/ Head(secret) = "your-"

Placeholder(secret) ==
    secret = <<>> \/ Head(secret) = "your-" \/ \E i \in DOMAIN secret : secret[i] = "change-this"

Keys == {"ACCESS", "REFRESH", "SESSION"}

RequiredWithoutFile == {"ENV"} \cup Keys \cup {"MYSQL"}

\* ADMIN turned into its opposite, ADMIN_DISABLED.
Removed == {"ADMIN"}

EnvSource(g) == Value(g).ENV = "test" \/ g.file \/ RequiredWithoutFile \subseteq DOMAIN g.environ

NothingRemoved(g) == Value(g).ENV = "test" \/ Removed \cap Given(g) = {}

Deployed(env) == env \in {"staging", "production"}

CrossSettings(s) == ~(Deployed(s.env) /\ s.sqlEcho)

\* A blank password of Redis means that it has none.  That of the replicas is not looked at.
DeploymentSafety(g, s) ==
    LET v == Value(g)
    IN  v.ENV = "test" \/
        /\ \A n \in Keys : ~Placeholder(v[n]) /\ v[n] \notin TooShort
        /\ ~Placeholder(v.MYSQL)
        /\ v.REDIS # <<>> => ~Placeholder(v.REDIS)
        /\ v.ACCESS # v.REFRESH
        /\ Deployed(v.ENV) => ~v.DEBUG /\ s.level # "DEBUG"

-----------------------------------------------------------------------------
(* DatabaseSettings *)

\* pools: [router, replication, hosts, size, overflow, bgSize, bgOverflow, processes,
\* server], hosts a sequence of servers, server their max_connections or 0.
Replicated(pools) == pools.router /\ pools.replication

\* The URLs that engines are made of.
ReplicaUrls(pools) == IF Replicated(pools) THEN pools.hosts ELSE <<>>

\* Mutant of MaxConnections: the pool of the background sessions is left out.
MaxConnectionsOfRequests(pools) ==
    (pools.size + pools.overflow) * (1 + (IF pools.replication THEN Len(pools.hosts) ELSE 0))
    * pools.processes

MaxConnections(pools) ==
    ( (pools.size + pools.overflow) * (1 + (IF pools.replication THEN Len(pools.hosts) ELSE 0))
      + pools.bgSize + pools.bgOverflow )
    * pools.processes

RoutingValid(pools) ==
    /\ pools.replication => pools.router /\ pools.hosts # <<>>
    /\ pools.server # 0 => MaxConnections(pools) <= pools.server

-----------------------------------------------------------------------------
(* LogSettings *)

Severity == [NOTSET |-> 0, DEBUG |-> 10, INFO |-> 20, WARNING |-> 30, ERROR |-> 40]

\* s: [env, debug, level, consoleLevel, fileLevel, console, files, sqlEcho, appLevels];
\* appLevels a function from some headers to levels.
LogDefaults ==
    [level |-> Unset, consoleLevel |-> Unset, fileLevel |-> "INFO", console |-> TRUE,
     files |-> TRUE, sqlEcho |-> FALSE, appLevels |-> <<>>]

OrByDebug(level, debug) ==
    IF level # Unset THEN level ELSE IF debug THEN "DEBUG" ELSE "INFO"

EffectiveLevel(s) == OrByDebug(s.level, s.debug)
EffectiveConsoleLevel(s) == OrByDebug(s.consoleLevel, s.debug)

-----------------------------------------------------------------------------

\* The process runs: nothing above has raised.
Starts(g, s, pools) ==
    /\ RoutingValid(pools)
    /\ CrossSettings(s)
    /\ EnvSource(g)
    /\ NothingRemoved(g)
    /\ DeploymentSafety(g, s)
===============================================================================
