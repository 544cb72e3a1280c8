------------------------------- MODULE MCProcess -------------------------------
\* Apps like those of the repository, and apps that go wrong in one way each; deployments of
\* which one part of the settings varies at a time.
EXTENDS Process, TLC

Config(label) ==
    [default |-> "unsaid", name |-> label, label |-> label, models |-> "there", router |-> "there",
     routes |-> {label}, admin |-> "there", tasks |-> "itself", hook |-> {}, tables |-> {label}]

Class(c) == [package |-> "itself", path |-> "there", apps |-> "itself", classes |-> {c}, base |-> c]
Package(classes, base) ==
    [package |-> "there", path |-> "itself", apps |-> "there", classes |-> classes, base |-> base]

MCEntry ==
    [auth |-> Class([Config("auth") EXCEPT !.models = "itself", !.admin = "itself", !.tables = {},
                                           !.hook = {"credentials"}]),
     home |-> Class([Config("home") EXCEPT !.hook = {"sink"}, !.tasks = "there"]),
     blog |-> Package({Config("blog"), [Config("blog2") EXCEPT !.default = "no"]}, Config("blog")),
     blog2 |-> Package({Config("blog"), [Config("blog2") EXCEPT !.default = "yes"]}, Config("base")),
     bare |-> [Package({}, Config("bare")) EXCEPT !.apps = "itself"],
     unclear |-> Package({Config("blog"), Config("blog2")}, Config("base")),
     nowhere |-> [Class(Config("nowhere")) EXCEPT !.path = "itself"],
     broken |-> [Package({}, Config("broken")) EXCEPT !.package = "inner"],
     brokenApps |-> [Package({Config("brokenApps")}, Config("broken")) EXCEPT !.apps = "inner"],
     brokenModels |-> Class([Config("brokenModels") EXCEPT !.models = "inner"]),
     brokenRouter |-> Class([Config("brokenRouter") EXCEPT !.router = "inner"]),
     brokenAdmin |-> Class([Config("brokenAdmin") EXCEPT !.admin = "inner"]),
     brokenTasks |-> Class([Config("brokenTasks") EXCEPT !.tasks = "inner"]),
     raises |-> Class([Config("raises") EXCEPT !.hook = {"raises"}]),
     populates |-> Class([Config("populates") EXCEPT !.hook = {"populates"}]),
     tries |-> Class([Config("tries") EXCEPT !.hook = {"tries"}]),
     shadow |-> Class([Config("shadow") EXCEPT !.routes = {"home", "shadow"}]),
     home2 |-> Class([Config("home") EXCEPT !.name = "home2"])]

MCFollowed == <<"auth", "home", "blog">>

MCLists ==
    {MCFollowed, <<"home", "blog2", "home">>, <<"home", "home2">>, <<"home", "shadow">>,
     <<"auth", "home", "bare">>} \cup
    {<<"auth", "home", e>> : e \in {"unclear", "nowhere", "broken", "brokenApps", "brokenModels",
        "brokenRouter", "brokenAdmin", "brokenTasks", "raises", "populates", "tries", "blog2"}}

-----------------------------------------------------------------------------

MCRecords ==
    [source : Sources, logger : Loggers, level : {"DEBUG", "INFO", "WARNING", "ERROR"}]

OwnKeys == [ACCESS |-> <<"k1">>, REFRESH |-> <<"k2">>, SESSION |-> <<"k3">>, MYSQL |-> <<"k4">>]

OneServer ==
    [router |-> FALSE, replication |-> FALSE, hosts |-> <<>>, size |-> 1, overflow |-> 0,
     bgSize |-> 1, bgOverflow |-> 0, processes |-> 1, server |-> 0]

Plain ==
    [about |-> "levels", log |-> <<>>, loglevel |-> Unset, logfile |-> FALSE, pools |-> OneServer,
     given |-> [file |-> FALSE, dotenv |-> <<>>,
                environ |-> [ENV |-> "production", DEBUG |-> FALSE] @@ OwnKeys]]

WithPools ==
    {[Plain EXCEPT !.about = "pools", !.pools = p] :
        p \in [router : BOOLEAN, replication : BOOLEAN,
               hosts : {<<>>, <<"r1", "r2">>, <<"r1", "primary">>, <<"r1", "r1">>},
               size : {1}, overflow : {0, 1}, bgSize : {1}, bgOverflow : {0},
               processes : {1, 2}, server : {0, 3, 4, 7}]}

\* ADMIN is the removed name; the others are given or not, in one place or in both.  There
\* are replicas, so that their password is used.
Environs ==
    {[n \in names |-> v[n]] :
        names \in {{}, {"ENV", "DEBUG"}, {"ENV", "DEBUG", "ACCESS", "REFRESH", "SESSION", "MYSQL"},
                   {"ENV", "DEBUG", "ACCESS", "REFRESH", "SESSION", "MYSQL", "REPLICA"},
                   {"ENV", "DEBUG", "ACCESS", "REFRESH", "SESSION", "MYSQL", "REDIS", "ADMIN"}},
        v \in [ENV : {"test", "development", "production"}, DEBUG : {FALSE},
               ACCESS : {<<"k1">>, <<"change-this", "access">>}, REFRESH : {<<"k2">>, <<"k1">>},
               SESSION : {<<"k3">>, <<"short">>}, MYSQL : {<<"k4">>, <<"change-this", "mysql">>, <<>>},
               REDIS : {<<"your-", "key">>, <<"not", "your-">>},
               REPLICA : {<<"change-this", "replica">>, <<>>}, ADMIN : {"x"}]}

DotEnvs == {<<>>, [ENV |-> "development", SESSION |-> <<"k6">>],
            [ACCESS |-> <<"k7">>, REFRESH |-> <<"k8">>, SESSION |-> <<"k9">>, MYSQL |-> <<"k4">>,
             REDIS |-> <<"k5">>],
            [ACCESS |-> <<"your-", "key">>, REFRESH |-> <<"k8">>, SESSION |-> <<"k9">>,
             MYSQL |-> <<"k4">>]}

WithSecrets ==
    {[Plain EXCEPT !.about = "secrets", !.given = g, !.pools.router = TRUE,
                   !.pools.replication = TRUE, !.pools.hosts = <<"r1", "r2">>] :
        g \in [file : BOOLEAN, environ : Environs, dotenv : DotEnvs]}

WithLevels ==
    {[Plain EXCEPT !.given.environ.ENV = env, !.loglevel = l, !.logfile = f, !.log = s] :
        env \in {"development", "production"}, l \in {Unset, "WARNING"}, f \in BOOLEAN,
        s \in [level : {Unset, "WARNING", "DEBUG", "NOTSET"}, consoleLevel : {Unset, "WARNING"},
               fileLevel : {"DEBUG", "INFO"}, console : BOOLEAN, files : BOOLEAN, sqlEcho : BOOLEAN,
               appLevels : {<<>>, "core" :> "DEBUG", "sqlalchemy" :> "DEBUG",
                            [home |-> "ERROR", ext |-> "DEBUG"]}]}

\* Processes that come to assemble their apps, with DEBUG and without.
WithApps ==
    {[Plain EXCEPT !.about = "apps", !.given.environ.ENV = "development",
                   !.given.environ.DEBUG = debug] : debug \in BOOLEAN}

MCDeployments ==
    WithPools \cup WithSecrets \cup WithLevels \cup WithApps \cup {[Plain EXCEPT !.about = "files"]}
===============================================================================
