-------------------------------- MODULE Logging --------------------------------
(***************************************************************************)
(* utils/logs: what build_dictconfig makes of the settings, and the way of *)
(* a record through the root logger and the filters to the handlers.       *)
(***************************************************************************)
EXTENDS Settings, FiniteSetsExt

-----------------------------------------------------------------------------
(* Headers *)

\* Where a record was made: in one of our packages, in the rest of the repository, or in
\* an installed package.
Sources == {"features/home", "app/core", "app/celery", "main.py", "site-packages"}

LabelFromPath(source) ==
    CASE source = "features/home" -> "home"
      [] source = "app/core" -> "core"
      [] source = "app/celery" -> "celery"
      [] source = "main.py" -> "app"
      [] OTHER -> "ext"

\* By the first part of the name of the logger.
ExternalHeaders == ("celery" :> "celery") @@ ("uvicorn" :> "uvicorn") @@
                   ("sqlalchemy" :> "sqlalchemy")

\* Drivers have no header of their own.
Loggers == {"app", "celery", "uvicorn", "sqlalchemy", "pymysql"}
SqlLoggers == {"sqlalchemy", "pymysql"}

\* What a session of session.py says at DEBUG when it is rolled back: the exception in full,
\* which holds the statement that failed.  At ERROR it gives the exception's type.
Rollback == [source |-> "app/core", logger |-> "app", level |-> "DEBUG"]

CarriesSql(rec) == rec.logger \in SqlLoggers \/ rec = Rollback

AppFromPath(source, logger) ==
    LET label == LabelFromPath(source)
    IN  IF label # "ext" THEN label
        ELSE IF logger \in DOMAIN ExternalHeaders THEN ExternalHeaders[logger]
        ELSE "ext"

-----------------------------------------------------------------------------
(* build_dictconfig *)

\* Handlers and the level of each; --logfile of Celery has none.
Handlers(s, logfile) ==
    (IF s.console THEN "console" :> EffectiveConsoleLevel(s) ELSE <<>>) @@
    (IF Deployed(s.env) /\ s.files THEN ("file" :> s.fileLevel) @@ ("error_file" :> "ERROR")
                                   ELSE <<>>) @@
    (IF logfile THEN "logfile" :> "NOTSET" ELSE <<>>)

\* Mutant of RootLevel: the levels of the headers are forgotten.
RootLevelDefault(s) == Severity[EffectiveLevel(s)]

\* The lowest of all, so that records reach the filters.
RootLevel(s) ==
    Min({Severity[EffectiveLevel(s)]} \cup {Severity[s.appLevels[h]] : h \in DOMAIN s.appLevels})

\* use_app_logging of a worker and of beat, with its --loglevel.
RootLevelOf(s, loglevel) == IF loglevel = Unset THEN RootLevel(s) ELSE Severity[loglevel]

-----------------------------------------------------------------------------
(* Filters *)

\* Mutant of SqlNoise: the drivers repeat what SQLAlchemy must not say.
SqlNoiseOfOrm(s, logger, level) ==
    s.sqlEcho \/ Severity[level] >= Severity["WARNING"] \/ logger # "sqlalchemy"

SqlNoise(s, logger, level) ==
    s.sqlEcho \/ Severity[level] >= Severity["WARNING"] \/ logger \notin SqlLoggers

AppLevel(s, header) ==
    IF header \in DOMAIN s.appLevels THEN s.appLevels[header] ELSE EffectiveLevel(s)

AppLevels(s, header, level) == Severity[level] >= Severity[AppLevel(s, header)]

\* The handlers that write a record of a process.
WrittenBy(s, loglevel, logfile, rec) ==
    {h \in DOMAIN Handlers(s, logfile) :
        /\ Severity[rec.level] >= RootLevelOf(s, loglevel)
        /\ Severity[rec.level] >= Severity[Handlers(s, logfile)[h]]
        /\ SqlNoise(s, rec.logger, rec.level)
        /\ AppLevels(s, AppFromPath(rec.source, rec.logger), rec.level)}
===============================================================================
