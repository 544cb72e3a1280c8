# Verification of the FastAPI project structure

TLA+ models of the parts of this application that hold state or decide something,
TLC runs that check them on small instances, and TLAPS proofs of the theorems that
matter most for every instance. Paths are relative to the repository; line numbers
are those of the sources the models were translated from. `PROJECT.json` maps every
definition to its lines.

## 1. The system

A FastAPI application served by several worker processes, with a relational
database (a primary and optional replicas), Redis, Celery workers and an admin
backend. Handlers are coroutines: everything between two `await`s of a process is
atomic in that process, and nothing is atomic between processes except what one
Redis command or MULTI, or one database transaction, makes so.

| Component | State | Operations | Talks to |
|---|---|---|---|
| **Refresh tokens** `core/security/refresh_store.py`, `features/auth/services/auth_service.py` | Redis: `auth:rt:{jti}`, `auth:user:{sub}:fams`, `auth:fam:{fam}:revoked`, each with its TTL | register, consume (GETDEL), revoke_family, revoke_user; login, rotate, logout | users table; revocation |
| **Admin sessions** `core/security/admin_session.py`, `admin_auth.py` | Redis: a session per id, an index per user, idle and absolute expiry; the session a request has loaded | create, load, touch, delete, revoke_user; login, authenticate, logout | users table; revocation; CSRF |
| **Revocation** `core/security/revocation.py` | none (a verdict on a change) | revocation_for_change, revoke | both token stores, from PATCH, DELETE, the admin and the script |
| **Accounts** `auth_service.py`, `features/user`, `scripts/create_superuser.py`, `core/security/tokens.py` | users table; access tokens at large | verify (rehash), register, create, PATCH, DELETE, the admin's form, the script | password hashes, revocation, authorization |
| **Rate limiter** `core/security/rate_limit.py` | Redis: a counter per address, and per address and name | hit (INCR and EXPIRE NX in one MULTI), reset | login, register |
| **Database routing** `core/db/router.py`, `session.py`, `raw_crud_base.py` | flags in `Session.info`, a round-robin cursor | choose a server per statement, pin, fall back, block writes | every repository |
| **Requests** `core/bootstrap.py`, `core/middlewares`, `core/security/access.py`, `dependencies.py`, `core/exception.py`, `core/db/errors.py`, repositories, services, example features | a session per request; the tables | guard, validate, read, write, convert errors, commit, answer, log, close | all of the above |
| **Access log** `features/home`, `core/middlewares/user_info_middleware.py` | a table | record, save, query, purge in batches | background tasks, Celery |
| **Celery worker** `celery/` | one event loop per process and its pooled connections | run_async, shutdown, discover tasks | engines, registry, logging |
| **App registry** `core/apps` | app configs, ready flags | populate, reset; routers, admin views, task modules | bootstrap, worker |
| **Process lifespan** `core/resources.py`, `core/redis.py`, `core/middlewares/background_tasks.py` | the AsyncExitStack, the published client, the engines, the running tasks | startup, spawn with a cap, drain, release | registry, access log |
| **Configuration** `config.py` | environment, `.env`, defaults | read, refuse, derive | everything |
| **Logging** `utils/logs` | files, their numbers and ages; levels | emit, filter, rotate, purge | - |
| **Date ranges** `core/admin_filters.py`, `features/reports` | none | local days as UTC bounds, grouping by day | access log, reports |
| Admin CSRF, client address, pagination, redaction, developer scripts, migrations | none, or used by one caller at a time | - | not modelled, section 5 |

### What is hard here

* **Check, await, act.** `rotate` reads the revoked mark, awaits the user row, then
  registers a token; the admin middleware loads a session before the app runs and
  writes it back when the response starts; `update_user` decides what to revoke from
  a row it read before its UPDATE waited for the row lock; a login verifies a
  password, rehashes it in a thread and writes it later; registration looks for a
  name and inserts it later; two DELETEs both read the row.
* **Two round trips.** `revoke_user` of both stores lists an index and then deletes it.
* **Order of revoke and commit.** PATCH and DELETE revoke before they commit, the
  script commits before it revokes; each order has its own window.
* **Order of commit, answer and record.** The handler commits before it answers; an
  exception passes the access log before somebody turns it into a status.
* **Several clocks.** A token's key, its family's index, the mark of the family and
  the JWT expire on their own; idle and absolute expiry of a session meet; two
  timeouts run over one drain; rights in an access token outlive the row.
* **Stickiness against replication lag**, and a replica that dies in mid-session.
* **Half-way failures**: startup that fails at any step, an app whose module is absent
  or broken, a populate that raises in the middle, an incomplete `.env`.
* **Limits**: the limiter's windows, the cap of background tasks, pools against a
  server's connections, batches of a purge that another one shortens, file names.
* **The calendar**: days of 23 and 25 hours, offsets west of Greenwich, the first and
  the last day that a date can be.

## 2. The modules

| Module | Models | Extended by |
|---|---|---|
| `TokenLine` | abstract: a family is one line of tokens, each used once | `RefreshTokens` (INSTANCE) |
| `RefreshTokens` | RefreshTokenStore, AuthService's requests, PATCH/DELETE/script as far as they revoke | `MCRefreshTokens`, `RefreshTokensProofs` |
| `AdminSessions` | AdminSessionStore, the session middleware, the admin's login/authenticate/logout, everyone who revokes | `MCAdminSessions`, `AdminSessionsProofs` |
| `Accounts` | the users table, everyone who writes to it, and the access tokens | `MCAccounts`, `AccountsProofs` |
| `RateLimiter` | RateLimiter and the login flow over two counters | `RateLimiterProofs` |
| `DBRouting` | DatabaseRouter, RoutingSession, its listeners and the session dependencies | `MCDBRouting`, `DBRoutingProofs` |
| `Errors` | exception classes, conversion of driver errors, handlers | `Requests` |
| `Requests` | a request through guards, service, commit, error handlers and the access log middleware | `MCRequests`, `RequestsProofs` |
| `Settings` | config.py: sources, what refuses the start, what is derived | `Logging` |
| `Logging` | build_dictconfig, headers, filters | `Startup` |
| `LogFiles` | DailySizeRotatingFileHandler | `Startup` |
| `Startup` | a deployment: settings, start, connections, records | `Process` |
| `Lifespan` | startup, BackgroundTaskRunner, drain, cleanup stack | `Process` |
| `AppRegistry` | Apps.populate, AppConfig.create, wiring, discover_task_modules | `Process` |
| `Process` | a process: settings, then create_app, then the lifespan with the apps it found | `MCProcess`, `ProcessProofs` |
| `DateRanges` | LocalDateFilter, the daily sales report | `AccessLog` |
| `AccessLog` | the table, its purge by Celery tasks, the pages over it | `MCAccessLog`, `AccessLogProofs` |

The `MC` modules hold the permutations used as symmetry and the larger constants
(`RateLimiter` needs none and is run as it is). Definitions named "Mutant of X" are X
with a plausible bug; no specification uses them.

### RefreshTokens

A request is a process whose stage (`req[r].pc`) is the await it waits at; each
action is the code from one await to the next, so that any interleaving of requests
of several workers is a behaviour, and `Fail` may end a request at any await. Keys
are kept as remaining ticks (0: absent); `Tick` lowers all of them, while requests
are in progress too. `rt`, `fams`, `famsTtl`, `revoked` are the three kinds of Redis
keys; `tok` and `jwt` the signed tokens; `row` and `pw` the committed user row.
`Claims` of a rotation are those of any token ever issued: a lost answer is a token
never presented again, or presented twice. `hist` records what the properties need
to speak of the past (which family was killed, which token was registered after
that by a rotation whose check had met no mark, which family registered behind a running
revocation) and no action reads it; nor do they read the field `clear` of a request, which
is what its check saw.

Abstracted: the password is a generation number; a rejected login changes nothing
and is left out; the rehash of a login is in `Accounts`; PATCH changes `is_active`
only; the script's read, UPDATE and commit are one step, as nothing awaits another
party in between except the row lock, which is in the guard.

### AdminSessions

The same shape: `ttl`, `age`, `owner` of each session id, `index` and `idxTtl` per
user, and requests in stages: load (middleware), the view or login or logout, then
the commit at the start of the response (`CommitCreate`, `CommitTouch`,
`CommitDelete`). Both expiries tick together, in fractions of a
`Second`, as `_ttl` cuts to whole seconds and never below one. `save` of a loaded session has no
caller in the code that reaches it and is left out, as is a session value that
cannot be parsed.

### Accounts

`rows` is what is committed; a request that has written holds the row's lock until it
commits or fails, and a write is a function from the columns it names to their values,
applied to the row *as it is then* (`UPDATE ... SET` only the given columns). The
INSERT meets a unique index and waits for whoever is about to take or give up the
name. `access` is, per user and `su` claim, what is left of the youngest access token:
nothing revokes those. `hist.last` is the row as somebody last set it on purpose;
`hist.raced` the rows whose password was set while a login was about to rehash the
one before, which is the one way a password comes back (section 6). A password is a
number, and `Prefix` says which ones share their first 72 bytes: a hash of bcrypt
(`legacy`) fits them all, and the login that finds it out stores a hash of the password
*presented*. An Argon2 hash with old parameters is replaced in the same way but
compared whole, which the model's logins include as a case of their own passwords.
An admin's form
is two requests, `FormOpen` and `FormPost`, with any time in between: it posts every
flag as it was shown, except the one the admin changed, and what differs from the row
by then is written; the model takes all of it as set on purpose. Its user name and
e-mail are left out, and so is the login of an admin, which rehashes as any other and
issues no token. What is revoked is in the two token stores' modules.

### RateLimiter

`count` and `ttl` are the counter of each key; an attempt hits the address, then
address and name, verifies, and resets the latter if it succeeded. `allowed` counts
what was let through by age, so that `BurstBound` can speak of every span as long as
a window; `due` is what is left of the shortest Retry-After that the running window gave
out. Time goes in fractions of a `Second`, as Redis rounds a TTL to the nearest second.

### DBRouting

One record per session: its flags (`ro`, `pinned`, `reader`), what its transaction
has (`snap`, `wrote`, `slipped`, `dirty`, `lost`) and history (`from`, `knows`, `blind`,
`knocks`). A statement is one of eight kinds, as `_is_write` and
`_statement_is_readable` tell them apart. Untagged Raw SQL may read, lock or change
rows; so may a statement of a type for which neither has a rule (`"other"`: a union, DDL,
DML in a `from_statement`), which the one takes for a read and the other refuses. What
such a one changes on a replica is no commit of the primary. Databases are the number of commits they show; a plain read sees the snapshot
of its transaction on that server (REPEATABLE READ). A failure other than the one
fallback closes the session, as the dependencies do. A tag on Raw SQL is taken to be
right: the methods that set it are the only callers.

### Errors and Requests

`app` is a feature with its table of routes, each with its operation, the access
dependencies it declares, the status of its success and the errors its OpenAPI entry
names. Besides the features of the repository it may be the catalog with *one route
declared in any way* that `AccessPolicyGuard` lets start: the guard is what is
checked there, not the routes we happen to have. A request arrives - FastAPI reads and
decodes its body before anything else (`Garbled`), then the guards run, and then its
input is judged - and reads, writes under the row's lock, is converted to its
response, commits, is answered and recorded, and its session closes. Any statement,
the conversion and COMMIT may fail - the latter also when the server has committed -
and the request may be cancelled at any await. `Inner` is the status that
`UserInfoMiddleware` sees, `Outer` the one the client gets; they differ in where an
exception without a handler becomes a 500.

Abstracted: the content of a row is who wrote it last; lists, statistics and reports
show no rows here; every 422 of input is one; of a request that has changed nothing
only the fact is kept once it has ended.

### Settings, Logging, LogFiles, Startup

A deployment is chosen once: what the environment and `.env` give, the pools, the
logging settings, Celery's `--loglevel` and `--logfile`. `Boot` starts or refuses it
(`Starts` is the conjunction of the validators). Values are abstracted to what the
validators tell apart: a secret is a sequence of words, in which `Placeholder` looks for
those that `is_placeholder_secret` looks for; `Published` are those that stand in config.py
and .env.example, whatever the validators say of them. Connections are
opened one by one up to each pool's size and overflow, in each process. A record is
`[source, logger, level]`; `WrittenBy` is its way through root, handlers and filters. What
may hold a statement is what an ORM or a driver says, and the exception of a rollback that
a session writes at DEBUG under the program's own name (`CarriesSql`).
`LogFiles` is the handler with the library's `TimedRotatingFileHandler` under it,
which does nothing at all when the name of the ended day is taken. Premise of that
class, and of the model: one process writes a file. The clock is read once per record.

### Lifespan, AppRegistry, Process

`Lifespan`: `phase` walks through startup, `serving` and the cleanups in reverse order
of registration; `task` is the state of each background save, `tracked` the runner's
set (a task leaves it in a callback of a later turn, `Discard`), `drain` and `clock`
the drain with its inner (`DrainTimeout`) and outer (`GuardReap`, `GuardWait`)
timeout. A save works and then closes its session (`closing`); SQLAlchemy does that in a
shielded task of its own, so that a cancel ends a save that waits for it, while the
close goes on alone (`shed` by the drain's cancel, `cut` by the guard's). A timer that is due may be handled late (a blocked event loop); `late`
records it. Requests are answered before shutdown begins, so no task is spawned
during the drain.

`AppRegistry`: `apps` is the registry, `call` the call of `populate` that holds the
lock, in its phases `load`, `models`, `ready`, and `reset`, whose first statement
lock-free readers may see alone. A module is there, or cannot be found itself, or
needs one that cannot be found; that is all `ImportOptional` looks at. An entry leads
to a package, a class path or nothing; a hook may set something elsewhere, raise, or
call `populate` again. `Process` composes the three: a deployment that its
settings allow to start, as an API process or a worker, assembles its apps, and the
API process with the one sound list is followed through its lifespan; whether that
connects to the database depends on `DEBUG` of its settings and on the tables of its
apps. Bounds: only the deployments `about` apps go on to assemble some, and these are
started once.

### DateRanges, AccessLog

Instants are minutes of a calendar of a few short days, so that both of its ends can
be reached. A zone is two offsets and the instant between them; `ToUtc` is `fold=0` of
`zoneinfo`. A computation that may raise is the set of its results, empty if it does.
Zones are those whose clock changes neither skip nor repeat a midnight (`ZoneOK`; a
change may begin or end at one). Where a midnight comes twice, "the local day" is no
interval of instants, and no pair of bounds can be right.
A worker has the number of its event loop and of the loop its pooled connection was
made on; a purge is select, delete and commit, again and again, until a batch falls
short, and may be killed in between. Pages and reports are read where no purge runs
(a bound: they do not share state with one). Sales orders are rows of the same table
for the reports.

## 3. What the runs check

| Run | Instance | Shows |
|---|---|---|
| `refresh_family` | 1 family, 3 tokens, 2 requests, lifetime 2, leeway 1 | no fork, a kill lasts, implements `TokenLine` |
| `refresh_revocation` | 2 families, 2 tokens, 2 requests, 1 password change | revoke_user finds every family; a password change purges |
| `admin_expiry` | 2 ids, 2 requests, 1 change; age 6 and idle 4, of which 2 make a second | the dead stay dead; absolute expiry |
| `admin_revocation` | 3 ids, 2 requests, 1 change; age 3 and idle 2 whole seconds | the index is complete; a change purges |
| `accounts` | 2 ids that want 1 name, 2 requests, 2 passwords that bcrypt takes for one, access life 1 | names unique, nothing undone, rights fade, nobody promotes himself |
| `limiter_window` | 1 address, 1 name, 2 attempts, limits 3 and 2, a window of 2 seconds of 3 ticks | burst bound, Retry-After, a blocked counter opens (liveness) |
| `routing_session` | 1 session, 2 replicas, 2 commits, every setting of the router | no forbidden write, reads move once, sees its own writes |
| `requests` | 2 requests on 2 rows by 2 users; blog, catalog, reports, home, health, and every route one could add | answers tell the truth, one delete, log and client agree, only documented errors, only owners change |
| `process` | some 7000 deployments; log files over 5 days, 2 records each, kept 1 day; 17 lists of apps, one other thread; 3 saves, cap 2, inner 2, outer 4 | pools fit, own secrets, no SQL in logs, headers heard, files keep their days; registry whole or empty, hooks once, nothing vanishes; order of release, shutdown ends (liveness) |
| `access_log` | 2 workers of 2 tasks each, 5 old rows, batches of 2; 5 days of 2 hours, 6 zones, every filter and report | expired rows go, one loop per connection, pages by local day, reports add up |

Two more runs, `admin_demotion` and `rehash_undoes_password`, each look for the
violation of one sentence of the repository and find it (section 6).

*Why the bounds are enough.* The hazards are races of two parties over one object:
two requests on one family, one session id, one counter, one name, one row. A third
token lets a rotation rotate again while an old one is replayed; a third session id
lets one be created between the two round trips of a revocation of the others. Time
bounds are the smallest that tell the clocks apart (a token younger than the mark,
idle shorter than absolute, inner timeout shorter than outer). Fractions of a second
matter where the rest of a session's absolute life is rounded up to a TTL, which
two ids show; three ids with whole seconds show the rest. The cap of two with
three saves has the full set, a dropped task and a free place again. With two replicas
a session can be moved to a second replica if the code lets it; two commits make a
replica late by more than one. Blog stands for reply and sns, whose tables of routes
and services are equal. Five old rows in batches of two make full batches, one that
another purge has shortened and a last one that is short by itself. Five days are the
least with a first, a last and a clock change in between that no day of a filter
touches at an end. `MaxPw`, `MaxGen`, `MaxCommits`, `MaxRuns`, `MaxRows`, `Days` and
`MaxRecords` bound counters that only grow, in the guards that raise them; `Starts`,
`Filters`, `Lists`, `Deployments` and `Records` are the inputs that are tried.
`CHECK_DEADLOCK FALSE` stands where something ends: ids, which are never reused, run
out (`AdminSessions`), each request happens once (`Requests`), a process is refused or
stops (`Process`).

*Fairness.* `RateLimiter`: `WF(Tick)` only - Redis' clock advances; no client is
required to do or to stop anything. `Process`: weak fairness of the steps of the
cleanups, which the event loop runs once they are ready, of its clock, and none for
saves: a save that never ends, or never closes its session, is a behaviour.
The other modules claim no liveness and assume no fairness.

## 4. What is proved

Every safety property of every passing run is a theorem of the specification, for all
values of the constants that meet the named assumptions; so is the refinement of
`TokenLine`. Every proof is checked to the last leaf. What is listed here is, for each
module, the inductive invariant and why the property alone is not inductive.

**RefreshTokensProofs**

* `TypeCorrect`, `FamilyNeverForks`. A token's key and the rotations past `GETDEL` are
  together at most one per family. A login could open a family that a rotation still
  holds, hence the strengthening `RotatingKnown`.
* `StoreIsLine` - `Spec => FamilyIsLine`, the refinement. With `SingleLiveToken` the
  cases of the mapping `LineState` exclude each other (`LineStates`); every action is
  then one of: it registers, it consumes, it ends lines, or it touches no family.
* `KilledForGood`, `RevocationSeesAll`, `PasswordChangeEndsSessions` need each other
  (`RevocationInv`): what a revocation kills is what the index holds, and a purge is a
  kill of all of it. Further parts: the list that a request got from SMEMBERS misses
  only families registered behind it (`Fits`), a family in the index is newer than the
  last purge or raced it (`IndexIsNew`), and no purge is ahead of its row.

**AdminSessionsProofs**

* `TypeCorrect`, `GoneStaysGone`, `AbsoluteExpiryKept`. Every id that is named anywhere -
  by a key, an index, a list from SMEMBERS, a request that may write or delete it - was
  handed out before (`Known`, `Sound`), so that a new session is never one of those; a
  renewal does nothing to a key that is gone; a tick takes from the TTL what it adds to
  the age. The lemmas follow the store's operations, then the actions.
* `RevocationSeesAll`, `ChangeEndsSessions` (`RevocationInv`): a request between its two
  round trips, and one between its revocation and its commit, has seen every session
  that can be loaded, but for those created behind it (`Careful`).

**AccountsProofs.** `TypeCorrect` and `Locks` (one transaction holds a row; an id is in
use from its INSERT on, and nobody else has it before that commits) carry the others:

* `NamesStayUnique`: pending INSERTs count as rows that have their name already.
* `NobodyEverPromotesSelf`: no request holds the row of a superuser, nor an edit that
  makes one, nor a form that shows one (`Plain`).
* `TokensAlwaysFade`: as long as a row or a request that has read it entitles to a
  claim the count has not started; and what is left of a token and the count never
  add up to more than a life (`Fading`).
* `NothingEverUndone`: the flags of a row are those set last. Unless a race is on record,
  so is its password, or bcrypt takes it for that one and nobody has set one since; a
  login that is about to store a hash stores such a password too, and a row that still
  has a hash of bcrypt has had no password set (`Settled`).

**RateLimiterProofs**

* `TypeCorrect`, `RetryAfterKept`. `EXPIRE NX` never extends a running window; to be
  inductive the window of an outstanding wait must not have ended (`Owing`) - a new
  one would be longer than what is left of the wait.
* `BurstsBounded`. A span as long as a window meets two windows at most: the hits in it
  are split by age at the start of the one that runs, and each side stays within the
  limit (`Split`), counted as sets of pairs (age, number).

**DBRoutingProofs**

* `TypeCorrect`, `ReadOnlyKept`, `ReplicaKept`, `SeesOwnWritesKept`. `Good(q)` is of one
  session record. A session is `Settled` (pinned, or never routed) or not. Settled, its
  snapshot of the primary, if any, is as new as all it knows. Not settled, it has
  written nothing on a primary it does not read from, and all it knows comes from its one replica, which still shows at
  least that much. Moving from the second to the first is safe as no replica is ahead
  of the primary. Each operation on a record is a lemma (`PinGood`, `ChooseGood`,
  `ReadGood`, `WriteGood`), a step of the system is `get_bind` and one of them.
* `ReadsMoveOnceKept`: a session that is not settled has read from its replica only and
  has not knocked in vain (`Moves`).

**RequestsProofs**: `AnswersAreTrue`, `OneDeleteOfARow`, `LogAgrees`,
`OnlyDeclaredErrors`, `OwnersAlone`, from one invariant. Its first half is of one request
(`OwnInv`): what its guards have let in, what it has written and not committed at each
step, what it is told. Its second half relates requests to rows (`RowInv`): a holder is
alone; the row whose owner was checked has not changed hands; a row that somebody has
met is there until a request that is answered for it removes it, and two such requests
are the same. It holds for every route that `AccessPolicyGuard` lets start, not only for
those of the repository.

**ProcessProofs**

* `ResourcesGoInOrder`: what has been released is told by the phase alone
  (`ReleaseInv`).
* `DrainLeavesNothing`: the saves in progress are among the tracked ones and those
  waited for (`Awaited`), and as long as every timer is handled when it is due the inner
  timeout leaves each save that it cancels at work the time to close its session before
  the outer one cuts (`InTime`).
  This is where `WaitBudget + FinallyTime < GuardBudget` is needed.
* `ProcessIsLifespan` - `ProcessSpec => Spec` of `Lifespan`, its fairness included: the
  process refines the lifespan, from which `ProcessReleasesInOrder` follows at once.
* `AppsAllOrNothing`, `AppHooksOnce`: `RegistryInv` says for each phase of `populate`
  how far the registry is (`Loading`, `Importing`, `Hooking`, `Resetting`), and that it is
  empty or complete where no call is in progress (`Idle`).
* `NothingDeclaredVanishes`: once the process' own call has returned nobody changes the
  registry again, so that routers, views and tasks taken from it at different times are
  taken from the same apps (`MainInv`, `Assembled`).
* `NeverOnPublishedSecrets`, `NoSqlInDeployedLogs`, `HeaderLevelsHold`: what runs or has
  logged was let start by its settings, which nothing changes (`SettingsInv`); the rest is
  that each published secret is a placeholder by the rule of the code
  (`PublishedArePlaceholders`), and the derivation of levels, worked through for all of them.
* `FilesStayWhole`: the file that is written is of one day, which is not over when the
  next rotation is due, and its next name is free (`OneDay`); today's files and records
  are numbered without a gap (`Numbered`, `Counted`); so no rotation meets a taken name.
* `ServersHold`: no pool exceeds its size and overflow (`PoolInv`); the connections of a
  server, counted as a set, are then at most the sum that the settings were judged by.

**AccessLogProofs**

* `ConnectionsStay`: a pooled connection is of the loop that the worker keeps.
* `PurgesFinish`: while rows are left that every purge is to delete, one purge goes on;
  and of a batch in progress another purge has deleted all rows or none, as both hold
  the oldest rows there are (`PurgeInv`). That batches are the *oldest* rows is what the
  argument rests on: batches in any order could fall short in two purges at once.
* `PagesShowLocalDays`, `ReportsAlwaysAddUp`: an instant is at or after a local midnight
  exactly if its local day is that day or a later one, in every zone that `ZoneOK`
  admits, on both sides of a clock change; bounds of filters and reports are such
  midnights.

*Assumptions.* `ConstantsAssumption` of each module: bounds are natural numbers, limits
and lifetimes positive, `None` is no element of the sets it is added to; in `Lifespan`
also the budgets above (resources.py:54-57 states the same of the two timeouts), in
`AdminSessions` that the idle expiry is no longer than the absolute one, in `RateLimiter`
that the two kinds of keys differ. `NoneAssumption` (`Requests`), `EntryAssumption` and
`RegistryAssumption` (`AppRegistry`), `RetentionAssumption` (`LogFiles`), `LevelAssumption`
and `PoolAssumption` (`Startup`) give the inputs their types. `PurgeAssumption`: batches
are not empty. `CalendarAssumption`: the days of reports end before the calendar does.
`StartsAssumption`, `FiltersAssumption`: rows and filters are of the calendar, zones
`ZoneOK`. TLC evaluates all of them on the runs' instances.

*Only model-checked:* the liveness properties `BlockedOpens` and `ShutdownEnds`, which
are out of the prover's reach; and that a violation can be reached in the two runs of
section 6.

## 5. What is not modelled

* Admin CSRF: a token compared with one in the loaded session, and the replay of a
  buffered body within one request.
* Client address, pagination: functions of one request that unit tests enumerate.
* Redaction, formatters: text of single records.
* Developer scripts and migrations: run by hand or in CI, one at a time.
* CORS, OpenAPI metadata, templates: handed on to the framework. The broker, the
  schedules and the process pool of Celery are external.
* Settings that are only handed on.

Inside the modelled parts: what section 2 says, and the following. Two processes that
write one log file (the handler's premise excludes it); midnight between a handler's
test of the size and its choice of a name; SQLite's error names, which only tests
meet; the queries of the access log's statistics; rows of the access log of one and the
same instant, which the purge orders by created_at alone (user_access_log_repository.py:230)
and InnoDB's index by id as well; orders outside the range of a TIMESTAMP, which CONVERT_TZ
leaves as they are; sessions that a script leaves behind when Redis fails in the middle of
its revocation (`ChangePurges` speaks of changes that are complete).

## 6. Where the code and its comments disagree

Shown by a run:

| Run | Sentence | What happens |
|---|---|---|
| `admin_demotion` | user_service.py:93-94 | the verdict is of a row read before the UPDATE; a promotion in between makes it a demotion that revokes nothing |
| `rehash_undoes_password` | create_superuser.py:114-115, the password was changed | a login that compared with the old password writes its rehash over the new one (auth_service.py:47) |

The passing properties state the same promises with exactly these exceptions
(`hist.raced`). Further windows that the models have, and that the properties name as
their exceptions:

* refresh_store.py:55-58: a family registered between SMEMBERS and MULTI of
  `revoke_user` leaves the index unmarked; repeating the revocation does not find it
  (`hist.raced` of `IndexCoversLive`).
* create_superuser.py:13-15: a login in flight verified the old password before the
  commit and registers after the listing (`hist.raced` of `PasswordChangePurges`).
* refresh_store.py:6-7 says that the mark outlives the family's last token. A rotation
  that passed its check before a kill registers a token after it, and that token outlives
  the mark; presented once the mark has run out it is rotated as if nothing had happened,
  and the family lives on. So does one whose rotation lets the mark run out between its
  GETDEL and its check. `KilledStaysBlocked` exempts the tokens registered in either way
  (`hist.late`) and no others: a rotation that meets the mark registers nothing.
* rate_limit.py:22-23 calls `retry_after` the seconds until the window ends. It is Redis'
  TTL, rounded to the nearest second: up to half a second less than what is left
  (`RetryAfterHolds` allows that much and no more).
* passwords.py:54-57, 65-72: a login with a hash of bcrypt compares 72 bytes and stores
  a hash of all that was typed. From then on the account has a password that nobody has
  set, and the one set is refused if the two differ behind byte 72. `NothingUndone` allows
  this where nobody has set a password since the time of bcrypt, and nowhere else; both
  passwords of the run `accounts` are such a pair, and the third one of
  `rehash_undoes_password` is not.
* router.py:256-260 promises to fail closed, and so it is for flushes, DML, locking
  Selects and Raw SQL. Any other statement, such as a locking union or DML in a
  `from_statement`, falls through to a read (:266) and goes to a replica in a session of
  `get_routed_db_session`; no repository makes one (the second part of
  `ReplicaNeverWritten`).
* A body that FastAPI cannot read is answered before the token is looked at: malformed
  JSON is 422 for whoever sends it, and logged without a user; a body that cannot be
  decoded is FastAPI's own 400, which the routes' `responses` do not name
  (`LoggedAsAnswered` and `ErrorsDocumented` exempt exactly these, `BodyErrors`).
* auth_service.py:98: a client that lost the answer of a rotation and repeats it is
  taken for a thief; one-time tokens cannot tell the two apart.
* background_tasks.py:73-77 has every cancelled task awaited until its session is closed.
  One that was closing it when the wait ran out is not: the cancel takes it out of the
  shielded close (:94-95), `gather` returns at once, and the connection may be in use
  when the engines are disposed (`shed`, the exception of `NothingAfterDrain`).
* resources.py:173-174: with the event loop blocked past both timeouts the outer one
  cancels the wait, not the tasks, and they meet a closed pool (`late`).
* user_service.py:106: between the revocation and the commit of a PATCH or a DELETE
  others still read an active user and log in; what they get fades with the access
  token's lifetime (`TokensFade`), and a rotation reads the row again.
* user/admin.py:138-155: the form of a user carries no version. One that was opened
  before a demotion and is posted after it, to change something else, writes the
  superuser flag back as it was shown, and nothing tells the admin
  (`NothingUndone` takes what a form shows as what it sets).
* registry.py:142: `_reset` takes its fields back one after the other; a reader without
  the lock may see an empty list of configs with the flags still set (stage `reset`).
* admin_filters.py:46-47 says that no input makes a page fail; `9999-12-31`, whose
  next day is no date (:104), does (`AtTheEdge`).
* celery/app.py:29-35: `--loglevel` lifts the root over the level of a header, which
  config.py's LOG_APP_LEVELS promises to hold (the last part of `HeadersHeard`).
* session.py:338 has the whole exception of a rollback, its statement included, logged
  under DEBUG=true only, and config.py:1395-1399 refuses LOG_LEVEL=DEBUG in production for
  it. Neither a header at DEBUG (LOG_APP_LEVELS, `core=DEBUG`) nor LOG_LEVEL=NOTSET is
  refused, and no filter knows the logger: with either, the statement is written wherever
  the handler's level allows it (the exceptions of `SqlStaysOut`).
* config.py:1355-1358 judges secrets because everybody knows those of `.env.example`; the
  one of :141, MYSQL_REPLICA_PASSWORD, is not judged (config.py:1379-1390), so replicas may
  be logged in to with it (the exception of `RunsOnOwnSecrets`).
* sales_report_repository.py:54 admits itself that a fixed offset misplaces orders of a
  range in which the clocks change (excluded in `ReportsAddUp`).

## 7. Plan

The models are complete as far as sections 2 and 5 say, and all their safety properties
are proved. What is left:

1. The safety half of the two liveness properties: a blocked counter always has a window
   that runs out; in every phase of a shutdown one step is possible, or its clock may go on.
2. An abstract specification of the rate limiter (two windows) and of the purge (rows
   leave, oldest first), refined by the modelled ones as `TokenLine` is.
3. For `AdminSessions` the same abstraction as for refresh tokens: a session is born,
   usable and ended, once each.
