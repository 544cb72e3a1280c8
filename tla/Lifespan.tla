------------------------------ MODULE Lifespan ------------------------------
(***************************************************************************)
(* The life of one API process: manage_application_resources and its exit  *)
(* stack (core/resources.py), and the fire-and-forget tasks that write the *)
(* access log, BackgroundTaskRunner (core/middlewares/background_tasks.py) *)
(* - from a startup that may fail at each step to a shutdown in which every*)
(* cleanup has a time budget.                                              *)
(*                                                                         *)
(* The server has answered all its requests before it asks for shutdown:   *)
(* nothing is spawned while the tasks are drained.                         *)
(***************************************************************************)
EXTENDS Naturals, FiniteSets

CONSTANTS Tasks,          \* the saves of access log rows
          MaxConcurrent,  \* MAX_CONCURRENT_LOG_TASKS
          WaitBudget,     \* BACKGROUND_DRAIN_TIMEOUT_SECONDS * DRAIN_WAIT_RATIO
          GuardBudget,    \* BACKGROUND_DRAIN_TIMEOUT_SECONDS
          FinallyTime     \* what closing its session takes a save that is in time

ASSUME ConstantsAssumption ==
    /\ IsFiniteSet(Tasks)
    /\ MaxConcurrent \in Nat \ {0}
    /\ WaitBudget \in Nat
    /\ GuardBudget \in Nat
    /\ FinallyTime \in Nat
    /\ WaitBudget + FinallyTime < GuardBudget

VARIABLES
    phase,      \* what the lifespan does next
    client,     \* the Redis client of this process
    published,  \* app.state.redis is that client
    engines,    \* the writer, reader and background engines
    task,       \* the status of each task
    tracked,    \* BackgroundTaskRunner._tasks
    drain,      \* the drain in progress: its stage, the tasks it waits for
    clock,      \* how long the drain has lasted
    late        \* history: the event loop was blocked past a timer, or a save took
                \* longer than FinallyTime to close its session

runner == <<task, tracked>>
vars == <<phase, client, published, engines, runner, drain, clock, late>>

Starting == {"ping", "version", "prepare"}
Shutdown == {"draining", "closing", "disposing"}

NoDrain == [stage |-> "off", of |-> {}, since |-> 0]

Init ==
    /\ phase = "ping"
    /\ client = "open"
    /\ published = FALSE
    /\ engines = "open"
    /\ task = [t \in Tasks |-> "new"]
    /\ tracked = {}
    /\ drain = NoDrain
    /\ clock = 0
    /\ late = FALSE

-----------------------------------------------------------------------------
(* Startup *)

\* Mutant of Ping: the cleanups are registered after the first ping.
PingUnregistered ==
    /\ phase = "ping"
    /\ phase' \in {"version", "stopped"}
    /\ UNCHANGED <<client, published, engines, runner, drain, clock, late>>

\* The first PING; both cleanups are registered before it.
Ping ==
    /\ phase = "ping"
    /\ phase' \in {"version", "closing"}
    /\ UNCHANGED <<client, published, engines, runner, drain, clock, late>>

\* ensure_redis_version; the client is published and the drain registered after it.
Version ==
    /\ phase = "version"
    /\ \/ phase' = "prepare" /\ published' = TRUE
       \/ phase' = "closing" /\ UNCHANGED published
    /\ UNCHANGED <<client, engines, runner, drain, clock, late>>

\* _prepare_database: it may create the tables, and fail.
Prepare ==
    /\ phase = "prepare"
    /\ phase' \in {"serving", "draining"}
    /\ UNCHANGED <<client, published, engines, runner, drain, clock, late>>

-----------------------------------------------------------------------------
(* BackgroundTaskRunner *)

\* At work, or waiting for its session to be closed: AsyncSession closes itself in a task
\* of its own, which a cancelled save leaves behind.
Alive == {t \in Tasks : task[t] \in {"running", "closing"}}

Full == Cardinality(tracked) >= MaxConcurrent

\* spawn: accepted and tracked, or dropped.
Spawn(t) ==
    /\ phase = "serving"
    /\ task[t] = "new"
    /\ IF Full
       THEN task' = [task EXCEPT ![t] = "dropped"] /\ UNCHANGED tracked
       ELSE /\ task' = [task EXCEPT ![t] = "running"]
            /\ tracked' = tracked \cup {t}
    /\ UNCHANGED <<phase, client, published, engines, drain, clock, late>>

\* The row is saved, or an error was rolled back; the session is to be closed.
Finish(t) ==
    /\ task[t] = "running"
    /\ task' = [task EXCEPT ![t] = "closing"]
    /\ UNCHANGED <<phase, client, published, engines, tracked, drain, clock, late>>

\* The session is closed, and the save has ended unless it was taken out before.
End(t) ==
    /\ task[t] \in {"closing", "shed", "cut"}
    /\ task' = [task EXCEPT ![t] = "ended"]
    /\ UNCHANGED <<phase, client, published, engines, tracked, drain, clock, late>>

\* The done callback, in a later turn of the event loop.
Discard(t) ==
    /\ task[t] \in {"ended", "shed", "cut"}
    /\ t \in tracked
    /\ tracked' = tracked \ {t}
    /\ UNCHANGED <<phase, client, published, engines, task, drain, clock, late>>

-----------------------------------------------------------------------------
(* Shutdown, first: drain *)

BeginShutdown ==
    /\ phase = "serving"
    /\ phase' = "draining"
    /\ UNCHANGED <<client, published, engines, runner, drain, clock, late>>

Drained ==
    /\ phase' = "closing"
    /\ drain' = NoDrain
    /\ clock' = 0

\* Nothing to wait for, or a snapshot of the tracked tasks is awaited.
DrainBegin ==
    /\ phase = "draining"
    /\ drain.stage = "off"
    /\ IF tracked = {} THEN Drained
       ELSE /\ drain' = [stage |-> "wait", of |-> tracked, since |-> 0]
            /\ UNCHANGED <<phase, clock>>
    /\ UNCHANGED <<client, published, engines, runner, late>>

DrainDone ==
    /\ drain.stage = "wait"
    /\ drain.of \cap Alive = {}
    /\ Drained
    /\ UNCHANGED <<client, published, engines, runner, late>>

\* Mutant of DrainWait: the whole budget is spent on waiting.
DrainWaitWhole == GuardBudget

\* _drain_background_tasks: the part of the budget drain may wait for saves to end.
DrainWait == WaitBudget

\* A save at work goes on to close its session; one that was closing it is done, and the
\* close goes on with nobody waiting for it.
Cancel(S) ==
    task' = [t \in Tasks |-> IF t \notin S THEN task[t]
                             ELSE IF task[t] = "running" THEN "closing" ELSE "shed"]

\* The budget to finish is used up: what is left is cancelled and awaited.
DrainTimeout ==
    /\ drain.stage = "wait"
    /\ DrainWait <= clock /\ clock < GuardBudget
    /\ drain.of \cap Alive # {}
    /\ Cancel(drain.of \cap Alive)
    /\ drain' = [stage |-> "reap", of |-> drain.of \cap Alive, since |-> clock]
    /\ UNCHANGED <<phase, client, published, engines, tracked, clock, late>>

\* The cancelled tasks are all done: the rest of drain forgets them.
DrainReaped ==
    /\ drain.stage = "reap"
    /\ drain.of \cap Alive = {}
    /\ tracked' = tracked \ drain.of
    /\ Drained
    /\ UNCHANGED <<client, published, engines, task, late>>

\* Mutant of GuardReap: _run_cleanup has no timeout.
GuardReapNever == FALSE /\ UNCHANGED vars

\* _run_cleanup's timeout cancels the gather, and that cancels its tasks a second
\* time, out of their closes; gather returns once they are all done.
GuardReap ==
    /\ drain.stage = "reap"
    /\ clock >= GuardBudget
    /\ drain.of \cap Alive # {}
    /\ task' = [t \in Tasks |-> IF t \in drain.of \cap Alive THEN "cut" ELSE task[t]]
    /\ Drained
    /\ UNCHANGED <<client, published, engines, tracked, late>>

\* The event loop was blocked from before the wait budget to after the guard: both
\* timers fire in one turn and the guard's cancellation reaches asyncio.wait first.
GuardWait ==
    /\ drain.stage = "wait"
    /\ clock >= GuardBudget
    /\ Drained
    /\ UNCHANGED <<client, published, engines, runner, late>>

\* Time passes.  It is late when a timer is due and not handled, as in a blocked
\* event loop, or when a close has had its time and has not ended.
Tick ==
    /\ drain.stage # "off"
    /\ clock < GuardBudget
    /\ clock' = clock + 1
    /\ late' = (late \/ (/\ drain.of \cap Alive # {}
                         /\ clock >= IF drain.stage = "wait" THEN DrainWait
                                     ELSE drain.since + FinallyTime))
    /\ UNCHANGED <<phase, client, published, engines, runner, drain>>

-----------------------------------------------------------------------------
(* Shutdown, second and third: the Redis client and the engines *)

\* The finally of _redis.
Unpublish ==
    /\ phase = "closing"
    /\ published
    /\ published' = FALSE
    /\ UNCHANGED <<phase, client, engines, runner, drain, clock, late>>

\* aclose within its budget; an error or a timeout is logged and swallowed.
CloseRedis ==
    /\ phase = "closing"
    /\ ~published
    /\ client' \in {"closed", "failed"}
    /\ phase' = "disposing"
    /\ UNCHANGED <<published, engines, runner, drain, clock, late>>

Dispose ==
    /\ phase = "disposing"
    /\ engines' \in {"disposed", "failed"}
    /\ phase' = "stopped"
    /\ UNCHANGED <<client, published, runner, drain, clock, late>>

Lifecycle ==
    \/ Ping
    \/ Version
    \/ Prepare
    \/ BeginShutdown

DrainStep ==
    \/ DrainBegin
    \/ DrainDone
    \/ DrainTimeout
    \/ DrainReaped
    \/ GuardReap
    \/ GuardWait

Release == Unpublish \/ CloseRedis \/ Dispose

Next ==
    \/ Lifecycle
    \/ \E t \in Tasks : Spawn(t) \/ Finish(t) \/ End(t) \/ Discard(t)
    \/ DrainStep
    \/ Tick
    \/ Release

\* The event loop runs what is ready and time passes.  Nothing obliges a save to
\* end, nor a server to be shut down.
Fairness == WF_vars(DrainStep) /\ WF_vars(Tick) /\ WF_vars(Release)

Spec == Init /\ [][Next]_vars /\ Fairness

-----------------------------------------------------------------------------
(* Properties *)

TypeOK ==
    /\ phase \in Starting \cup {"serving", "stopped"} \cup Shutdown
    /\ client \in {"open", "closed", "failed"}
    /\ published \in BOOLEAN
    /\ engines \in {"open", "disposed", "failed"}
    /\ task \in [Tasks -> {"new", "running", "closing", "ended", "shed", "cut", "dropped"}]
    /\ tracked \subseteq Tasks
    /\ drain \in [stage : {"off", "wait", "reap"}, of : SUBSET Tasks, since : 0..GuardBudget]
    /\ drain.stage # "off" => phase = "draining"
    /\ clock \in 0..GuardBudget
    /\ late \in BOOLEAN

\* After the drain no save is in progress, so that none touches a closed pool, and
\* each has closed its session: the budget left to those that were cancelled at work is
\* enough - if they need no longer and nothing blocks the event loop
\* (resources.py:54-57).  A save that was closing its session when the wait ran out is
\* the exception: it is over at once, and its connection may be in use when the engines
\* go (shed, background_tasks.py:94-95).
NothingAfterDrain ==
    phase \in {"closing", "disposing", "stopped"} /\ ~late =>
        \A t \in Tasks : task[t] \notin {"running", "closing", "cut"}

\* Whatever step startup failed at or shutdown is at: a client that get_redis hands out
\* is open, the engines outlive it, and every end has released everything
\* (resources.py:119-132, 171-177).
ReleasedInOrder ==
    /\ published => client = "open"
    /\ engines # "open" => client # "open"
    /\ phase = "stopped" => engines # "open" /\ drain = NoDrain

\* A shutdown, or a failed startup, ends - even if no save ever ends by itself
\* (background_tasks.py:73-77, resources.py:72-86).
ShutdownEnds == (phase \in Shutdown) ~> (phase = "stopped")
=============================================================================
