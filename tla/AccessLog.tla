------------------------------- MODULE AccessLog -------------------------------
(***************************************************************************)
(* The table of the access log: rows saved by API processes, purged in     *)
(* batches by tasks of Celery workers that may run at the same time and    *)
(* may be killed, and read by local date.  Sales orders, which are read by *)
(* local date too, stand for rows in reports.                              *)
(***************************************************************************)
EXTENDS DateRanges, TLC

CONSTANTS RetentionDays,
          BatchSize,
          Minutes,        \* bound: the clock goes in steps of so many minutes
          MaxRows,        \* bound: no row is saved beyond these
          MaxRuns,        \* bound: tasks of a worker process
          Starts,         \* bound: [rows, now, zone, workers] to begin with
          Filters,        \* bound: [op, start, end]
          NoView

ASSUME PurgeAssumption ==
    BatchSize \in Nat \ {0} /\ RetentionDays \in Nat /\ Minutes \in Nat

\* Rows that there are may be of the past and of the future.
ASSUME StartsAssumption ==
    \A start \in Starts : start.now \in Instants /\ start.rows \subseteq Instants /\ ZoneOK(start.zone)

\* Only a range has an open end.
ASSUME FiltersAssumption ==
    \A filter \in Filters :
        /\ {filter.start, filter.end} \subseteq 0..LastDay \cup {Malformed, Open}
        /\ filter.op # "between" => filter.start # Open

VARIABLES
    rows,    \* their created_at
    now,
    zone,    \* TIME_ZONE
    worker,  \* [stage, cutoff, ids] of the task it runs; the number of its event loop, and of
             \* the one that its pooled connection was made on, 0 for none; its tasks so far
    oldest,  \* history: the oldest cutoff of the purges that overlap
    killed,  \* history: one of them was killed
    view     \* what a page or a report shows

vars == <<rows, now, zone, worker, oldest, killed, view>>

Fresh == [stage |-> "idle", cutoff |-> 0, ids |-> {}, loop |-> 0, loops |-> 0, pooled |-> 0, runs |-> 0]

Init ==
    /\ \E start \in Starts : /\ rows = start.rows
                             /\ now = start.now
                             /\ zone = start.zone
                             /\ worker = [w \in start.workers |-> Fresh]
    /\ oldest = 0
    /\ killed = FALSE
    /\ view = NoView

Workers == DOMAIN worker

Idle(w) == worker[w].stage = "idle"

-----------------------------------------------------------------------------
(* Saves, and the clock *)

Save ==
    /\ view = NoView
    /\ Cardinality(rows) < MaxRows
    /\ rows' = rows \cup {now}
    /\ UNCHANGED <<now, zone, worker, oldest, killed, view>>

Tick ==
    /\ view = NoView
    /\ now + Minutes \in Instants
    /\ now' = now + Minutes
    /\ UNCHANGED <<rows, zone, worker, oldest, killed, view>>

-----------------------------------------------------------------------------
(* run_async *)

\* Mutant of LoopFor: every task has a loop of its own.
LoopForEach(w) == worker[w].loops + 1

LoopFor(w) == IF worker[w].loop = 0 THEN worker[w].loops + 1 ELSE worker[w].loop

\* shutdown_worker_resources, and a new process; an engine that cannot be disposed of dies
\* with the process.
Shutdown(w) ==
    /\ Idle(w) /\ worker[w].runs > 0
    /\ worker' = [worker EXCEPT ![w] = [Fresh EXCEPT !.runs = worker[w].runs]]
    /\ UNCHANGED <<rows, now, zone, oldest, killed, view>>

-----------------------------------------------------------------------------
(* purge_expired *)

Cutoff == now - RetentionDays * DayLength

\* A retention of 0 days keeps every row.
StartPurge(w) ==
    /\ Idle(w) /\ worker[w].runs < MaxRuns
    /\ RetentionDays > 0
    /\ Cutoff > 0
    /\ worker' = [worker EXCEPT ![w].stage = "select", ![w].cutoff = Cutoff,
                                ![w].loop = LoopFor(w), ![w].loops = LoopFor(w), ![w].runs = @ + 1]
    /\ LET alone == \A v \in Workers : Idle(v)
       IN  /\ oldest' = IF alone \/ Cutoff < oldest THEN Cutoff ELSE oldest
           /\ killed' = (killed /\ ~alone)
    /\ UNCHANGED <<rows, now, zone, view>>

Expired(cutoff) == {t \in rows : t < cutoff}

\* The oldest rows, as many as make a batch.  A row is its instant.  The statement orders by
\* created_at alone; which of several rows of one instant make the batch is left to the
\* database (InnoDB reads them in the order of the index, which ends in their id).
Batch(cutoff) ==
    {t \in Expired(cutoff) : Cardinality({s \in Expired(cutoff) : s < t}) < BatchSize}

Select(w) ==
    /\ worker[w].stage = "select"
    /\ worker' = [worker EXCEPT ![w].ids = Batch(worker[w].cutoff), ![w].stage = "delete",
                                ![w].pooled = IF @ = 0 THEN worker[w].loop ELSE @]
    /\ UNCHANGED <<rows, now, zone, oldest, killed, view>>

\* Mutant of LastBatch: a full batch ends it too.
LastBatchFull(deleted) == deleted <= BatchSize

LastBatch(deleted) == deleted < BatchSize

\* DELETE and commit: rows that another has deleted meanwhile do not count.
Delete(w) ==
    /\ worker[w].stage = "delete"
    /\ rows' = rows \ worker[w].ids
    /\ worker' = [worker EXCEPT
           ![w].ids = {},
           ![w].stage = IF LastBatch(Cardinality(worker[w].ids \cap rows)) THEN "idle" ELSE "select"]
    /\ UNCHANGED <<now, zone, oldest, killed, view>>

\* Nothing of the batch in progress is committed, and the task is not repeated.
Kill(w) ==
    /\ ~Idle(w)
    /\ worker' = [worker EXCEPT ![w] = [Fresh EXCEPT !.runs = worker[w].runs]]
    /\ killed' = TRUE
    /\ UNCHANGED <<rows, now, zone, oldest, view>>

-----------------------------------------------------------------------------
(* Pages and reports, opened (bound) where no worker runs *)

Reading == view = NoView /\ Workers = {}

OpenPage(filter) ==
    /\ Reading
    /\ view' = [about |-> "page", filter |-> filter,
                shown |-> {Within(b, rows) : b \in Filtered(zone, filter)}]
    /\ UNCHANGED <<rows, now, zone, worker, oldest, killed>>

OpenReport(start, end) ==
    /\ Reading
    /\ view' = IF ValidRange(start, end)
               THEN [about |-> "report", start |-> start, end |-> end,
                     shown |-> DailySales(zone, start, end, rows)]
               ELSE [about |-> "refused"]
    /\ UNCHANGED <<rows, now, zone, worker, oldest, killed>>

Close ==
    /\ view # NoView
    /\ view' = NoView
    /\ UNCHANGED <<rows, now, zone, worker, oldest, killed>>

Next ==
    \/ Save \/ Tick \/ Close
    \/ \E w \in Workers : StartPurge(w) \/ Select(w) \/ Delete(w) \/ Kill(w) \/ Shutdown(w)
    \/ \E filter \in Filters : OpenPage(filter)
    \/ \E start, end \in 0..LastDay : OpenReport(start, end)

Spec == Init /\ [][Next]_vars

-----------------------------------------------------------------------------
(* Properties *)

\* Purges that overlap shorten each other's batches, and a short batch ends a purge: when
\* they have all ended, and none was killed, no row is left that is older than all of their
\* cutoffs ask for (user_access_log_service.py:179).
ExpiredGone ==
    (\A w \in Workers : Idle(w)) /\ ~killed => Expired(oldest) = {}

\* A pooled connection is used on the event loop that it was made on, by the first task of
\* a worker process and by the ones after it (celery/task.py:27).
ConnectionOnItsLoop ==
    \A w \in Workers : ~Idle(w) /\ worker[w].pooled # 0 => worker[w].pooled = worker[w].loop

LocalDay(t) == (t + OffsetAt(zone, t)) \div DayLength

\* What a filter is to show, of a day that is not malformed.
Wanted(filter, day) ==
    CASE filter.op = "on" -> day = filter.start
      [] filter.op = "from" -> day >= filter.start
      [] filter.op = "before" -> day < filter.start
      [] filter.op = "between" -> /\ filter.start # Open => day >= filter.start
                                  /\ filter.end # Open => day <= filter.end
      [] OTHER -> TRUE

Ignored(filter) ==
    \/ filter.start = Malformed
    \/ filter.op = "between" /\ \/ filter.end = Malformed
                                \/ filter.start = Open /\ filter.end = Open
                                \/ filter.start # Open /\ filter.end # Open /\ filter.start > filter.end

\* The first and the last day of the calendar, where an instant of a filter may overflow.
AtTheEdge(filter) == {filter.start, filter.end} \cap {0, LastDay} # {}

\* A page shows the rows of the local days that it was asked for, on a day of 23 or 25
\* hours too, and a filter that makes no sense hides nothing; it opens, unless its days are
\* the calendar's first or last (admin_filters.py:36-47).
PagesByLocalDay ==
    view # NoView /\ view.about = "page" =>
        /\ view.shown \subseteq {{t \in rows : Ignored(view.filter) \/ Wanted(view.filter, LocalDay(t))}}
        /\ AtTheEdge(view.filter) \/ view.shown # {}

\* A report that is not refused does not overflow, and counts each order of its days once;
\* where clocks are not changed, under the order's local day (report_service.py:31,
\* sales_report_repository.py:47).
ReportsAddUp ==
    view # NoView /\ view.about = "report" =>
        \E report \in view.shown :
            LET orders == {t \in rows : LocalDay(t) \in view.start..view.end}
            IN  /\ report.total = Cardinality(orders)
                /\ orders = UNION {report.items[d] : d \in DOMAIN report.items}
                /\ zone.before = zone.after =>
                       \A d \in DOMAIN report.items : \A t \in report.items[d] : LocalDay(t) = d
===============================================================================
