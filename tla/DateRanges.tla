------------------------------ MODULE DateRanges ------------------------------
(***************************************************************************)
(* Local days over a column of UTC instants: the date filter of the admin  *)
(* pages (core/admin_filters.py) and the daily sales report                *)
(* (features/reports).  A computation that may raise is the set of its     *)
(* results, empty if it raises.                                            *)
(***************************************************************************)
EXTENDS Integers, FiniteSets

CONSTANTS DayLength,      \* minutes of a day
          LastDay,        \* date.max; date.min is 0
          FirstReported,  \* MIN_DATE of reports
          LastReported,   \* MAX_DATE of reports
          MaxRangeDays

\* The days of reports end before those of the calendar do.
ASSUME CalendarAssumption ==
    /\ DayLength \in Nat \ {0} /\ LastDay \in Nat
    /\ FirstReported \in Nat \ {0} /\ LastReported \in Nat /\ LastReported < LastDay

\* What is not a date, and the open end of a range.
Malformed == -2
Open == -1

Instants == 0..((LastDay + 1) * DayLength - 1)

-----------------------------------------------------------------------------
(* Time zones: [before, after, turn], two offsets from UTC and the instant between them. *)

OffsetAt(zone, t) == IF t < zone.turn THEN zone.before ELSE zone.after

\* An offset is less than a day, and when the clocks change no midnight is left out or comes
\* twice; the change may begin or end at one.
ZoneOK(zone) ==
    /\ zone.before \in (1 - DayLength)..(DayLength - 1)
    /\ zone.after \in (1 - DayLength)..(DayLength - 1)
    /\ zone.turn \in Int
    /\ \A day \in 0..LastDay :
           LET midnight == day * DayLength - zone.turn
           IN  /\ ~(zone.before < midnight /\ midnight < zone.after)
               /\ ~(zone.after < midnight /\ midnight < zone.before)

\* A wall time twice there is the first of the two; one that is skipped is reckoned with the
\* offset before.
ToUtc(zone, wall) ==
    IF wall - zone.before >= zone.turn /\ wall - zone.after >= zone.turn
    THEN wall - zone.after
    ELSE wall - zone.before

\* local_midnight_utc.  The instant before the first and the one after the last overflow,
\* and so does a day after the last.
LocalMidnight(zone, day) ==
    {t \in {ToUtc(zone, day * DayLength)} : day <= LastDay /\ t \in Instants}

\* Mutant of DayAfter: a day is 24 hours.
DayAfterLength(zone, day) == {t + DayLength : t \in LocalMidnight(zone, day)}

DayAfter(zone, day) == LocalMidnight(zone, day + 1)

-----------------------------------------------------------------------------
(* LocalDateFilter *)

Bounds(froms, untils) == [from : froms, until : untils]

Begin == {0}
End == {(LastDay + 1) * DayLength}
Everything == Bounds(Begin, End)

Between(zone, start, end) ==
    IF \/ Malformed \in {start, end}
       \/ start = Open /\ end = Open
       \/ start # Open /\ end # Open /\ start > end
    THEN Everything
    ELSE Bounds(IF start = Open THEN Begin ELSE LocalMidnight(zone, start),
                IF end = Open THEN End ELSE DayAfter(zone, end))

\* get_filtered_query.  filter: [op, start, end]; a single day is its start.
Filtered(zone, filter) ==
    LET start == LocalMidnight(zone, filter.start)
    IN  IF filter.op = "between" THEN Between(zone, filter.start, filter.end)
        ELSE IF filter.start = Malformed THEN Everything
        ELSE CASE filter.op = "on" -> IF start = {} THEN {} ELSE Bounds(start, DayAfter(zone, filter.start))
               [] filter.op = "from" -> Bounds(start, End)
               [] filter.op = "before" -> Bounds(Begin, start)
               [] OTHER -> IF start = {} THEN {} ELSE Everything

Within(bounds, rows) == {t \in rows : bounds.from <= t /\ t < bounds.until}

-----------------------------------------------------------------------------
(* ReportService *)

ValidRange(start, end) ==
    /\ FirstReported <= start /\ end <= LastReported
    /\ start <= end
    /\ end - start + 1 <= MaxRangeDays

\* Mutant of MysqlOffset: the hours are floored before their sign is taken.
MysqlOffsetFloored(minutes) ==
    [sign |-> IF minutes < 0 THEN -1 ELSE 1,
     hours |-> IF minutes < 0 THEN -(minutes \div 60) ELSE minutes \div 60, rest |-> minutes % 60]

Absolute(n) == IF n < 0 THEN -n ELSE n

\* CONVERT_TZ's numeric offset.
MysqlOffset(minutes) ==
    [sign |-> IF minutes < 0 THEN -1 ELSE 1,
     hours |-> Absolute(minutes) \div 60, rest |-> Absolute(minutes) % 60]

\* DATE(CONVERT_TZ(...)).  MySQL shifts only the instants that a TIMESTAMP can hold, and the
\* calendar here is one of those: orders before 1970 or of the far future are left out.
BucketOf(offset, t) == (t + offset.sign * (offset.hours * 60 + offset.rest)) \div DayLength

\* daily_sales_report of a valid range: the orders of each day, and their number in all.
DailySales(zone, start, end, orders) ==
    {LET offset == MysqlOffset(OffsetAt(zone, b.from))
         in == Within(b, orders)
     IN  [items |-> [d \in {BucketOf(offset, t) : t \in in} |-> {t \in in : BucketOf(offset, t) = d}],
          total |-> Cardinality(in)] :
     b \in Bounds(LocalMidnight(zone, start), LocalMidnight(zone, end + 1))}
===============================================================================
