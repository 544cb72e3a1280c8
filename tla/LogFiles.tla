------------------------------- MODULE LogFiles -------------------------------
(***************************************************************************)
(* DailySizeRotatingFileHandler (utils/logs/handlers.py) over the library's*)
(* TimedRotatingFileHandler: one process writes a file, which is turned    *)
(* over at midnight and when it grows too large, and old ones are purged.  *)
(***************************************************************************)
EXTENDS Integers, FiniteSets

CONSTANTS Days,       \* bound: days are 0..Days
          MaxSize,    \* max_bytes, or 0
          Retention,  \* retention_days, or 0
          MaxRecords  \* bound: the records of one day

ASSUME RetentionAssumption == Retention \in Nat

VARIABLES
    today,
    current,    \* the records in the file that is being written; none: there is no file
    touched,    \* the day of its last write
    rotated,    \* the files turned over: from their names [day, n] to their records
    rolloverAt, \* the handler's, or 0 while no process runs
    written     \* history: every record written, each a [day, n]

logVars == <<today, current, touched, rotated, rolloverAt, written>>

NoFiles ==
    /\ today = 0 /\ current = {} /\ touched = 0
    /\ rotated = <<>>
    /\ rolloverAt = 0
    /\ written = {}

\* computeRollover: the next midnight after that day.
NextMidnight(day) == day + 1

\* __init__: reckoned from the last write of a file that is there; it opens it at the
\* first record.
OpenFile ==
    /\ rolloverAt = 0
    /\ rolloverAt' = NextMidnight(IF current = {} THEN today ELSE touched)
    /\ UNCHANGED <<today, current, touched, rotated, written>>

CloseFile ==
    /\ rolloverAt # 0
    /\ rolloverAt' = 0
    /\ UNCHANGED <<today, current, touched, rotated, written>>

Midnight ==
    /\ today < Days
    /\ today' = today + 1
    /\ UNCHANGED <<current, touched, rotated, rolloverAt, written>>

DayOver == today >= rolloverAt

\* A record of that size does not fit.  A new file takes any record.
TooLarge(size) ==
    /\ MaxSize > 0
    /\ current # {}
    /\ Cardinality(current) + size > MaxSize

ShouldRollover(size) == DayOver \/ TooLarge(size)

\* The name of the day that ends, 0, or the first number that is free today.
\* Mutant of FreeName: the number of files of the day there are.
FreeNameByCount(files) ==
    [day |-> today, n |-> Cardinality({f \in files : f.day = today})]

FreeName(files) ==
    [day |-> today,
     n |-> CHOOSE n \in 1..(Cardinality(files) + 1) :
               /\ [day |-> today, n |-> n] \notin files
               /\ \A m \in 1..(n - 1) : [day |-> today, n |-> m] \in files]

DayName == [day |-> rolloverAt - 1, n |-> 0]

Kept(day) == Retention = 0 \/ day >= today - Retention

Renamed(name) ==
    IF current = {} THEN rotated
    ELSE [f \in DOMAIN rotated \cup {name} |-> IF f = name THEN current ELSE rotated[f]]

\* doRollover.  If the name of the day is taken the library does nothing at all.
Rolled ==
    LET stuck == DayOver /\ DayName \in DOMAIN rotated
        all == IF stuck THEN rotated ELSE Renamed(IF DayOver THEN DayName ELSE FreeName(DOMAIN rotated))
    IN  [current |-> IF stuck THEN current ELSE {},
         rolloverAt |-> IF DayOver /\ ~stuck THEN NextMidnight(today) ELSE rolloverAt,
         rotated |-> [f \in {g \in DOMAIN all : Kept(g.day)} |-> all[f]]]

\* emit, of a record of that size
FileRecord(size) ==
    /\ rolloverAt # 0
    /\ Cardinality({r \in written : r.day = today}) + size <= MaxRecords
    /\ LET done == IF ShouldRollover(size) THEN Rolled
                   ELSE [current |-> current, rolloverAt |-> rolloverAt, rotated |-> rotated]
           so == Cardinality({r \in written : r.day = today})
           recs == {[day |-> today, n |-> so + i] : i \in 1..size}
       IN  /\ current' = done.current \cup recs
           /\ rolloverAt' = done.rolloverAt
           /\ rotated' = done.rotated
           /\ written' = written \cup recs
    /\ touched' = today
    /\ UNCHANGED today

-----------------------------------------------------------------------------

Retained(day) == Retention = 0 \/ day >= today - Retention

FiledUnderItsDay == \A f \in DOMAIN rotated : \A r \in rotated[f] : r.day = f.day

KeptOnce ==
    \A r \in written : Retained(r.day) =>
        Cardinality({f \in DOMAIN rotated : r \in rotated[f]}) = IF r \in current THEN 0 ELSE 1

\* However rotations by size, by day, idle days and restarts fall, a file that is named
\* after a day holds records of that day and of no other, and no rotation overwrites or
\* purges what another has put away while it is still to be kept (handlers.py:52).
FilesKeepTheirDays == FiledUnderItsDay /\ KeptOnce
===============================================================================
