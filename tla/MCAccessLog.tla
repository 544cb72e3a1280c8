------------------------------ MODULE MCAccessLog ------------------------------
\* Days of two hours.  Pages are read with a row at every half hour, purges run with five
\* old rows.
EXTENDS AccessLog

CONSTANTS w1, w2

HalfHours == {30 * n : n \in 0..(((LastDay + 1) * DayLength) \div 30 - 1)}

\* None, fixed offsets on either side, and clocks put forward, at midnight too, and back.
MCZones ==
    {[before |-> 0, after |-> 0, turn |-> 0], [before |-> 90, after |-> 90, turn |-> 0],
     [before |-> -90, after |-> -90, turn |-> 0], [before |-> 0, after |-> 30, turn |-> 270],
     [before |-> 30, after |-> 60, turn |-> 210], [before |-> 60, after |-> 30, turn |-> 270]}

MCStarts ==
    [rows : {HalfHours}, now : {30 * 19}, zone : MCZones, workers : {{}}]
    \cup [rows : {{30 * n : n \in 8..12}}, now : {450}, workers : {{w1, w2}},
          zone : {[before |-> 0, after |-> 0, turn |-> 0]}]

MCFilters ==
    [op : {"on", "from", "before", "unknown"}, start : 0..LastDay \cup {Malformed}, end : {Open}]
    \cup [op : {"between"}, start : 0..LastDay \cup {Malformed, Open},
          end : 0..LastDay \cup {Malformed, Open}]
===============================================================================
