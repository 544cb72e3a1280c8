SPECIFICATION Spec
CONSTANTS
    DayLength = 120
    LastDay = 4
    FirstReported = 1
    LastReported = 3
    MaxRangeDays = 2
    RetentionDays = 1
    BatchSize = 2
    Minutes = 30
    MaxRows = 6
    MaxRuns = 2
    w1 = w1
    w2 = w2
    Starts <- MCStarts
    Filters <- MCFilters
    NoView = NoView
INVARIANTS
    ExpiredGone
    ConnectionOnItsLoop
    PagesByLocalDay
    ReportsAddUp
