SPECIFICATION ProcessSpec
CONSTANTS
    Entry <- MCEntry
    Lists <- MCLists
    Followed <- MCFollowed
    Threads = {other}
    NoCall = NoCall
    Tasks = {t1, t2, t3}
    MaxConcurrent = 2
    WaitBudget = 2
    GuardBudget = 4
    FinallyTime = 1
    Deployments <- MCDeployments
    Records <- MCRecords
    Days = 4
    MaxSize = 2
    Retention = 1
    MaxRecords = 4
INVARIANTS
    NothingAfterDrain
    ReleasedInOrder
    AllOrNothing
    HooksOnce
    NothingVanishes
    ServersNotOverrun
    RunsOnOwnSecrets
    SqlStaysOut
    HeadersHeard
    FilesKeepTheirDays
PROPERTY ShutdownEnds
CHECK_DEADLOCK FALSE
