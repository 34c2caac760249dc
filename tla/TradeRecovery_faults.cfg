SPECIFICATION FairSpec
CONSTANTS
    LastTrade = 4
    Days <- MCDays
    MonthStart <- MCMonthStart
    KeepBack = 1
    QuickWindow = 3
    QuickHorizon = 4
    AuditWindow = 3
    HotZone = 0
    MaxRetries = 2
    Job = {j1, j2}
    Attempts = 1
INVARIANTS
    TypeOK
    AuditLeavesNothing
    MarksHaveJobs
PROPERTIES
    AuditEnds
