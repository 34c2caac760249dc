SPECIFICATION FairSpec
CONSTANTS
    Day <- MCDay
    PauseAbove = 1
    ResumeBelow = 0
    MaxAge = 2
    Import = {i1}
    Csv = {i1}
    Attempts = 1
INVARIANTS
    TypeOK
PROPERTIES
    NotUnderImport
    RefilledOnHot
    PausesEnd
    WholeMonthsGoCold
