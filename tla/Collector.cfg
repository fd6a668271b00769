\* Two nodes that answer, deny, break off or hang.
SPECIFICATION Spec
CONSTANTS
    N = 2
    Timeout = 1
    SkipSysTables = FALSE
    SkipSchema = FALSE
    Denials <- MCDenials
    ForeignSets <- MCForeignSets
    MaxFaults = 1
INVARIANTS
    TypeOK
    AllHere
    OnTime
    PartialIsKept
    CoverageHonest
    BackupFromFirst
PROPERTY Returns
