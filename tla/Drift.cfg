\* Schema changes that are replicated, fail, or are made on one node, during a pass.
SPECIFICATION Spec
CONSTANTS
    n1 = n1
    n2 = n2
    n3 = n3
    Nodes <- MCNodes
    Existing <- MCExisting
    AppTables <- MCAppTables
    SysTables <- MCSysTables
    MaxListed = 1
    SkipSysTables = FALSE
    SkipSchema = FALSE
    MaxChanges = 2
    MaxDenied = 1
SYMMETRY MCSymmetry
INVARIANTS
    TypeOK
    StandingDriftIsFound
    DriftIsExplained
