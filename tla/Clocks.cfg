\* Two servers and a host whose clocks disagree; a backup job; servers two ahead of UTC.
SPECIFICATION Spec
CONSTANTS
    N = 2
    Timeout = 2
    Zone = 2
    Skews <- MCSkews
    HostErrors <- MCHostErrors
    StepSize = 3
    MaxSteps = 1
    Before <- MCBefore
    Forms <- MCForms
    Declarations <- MCDeclarations
    DefaultWarn = 2
    DefaultBad = 4
    ClockWarn = 2
    ClockBad = 4
    TransactionWarn = 3
INVARIANTS
    TypeOK
    SkewIsReal
    AgesAreReal
