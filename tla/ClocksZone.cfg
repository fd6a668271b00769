\* Clocks that all agree, on servers two ahead of UTC whose backup table holds a DATETIME.
SPECIFICATION Spec
CONSTANTS
    N = 2
    Timeout = 2
    Zone = 2
    Skews <- MCAgree
    HostErrors <- MCAgree
    StepSize = 3
    MaxSteps = 0
    Before <- MCBefore
    Forms <- MCDatetime
    Declarations <- MCDefaults
    DefaultWarn = 2
    DefaultBad = 4
    ClockWarn = 2
    ClockBad = 4
    TransactionWarn = 3
INVARIANT FutureIsAClock
