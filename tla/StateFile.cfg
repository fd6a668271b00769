\* Two processes that never overlap, killed between any two system calls.
SPECIFICATION Spec
CONSTANTS
    p1 = p1
    p2 = p2
    None = None
    Procs <- MCProcs
    Blocks = 2
    Overlap = FALSE
    MaxRuns = 3
    MaxLosses = 2
INVARIANTS
    TypeOK
PROPERTY Implements
CHECK_DEADLOCK FALSE
