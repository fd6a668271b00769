\* One server, followed for longer.
SPECIFICATION Spec
CONSTANTS
    Counters  <- MCCounters
    Clusters  <- MCOneCluster
    PathOf    <- MCOnePathOf
    NodesOf   <- MCOneNodesOf
    Reports   <- MCReports
    Sized     <- MCSized
    Works     <- MCConflicts
    StepsWhile <- MCAlways
    BootUptime = 0
    MaxClock  = 3
    MaxMono   = 3
    MaxUptime = 3
    MaxTotal  = 2
    MaxResets = 1
    MaxPass   = 2
INVARIANTS
    TypeOK
    NeverInvents
    ExactWhenContinuous
    RestartsAreReal
