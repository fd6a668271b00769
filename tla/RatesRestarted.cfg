\* One server: what its report says of a restart.
SPECIFICATION Spec
CONSTANTS
    Counters  <- MCCounters
    Clusters  <- MCOneCluster
    PathOf    <- MCOnePathOf
    NodesOf   <- MCOneNodesOf
    Reports   <- MCReports
    Sized     <- MCSized
    Works     <- MCConflicts
    StepsWhile <- MCAlways
    BootUptime = 1
    MaxClock  = 3
    MaxMono   = 3
    MaxUptime = 3
    MaxTotal  = 2
    MaxResets = 1
    MaxPass   = 2
INVARIANT RestartedMeansUngraded
