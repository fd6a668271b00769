\* Two clusters in one file, three servers, over three passes.
SPECIFICATION Spec
CONSTANTS
    Counters  <- MCCounters
    Clusters  <- MCClusters
    PathOf    <- MCPathOf
    NodesOf   <- MCNodesOf
    Reports   <- MCAllReported
    Sized     <- MCSized
    Works     <- MCWritesets
    StepsWhile <- MCBetween
    BootUptime = 1
    MaxClock  = 2
    MaxMono   = 2
    MaxUptime = 2
    MaxTotal  = 1
    MaxResets = 0
    MaxPass   = 3
INVARIANTS
    OwnBaseline
    OwnInterval
    NoSilence
