\* Two clusters, one finding under a key: runs, watches and crashes.
SPECIFICATION Spec
CONSTANTS
    Clusters  <- MCClusters
    PathOf    <- MCPathOf
    AuditKeys <- MCAuditKeys
    ProxyKeys <- MCProxyKeys
    VerdictsOf <- MCVerdicts
    MaxPass   = 3
    MaxShift  = 2
INVARIANTS
    TypeOK
    WatcherKnows
    QuietTick
    ChangesAreTrue
