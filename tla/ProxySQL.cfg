\* A proxy that follows its nodes, or does not, while it is read.
SPECIFICATION Spec
CONSTANTS
    n1 = n1
    n2 = n2
    Nodes = {n1, n2}
    Writer = Writer
    Reader = Reader
    Offline = Offline
    Placements <- MCPlacements
    Breaks = TRUE
    MaxChanges = 2
SYMMETRY Symmetry
INVARIANTS
    TypeOK
    ServedIsSynced
    MissingIsReal
    FollowedIsQuiet
    CleanMeansFollowed
CHECK_DEADLOCK FALSE
