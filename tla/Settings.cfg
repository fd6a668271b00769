\* Three nodes that are audited, then split, heal, crash, leave and start.
SPECIFICATION SettingsSpec
CONSTANTS
    Voters <- MCVoters
    Gone <- MCGone
    Odd <- MCOdd
    Weightings <- MCWeightings
    PeerLists <- MCPeerLists
    IdSettings <- MCIds
INVARIANTS
    SettingsTypeOK
    NoSplitBrain
    MajoritySurvives
    IdsAreDistinct
\* A cluster that is wholly down stays down until somebody bootstraps it.
CHECK_DEADLOCK FALSE
