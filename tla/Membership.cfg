SPECIFICATION Spec
CONSTANTS
    n1 = n1
    n2 = n2
    garbd = garbd
    Nodes = {n1, n2}
    Strays = {garbd}
    Expects = {2, 3}
    FlagSets <- MCFlagSets
    MaxChanges = 3
SYMMETRY Symmetry
INVARIANTS
    TypeOK
    CleanMeansOneGroup
    SplitIsGraded
    QuietIsClean
    UnauditedIsNamed
CHECK_DEADLOCK FALSE
