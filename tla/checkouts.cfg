SPECIFICATION PartsSpec
CONSTANTS
    Sessions = {"s"}
    Procs = {p1, p2}
    Paths = {"a"}
    Last = 2
    MaxEdits = 1
    MaxOutside = 1
    MaxCrashes = 1
    MaxCommands = 2
    Commands = {p1, p2}
    MaxRev = 2
    MaxRootEdits = 2
    MaxRootCrashes = 1
    N = 2
    Monitors = {p1, p2}
    NoProc = NoProc
    MaxTx = 2
    MaxVersion = 2
    MaxAborts = 1
    MaxOther = 1
INVARIANTS
    TypesOK WorkKept FinishedMeansLanded PublishedMeansPushed CurrentMeansInstalled
    AccountedMeansHeld CapsuleBeforeMove
PROPERTIES  IsCustody
SYMMETRY ProcessSymmetry
CHECK_DEADLOCK FALSE
