SPECIFICATION PartsSpec
CONSTANTS
    Sessions = {"s"}
    Procs = {"p"}
    Paths = {"a"}
    Last = 2
    MaxEdits = 1
    MaxOutside = 1
    MaxCrashes = 1
    MaxCommands = 3
    Commands = {"p", "q"}
    MaxRev = 2
    MaxRootEdits = 1
    MaxRootCrashes = 1
PROPERTIES MigrationEnds Converges ResumeConverges
CHECK_DEADLOCK FALSE
