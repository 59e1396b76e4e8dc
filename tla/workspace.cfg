SPECIFICATION PartsSpec
CONSTANTS
    Launches = {1, 2}
    Children = {3}
    Convs = {1, 2}
    Text <- TwoRevisions
    MaxCalls = 3
    MaxFailures = 1
    Checkouts = {1, 2}
    Settings <- TwoCheckouts
    Options <- HowToSync
    Rules = {"a", "b"}
    Selections <- Referred
    Harnesses = {"claude", "opencode"}
    Native = {"claude"}
    Root = "root"
    Groups <- Both
    Ways <- ForcedOrLinked
    Machines = {"m1", "adm"}
    Elsewhere = {"m2"}
    Owner <- Belongs
    Admins = {"b"}
    ChangeRecords = {"r"}
    PRs = {1, 2}
    Commits <- MadeByHand
    MaxVersion = 2
    Procs = {1, 2}
    Repos = {"r"}
    Needed = {"base"}
    RoleOnly = {"desk"}
    Manifests <- TwoSources
    Asked <- WithOrWithoutRole
    MaxSyncs = 2
    MaxEvents = 2
    MaxCommands = 2
    MaxByHand = 1
    MaxStops = 1
    MaxTrouble = 1
INVARIANTS TypesOK ReceiptMeansTold Consistent
PROPERTIES NoRepeat RetractsWhatItTold HeldStaysLocal RulesAsAsked NothingTakenAway LedgerIsConsent InventoryKept
CHECK_DEADLOCK FALSE
