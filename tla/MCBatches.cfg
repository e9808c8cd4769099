SPECIFICATION BatchesSpec
CONSTANTS
    Clients = {c1, c2}
    Items = {1, 2}
    Versions = {1, 2}
    MaxItems = 1
    MayReturn = {1}
    MayArchive = {2}
    MayDie = {c2}
    Threads = {t1, t2}
    Flows = {w1, w2}
    MaxTokens = 3
    Packages <- MCPackages
    Files <- MCFiles
    Loaders = {c1}
    MaxInstalls = 3
    MaxLoads = 1
INVARIANTS
    OneAnalystPerItem
    PlanIsKeptUnlessReturned
    ReadyIsAnalysed
    SessionOnRecord
    RefreshTokenSpentOnce
    PackageOnRecord
PROPERTIES
    SettledStays
    ExecutionReturns
CHECK_DEADLOCK FALSE
