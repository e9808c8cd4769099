SPECIFICATION CompanionSpec
CONSTANTS
    op1 = op1
    op2 = op2
    Operations = {op1, op2}
    Requests = {r1, r2, r3}
    NoRequest = NoRequest
    LastDay = 2
    Limits = {2}
    Plans = {"plan"}
    PlanOf <- MCPlanOf
    Retries = {op2}
    MayAbort = {r1, r2, r3}
    NoRun = NoRun
    v1 = v1
    Syncs = {e1, e2}
    Profiles = {1, 2}
    Vacancies = {v1}
    Pages <- MCPages
    MaxSyncItems = 2
    MaxPages = 2
    MaxRuns = 2
    MaxPatches = 1
SYMMETRY RequestSymmetry
INVARIANTS
    SingleOwner
    SettledRunCommitted
    OneSuccessPerOperation
    SendsMatchReply
    AuditIsTrue
PROPERTIES
    SettledNeverReopens
    ImplementsSingleFlight
