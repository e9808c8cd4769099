SPECIFICATION ServiceSpec
CONSTANTS
    op1 = op1
    op2 = op2
    Operations = {op1}
    Requests = {r1, r2}
    NoRequest = NoRequest
    LastDay = 1
    Limits = {1}
    Plans = {"plan"}
    PlanOf <- MCPlanOf
    Retries = {}
    MayAbort = {}
    NoRun = NoRun
INVARIANT EverySendIsCounted
