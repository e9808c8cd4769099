SPECIFICATION LivenessSpec
CONSTANTS
    op1 = op1
    op2 = op2
    Operations = {op1}
    Requests = {r1, r2}
    NoRequest = NoRequest
    LastDay = 2
    Limits = {1, 2}
    Plans = {"plan"}
    PlanOf <- MCPlanOf
    Retries = {}
    MayAbort = {r1}
    NoRun = NoRun
    first = first
    spaced = spaced
    paid = paid
    titled = titled
    k1 = k1
    k2 = k2
    k3 = k3
    Payloads = {first, spaced, paid, titled}
    Fields = {"title", "pay"}
    Values = {"A", "B"}
    Keys = {k1, k2, k3}
    KeyOf <- MCKey
    Content <- MCContent
    popup = popup
    sidepanel = sidepanel
    Drains = {popup, sidepanel}
    MaxEntries = 2
    MaxLost = 1
INVARIANTS
    OutboxOnRecord
    HistoryOnRecord
PROPERTIES
    ServiceComesToRest
    EveryCaptureSettles
CHECK_DEADLOCK FALSE
