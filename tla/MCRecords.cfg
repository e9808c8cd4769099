SPECIFICATION RecordsSpec
CONSTANTS
    w1 = w1
    w2 = w2
    e1 = e1
    e2 = e2
    c1 = c1
    c2 = c2
    text1 = text1
    text2 = text2
    k1 = k1
    op1 = op1
    op2 = op2
    r1 = r1
    r2 = r2
    r3 = r3
    NoText = NoText
    NoFollowUpKey = NoFollowUpKey
    NoRequest = NoRequest
    Writers = {w1, w2}
    Requested = {"saved", "analyzed", "applied", "hr_replied", "archived"}
    MaxEvents = 4
    Editors = {e1, e2}
    Texts = {text1, text2}
    MaxLetters = 2
    MaxVersions = 4
    Callers = {c1, c2}
    FollowUpKeys = {k1}
    MaxFollowUps = 1
    MaxRevision = 3
    Operations = {op1, op2}
    Requests = {r1, r2, r3}
    LastDay = 2
    Limits = {1, 2}
SYMMETRY CallerSymmetry
INVARIANTS
    WorkflowOnRecord
    LettersOnRecord
    LedgerOnRecord
    BudgetCeiling
PROPERTIES
    FollowUpsOnRecord
    OwnershipNotStolen
CHECK_DEADLOCK FALSE
