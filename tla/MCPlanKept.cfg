SPECIFICATION Spec
CONSTANTS
    Clients = {c1, c2}
    Items = {1}
    Versions = {1, 2}
    MaxItems = 1
    MayReturn = {1}
    MayArchive = {1}
    MayDie = {}
INVARIANT PlanIsKept
CHECK_DEADLOCK FALSE
