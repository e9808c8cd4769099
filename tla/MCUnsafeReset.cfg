SPECIFICATION Spec
CONSTANTS
    plain = plain
    redacted = redacted
    none = none
    again = again
    p1 = p1
    p2 = p2
    Panels = {p1, p2}
    NoPanel = NoPanel
    Plans = {plain, redacted}
    NoPlan = NoPlan
    InputOf <- MCInputOf
    Retries = {none}
    NoRetry = none
    Limit = 1
    Legacy = 0
    MaxDisturbances = 1
PROPERTIES
    UnsafeExecutionBlocksReset
