SPECIFICATION OutboxSpec
CONSTANTS
    first = first
    spaced = spaced
    paid = paid
    titled = titled
    k1 = k1
    k2 = k2
    k3 = k3
    Payloads = {first, spaced, paid, titled}
    Fields = {"title", "pay"}
    Values = {"A", "B"}
    Keys = {k1, k2, k3}
    KeyOf <- MCKey
    Content <- MCContent
    popup = popup
    sidepanel = sidepanel
    Drains = {popup}
    MaxEntries = 3
    MaxLost = 0
PROPERTY
    GenuineUpdateAppends
CHECK_DEADLOCK FALSE
