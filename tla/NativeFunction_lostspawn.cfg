CONSTANTS
    q = q
    Sources = {q}
    Gated = {q}
    Withdrawable = {}
    MaxSpawns = 1
    MaxTries = 2
    MaxFaults = 0
SPECIFICATION Spec
PROPERTY AllDelivered
CHECK_DEADLOCK FALSE
