CONSTANTS
    p = p
    q = q
    r = r
    Sources = {p, q, r}
    Gated = {q}
    Withdrawable = {r}
    MaxSpawns = 2
    MaxTries = 2
    MaxFaults = 1
SPECIFICATION Spec
INVARIANTS TypeOK AwaitedExecution ClosedAsRecorded
PROPERTIES ImplementsDelivery Delivered
CHECK_DEADLOCK FALSE
