SPECIFICATION FairSpec
CONSTANTS
    r1 = r1
    r2 = r2
    r3 = r3
    v  = v
    w  = w
    Key     <- MCKey
    Value   <- MCValue
    Request <- MCRequest3
    Level    = {"ONE", "ALL"}
    Replicas = 2
    MaxOpen  = 1
    MaxCrashes = 1
CHECK_DEADLOCK FALSE
CONSTRAINT InOrder
INVARIANT CopiesAgree
PROPERTY EveryRequestAnswered
