SPECIFICATION FairSpec
CONSTANTS
    r1 = r1
    r2 = r2
    r3 = r3
    v  = v
    w  = w
    Key     <- MCKey
    Value   <- MCValue
    Request <- MCRequest
    Level    = {"QUORUM"}
    Replicas = 2
    MaxOpen  = 1
    MaxCrashes = 0
CHECK_DEADLOCK FALSE
PROPERTY WakeupCallArrives
