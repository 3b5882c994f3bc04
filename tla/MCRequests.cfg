SPECIFICATION Spec
CONSTANTS
    r1 = r1
    r2 = r2
    r3 = r3
    v  = v
    w  = w
    Key     <- MCKey
    Value   <- MCValue
    Request <- MCRequest
    Level    = {"QUORUM", "ALL"}
    Replicas = 2
    MaxOpen  = 2
    MaxCrashes = 1
SYMMETRY Symmetry
CHECK_DEADLOCK FALSE
INVARIANTS
    TypeOK
    AllMeansEveryReplica
    QuorumMeansOneReplica
    FlagsTellRoles
PROPERTY TakesEffectOnce
