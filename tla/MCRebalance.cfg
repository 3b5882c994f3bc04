\* Five machines, of which four fail, up to two of them at once; or two machines, and
\* two that join one after the other.
SPECIFICATION Spec
CONSTANTS
    MaxHash = 5
    Machine <- MCMachine
    Scenario <- MCScenario
    IP <- MCIP
    IPOf <- MCIPOf
    Key = {k}
    k = k
    v = v
    w = w
    Value <- MCValue
    Together = TRUE
SYMMETRY Symmetry
INVARIANTS TypeOK PlacedWhenSettled OwnerServesWhenSettled CopySurvives TransfersReachOwner
