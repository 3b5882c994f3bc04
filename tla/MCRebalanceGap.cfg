\* Five machines, of which two fail, the second at any time after the first.
SPECIFICATION Spec
CONSTANTS
    MaxHash = 5
    Machine <- MCMachine
    Scenario <- MCGap
    IP <- MCIP
    IPOf <- MCIPOf
    Key = {k}
    k = k
    v = v
    w = w
    Value <- MCValue
    Together = FALSE
SYMMETRY Symmetry
INVARIANT ToleratesTwoFailures
