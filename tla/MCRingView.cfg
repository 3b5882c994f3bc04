SPECIFICATION Spec
CONSTANTS
    MaxHash  = 7
    MaxQueue = 2
    Id       <- MCId
    IP       <- MCIP
    NodeHash <- MCNodeHash
    IPOf     <- MCIPOf
INVARIANT TypeOK
PROPERTIES
    JoinMovesOwnedRangeSteps
    JoinDropsLostCopiesSteps
    JoinReplicatesToNewHolderSteps
    FailureTakesOverSteps
