SPECIFICATION MCSpec
CONSTANTS
    TTF      = 1
    TTC      = 1
    Node    <- MCNode
    Master   = "m"
    Dead     = "c"
    MaxInc  <- MCMaxInc
    MaxBeat <- MCMaxBeat
    Leavers <- MCLeavers
    Crashers <- MCRunning
    MaxNet   = 1
    Interval = 1
    MaxDelay = 1
    ForgetBound = 5
CONSTRAINT Timely
INVARIANTS
    TypeOK
    HeartbeatNeverAhead
    SelfPresent
    JoinsResolvable
    DeadIsForgotten
PROPERTY RemovedOnlyWhenDueSteps
