\* One machine; two join at any time, and leave, one after the other.
SPECIFICATION FairSpec
CONSTANTS
    MaxHash = 6
    Machine = {1, 3, 5}
    Starts = {{3}}
    Key = 120
    Value <- MCValue
    NoValue = NoValue
    MaxJoins = 2
    MaxLeaves = 2
INVARIANTS TypeOK KeyIsNeverLost OwnerHasTheKey
PROPERTY MovingEnds
\* Clients stop when a join has been missed or the key has a machine's hash.
CHECK_DEADLOCK FALSE
