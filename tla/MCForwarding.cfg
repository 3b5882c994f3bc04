CONSTANTS
    MaxHash = 3
    Block = 5
    MaxCuts = 1
    r1 = r1
    Request = {r1}
    Machine <- MCMachine
    Start <- MCStart
    Question <- MCQuestion
    Replies <- MCReplies
    HashOf <- MCHashOf
    MaxJoins = 1
    MaxCrashes = 2
SPECIFICATION FairSpec
INVARIANTS
    TypeOK
    ExecutedAtMostOnce
    AnswerIsTheOwners
    ExecutedAsMeant
    NeverSentBack
    OneForwardWhenAgreed
    TextsArriveIntact
PROPERTY EveryRequestAnswered
CHECK_DEADLOCK FALSE
