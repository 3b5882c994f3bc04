CONSTANTS
    Machine <- MCMachine
    Question <- MCQuestion
    Entry <- MCEntry
    ErrType = {2}
    OldLog <- MCOldLog
    MayBeDown = {3}
    MaxLogged <- MCMaxLogged
SPECIFICATION FairSpec
INVARIANTS
    TypeOK
    AnswerIsExact
PROPERTY EveryRequestEnds
CHECK_DEADLOCK FALSE
