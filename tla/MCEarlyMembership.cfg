SPECIFICATION FairSpec
CONSTANTS
    TTF     = 2
    TTC     = 1
    Self    = "s"
    Other   = {"a", "b"}
    Beats  <- MCBeats
    MaxNews = 3
INVARIANT ListSound
PROPERTY SilentAreForgotten
\* A machine that has left does nothing any more.
CHECK_DEADLOCK FALSE
