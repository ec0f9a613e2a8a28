SPECIFICATION FairSpec
CONSTANTS
    MaxReqs = 2
    NCaps = 2
    MaxTries = 1
    MaxTimers = 2
INVARIANTS
    CalledOnce
    WillReturn
    OnlineIsWatched
PROPERTIES
    CommandEnds
CHECK_DEADLOCK FALSE
