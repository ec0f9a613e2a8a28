SPECIFICATION Spec
CONSTANTS
    LateMedia = TRUE
    BadHeaders = TRUE
    MaxRSeq = 2
    MaxProv = 2
    MaxFinal = 2
INVARIANTS
    OneOutcome
    AckMatchesFinal
    FollowUps
    Reclaimable
\* A transaction that is gone stops.
CHECK_DEADLOCK FALSE
