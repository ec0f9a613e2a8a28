SPECIFICATION FairSpec
CONSTANTS
    PrRel = TRUE
    MaxRSeq = 2
    MaxRetr = 1
INVARIANTS
    OneFinalResponse
    AckedOrNot
    TablesConsistent
PROPERTY EventuallyGone
\* A transaction that is gone stops.
CHECK_DEADLOCK FALSE
