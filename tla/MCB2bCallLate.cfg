SPECIFICATION Spec
CONSTANTS
    Timed = {"np", "nr", "ex", "cr"}
    Auth = TRUE
    LateMedia = TRUE
    ReInvites = TRUE
    PrRel = FALSE
    PrepTrFails = TRUE
    SigTerm = TRUE
    MaxReq = 1
    MaxProv = 1
INVARIANTS DialogClosed TimersRight
PROPERTIES ImplementsCall
\* A call that is over stops.
CHECK_DEADLOCK FALSE
