SPECIFICATION LiveSpec
CONSTANTS
    Timed = {}
    Auth = FALSE
    LateMedia = FALSE
    ReInvites = TRUE
    PrRel = TRUE
    PrepTrFails = TRUE
    SigTerm = FALSE
    MaxReq = 2
    MaxProv = 2
INVARIANTS LegsAgree UpdatePaired InvitesAnswered
PROPERTIES Settles Reclaimed
\* A call that is over stops.
CHECK_DEADLOCK FALSE
