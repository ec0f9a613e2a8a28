SPECIFICATION DialogSpec
CONSTANTS
    Chain <- MCChain
    Peers = {"c1", "c2"}
    MaxInv = 3
    MaxTimers = 1
INVARIANTS OneRouteSet RoutesArrive PathFollowed CancelFollowsInvite
CHECK_DEADLOCK FALSE
