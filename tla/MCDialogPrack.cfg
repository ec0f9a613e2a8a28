SPECIFICATION DialogSpec
CONSTANTS
    Chain <- MCChain
    Peers = {"c1", "c2"}
    MaxInv = 1
    MaxTimers = 1
INVARIANT PrackFollowsPath
CHECK_DEADLOCK FALSE
