SPECIFICATION FairSpec
CONSTANTS
    MaxRoutes = 2
    Configs <- MCConfigs
INVARIANTS
    EndsClean
    OneAttempt
PROPERTIES
    CallLeavesMap
CHECK_DEADLOCK FALSE
