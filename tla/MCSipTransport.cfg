SPECIFICATION FairSpec
CONSTANTS
    Workers = {w1, w2}
    Timers = {t1}
    Home = home
    Away = away
    QueueCap = 3
    MaxMsgs = 2
INVARIANTS
    FlushedBeforeClose
    RouteWindow
PROPERTIES
    ShutdownEnds
\* A server that is closed stops.
CHECK_DEADLOCK FALSE
