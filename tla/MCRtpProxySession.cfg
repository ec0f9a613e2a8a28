SPECIFICATION FairSpec
CONSTANTS
    MaxOps = 2
    MaxSections = 2
    QueueCap = 2
INVARIANTS AnsweredOnce StreamsReleased
PROPERTIES EventsInOrder SdpAnswered
\* A session that was deleted stops.
CHECK_DEADLOCK FALSE
