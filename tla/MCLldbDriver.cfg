SPECIFICATION FairSpec
CONSTANTS
    MaxRequests = 4
    MaxStops = 3
    MaxPipe = 2
    Kinds = {"step", "look", "remove", "stop"}
    Worlds <- MCWorlds
INVARIANTS
    TypeOK
    ExitedOnce
    AnswersAligned
    StopIsReported
PROPERTY
    StopEndsSession
CHECK_DEADLOCK FALSE
