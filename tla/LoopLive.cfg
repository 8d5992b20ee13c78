SPECIFICATION FairSpec
CONSTANTS
    MaxTurns = 2
    MaxRevision = 1
    ObserverReenters = FALSE
    Sessions <- LiveSessions
    MaxQueued = 1
INVARIANTS
    QuietMicHoldsNoTurn
PROPERTIES
    EveryTurnEnds
CHECK_DEADLOCK FALSE
