SPECIFICATION Spec
CONSTANTS
    MaxTurns = 1
    MaxRevision = 0
    ObserverReenters = FALSE
    Sessions <- InterruptSessions
    MaxQueued = 0
INVARIANTS
    QuietMicHoldsNoTurn
CHECK_DEADLOCK FALSE
