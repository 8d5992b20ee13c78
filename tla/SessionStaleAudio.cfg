SPECIFICATION MCSpec
CONSTANTS
    MaxTurns = 3
    MaxRevision = 2
    ObserverReenters = FALSE
    MaxControllers = 2
    MaxInputs = 3
    MaxRenditions = 2
    MaxFrames = 2
    QueueLimit = 1
    MaxSinks = 2
PROPERTY EndedTurnIsSilent
CHECK_DEADLOCK FALSE
