SPECIFICATION Spec
CONSTANTS
    MaxTurns = 2
    MaxRevision = 1
    ObserverReenters = FALSE
    Sessions <- SafetySessions
    MaxQueued = 1
INVARIANTS
    EveryTurnIsOwned
    SupersededWorkIsMute
    ActionsAreAskedOnce
    DeafnessIsOwned
PROPERTIES
    OnlyHeldSpeechOpensTurn
    ImplementsLifecycle
CHECK_DEADLOCK FALSE
