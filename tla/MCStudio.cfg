SPECIFICATION MCSpec
CONSTANTS
    MaxSockets = 3
    MaxSessions = 2
    MaxOpened = 4
    MaxTurns = 1
    MaxCommands = 1
    MaxConversations = 2
    MaxRoutes = 4
    MaxIncidents = 3
    MaxRenditions = 2
    MaxChunks = 3
    MaxTarget = 3
INVARIANTS
    CaughtUp
    MicIsHeldOnce
    NoneIsForgotten
PROPERTIES
    RouteFollowsDevice
    BrowserSettles
CHECK_DEADLOCK FALSE
