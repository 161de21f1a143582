SPECIFICATION Spec
CONSTANTS
    Client = {c1, c2}
    Code = {g1}
    MaxGames = 1
    MaxPlayers = 2
    FeedbackCap = 1
    CommandCap = 1
    Leavers = {c1}
    Movers = {c1}
    Failures = {"throws", "spins"}
    MayQuit = TRUE
    None = None
INVARIANTS GameQueueAlive
PROPERTIES RequestsDecided LeaversForgotten ShutdownCompletes
ACTION_CONSTRAINT LeaveOrQuit
\* The server may end, and nobody is obliged to connect or to quit.
CHECK_DEADLOCK FALSE
