SPECIFICATION ReadingSpec
CONSTANTS
    Client = {c1, c2}
    Code = {g1}
    MaxGames = 1
    MaxPlayers = 2
    FeedbackCap = 2
    CommandCap = 1
    Leavers = {}
    Movers = {c1, c2}
    Failures = {}
    MayQuit = FALSE
    None = None
PROPERTIES JoinedPlayersHear
\* The server may end, and nobody is obliged to connect or to quit.
CHECK_DEADLOCK FALSE
