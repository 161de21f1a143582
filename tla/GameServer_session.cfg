SPECIFICATION Spec
CONSTANTS
    Client = {c1, c2, c3}
    Code = {g1}
    MaxGames = 1
    MaxPlayers = 2
    FeedbackCap = 1
    CommandCap = 1
    Leavers = {c1}
    Movers = {c1}
    Failures = {"throws", "spins"}
    MayQuit = FALSE
    None = None
SYMMETRY Symmetry
INVARIANTS TypeOK FeedbackInOrder LobbyPushNeverBlocks PlayersNumbered ScoreReachesPlayers
PROPERTIES ImplementsMatchMaking
\* Nobody is obliged to connect, to send or to leave.
CHECK_DEADLOCK FALSE
