SPECIFICATION Spec
CONSTANTS
    ActionsCap = 1
    FeedbackCap = 2
    OutCap = 1
    WireCap = 1
INVARIANTS TypeOK BothUnderstand ReaperNeverWaits
PROPERTIES LobbyAnswered ExitEnds ScoreShown
\* The client ends, and its user is not obliged to do anything.
CHECK_DEADLOCK FALSE
