SPECIFICATION Spec
CONSTANTS
    Soldier = {1, 2}
    Lives = 1
    Modes = {"SURVIVAL", "CLEAR_THE_ZONE"}
    Commands = {"move", "shoot", "reload", "revive", "throw", "change", "idle", "exit"}
INVARIANTS TypeOK CountersAgree OverWhenAllDead RevivedAtMost
PROPERTIES DownedDoNothing NobodyRisesAlone AllDownIsLost
\* The Game thread stops stepping a match that is over.
CHECK_DEADLOCK FALSE
