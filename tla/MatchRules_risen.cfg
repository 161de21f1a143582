SPECIFICATION Spec
CONSTANTS
    Soldier = {1, 2}
    Lives = 2
    Modes = {"SURVIVAL"}
    Commands = {"revive", "shoot"}
PROPERTIES DeadStayDown
\* The Game thread stops stepping a match that is over.
CHECK_DEADLOCK FALSE
