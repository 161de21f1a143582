SPECIFICATION Spec
CONSTANTS
    Soldier = {s1}
    Zombie = {1, 2}
    Kinds = {"Infected", "Venom", "Witch"}
    MaxHealth = 2
    Damages = {1}
    StunTime = 1
    NoOne = NoOne
    AWitch = AWitch
INVARIANTS TypeOK AttacksWhatItFound KillsCounted ClearedIsWon StunWearsOff
PROPERTIES BlowDisarms
\* the match ends
CHECK_DEADLOCK FALSE
