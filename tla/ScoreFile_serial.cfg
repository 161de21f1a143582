SPECIFICATION Spec
CONSTANTS
    Match = {m1, m2}
    Soldier = {1, 2}
SYMMETRY Symmetry
INVARIANT SerialUpdatesKeepScores
\* Every soldier of every match dies once; then nothing more is recorded.
CHECK_DEADLOCK FALSE
