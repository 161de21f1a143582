SPECIFICATION Spec
CONSTANTS
    DimX = 10
    DimY = 5
    Unit = 2
    Zombie = {1, 2}
    Late = {2}
    HalfWidth = 2
    HalfHeight = 1
    Columns = {0, 4, 7, 10}
    Rows = {1, 4}
    Centers = {2, 8}
    Kinds = {"IDF", "P90", "Scout"}
    Strides = {0, 1, 3}
    Reach = 6
    HalfScope = 1
    Ammo = 1
    TeamRange = 5
INVARIANTS TypeOK WalkIsReversible SpawnEnds
PROPERTIES KeepsApart NearestIsHit
