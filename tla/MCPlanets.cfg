SPECIFICATION Spec
CONSTANTS
    c1 = c1
    c2 = c2
    Captains = {c1, c2}
    Team <- MCTeam
    p1 = p1
    p2 = p2
    f1 = f1
    e1 = e1
    free = free
    Cells <- MCCells
    Rows = 2
    Slots = 1
    FullBuild = 2
    MaxBuild = 3
    PlanetAt <- MCPlanetAt
    BaseAt <- MCBaseAt
SYMMETRY CaptainSymmetry
CHECK_DEADLOCK FALSE
INVARIANTS
    TypeOK
    NoPhantomBase
PROPERTIES
    OnlyStaleDisturbs
