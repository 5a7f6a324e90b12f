SPECIFICATION Spec
CONSTANTS
    Sessions = {s1, s2, s3}
    None = None
    PerSide = 1
    QueueLength = 2
    NewPlanets = 1
    NewBases = 1
    Effects = {"kill ship"}
    MayIdle = FALSE
    OnCleared = FALSE
SYMMETRY SessionSymmetry
CHECK_DEADLOCK FALSE
INVARIANTS
    TypeOK
    OneCaptainPerShip
    HeadCount
    
    KilledOnce
PROPERTIES
    NeverClearedUnderCaptains
