SPECIFICATION FairSpec
CONSTANTS
    Sessions = {s1, s2}
    None = None
    PerSide = 1
    QueueLength = 1
    NewPlanets = 1
    NewBases = 1
    Effects = {}
    MayIdle = TRUE
    OnCleared = FALSE
CHECK_DEADLOCK FALSE
PROPERTY
    SetupLockReleased
