SPECIFICATION Spec
CONSTANTS
    Sessions = {s1, s2, s3}
    None = None
    PerSide = 1
    QueueLength = 1
    NewPlanets = 1
    NewBases = 1
    Effects = {"lose base", "lose planet"}
    MayIdle = FALSE
    OnCleared = FALSE
CHECK_DEADLOCK FALSE
INVARIANT
    CommandKeepsShip
