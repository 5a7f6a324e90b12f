SPECIFICATION FairSpec
CONSTANTS
    MaxBytes = 3
    MaxControls = 3
CHECK_DEADLOCK FALSE
INVARIANTS
    TypeOK
    SleepsOnlyWhenIdle
    InterruptEndsOneRead
    EndMeetsNoControl
PROPERTIES
    InterruptAnswered
    WarEndSeen
    CancelFinishes
