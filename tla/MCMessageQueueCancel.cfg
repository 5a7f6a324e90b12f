SPECIFICATION SpecInterrupted
CONSTANTS
    Slots = 3
    KNPLAY = 2
    m1 = m1
    m2 = m2
    Texts <- TwoSenders
    Addressed <- ToEachOther
    MaxCount = 2
    Sleepers = 1
CHECK_DEADLOCK FALSE
INVARIANT
    NeverHangs
