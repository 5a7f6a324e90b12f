SPECIFICATION Spec
CONSTANTS
    Slots = 3
    KNPLAY = 3
    m1 = m1
    m2 = m2
    Texts <- TwoSenders
    Addressed <- ToOthers
    MaxCount = 3
    Sleepers = 1
VIEW Seen
CHECK_DEADLOCK FALSE
INVARIANTS
    TypeOK
PROPERTIES
    OnlyStaleBreaks
    OnlyRefusedUncounts
    MailboxSpec
