SPECIFICATION Spec
CONSTANTS
    KNPLAY = 2
    KNHSHP = 2
    SerialLimit = 4
    MaxHits = 5
VIEW Seen
INVARIANTS
    TypeOK
    NothingUncounted
    NothingInherited
PROPERTIES
    BoxesSpec
