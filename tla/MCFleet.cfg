SPECIFICATION Spec
CONSTANTS
    Ships <- MCShips
    Side <- MCSide
    Cells = {x1, x2, x3}
    Rom = 500
    Nowhere = Nowhere
    Orders <- MCOrders
    OnUntrue = FALSE
SYMMETRY FleetSymmetry
INVARIANTS
    TypeOK
    BeamsPaired
PROPERTIES
    OnlyCareless
