SPECIFICATION Spec
CONSTANTS
    Fires = {f1, f2}
    LastDate = 1
    NoDate = NoDate
    Bystanders = TRUE
    MaxIncidents = 2
SYMMETRY FireSymmetry
INVARIANTS
    IInv
    AtMostOneLiveFlow
PROPERTIES
    ImplementsOncePerDay
CHECK_DEADLOCK FALSE
