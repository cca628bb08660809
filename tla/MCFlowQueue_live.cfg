SPECIFICATION FairSpec
CONSTANTS
    root = root
    left = left
    right = right
    Stages = {root, left}
    NoStage = NoStage
    ParentOf <- Pair
    NoWorker = NoWorker
    Workers = {w1}
    Attempts = 2
    MaxStalls = 1
    Obedient = TRUE
    MaxIncidents = 1
INVARIANTS
    SpendIsBounded
PROPERTIES
    FlowStops
    PinnedRunIsClosed
