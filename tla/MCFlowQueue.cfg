SPECIFICATION Spec
CONSTANTS
    root = root
    left = left
    right = right
    Stages = {root, left, right}
    NoStage = NoStage
    ParentOf <- Fork
    NoWorker = NoWorker
    Workers = {w1, w2}
    Attempts = 1
    MaxStalls = 1
    Obedient = TRUE
    MaxIncidents = 2
SYMMETRY WorkerSymmetry
INVARIANTS
    IInv
    SuccessMeansWorkDone
PROPERTIES
    ImplementsScheduledRun
