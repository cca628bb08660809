SPECIFICATION Spec
CONSTANTS
    root = root
    left = left
    right = right
    Stages = {root, left, right}
    NoStage = NoStage
    ParentOf <- Fork
    NoWorker = NoWorker
    Workers = {w1}
    Attempts = 1
    MaxStalls = 0
    Obedient = TRUE
    MaxIncidents = 0
PROPERTIES
    LiveRunIsNotFailed
