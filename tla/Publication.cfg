SPECIFICATION FairSpec
CONSTANTS
    MaxFaults = 5
    MaxArrivals = 2
INVARIANTS
    RecordSurvives
PROPERTIES
    NothingIsDestroyed
    PhaseReturns
CHECK_DEADLOCK FALSE
