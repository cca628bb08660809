SPECIFICATION FairSpec
CONSTANTS
    MaxWrites = 2
    MaxIncidents = 4
    LateCommit = FALSE
INVARIANTS
    IInv
    RetryIsSafe
    HoldKnowsTheTruth
PROPERTIES
    FenceEndsOnRecord
    SourceStoodStill
    ImplementsContract
    RunEnds
CHECK_DEADLOCK FALSE
