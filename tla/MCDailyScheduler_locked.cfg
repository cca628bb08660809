SPECIFICATION FairSpec
CONSTANTS
    Fires = {f1, f2}
    LastDate = 2
    NoDate = NoDate
    Bystanders = FALSE
    MaxIncidents = 1
INVARIANTS
    RecheckHolds
PROPERTIES
    ScheduledDateWasDue
    ApprovedRunIsNotDiscarded
    DueDateIsClaimed
CHECK_DEADLOCK FALSE
