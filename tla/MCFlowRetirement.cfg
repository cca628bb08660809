SPECIFICATION Spec
CONSTANTS
    Stages = {s1, s2, s3}
    NoStage = NoStage
SYMMETRY StageSymmetry
INVARIANTS
    SupersededMeansGone
    TrimmedFlowIsReviewable
    EvidenceIsTrue
    EveryDependencyIsAwaited
    OnlyCyclesAreDropped
PROPERTIES
    ImplementsScheduledRun
    RemovalReleasesNobody
