SPECIFICATION Spec
CONSTANTS
    Stages = {s1, s2, s3}
    NoStage = NoStage
SYMMETRY StageSymmetry
PROPERTIES
    RetryCanFinish
