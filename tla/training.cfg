\* Two runs of any kind, a service that loads at any moment, crashes of both.
SPECIFICATION Spec
CONSTANTS
    MinRows = 20
    Below <- MCBelow
    Contracts <- MCContracts
    LabColumns = "lab"
    Width <- MCWidth
    DefaultWidth = 43
    Trained <- MCTrained
    TrainedInLab <- MCTrainedInLab
    PackageSets <- MCPackageSets
    MaxRuns = 2
INVARIANTS
    TypeOK
    SplitSound
    OnlyVerifiedData
    ReportBehindArtifacts
    ReportedModelsServed
CHECK_DEADLOCK FALSE
