\* One training run on a dataset with groups.
SPECIFICATION Spec
CONSTANTS
    MinRows = 20
    Below <- MCBelow
    Contracts <- MCContracts
    LabColumns = "lab"
    Width <- MCWidth
    DefaultWidth = 43
    Trained <- MCTrained
    TrainedInLab <- MCTrainedInLab
    PackageSets <- MCPackageSets
    MaxRuns = 1
INVARIANTS
    GroupsIntact
CHECK_DEADLOCK FALSE
