SPECIFICATION Spec
CHECK_DEADLOCK FALSE
CONSTRAINT Bounds
CONSTANTS
    Places <- LogsAndConfigs
    NoFile = NoFile
    Operations = {1, 2}
    MaxGap = 1
    IssueWindow = 0
    Lifetime = 1
    MaxTime = 3
    MaxSize = 3
    MaxEdits = 3
    MaxRaws = 2
    MaxCaptures = 3
INVARIANTS
    ObservationsInOrder
    BoundIsHarmless
    BoundWhileCurrent
