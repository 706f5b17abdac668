SPECIFICATION Spec
CHECK_DEADLOCK FALSE
CONSTRAINT OneOperationOrMixed
CONSTANTS
    Operations = {1, 2}
    Formats = {"command", "private", "unmarked"}
    Classes = {"signed", "legacy"}
    Expiry = 1
    ReopenExpiry = 2
    MaxTime = 2
    MaxChanges = 1
    MaxSkew = 1
    None = None
INVARIANTS
    CleanWasSeen
    LineageInOrder
    CompleteRecordCloses
