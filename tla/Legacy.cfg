SPECIFICATION Spec
CHECK_DEADLOCK FALSE
CONSTRAINT Bounds
CONSTANTS
    Contracts <- AllContracts
    Expiry = 1
    Gap = 2
    MaxTime = 4
    MaxRuns = 2
    MaxDeaths = 1
    MaxChanges = 1
    MaxProbes = 1
    None = None
INVARIANTS
    ReconciledWasExecuted
    ReconciledWasSeen
    ExecutedReconciles
