SPECIFICATION ContractSpec
CONSTANTS
    N = 3
    MaxRuns = 3
    MaxFaults = 1
    MaxCrashes = 2
    MaxSite = 1
INVARIANTS
    TypeOK
    NoTargetLost
    RollbackIsUniform
PROPERTIES
    ForeignPreserved
    ImplementsContract
