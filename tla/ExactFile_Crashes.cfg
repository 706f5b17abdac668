SPECIFICATION FairSpec
CONSTANTS
    N = 2
    MaxRuns = 4
    MaxFaults = 1
    MaxCrashes = 3
    MaxSite = 1
INVARIANTS
    AppliedDurably
    RestoredDurably
    LeavesRecoverable
    JournalFaithful
    ReconcileAcceptsCrashes
PROPERTY
    HelperEnds
