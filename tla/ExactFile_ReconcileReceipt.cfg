SPECIFICATION Spec
CONSTANTS
    N = 1
    MaxRuns = 3
    MaxFaults = 0
    MaxCrashes = 2
    MaxSite = 0
INVARIANT
    ReconciledStays
