SPECIFICATION Spec
CONSTANTS
    N = 2
    MaxRuns = 1
    MaxFaults = 1
    MaxCrashes = 0
    MaxSite = 0
INVARIANT
    FailureCompensates
