SPECIFICATION Spec
CHECK_DEADLOCK FALSE
CONSTRAINT ConcurrentOrChanging
CONSTANTS
    Sessions = {s1, s2}
    Lifetimes = {1, 2}
    MaxReopens = 2
    MaxTime = 3
    MaxEdition = 2
    MaxProduct = 1
SYMMETRY SessionSymmetry
INVARIANTS
    TypeOK
    AtMostOneReopen
    UnfitNeverMutates
    RevokedNeverLaunches
