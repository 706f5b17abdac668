SPECIFICATION LoaderSpec
CHECK_DEADLOCK FALSE
CONSTANTS
    Loaders = {l1, l2, l3, l4}
    Inodes = {i1, i2}
    MaxKills = 2
    MaxTerminations = 2
    MaxFailures = 2
    None = None
CONSTRAINT FewFaults
SYMMETRY LoaderSymmetry
INVARIANTS
    AtMostOneHelper
    AuditIsTrue
    LeavesNothing
