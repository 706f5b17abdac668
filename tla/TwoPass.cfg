SPECIFICATION Spec
CHECK_DEADLOCK FALSE
CONSTANTS
    Order <- DirectoryAndFiles
    Parent <- InDirectory
    Inodes = {1, 2, 3, 4, 5}
    Budgets <- FewChangesOrFailures
    None = None
    Unseen = Unseen
INVARIANTS
    InventoryIsSnapshot
    RowsAreOfOneFile
    NothingUnreported
    DriftIsExact
    ChangesAreTrue
