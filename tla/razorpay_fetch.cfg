SPECIFICATION Spec
CONSTANTS
    History <- MCHistory
    PageSize = 2
    MaxPages = 2
    None = None
INVARIANTS
    SnapshotComplete
    NothingTwice
CHECK_DEADLOCK FALSE
