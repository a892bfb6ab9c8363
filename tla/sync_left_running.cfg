SPECIFICATION SyncSpec
CONSTANTS
    Runs = {r1}
    Investigations = {}
    Writers = {sync}
    Sync = sync
    Nobody = Nobody
    Fallible = {sync}
PROPERTY FailedPersistenceIsMarked
CHECK_DEADLOCK FALSE
