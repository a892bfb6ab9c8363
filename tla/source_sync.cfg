SPECIFICATION SyncFairSpec
CONSTANTS
    Runs = {r1, r2, r3}
    Investigations = {i1}
    Writers = {sync, w1}
    Sync = sync
    Nobody = Nobody
    Fallible = {r1, r2, i1, sync}
INVARIANTS
    TypeOK
    SequenceIsCommitOrder
    JournalMatchesRows
    CompletedRunsAreSerial
    StatusTellsSource
    RunsReadJournaledSource
PROPERTIES
    LogSpec
    RequestsEnd
    SyncEnd
CHECK_DEADLOCK FALSE
