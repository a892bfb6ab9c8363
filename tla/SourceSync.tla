----------------------------- MODULE SourceSync -----------------------------
(***************************************************************************)
(* POST /razorpay/sync and the requests that share its batch.  The sync    *)
(* commits an empty batch of status running, fetches a snapshot from the   *)
(* provider, and commits the source rows, the final status and one event   *)
(* in a second transaction.  The batch is listed, and can be reconciled,   *)
(* from the first commit on.                                               *)
(*                                                                         *)
(* The requests of BatchJournal keep their steps.  Those that want FOR     *)
(* UPDATE also wait for the sync: the foreign keys of its rows hold FOR    *)
(* KEY SHARE on the batch row, its UPDATE holds FOR NO KEY UPDATE.  An     *)
(* investigation needs an exception of a run that found source rows, and   *)
(* comes after the sync; a close brief needs no more than a completed run. *)
(***************************************************************************)
EXTENDS BatchJournal

CONSTANT Sync  \* the writer that is the sync

ASSUME SyncAssumption == Sync \in Writers

VARIABLES
    batch,   \* status of the Batch row: running, completed or failed
    source,  \* its committed source rows: none or all of the snapshot
    sync,    \* progress of the sync request: fetching; fetched, persisting, updating,
             \* or unpersisted if that fails; rejected, marking; ok (a 200),
             \* bad gateway (a 502), error (a 500), or died
    view     \* status and rows of the batch in the snapshot of each run

syncVars == <<batch, source, sync, view>>
allVars == <<vars, syncVars>>

-----------------------------------------------------------------------------
(* Locks on the batch row.                                                 *)

SyncLocks == sync \in {"persisting", "updating", "marking"}

\* Mutant: the deadlock is not detected
SyncUndetected == FALSE

\* The sync waits for FOR UPDATE, and holds FOR NO KEY UPDATE.
SyncWaits == sync \in {"updating", "marking"}

SyncLockFree == LockFree(Sync)

\* Everyone who holds FOR KEY SHARE waits for FOR UPDATE next.
SyncDeadlocked == SyncWaits /\ \E r \in Runs : Shares(r)

-----------------------------------------------------------------------------
SyncInit ==
    /\ Init
    /\ batch = "running"
    /\ source = "empty"
    /\ sync = "fetching"
    /\ view = [r \in Runs |-> [batch |-> "running", source |-> "empty"]]

SyncMoves(pc) ==
    /\ sync' = pc
    /\ UNCHANGED <<vars, batch, source, view>>

\* fetch_snapshot raises a RazorpayAdapterError or an OSError, or what neither
\* _map_snapshot nor the endpoint catches: datetime.fromtimestamp's ValueError.
FetchFailures == {"rejected", "error"}

SyncFetch ==
    /\ sync = "fetching"
    /\ \E outcome \in {"fetched"} \cup FetchFailures : SyncMoves(outcome)

\* Mutant: the source rows are committed on their own
RowsAtOnce == "full"

\* What the others see of the source rows once they are flushed
FlushedRows == source

\* persist_source_records: the rows are inserted.
SyncPersist ==
    /\ sync = "fetched"
    /\ ShareFree(Sync)
    /\ source' = FlushedRows
    /\ sync' = "persisting"
    /\ UNCHANGED <<vars, batch, view>>

\* The UPDATE of the batch row, flushed by append_event's SELECT
SyncUpdate ==
    /\ sync = "persisting"
    /\ ShareFree(Sync)
    /\ SyncMoves("updating")

\* Mutant: the event is numbered when the sync starts
EarlyEvent == [seq |-> 2, type |-> "other", by |-> Sync]

SyncEvent == [seq |-> LastSeq + 1, type |-> "other", by |-> Sync]

\* The FOR UPDATE of append_event, the event, and COMMIT
SyncEnds(status, rows, answer) ==
    /\ SyncLockFree
    /\ journal' = Append(journal, SyncEvent)
    /\ batch' = status
    /\ source' = rows
    /\ sync' = answer
    /\ writer' = [writer EXCEPT ![Sync] = "answered"]
    /\ UNCHANGED <<row, saved, run, inv, view>>

SyncComplete == sync = "updating" /\ SyncEnds("completed", "full", "ok")

\* Where a transaction of the sync that fails leads: the one of the rows to
\* mark_failed, that of mark_failed to a 500.
AfterRollback == IF sync = "marking" THEN "error" ELSE "unpersisted"

SyncRaise ==
    /\ Sync \in Fallible
    /\ sync \in {"fetched", "persisting", "updating", "marking"}
    /\ SyncMoves(AfterRollback)

\* mark_failed after the rollback of the rows, which expired the Batch object:
\* its batch.id would have to be loaded where nothing awaits it, so that
\* mark_failed raises before it writes anything, and the answer is a 500.
MarkExpired == sync = "unpersisted" /\ SyncMoves("error")

\* Mutant: mark_failed leaves the status alone
StatusKept == batch

MarkedStatus == "failed"

\* mark_failed after a rejected fetch
MarkUpdate ==
    /\ sync = "rejected"
    /\ ShareFree(Sync)
    /\ SyncMoves("marking")

MarkCommit == sync = "marking" /\ SyncEnds(MarkedStatus, source, "bad gateway")

\* Either transaction of the sync is the victim of a deadlock.
SyncDeadlock == SyncDeadlocked /\ SyncMoves(AfterRollback)

SyncDie ==
    /\ Sync \in Fallible
    /\ sync \in {"fetching", "fetched", "rejected", "persisting", "updating", "marking",
                  "unpersisted"}
    /\ SyncMoves("died")

-----------------------------------------------------------------------------
(* The others.                                                             *)

BeginView(r) ==
    /\ RunBegin(r)
    /\ view' = [view EXCEPT ![r] = [batch |-> batch, source |-> source]]
    /\ UNCHANGED <<batch, source, sync>>

\* FOR UPDATE in REPEATABLE READ fails on a row that was updated after the snapshot.
Outdated(r) == view[r].batch # batch

LockBatch(r) ==
    /\ ~SyncLocks
    /\ ~Outdated(r) /\ RunLock(r)
    /\ UNCHANGED syncVars

LockOutdated(r) ==
    /\ ~SyncLocks
    /\ run[r].pc = "inserted"
    /\ LockFree(r)
    /\ Outdated(r)
    /\ RunMoves(r, "failing")
    /\ UNCHANGED syncVars

\* The run is the victim of a deadlock with the sync, in either transaction.
DeadlockWithSync(r) ==
    /\ SyncWaits
    /\ \/ run[r].pc = "inserted" /\ RunMoves(r, "failing")
       \/ run[r].pc = "recording" /\ RunMoves(r, "failed")
    /\ UNCHANGED syncVars

RunProgress(r) ==
    \/ BeginView(r) \/ LockBatch(r) \/ LockOutdated(r) \/ DeadlockWithSync(r)
    \/ (RecordCommit(r) /\ ~SyncLocks /\ UNCHANGED syncVars)
    \/ /\ \/ RunCheck(r) \/ RunIndex(r) \/ RunInsert(r) \/ RunFlush(r)
          \/ RunCommit(r) \/ RunDeadlock(r) \/ RecordInsert(r) \/ RecordDeadlock(r)
       /\ UNCHANGED syncVars

\* Only a run that found source rows leaves exceptions.
Investigable == \E r \in Runs : row[r] = "completed" /\ view[r].source = "full"

StartInvestigation(i) == Investigable /\ Investigate(i) /\ UNCHANGED syncVars

InvestigationProgress(i) == InvestigationStep(i) /\ UNCHANGED syncVars

\* The append of a review or a close brief waits for the sync's locks.
WriteBeside(w) == ~SyncLocks /\ Write(w) /\ UNCHANGED syncVars

SyncProgress ==
    \/ SyncFetch \/ SyncPersist \/ SyncUpdate \/ SyncComplete
    \/ MarkUpdate \/ MarkCommit \/ MarkExpired \/ SyncDeadlock

SyncNext ==
    \/ SyncProgress \/ SyncRaise \/ SyncDie
    \/ \E r \in Runs : RunProgress(r) \/ (RunFault(r) /\ UNCHANGED syncVars)
    \/ \E i \in Investigations :
          \/ StartInvestigation(i) \/ InvestigationProgress(i)
          \/ (InvestigateDie(i) /\ UNCHANGED syncVars)
    \/ \E w \in Writers \ {Sync} : WriteBeside(w)

SyncSpec == SyncInit /\ [][SyncNext]_allVars

\* Accepted requests are resumed, locks are granted once they are free, the
\* deadlock detector runs, and the client's timeout bounds the provider's answer.
SyncFairSpec ==
    /\ SyncSpec
    /\ WF_allVars(SyncProgress)
    /\ \A r \in Runs : WF_allVars(RunProgress(r) /\ run[r].pc # "idle")
    /\ \A i \in Investigations : WF_allVars(InvestigationProgress(i))

-----------------------------------------------------------------------------
(* Properties.                                                             *)

\* The status of the batch, its rows, its journal and the answer of the sync
\* agree at every commit: the rows are there exactly if the batch is completed
\* and the answer is a 200, the batch is failed exactly if the answer is a 502,
\* and either is told by one event.  Every other end, a 500 as much as a death,
\* leaves a batch that is running, empty and without an event.
StatusTellsSource ==
    /\ batch = "completed" <=> source = "full"
    /\ batch = "completed" <=> sync = "ok"
    /\ batch = "failed" <=> sync = "bad gateway"
    /\ batch = "running" <=> EventsBy(Sync) = {}
    /\ Cardinality(EventsBy(Sync)) <= 1

\* A sync whose rows could not be persisted marks its batch as failed, as its
\* "explicit success/failure lifecycle" has it, unless its process dies.
FailedPersistenceIsMarked ==
    [][sync = "unpersisted" /\ sync' \notin {"unpersisted", "died"} => batch' = "failed"]_allVars

\* A completed run read the source rows if and only if they were journaled
\* before it was: no run reconciles rows that are not committed for good, and
\* none misses rows that its own journal says were there.
RunsReadJournaledSource ==
    \A i \in DOMAIN journal : journal[i].type = "run_started" =>
        LET r == journal[i].by
        IN  (view[r].source = "full") <=> \E k \in EventsBy(Sync) : k < i /\ batch = "completed"

\* The sync ends, whatever the provider, the database and the runs beside it do,
\* unless its process dies: a deadlock with a run is broken at either of them.
SyncEnd == <>(sync \in {"ok", "bad gateway", "error", "died"})

=============================================================================
