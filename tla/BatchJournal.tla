---------------------------- MODULE BatchJournal ----------------------------
(***************************************************************************)
(* The audit journal of one batch and the transactions that share it:      *)
(* reconciliation runs, advisory investigations, and the other writers     *)
(* (reviews, close briefs) that append one event at their end.             *)
(*                                                                         *)
(* append_event locks the batch row FOR UPDATE, reads max(sequence) and    *)
(* adds 1.  A run does so inside one REPEATABLE READ transaction, whose    *)
(* max(sequence) is that of its first statement; everyone else is READ     *)
(* COMMITTED.  Inserting a run or an investigation takes FOR KEY SHARE on  *)
(* the batch first (the foreign key), which a FOR UPDATE has to wait for.  *)
(* An uncommitted row of status running also keeps every other insert of a *)
(* run waiting at the partial unique index.                                *)
(***************************************************************************)
EXTENDS Integers, FiniteSets, Sequences, FiniteSetsExt

CONSTANTS
    Runs,            \* POST /reconciliation-runs requests for the batch
    Investigations,  \* POST /exceptions/{id}/investigate requests
    Writers,         \* transactions that append one event and commit
    Nobody,          \* the actor of what was journaled before
    Fallible         \* the requests that may raise, or whose process may die

ASSUME RequestsAssumption ==
    /\ Runs \cap Investigations = {}
    /\ (Runs \cup Investigations) \cap Writers = {}
    /\ Nobody \notin Runs \cup Investigations \cup Writers
    /\ Fallible \subseteq Runs \cup Investigations \cup Writers

VARIABLES
    journal,  \* committed audit events of the batch, in the order of their commits
    row,      \* the ReconciliationRun row a run has committed
    saved,    \* investigations whose AIInvestigationRecord is committed
    run,      \* progress of each run request
    inv,      \* progress of each investigation request
    writer    \* progress of each other writer

vars == <<journal, row, saved, run, inv, writer>>

-----------------------------------------------------------------------------
RunStates == {"idle", "checked", "began", "indexed", "inserted", "locked", "working",
              "completed", "conflict", "failing", "recording", "failed", "died"}
RunRecord == [pc: RunStates, seen: Nat]

\* "opened" is demo.reset.completed or razorpay.sync.started, a batch's first event;
\* "other" an event of another writer.
EventTypes == {"opened", "run_started", "result_persisted",
               "run_completed", "run_failed", "ai_recommendation", "other"}
Event == [seq: Nat, type: EventTypes, by: Runs \cup Investigations \cup Writers \cup {Nobody}]

\* coalesce(max(sequence), 0)
LastSeq == Max({0} \cup {journal[i].seq : i \in DOMAIN journal})

\* Mutant: there is no unique index on (batch_id, sequence)
NeverTaken(seq) == FALSE

\* uq_audit_event_batch_sequence would reject the sequence
Taken(seq) == \E i \in DOMAIN journal : journal[i].seq = seq

-----------------------------------------------------------------------------
(* Locks on the batch row and on the running entry of the unique index.    *)

Shares(p) ==
    \/ p \in Runs /\ run[p].pc \in {"inserted", "recording"}
    \/ p \in Investigations /\ inv[p] = "saved"

LocksBatch(p) == p \in Runs /\ run[p].pc \in {"locked", "working"}

\* FOR KEY SHARE by p, and FOR UPDATE by p, would not wait
ShareFree(p) == \A q \in Runs \ {p} : ~LocksBatch(q)

\* Mutant: the SELECT loses its FOR UPDATE
NoWait(p) == TRUE

LockFree(p) ==
    /\ ShareFree(p)
    /\ \A q \in (Runs \cup Investigations) \ {p} : ~Shares(q)

\* Mutant: the deadlock is not detected
Undetected(p) == FALSE

\* p and another holder of FOR KEY SHARE both wait for FOR UPDATE
Deadlocked(p) == Shares(p) /\ \E q \in (Runs \cup Investigations) \ {p} : Shares(q)

\* The run's insert is in the index, and nothing has ended its transaction.
Running(r) == run[r].pc \in {"indexed", "inserted", "locked", "working"}

IndexFree(r) == \A s \in Runs \ {r} : ~Running(s)

-----------------------------------------------------------------------------
Init ==
    /\ journal = <<[seq |-> 1, type |-> "opened", by |-> Nobody]>>
    /\ row = [r \in Runs |-> "absent"]
    /\ saved = {}
    /\ run = [r \in Runs |-> [pc |-> "idle", seen |-> 0]]
    /\ inv = [i \in Investigations |-> "idle"]
    /\ writer = [w \in Writers |-> "idle"]

RunMoves(r, pc) ==
    /\ run' = [run EXCEPT ![r].pc = pc]
    /\ UNCHANGED <<journal, row, saved, inv, writer>>

-----------------------------------------------------------------------------
(* run_reconciliation.                                                     *)

\* Refused with a 409 only by a committed row of status running, and a run
\* commits none: the row is running and completed within one transaction.
RunCheck(r) ==
    /\ run[r].pc = "idle"
    /\ RunMoves(r, IF \E s \in Runs : row[s] = "running" THEN "conflict" ELSE "checked")

\* BEGIN, and the INSERT that fixes the snapshot.
RunBegin(r) ==
    /\ run[r].pc = "checked"
    /\ run' = [run EXCEPT ![r] = [pc |-> "began", seen |-> LastSeq]]
    /\ UNCHANGED <<journal, row, saved, inv, writer>>

RunIndex(r) ==
    /\ run[r].pc = "began"
    /\ IndexFree(r)
    /\ RunMoves(r, "indexed")

\* The foreign key check of the INSERT
RunInsert(r) ==
    /\ run[r].pc = "indexed"
    /\ ShareFree(r)
    /\ RunMoves(r, "inserted")

\* _audit(run_started): FOR UPDATE, and the maximum of the snapshot
RunLock(r) ==
    /\ run[r].pc = "inserted"
    /\ LockFree(r)
    /\ RunMoves(r, "locked")

\* Mutant: the transaction is READ COMMITTED, every maximum is the current one
FreshSeq(r, k) == LastSeq + k

RunSeq(r, k) == run[r].seen + k

\* _load_snapshot's first SELECT flushes the event.
RunFlush(r) ==
    /\ run[r].pc = "locked"
    /\ RunMoves(r, IF Taken(RunSeq(r, 1)) THEN "failing" ELSE "working")

\* Both stages, the results, two more events, and COMMIT
RunCommit(r) ==
    /\ run[r].pc = "working"
    /\ journal' = journal \o
          <<[seq |-> RunSeq(r, 1), type |-> "run_started", by |-> r],
            [seq |-> RunSeq(r, 2), type |-> "result_persisted", by |-> r],
            [seq |-> RunSeq(r, 3), type |-> "run_completed", by |-> r]>>
    /\ row' = [row EXCEPT ![r] = "completed"]
    /\ run' = [run EXCEPT ![r].pc = "completed"]
    /\ UNCHANGED <<saved, inv, writer>>

RunDeadlock(r) ==
    /\ run[r].pc = "inserted"
    /\ Deadlocked(r)
    /\ RunMoves(r, "failing")

\* The engine or the persistence of its results raises.
RunRaise(r) ==
    /\ r \in Fallible
    /\ run[r].pc = "working"
    /\ RunMoves(r, "failing")

RunDie(r) ==
    /\ r \in Fallible
    /\ run[r].pc \in {"began", "indexed", "inserted", "locked", "working", "failing", "recording"}
    /\ RunMoves(r, "died")

\* except Exception: a second transaction inserts the failed run ...
RecordInsert(r) ==
    /\ run[r].pc = "failing"
    /\ ShareFree(r)
    /\ RunMoves(r, "recording")

\* Mutants: the failed run is committed without its event; the event's type is
\* one the database enum does not have
SilentFailure(r) == <<>>
UnlistedFailure(r) ==
    <<[seq |-> LastSeq + 1, type |-> "reconciliation_run_failed", by |-> r]>>

FailureEvents(r) == <<[seq |-> LastSeq + 1, type |-> "run_failed", by |-> r]>>

\* ... and its event; the request is answered with a 500 either way.
RecordCommit(r) ==
    /\ run[r].pc = "recording"
    /\ LockFree(r)
    /\ journal' = journal \o FailureEvents(r)
    /\ row' = [row EXCEPT ![r] = "failed"]
    /\ run' = [run EXCEPT ![r].pc = "failed"]
    /\ UNCHANGED <<saved, inv, writer>>

\* except Exception: rollback
RecordDeadlock(r) ==
    /\ run[r].pc = "recording"
    /\ Deadlocked(r)
    /\ RunMoves(r, "failed")

-----------------------------------------------------------------------------
(* What a completed run makes possible: it alone leaves exceptions.        *)

Reconciled == \E r \in Runs : row[r] = "completed"

\* investigate_exception, from the flush of its record
Investigate(i) ==
    /\ inv[i] = "idle"
    /\ Reconciled
    /\ ShareFree(i)
    /\ inv' = [inv EXCEPT ![i] = "saved"]
    /\ UNCHANGED <<journal, row, saved, run, writer>>

\* _audit_investigation, then the endpoint's commit
InvestigateCommit(i) ==
    /\ inv[i] = "saved"
    /\ LockFree(i)
    /\ journal' = Append(journal, [seq |-> LastSeq + 1, type |-> "ai_recommendation", by |-> i])
    /\ saved' = saved \cup {i}
    /\ inv' = [inv EXCEPT ![i] = "answered"]
    /\ UNCHANGED <<row, run, writer>>

\* _audit_investigation swallows the error of the aborted transaction, whose
\* COMMIT then rolls it back; the answer is a 200 all the same.
InvestigateDeadlock(i) ==
    /\ inv[i] = "saved"
    /\ Deadlocked(i)
    /\ inv' = [inv EXCEPT ![i] = "answered"]
    /\ UNCHANGED <<journal, row, saved, run, writer>>

InvestigateDie(i) ==
    /\ i \in Fallible
    /\ inv[i] = "saved"
    /\ inv' = [inv EXCEPT ![i] = "died"]
    /\ UNCHANGED <<journal, row, saved, run, writer>>

\* The end of a review or of a close brief: lock, append, commit.
Write(w) ==
    /\ writer[w] = "idle"
    /\ Reconciled
    /\ LockFree(w)
    /\ journal' = Append(journal, [seq |-> LastSeq + 1, type |-> "other", by |-> w])
    /\ writer' = [writer EXCEPT ![w] = "answered"]
    /\ UNCHANGED <<row, saved, run, inv>>

-----------------------------------------------------------------------------
RunStep(r) ==
    \/ RunCheck(r) \/ RunBegin(r) \/ RunIndex(r) \/ RunInsert(r) \/ RunLock(r)
    \/ RunFlush(r) \/ RunCommit(r) \/ RunDeadlock(r)
    \/ RecordInsert(r) \/ RecordCommit(r) \/ RecordDeadlock(r)

RunFault(r) == RunRaise(r) \/ RunDie(r)

InvestigationStep(i) == InvestigateCommit(i) \/ InvestigateDeadlock(i)

Next ==
    \/ \E r \in Runs : RunStep(r) \/ RunFault(r)
    \/ \E i \in Investigations : Investigate(i) \/ InvestigationStep(i) \/ InvestigateDie(i)
    \/ \E w \in Writers : Write(w)

Spec == Init /\ [][Next]_vars

-----------------------------------------------------------------------------
(* Properties.                                                             *)

\* Every row and every request's progress has the shape the schema gives it.
TypeOK ==
    /\ journal \in Seq(Event)
    /\ row \in [Runs -> {"absent", "running", "completed", "failed"}]
    /\ saved \subseteq Investigations
    /\ run \in [Runs -> RunRecord]
    /\ inv \in [Investigations -> {"idle", "saved", "answered", "died"}]
    /\ writer \in [Writers -> {"idle", "answered"}]

\* The sequence numbers of the batch are 1, 2, 3 ... without gap or repetition,
\* and in the order of the commits, although a run numbers its events from a
\* snapshot that others may have outdated (append_event, the unique index).
SequenceIsCommitOrder == \A i \in DOMAIN journal : journal[i].seq = i

EventsBy(p) == {i \in DOMAIN journal : journal[i].by = p}

\* The journal tells exactly what was committed: three events in a row for a
\* completed run, one for a recorded failure, one for a saved investigation,
\* nothing for what was rolled back.
JournalMatchesRows ==
    /\ \A r \in Runs :
          \/ row[r] = "absent" /\ EventsBy(r) = {}
          \/ /\ row[r] = "failed"
             /\ \E i \in DOMAIN journal :
                   EventsBy(r) = {i} /\ journal[i].type = "run_failed"
          \/ /\ row[r] = "completed"
             /\ \E i \in DOMAIN journal :
                   /\ EventsBy(r) = {i, i + 1, i + 2}
                   /\ journal[i].type = "run_started"
                   /\ journal[i + 1].type = "result_persisted"
                   /\ journal[i + 2].type = "run_completed"
    /\ \A i \in Investigations : i \in saved <=> EventsBy(i) # {}

\* A completed run worked on the batch as it was when its first event was
\* journaled: nothing of the batch, another run least of all, was committed
\* between its snapshot and its own commit.
CompletedRunsAreSerial ==
    \A i \in DOMAIN journal :
        journal[i].type = "run_started" => run[journal[i].by].seen = i - 1

\* What a reader finds at each sequence number.
entries ==
    [k \in 1..LastSeq |->
        {[type |-> journal[i].type, by |-> journal[i].by] :
            i \in {j \in DOMAIN journal : journal[j].seq = k}}]

\* The journal implements an append-only log to which every request adds one
\* uninterrupted block.
Log == INSTANCE AuditLog
LogSpec == Log!Spec

\* Runs and investigations end, deadlocks on the batch row included, unless
\* their process dies.
RequestsEnd ==
    /\ \A r \in Runs : run[r].pc = "checked" ~> run[r].pc \in {"completed", "failed", "died"}
    /\ \A i \in Investigations : inv[i] = "saved" ~> inv[i] \in {"answered", "died"}

=============================================================================
