---------------------------- MODULE JournalProofs ----------------------------
(***************************************************************************)
(* Theorems about BatchJournal, for any number of runs, investigations and *)
(* other writers, and about SourceSync, which extends it: what the journal *)
(* of a batch promises also holds while the sync that fills the batch runs *)
(* beside the runs that reconcile it, and the runs read only what the      *)
(* journal says was there.                                                 *)
(***************************************************************************)
EXTENDS SourceSync, SequenceTheorems, FiniteSetTheorems, TLAPS

(***************************************************************************)
(* The invariant.  A run numbers its events from its snapshot, so that the *)
(* numbers are right only if the snapshot is still the newest state when   *)
(* its first event is flushed, and stays so until it commits: that is what *)
(* the unique index checks and the lock on the batch row then preserves.   *)
(***************************************************************************)
\* What the index of running runs enforces
OneRunInFlight == \A r, s \in Runs : Running(r) /\ Running(s) => r = s

LockExclusive ==
    \A r \in Runs : LocksBatch(r) =>
        \A q \in (Runs \cup Investigations) \ {r} : ~LocksBatch(q) /\ ~Shares(q)

SnapshotIsPast == \A r \in Runs : run[r].seen <= Len(journal)

WorkingIsFresh == \A r \in Runs : run[r].pc = "working" => run[r].seen = Len(journal)

JournalInv ==
    /\ TypeOK
    /\ SequenceIsCommitOrder
    /\ OneRunInFlight
    /\ LockExclusive
    /\ SnapshotIsPast
    /\ WorkingIsFresh

\* In a journal without gaps the maximum is the length.
LEMMA LastSeqIsLength ==
  ASSUME TypeOK, SequenceIsCommitOrder
  PROVE  LastSeq = Len(journal) /\ Len(journal) \in Nat
<1>. DEFINE n == Len(journal)
            S == {0} \cup {journal[i].seq : i \in DOMAIN journal}
<1>1. n \in Nat /\ DOMAIN journal = 1..n
  BY DEF TypeOK
<1>2. S = 0..n
  BY <1>1 DEF SequenceIsCommitOrder
<1>. HIDE DEF n, S
<1>3. \A m \in 0..n : (\A y \in 0..n : m >= y) <=> m = n
  BY <1>1
<1>4. Max(0..n) = n
  <2>1. n \in 0..n
    BY <1>1
  <2>. QED  BY <1>3, <2>1 DEF Max
<1>. QED  BY <1>1, <1>2, <1>4 DEF LastSeq, n, S

LEMMA InitTypeOK == Init => TypeOK
<1>. SUFFICES ASSUME Init PROVE TypeOK
  OBVIOUS
<1>1. journal \in Seq(Event)
  <2>. DEFINE first == [seq |-> 1, type |-> "opened", by |-> Nobody]
  <2>1. first \in Event
    BY DEF Event, EventTypes
  <2>2. journal = <<first>>
    BY DEF Init
  <2>. HIDE DEF first
  <2>. QED  BY <2>1, <2>2
<1>2. run \in [Runs -> RunRecord]
  BY DEF Init, RunRecord, RunStates
<1>3. /\ row \in [Runs -> {"absent", "running", "completed", "failed"}]
      /\ saved \subseteq Investigations
      /\ inv \in [Investigations -> {"idle", "saved", "answered", "died"}]
      /\ writer \in [Writers -> {"idle", "answered"}]
  BY DEF Init
<1>. QED  BY <1>1, <1>2, <1>3 DEF TypeOK

LEMMA InitJournalInv == Init => JournalInv
<1>. SUFFICES ASSUME Init PROVE JournalInv
  OBVIOUS
<1>1. /\ Len(journal) = 1
      /\ DOMAIN journal = {1}
      /\ journal[1].seq = 1
  BY DEF Init
<1>2. \A r \in Runs : run[r].pc = "idle" /\ run[r].seen = 0
  BY DEF Init
<1>. QED
  BY <1>1, <1>2, InitTypeOK DEF JournalInv, SequenceIsCommitOrder, OneRunInFlight, Running,
     LockExclusive, LocksBatch, SnapshotIsPast, WorkingIsFresh

\* A run that moves without touching the tables keeps the invariant if it takes
\* only what is free and goes to work only on a fresh snapshot.
LEMMA RunMovesInv ==
  ASSUME JournalInv, NEW r \in Runs, NEW pc \in RunStates, RunMoves(r, pc),
         pc \in {"indexed", "inserted", "locked", "working"} => Running(r) \/ IndexFree(r),
         pc \in {"inserted", "recording"} => ShareFree(r),
         pc \in {"locked", "working"} => LocksBatch(r) \/ LockFree(r),
         pc = "working" => run[r].seen = Len(journal)
  PROVE  JournalInv'
<1>1. /\ \A s \in Runs \ {r} : run'[s] = run[s]
      /\ run'[r].pc = pc
      /\ run'[r].seen = run[r].seen
      /\ run' \in [Runs -> RunRecord]
      /\ UNCHANGED <<journal, row, saved, inv, writer>>
  BY DEF RunMoves, JournalInv, TypeOK, RunRecord
<1>2. TypeOK' /\ SequenceIsCommitOrder'
  BY <1>1 DEF JournalInv, TypeOK, SequenceIsCommitOrder
<1>3. OneRunInFlight'
  BY <1>1 DEF JournalInv, OneRunInFlight, Running, IndexFree
<1>4. LockExclusive'
  BY <1>1, RequestsAssumption
  DEF JournalInv, LockExclusive, LocksBatch, Shares, ShareFree, LockFree
<1>5. SnapshotIsPast' /\ WorkingIsFresh'
  BY <1>1 DEF JournalInv, SnapshotIsPast, WorkingIsFresh
<1>. QED  BY <1>2, <1>3, <1>4, <1>5 DEF JournalInv

\* Appending a block of events with the next numbers, while no run but the one
\* that commits is at work.
LEMMA AppendInv ==
  ASSUME JournalInv, NEW block \in Seq(Event),
         \A k \in DOMAIN block : block[k].seq = Len(journal) + k,
         journal' = journal \o block
  PROVE  /\ journal' \in Seq(Event)
         /\ SequenceIsCommitOrder'
         /\ Len(journal') >= Len(journal)
<1>1. /\ journal \in Seq(Event)
      /\ \A i \in 1..Len(journal) : journal[i].seq = i
  BY DEF JournalInv, TypeOK, SequenceIsCommitOrder
<1>2. /\ journal' \in Seq(Event)
      /\ Len(journal') = Len(journal) + Len(block)
      /\ \A i \in 1..Len(journal') :
            journal'[i] = IF i <= Len(journal) THEN journal[i] ELSE block[i - Len(journal)]
  BY <1>1
<1>3. SequenceIsCommitOrder'
  <2>. SUFFICES ASSUME NEW i \in 1..Len(journal') PROVE journal'[i].seq = i
    BY <1>2 DEF SequenceIsCommitOrder
  <2>1. CASE i <= Len(journal)
    BY <1>1, <1>2, <2>1
  <2>2. CASE i > Len(journal)
    <3>1. i - Len(journal) \in DOMAIN block /\ i = Len(journal) + (i - Len(journal))
      BY <1>1, <1>2, <2>2
    <3>. QED  BY <1>1, <1>2, <2>2, <3>1
  <2>. QED  BY <1>1, <2>1, <2>2
<1>. QED  BY <1>1, <1>2, <1>3

\* An append by p, under its lock or with the batch row free for it.
LEMMA AppendLocksInv ==
  ASSUME JournalInv, NEW p \in Runs \cup Investigations \cup Writers,
         LockFree(p) \/ LocksBatch(p),
         \A s \in Runs \ {p} : run'[s] = run[s],
         p \in Runs => /\ run'[p].pc \in {"completed", "failed"}
                       /\ run'[p].seen = run[p].seen,
         \A i \in Investigations \ {p} : inv'[i] = inv[i],
         p \in Investigations => inv'[p] = "answered",
         Len(journal') \in Nat,
         Len(journal') >= Len(journal)
  PROVE  OneRunInFlight' /\ LockExclusive' /\ SnapshotIsPast' /\ WorkingIsFresh'
<1>1. OneRunInFlight'
  BY DEF JournalInv, OneRunInFlight, Running
<1>2. \A s \in Runs \ {p} : ~LocksBatch(s)
  BY DEF JournalInv, LockExclusive, LockFree, ShareFree, LocksBatch
<1>3. \A s \in Runs : ~LocksBatch(s)'
  BY <1>2 DEF LocksBatch
<1>4. LockExclusive' /\ WorkingIsFresh'
  BY <1>3 DEF LockExclusive, WorkingIsFresh, LocksBatch
<1>5. SnapshotIsPast'
  <2>1. \A s \in Runs : run'[s].seen = run[s].seen /\ run[s].seen \in Nat
    BY DEF JournalInv, TypeOK, RunRecord
  <2>2. Len(journal) \in Nat
    BY DEF JournalInv, TypeOK
  <2>. QED  BY <2>1, <2>2 DEF JournalInv, SnapshotIsPast
<1>. QED  BY <1>1, <1>4, <1>5

LEMMA RunCommitInv ==
  ASSUME JournalInv, NEW r \in Runs, RunCommit(r)
  PROVE  JournalInv'
<1>. DEFINE block == <<[seq |-> RunSeq(r, 1), type |-> "run_started", by |-> r],
                       [seq |-> RunSeq(r, 2), type |-> "result_persisted", by |-> r],
                       [seq |-> RunSeq(r, 3), type |-> "run_completed", by |-> r]>>
<1>1. /\ RunSeq(r, 1) = Len(journal) + 1
      /\ RunSeq(r, 2) = Len(journal) + 2
      /\ RunSeq(r, 3) = Len(journal) + 3
      /\ Len(journal) \in Nat
  BY DEF RunCommit, JournalInv, WorkingIsFresh, RunSeq, TypeOK
<1>2. block \in Seq(Event) /\ \A k \in DOMAIN block : block[k].seq = Len(journal) + k
  BY <1>1 DEF Event, EventTypes
<1>3. journal' = journal \o block
  BY DEF RunCommit
<1>4. /\ \A s \in Runs \ {r} : run'[s] = run[s]
      /\ run'[r].pc = "completed"
      /\ run'[r].seen = run[r].seen
      /\ run' \in [Runs -> RunRecord]
      /\ row' \in [Runs -> {"absent", "running", "completed", "failed"}]
      /\ UNCHANGED <<saved, inv, writer>>
      /\ LocksBatch(r)
  BY DEF RunCommit, JournalInv, TypeOK, RunRecord, RunStates, LocksBatch
<1>. HIDE DEF block
<1>5. /\ journal' \in Seq(Event)
      /\ SequenceIsCommitOrder'
      /\ Len(journal') >= Len(journal)
  BY <1>2, <1>3, AppendInv
<1>6. OneRunInFlight' /\ LockExclusive' /\ SnapshotIsPast' /\ WorkingIsFresh'
  BY <1>4, <1>5, RequestsAssumption, AppendLocksInv
<1>7. TypeOK'
  BY <1>4, <1>5 DEF JournalInv, TypeOK
<1>. QED  BY <1>5, <1>6, <1>7 DEF JournalInv

\* One event with the next number.
LEMMA NextEvent ==
  ASSUME JournalInv, NEW type \in EventTypes,
         NEW p \in Runs \cup Investigations \cup Writers,
         journal' = Append(journal, [seq |-> LastSeq + 1, type |-> type, by |-> p])
  PROVE  /\ journal' \in Seq(Event)
         /\ SequenceIsCommitOrder'
         /\ Len(journal') >= Len(journal)
<1>. DEFINE e == [seq |-> LastSeq + 1, type |-> type, by |-> p]
<1>1. e \in Event /\ e.seq = Len(journal) + 1 /\ Len(journal) \in Nat
  BY LastSeqIsLength DEF JournalInv, Event
<1>2. journal' = journal \o <<e>>
  BY DEF JournalInv, TypeOK
<1>. HIDE DEF e
<1>3. <<e>> \in Seq(Event) /\ \A k \in DOMAIN <<e>> : <<e>>[k].seq = Len(journal) + k
  BY <1>1
<1>. QED  BY <1>2, <1>3, AppendInv

LEMMA RecordCommitInv ==
  ASSUME JournalInv, NEW r \in Runs, RecordCommit(r)
  PROVE  JournalInv'
<1>1. /\ \A s \in Runs \ {r} : run'[s] = run[s]
      /\ run'[r].pc = "failed"
      /\ run'[r].seen = run[r].seen
      /\ run' \in [Runs -> RunRecord]
      /\ row' \in [Runs -> {"absent", "running", "completed", "failed"}]
      /\ UNCHANGED <<saved, inv, writer>>
      /\ LockFree(r)
  BY DEF RecordCommit, JournalInv, TypeOK, RunRecord, RunStates
<1>2. journal' = Append(journal, [seq |-> LastSeq + 1, type |-> "run_failed", by |-> r])
  BY DEF RecordCommit, FailureEvents, JournalInv, TypeOK
<1>3. /\ journal' \in Seq(Event)
      /\ SequenceIsCommitOrder'
      /\ Len(journal') >= Len(journal)
  BY <1>2, NextEvent DEF EventTypes
<1>4. OneRunInFlight' /\ LockExclusive' /\ SnapshotIsPast' /\ WorkingIsFresh'
  BY <1>1, <1>3, RequestsAssumption, AppendLocksInv
<1>5. TypeOK'
  BY <1>1, <1>3 DEF JournalInv, TypeOK
<1>. QED  BY <1>3, <1>4, <1>5 DEF JournalInv

LEMMA InvestigateCommitInv ==
  ASSUME JournalInv, NEW i \in Investigations, InvestigateCommit(i)
  PROVE  JournalInv'
<1>1. /\ UNCHANGED <<row, run, writer>>
      /\ \A j \in Investigations \ {i} : inv'[j] = inv[j]
      /\ inv'[i] = "answered"
      /\ inv' \in [Investigations -> {"idle", "saved", "answered", "died"}]
      /\ saved' \subseteq Investigations
      /\ LockFree(i)
      /\ i \notin Runs
  BY RequestsAssumption DEF InvestigateCommit, JournalInv, TypeOK
<1>2. /\ journal' \in Seq(Event)
      /\ SequenceIsCommitOrder'
      /\ Len(journal') >= Len(journal)
  BY NextEvent DEF InvestigateCommit, EventTypes
<1>3. OneRunInFlight' /\ LockExclusive' /\ SnapshotIsPast' /\ WorkingIsFresh'
  BY <1>1, <1>2, AppendLocksInv
<1>4. TypeOK'
  BY <1>1, <1>2 DEF JournalInv, TypeOK
<1>. QED  BY <1>2, <1>3, <1>4 DEF JournalInv

LEMMA WriteInv ==
  ASSUME JournalInv, NEW w \in Writers, Write(w)
  PROVE  JournalInv'
<1>1. /\ UNCHANGED <<row, saved, run, inv>>
      /\ writer' \in [Writers -> {"idle", "answered"}]
      /\ LockFree(w)
      /\ w \notin Runs \cup Investigations
  BY RequestsAssumption DEF Write, JournalInv, TypeOK
<1>2. /\ journal' \in Seq(Event)
      /\ SequenceIsCommitOrder'
      /\ Len(journal') >= Len(journal)
  BY NextEvent DEF Write, EventTypes
<1>3. OneRunInFlight' /\ LockExclusive' /\ SnapshotIsPast' /\ WorkingIsFresh'
  BY <1>1, <1>2, AppendLocksInv
<1>4. TypeOK'
  BY <1>1, <1>2 DEF JournalInv, TypeOK
<1>. QED  BY <1>2, <1>3, <1>4 DEF JournalInv

\* Every move of a run meets the conditions of RunMovesInv.
LEMMA RunStepInv ==
  ASSUME JournalInv, NEW r \in Runs, RunStep(r) \/ RunFault(r)
  PROVE  JournalInv'
<1>. USE DEF RunStates
<1>1. CASE RunBegin(r)
  <2>1. /\ \A s \in Runs \ {r} : run'[s] = run[s]
        /\ run'[r].pc = "began"
        /\ run'[r].seen = LastSeq
        /\ UNCHANGED <<journal, row, saved, inv, writer>>
    BY <1>1 DEF RunBegin, JournalInv, TypeOK
  <2>2. LastSeq = Len(journal) /\ Len(journal) \in Nat
    BY LastSeqIsLength DEF JournalInv
  <2>3. TypeOK'
    BY <1>1, <2>2 DEF RunBegin, JournalInv, TypeOK, RunRecord
  <2>. QED
    BY <2>1, <2>2, <2>3 DEF JournalInv, SequenceIsCommitOrder, OneRunInFlight, Running,
       LockExclusive, LocksBatch, Shares, SnapshotIsPast, WorkingIsFresh
<1>2. CASE RunFlush(r)
  <2>1. ~Taken(RunSeq(r, 1)) => run[r].seen = Len(journal)
    <3>1. /\ run[r].seen \in Nat
          /\ Len(journal) \in Nat
          /\ run[r].seen <= Len(journal)
          /\ DOMAIN journal = 1..Len(journal)
      BY DEF JournalInv, TypeOK, RunRecord, SnapshotIsPast
    <3>2. CASE run[r].seen < Len(journal)
      <4>1. run[r].seen + 1 \in DOMAIN journal
        BY <3>1, <3>2
      <4>2. journal[run[r].seen + 1].seq = run[r].seen + 1
        BY <4>1 DEF JournalInv, SequenceIsCommitOrder
      <4>. QED  BY <4>1, <4>2 DEF Taken, RunSeq
    <3>. QED  BY <3>1, <3>2
  <2>. QED  BY <1>2, <2>1, RunMovesInv DEF RunFlush, Running, LocksBatch
<1>3. CASE RunCheck(r)
  BY <1>3, RunMovesInv DEF RunCheck
<1>4. CASE RunIndex(r)
  BY <1>4, RunMovesInv DEF RunIndex
<1>5. CASE RunInsert(r)
  BY <1>5, RunMovesInv DEF RunInsert, Running
<1>6. CASE RunLock(r)
  BY <1>6, RunMovesInv DEF RunLock, Running
<1>7. CASE RunDeadlock(r) \/ RunRaise(r)
  BY <1>7, RunMovesInv DEF RunDeadlock, RunRaise
<1>8. CASE RunDie(r) \/ RecordDeadlock(r)
  BY <1>8, RunMovesInv DEF RunDie, RecordDeadlock
<1>9. CASE RecordInsert(r)
  BY <1>9, RunMovesInv DEF RecordInsert
<1>. QED
  BY <1>1, <1>2, <1>3, <1>4, <1>5, <1>6, <1>7, <1>8, <1>9, RunCommitInv, RecordCommitInv
  DEF RunStep, RunFault

\* An investigation changes state without an append.
LEMMA InvestigationMoveInv ==
  ASSUME JournalInv, NEW i \in Investigations,
         Investigate(i) \/ InvestigateDeadlock(i) \/ InvestigateDie(i)
  PROVE  JournalInv'
<1>1. /\ UNCHANGED <<journal, row, saved, run, writer>>
      /\ \A j \in Investigations \ {i} : inv'[j] = inv[j]
      /\ inv' \in [Investigations -> {"idle", "saved", "answered", "died"}]
      /\ inv'[i] = "saved" => ShareFree(i)
  BY DEF Investigate, InvestigateDeadlock, InvestigateDie, JournalInv, TypeOK
<1>2. TypeOK'
  BY <1>1 DEF JournalInv, TypeOK
<1>3. LockExclusive'
  BY <1>1, RequestsAssumption DEF JournalInv, LockExclusive, LocksBatch, Shares, ShareFree
<1>. QED
  BY <1>1, <1>2, <1>3 DEF JournalInv, SequenceIsCommitOrder, OneRunInFlight, Running,
     SnapshotIsPast, WorkingIsFresh

LEMMA NextJournalInv == JournalInv /\ [Next]_vars => JournalInv'
<1>. SUFFICES ASSUME JournalInv, [Next]_vars PROVE JournalInv'
  OBVIOUS
<1>1. CASE UNCHANGED vars
  BY <1>1 DEF vars, JournalInv, TypeOK, SequenceIsCommitOrder, OneRunInFlight, Running,
     LockExclusive, LocksBatch, Shares, SnapshotIsPast, WorkingIsFresh
<1>. QED
  BY <1>1, RunStepInv, InvestigationMoveInv, InvestigateCommitInv, WriteInv
  DEF Next, InvestigationStep

LEMMA JournalInvHolds == Spec => []JournalInv
BY InitJournalInv, NextJournalInv, PTL DEF Spec

\* Every reachable state of the journal and its writers is well-typed.
THEOREM TypeCorrect == Spec => []TypeOK
<1>1. JournalInv => TypeOK
  BY DEF JournalInv
<1>. QED  BY <1>1, JournalInvHolds, PTL

\* The audit events of a batch are numbered 1, 2, 3 ... in commit order.
THEOREM SequenceCorrect == Spec => []SequenceIsCommitOrder
<1>1. JournalInv => SequenceIsCommitOrder
  BY DEF JournalInv
<1>. QED  BY <1>1, JournalInvHolds, PTL

(***************************************************************************)
(* Serial runs.                                                            *)
(***************************************************************************)
StartedRunsCompleted ==
    \A i \in DOMAIN journal : journal[i].type = "run_started" =>
        journal[i].by \in Runs /\ run[journal[i].by].pc = "completed"

SerialInv == StartedRunsCompleted /\ CompletedRunsAreSerial

\* A step that journals no run_started and disturbs no completed run
LEMMA KeepSerialInv ==
  ASSUME JournalInv, SerialInv,
         Len(journal') \in Nat, DOMAIN journal' = 1..Len(journal'),
         \A i \in DOMAIN journal' : journal'[i].type = "run_started" =>
             i \in DOMAIN journal /\ journal'[i] = journal[i],
         \A r \in Runs : run[r].pc = "completed" => run'[r] = run[r]
  PROVE  SerialInv'
BY DEF SerialInv, StartedRunsCompleted, CompletedRunsAreSerial

LEMMA CommitSerialInv ==
  ASSUME JournalInv, SerialInv, NEW r \in Runs, RunCommit(r)
  PROVE  SerialInv'
<1>. DEFINE block == <<[seq |-> RunSeq(r, 1), type |-> "run_started", by |-> r],
                       [seq |-> RunSeq(r, 2), type |-> "result_persisted", by |-> r],
                       [seq |-> RunSeq(r, 3), type |-> "run_completed", by |-> r]>>
            n == Len(journal)
<1>1. /\ run[r].seen = n
      /\ n \in Nat
      /\ DOMAIN journal = 1..n
      /\ run[r].pc = "working"
      /\ \A s \in Runs \ {r} : run'[s] = run[s]
      /\ run'[r].pc = "completed"
      /\ run'[r].seen = run[r].seen
  BY DEF RunCommit, JournalInv, WorkingIsFresh, TypeOK, RunRecord
<1>2. /\ DOMAIN journal' = 1..(n + 3)
      /\ \A i \in 1..n : journal'[i] = journal[i]
      /\ journal'[n + 1] = block[1]
      /\ journal'[n + 2] = block[2]
      /\ journal'[n + 3] = block[3]
  <2>1. journal' = journal \o block /\ Len(block) = 3
    BY DEF RunCommit
  <2>2. journal \in Seq(Event) /\ block \in Seq(Event)
    <3>1. RunSeq(r, 1) \in Nat /\ RunSeq(r, 2) \in Nat /\ RunSeq(r, 3) \in Nat
      BY <1>1 DEF RunSeq
    <3>. QED  BY <3>1 DEF JournalInv, TypeOK, Event, EventTypes
  <2>. HIDE DEF block
  <2>3. /\ Len(journal') = Len(journal) + Len(block)
        /\ \A i \in 1..Len(journal') :
              journal'[i] = IF i <= Len(journal) THEN journal[i] ELSE block[i - Len(journal)]
    <3>1. /\ \A i \in 1..(Len(journal) + Len(block)) :
                (journal \o block)[i] = IF i <= Len(journal) THEN journal[i]
                                       ELSE block[i - Len(journal)]
          /\ Len(journal \o block) = Len(journal) + Len(block)
      BY <2>2
    <3>. QED  BY <2>1, <3>1
  <2>4. Len(journal') = n + 3
    BY <2>1, <2>3 DEF n
  <2>5. \A i \in 1..(n + 3) : journal'[i] = IF i <= n THEN journal[i] ELSE block[i - n]
    BY <2>3, <2>4 DEF n
  <2>6. journal' \in Seq(Event)
    BY RunCommitInv DEF JournalInv, TypeOK
  <2>7. DOMAIN journal' = 1..(n + 3)
    BY <2>4, <2>6
  <2>. HIDE DEF n
  <2>8. journal'[n + 1] = block[1] /\ journal'[n + 2] = block[2] /\ journal'[n + 3] = block[3]
    <3>1. /\ n + 1 \in 1..(n + 3) /\ ~(n + 1 <= n) /\ (n + 1) - n = 1
          /\ n + 2 \in 1..(n + 3) /\ ~(n + 2 <= n) /\ (n + 2) - n = 2
          /\ n + 3 \in 1..(n + 3) /\ ~(n + 3 <= n) /\ (n + 3) - n = 3
      BY <1>1
    <3>. QED  BY <2>5, <3>1
  <2>. QED  BY <1>1, <2>5, <2>7, <2>8
<1>3. block[1].by = r /\ block[2].type # "run_started" /\ block[3].type # "run_started"
  OBVIOUS
<1>. HIDE DEF block, n
<1>4. ASSUME NEW i \in DOMAIN journal', journal'[i].type = "run_started"
      PROVE  /\ journal'[i].by \in Runs
             /\ run'[journal'[i].by].pc = "completed"
             /\ run'[journal'[i].by].seen = i - 1
  <2>1. CASE i \in 1..n
    BY <1>1, <1>2, <1>4, <2>1 DEF SerialInv, StartedRunsCompleted, CompletedRunsAreSerial
  <2>2. CASE i = n + 1
    BY <1>1, <1>2, <1>3, <2>2
  <2>3. CASE i = n + 2 \/ i = n + 3
    BY <1>2, <1>3, <1>4, <2>3
  <2>. QED  BY <1>1, <1>2, <2>1, <2>2, <2>3
<1>. QED  BY <1>4 DEF SerialInv, StartedRunsCompleted, CompletedRunsAreSerial

\* A single event of another type
LEMMA OtherEventSerialInv ==
  ASSUME JournalInv, SerialInv,
         NEW type \in EventTypes \ {"run_started"},
         NEW p \in Runs \cup Investigations \cup Writers,
         journal' = Append(journal, [seq |-> LastSeq + 1, type |-> type, by |-> p]),
         \A r \in Runs : run[r].pc = "completed" => run'[r] = run[r]
  PROVE  SerialInv'
<1>. DEFINE e == [seq |-> LastSeq + 1, type |-> type, by |-> p]
<1>1. e.type # "run_started" /\ journal \in Seq(Event) /\ journal' = Append(journal, e)
  BY DEF JournalInv, TypeOK
<1>2. journal' \in Seq(Event)
  BY NextEvent
<1>. HIDE DEF e
<1>3. /\ Len(journal') \in Nat
      /\ DOMAIN journal' = 1..Len(journal')
      /\ \A i \in DOMAIN journal' : i \notin DOMAIN journal => journal'[i] = e
      /\ \A i \in DOMAIN journal : i \in DOMAIN journal' /\ journal'[i] = journal[i]
  BY <1>1, <1>2
<1>. QED  BY <1>1, <1>3, KeepSerialInv

\* A step that journals nothing
LEMMA QuietSerialInv ==
  ASSUME JournalInv, SerialInv, UNCHANGED journal,
         \A r \in Runs : run[r].pc = "completed" => run'[r] = run[r]
  PROVE  SerialInv'
<1>1. Len(journal) \in Nat /\ DOMAIN journal = 1..Len(journal)
  BY DEF JournalInv, TypeOK
<1>. QED  BY <1>1, KeepSerialInv

LEMMA RunStepSerialInv ==
  ASSUME JournalInv, SerialInv, NEW r \in Runs, RunStep(r) \/ RunFault(r)
  PROVE  SerialInv'
<1>1. CASE RunCommit(r)
  BY <1>1, CommitSerialInv
<1>2. CASE RecordCommit(r)
  <2>1. \A s \in Runs : run[s].pc = "completed" => run'[s] = run[s]
    BY <1>2 DEF RecordCommit, JournalInv, TypeOK
  <2>2. journal' = Append(journal, [seq |-> LastSeq + 1, type |-> "run_failed", by |-> r])
    BY <1>2 DEF RecordCommit, FailureEvents, JournalInv, TypeOK
  <2>. QED  BY <2>1, <2>2, OtherEventSerialInv DEF EventTypes
<1>3. CASE ~RunCommit(r) /\ ~RecordCommit(r)
  <2>1. /\ UNCHANGED journal
        /\ \A s \in Runs \ {r} : run'[s] = run[s]
        /\ run[r].pc # "completed"
    BY <1>3 DEF RunStep, RunFault, RunCheck, RunBegin, RunIndex, RunInsert, RunLock, RunFlush,
       RunDeadlock, RecordInsert, RecordDeadlock, RunRaise, RunDie, RunMoves, JournalInv, TypeOK
  <2>. QED  BY <2>1, QuietSerialInv
<1>. QED  BY <1>1, <1>2, <1>3

LEMMA NextSerialInv == JournalInv /\ SerialInv /\ [Next]_vars => SerialInv'
<1>. SUFFICES ASSUME JournalInv, SerialInv, [Next]_vars PROVE SerialInv'
  OBVIOUS
<1>1. CASE UNCHANGED vars
  BY <1>1, QuietSerialInv DEF vars
<1>2. ASSUME NEW i \in Investigations,
             Investigate(i) \/ InvestigationStep(i) \/ InvestigateDie(i)
      PROVE  SerialInv'
  <2>1. CASE InvestigateCommit(i)
    BY <2>1, OtherEventSerialInv DEF InvestigateCommit, EventTypes
  <2>. QED
    BY <1>2, <2>1, QuietSerialInv
    DEF InvestigationStep, Investigate, InvestigateDeadlock, InvestigateDie
<1>3. ASSUME NEW w \in Writers, Write(w) PROVE SerialInv'
  BY <1>3, OtherEventSerialInv DEF Write, EventTypes
<1>. QED  BY <1>1, <1>2, <1>3, RunStepSerialInv DEF Next

LEMMA InitSerialInv == Init => SerialInv
<1>. SUFFICES ASSUME Init PROVE SerialInv
  OBVIOUS
<1>1. DOMAIN journal = {1} /\ journal[1].type = "opened"
  BY DEF Init
<1>. QED  BY <1>1 DEF SerialInv, StartedRunsCompleted, CompletedRunsAreSerial

\* A completed run reconciled the batch as it was when its first event was
\* journaled: its snapshot, its events and its commit are one serial step.
THEOREM SerialRuns == Spec => []CompletedRunsAreSerial
<1>1. SerialInv => CompletedRunsAreSerial
  BY DEF SerialInv
<1>2. JournalInv /\ SerialInv /\ [Next]_vars => JournalInv' /\ SerialInv'
  BY NextJournalInv, NextSerialInv
<1>3. Spec => []SerialInv
  BY <1>2, InitJournalInv, InitSerialInv, PTL DEF Spec
<1>. QED  BY <1>1, <1>3, PTL

(***************************************************************************)
(* What the journal tells of each request.                                 *)
(***************************************************************************)
\* The journal tells the end of a run, as its row has it.
ToldOfRun(r) ==
    \/ row[r] = "absent" /\ EventsBy(r) = {}
    \/ /\ row[r] = "failed"
       /\ \E i \in DOMAIN journal :
             EventsBy(r) = {i} /\ journal[i].type = "run_failed"
    \/ /\ row[r] = "completed"
       /\ \E i \in DOMAIN journal :
             /\ EventsBy(r) = {i, i + 1, i + 2}
             /\ journal[i].type = "run_started"
             /\ journal[i + 1].type = "result_persisted"
             /\ journal[i + 2].type = "run_completed"

\* A run has a row, and an investigation a record, only once it has ended.
RowsAreLast ==
    /\ \A r \in Runs : run[r].pc \notin {"completed", "failed"} => row[r] = "absent"
    /\ \A i \in Investigations : inv[i] # "answered" => i \notin saved

StoryInv ==
    /\ \A r \in Runs : ToldOfRun(r)
    /\ \A i \in Investigations : i \in saved <=> EventsBy(i) # {}
    /\ RowsAreLast

LEMMA StoryMatchesRows == StoryInv => JournalMatchesRows
BY DEF StoryInv, JournalMatchesRows, ToldOfRun

\* A block of events by p is added to its own, and moves nobody else's.
LEMMA AppendStory ==
  ASSUME journal \in Seq(Event), NEW block \in Seq(Event), NEW p,
         \A k \in DOMAIN block : block[k].by = p,
         journal' = journal \o block
  PROVE  /\ Len(journal) \in Nat /\ Len(block) \in Nat
         /\ DOMAIN journal = 1 .. Len(journal)
         /\ DOMAIN journal' = 1 .. (Len(journal) + Len(block))
         /\ \A i \in DOMAIN journal : i \in DOMAIN journal' /\ journal'[i] = journal[i]
         /\ \A k \in DOMAIN block : journal'[Len(journal) + k] = block[k]
         /\ EventsBy(p)' = EventsBy(p) \cup ((Len(journal) + 1) .. (Len(journal) + Len(block)))
         /\ \A i \in DOMAIN journal' \ DOMAIN journal : journal'[i].by = p
<1>. DEFINE n == Len(journal)
            m == Len(block)
<1>1. /\ n \in Nat /\ m \in Nat
      /\ DOMAIN journal = 1 .. n
      /\ DOMAIN block = 1 .. m
  OBVIOUS
<1>2. /\ DOMAIN journal' = 1 .. (n + m)
      /\ \A i \in 1 .. (n + m) :
            journal'[i] = IF i <= n THEN journal[i] ELSE block[i - n]
  OBVIOUS
<1>. HIDE DEF n, m
<1>3. \A i \in DOMAIN journal : i \in DOMAIN journal' /\ journal'[i] = journal[i]
  BY <1>1, <1>2
<1>4. \A k \in DOMAIN block : n + k \in DOMAIN journal' /\ journal'[n + k] = block[k]
  <2>. SUFFICES ASSUME NEW k \in 1 .. m PROVE n + k \in 1 .. (n + m) /\ journal'[n + k] = block[k]
    BY <1>1, <1>2
  <2>1. n + k \in 1 .. (n + m) /\ ~(n + k <= n) /\ (n + k) - n = k
    BY <1>1
  <2>. QED  BY <1>2, <2>1
<1>5. ASSUME NEW i \in DOMAIN journal', i \notin DOMAIN journal
      PROVE  i \in (n + 1) .. (n + m) /\ journal'[i].by = p
  <2>1. i \in (n + 1) .. (n + m) /\ i - n \in 1 .. m /\ ~(i <= n)
    BY <1>1, <1>2, <1>5
  <2>. QED  BY <1>1, <1>2, <2>1
<1>6. ASSUME NEW i \in (n + 1) .. (n + m)
      PROVE  i \in DOMAIN journal' /\ journal'[i].by = p
  <2>1. i \in DOMAIN journal' /\ i \notin DOMAIN journal
    BY <1>1, <1>2, <1>6
  <2>. QED  BY <1>5, <2>1
<1>7. EventsBy(p)' = EventsBy(p) \cup ((n + 1) .. (n + m))
  BY <1>3, <1>5, <1>6 DEF EventsBy
<1>. QED  BY <1>1, <1>2, <1>3, <1>4, <1>5, <1>7 DEF n, m

LEMMA OthersEvents ==
  ASSUME journal \in Seq(Event), NEW block \in Seq(Event), NEW p,
         \A k \in DOMAIN block : block[k].by = p,
         journal' = journal \o block,
         NEW q, q # p
  PROVE  EventsBy(q)' = EventsBy(q)
<1>1. /\ \A i \in DOMAIN journal : i \in DOMAIN journal' /\ journal'[i] = journal[i]
      /\ \A i \in DOMAIN journal' \ DOMAIN journal : journal'[i].by = p
  BY AppendStory
<1>. QED  BY <1>1 DEF EventsBy

\* Who has no new event, nor another row, is told of as before.
LEMMA KeepTold ==
  ASSUME NEW r \in Runs, ToldOfRun(r),
         row'[r] = row[r], EventsBy(r)' = EventsBy(r),
         \A i \in DOMAIN journal : i \in DOMAIN journal' /\ journal'[i] = journal[i]
  PROVE  ToldOfRun(r)'
<1>1. EventsBy(r) \subseteq DOMAIN journal
  BY DEF EventsBy
<1>2. CASE row[r] = "absent"
  BY <1>2 DEF ToldOfRun
<1>3. CASE row[r] = "failed"
  BY <1>3 DEF ToldOfRun
<1>4. CASE row[r] = "completed"
  <2>1. PICK i \in DOMAIN journal : /\ EventsBy(r) = {i, i + 1, i + 2}
                                    /\ journal[i].type = "run_started"
                                    /\ journal[i + 1].type = "result_persisted"
                                    /\ journal[i + 2].type = "run_completed"
    BY <1>4 DEF ToldOfRun
  <2>2. i + 1 \in DOMAIN journal /\ i + 2 \in DOMAIN journal
    BY <1>1, <2>1
  <2>. QED  BY <1>4, <2>1, <2>2 DEF ToldOfRun
<1>. QED  BY <1>2, <1>3, <1>4 DEF ToldOfRun

\* A request tells its story at its end.
LEMMA TellStoryInv ==
  ASSUME JournalInv, StoryInv, NEW p \in Runs \cup Investigations \cup Writers,
         NEW block \in Seq(Event), \A k \in DOMAIN block : block[k].by = p,
         journal' = journal \o block,
         \A r \in Runs \ {p} : row'[r] = row[r] /\ run'[r] = run[r],
         \A i \in Investigations \ {p} : inv'[i] = inv[i] /\ (i \in saved' <=> i \in saved),
         p \in Runs => ToldOfRun(p)' /\ run'[p].pc \in {"completed", "failed"},
         p \in Investigations => p \in saved' /\ inv'[p] = "answered" /\ Len(block) > 0
  PROVE  StoryInv'
<1>1. journal \in Seq(Event)
  BY DEF JournalInv, TypeOK
<1>2. /\ \A i \in DOMAIN journal : i \in DOMAIN journal' /\ journal'[i] = journal[i]
      /\ EventsBy(p)' = EventsBy(p) \cup ((Len(journal) + 1) .. (Len(journal) + Len(block)))
      /\ Len(journal) \in Nat /\ Len(block) \in Nat
  BY <1>1, AppendStory
<1>6. ASSUME NEW q, q # p PROVE EventsBy(q)' = EventsBy(q)
  BY <1>1, <1>6, OthersEvents
<1>3. ASSUME NEW r \in Runs PROVE ToldOfRun(r)'
  BY <1>2, <1>6, KeepTold DEF StoryInv
<1>4. ASSUME NEW i \in Investigations PROVE i \in saved' <=> EventsBy(i)' # {}
  <2>1. CASE i = p
    <3>1. Len(journal) + 1 \in (Len(journal) + 1) .. (Len(journal) + Len(block))
      BY <1>2, <2>1
    <3>. QED  BY <1>2, <2>1, <3>1
  <2>2. CASE i # p
    BY <1>6, <2>2 DEF StoryInv
  <2>. QED  BY <2>1, <2>2
<1>5. RowsAreLast'
  BY DEF StoryInv, RowsAreLast
<1>. QED  BY <1>3, <1>4, <1>5 DEF StoryInv

\* A step that commits nothing, and undoes no end.
LEMMA QuietStoryInv ==
  ASSUME StoryInv, UNCHANGED <<journal, row, saved>>,
         \A r \in Runs : run'[r] = run[r] \/ run[r].pc \notin {"completed", "failed"},
         \A i \in Investigations : inv'[i] = inv[i] \/ inv[i] # "answered"
  PROVE  StoryInv'
BY DEF StoryInv, RowsAreLast, ToldOfRun, EventsBy

LEMMA CommitStoryInv ==
  ASSUME JournalInv, StoryInv, NEW r \in Runs, RunCommit(r)
  PROVE  StoryInv'
<1>. DEFINE block == <<[seq |-> RunSeq(r, 1), type |-> "run_started", by |-> r],
                       [seq |-> RunSeq(r, 2), type |-> "result_persisted", by |-> r],
                       [seq |-> RunSeq(r, 3), type |-> "run_completed", by |-> r]>>
            n == Len(journal)
<1>1. /\ run[r].pc = "working"
      /\ RunSeq(r, 1) \in Nat /\ RunSeq(r, 2) \in Nat /\ RunSeq(r, 3) \in Nat
      /\ \A s \in Runs \ {r} : row'[s] = row[s] /\ run'[s] = run[s]
      /\ row'[r] = "completed"
      /\ run'[r].pc = "completed"
      /\ UNCHANGED <<saved, inv>>
      /\ r \notin Investigations
  BY RequestsAssumption DEF RunCommit, RunSeq, JournalInv, TypeOK, RunRecord
<1>2. /\ block \in Seq(Event)
      /\ DOMAIN block = {1, 2, 3}
      /\ Len(block) = 3
      /\ \A k \in DOMAIN block : block[k].by = r
      /\ block[1].type = "run_started"
      /\ block[2].type = "result_persisted"
      /\ block[3].type = "run_completed"
  BY <1>1 DEF Event, EventTypes
<1>3. journal' = journal \o block /\ journal \in Seq(Event)
  BY DEF RunCommit, JournalInv, TypeOK
<1>4. EventsBy(r) = {}
  BY <1>1 DEF StoryInv, RowsAreLast, ToldOfRun
<1>. HIDE DEF block
<1>5. /\ n \in Nat
      /\ DOMAIN journal' = 1 .. (n + 3)
      /\ journal'[n + 1].type = "run_started"
      /\ journal'[n + 2].type = "result_persisted"
      /\ journal'[n + 3].type = "run_completed"
      /\ EventsBy(r)' = (n + 1) .. (n + 3)
  <2>1. /\ n \in Nat
        /\ DOMAIN journal' = 1 .. (n + Len(block))
        /\ \A k \in DOMAIN block : journal'[n + k] = block[k]
        /\ EventsBy(r)' = EventsBy(r) \cup ((n + 1) .. (n + Len(block)))
    BY <1>2, <1>3, AppendStory
  <2>. HIDE DEF n
  <2>. QED  BY <1>2, <1>4, <2>1
<1>. HIDE DEF n
<1>6. ToldOfRun(r)'
  <2>1. /\ n + 1 \in DOMAIN journal'
        /\ (n + 1) .. (n + 3) = {n + 1, (n + 1) + 1, (n + 1) + 2}
        /\ (n + 1) + 1 = n + 2 /\ (n + 1) + 2 = n + 3
    BY <1>5
  <2>. QED  BY <1>1, <1>5, <2>1 DEF ToldOfRun
<1>. QED  BY <1>1, <1>2, <1>3, <1>6, TellStoryInv

\* The block of one event.
LEMMA EventBlock ==
  ASSUME JournalInv, NEW type \in EventTypes,
         NEW p \in Runs \cup Investigations \cup Writers,
         journal' = Append(journal, [seq |-> LastSeq + 1, type |-> type, by |-> p])
  PROVE  \E block \in Seq(Event) :
           /\ Len(block) = 1
           /\ DOMAIN block = {1}
           /\ block[1].by = p
           /\ block[1].type = type
           /\ journal' = journal \o block
<1>. DEFINE e == [seq |-> LastSeq + 1, type |-> type, by |-> p]
<1>1. e \in Event /\ e.by = p /\ e.type = type
  BY LastSeqIsLength DEF JournalInv, Event
<1>2. journal \in Seq(Event) /\ journal' = Append(journal, e)
  BY DEF JournalInv, TypeOK
<1>. HIDE DEF e
<1>3. journal' = journal \o <<e>> /\ <<e>> \in Seq(Event)
  BY <1>1, <1>2
<1>4. Len(<<e>>) = 1 /\ DOMAIN <<e>> = {1} /\ <<e>>[1] = e
  OBVIOUS
<1>. QED  BY <1>1, <1>3, <1>4

LEMMA RecordStoryInv ==
  ASSUME JournalInv, StoryInv, NEW r \in Runs, RecordCommit(r)
  PROVE  StoryInv'
<1>1. /\ run[r].pc = "recording"
      /\ \A s \in Runs \ {r} : row'[s] = row[s] /\ run'[s] = run[s]
      /\ row'[r] = "failed"
      /\ run'[r].pc = "failed"
      /\ UNCHANGED <<saved, inv>>
      /\ r \notin Investigations
  BY RequestsAssumption DEF RecordCommit, JournalInv, TypeOK, RunRecord
<1>2. journal' = Append(journal, [seq |-> LastSeq + 1, type |-> "run_failed", by |-> r])
  BY DEF RecordCommit, FailureEvents, JournalInv, TypeOK
<1>3. PICK block \in Seq(Event) :
        /\ Len(block) = 1
        /\ DOMAIN block = {1}
        /\ block[1].by = r
        /\ block[1].type = "run_failed"
        /\ journal' = journal \o block
  BY <1>2, EventBlock DEF EventTypes
<1>4. EventsBy(r) = {}
  BY <1>1 DEF StoryInv, RowsAreLast, ToldOfRun
<1>5. /\ Len(journal) \in Nat
      /\ DOMAIN journal' = 1 .. (Len(journal) + 1)
      /\ journal'[Len(journal) + 1].type = "run_failed"
      /\ EventsBy(r)' = (Len(journal) + 1) .. (Len(journal) + 1)
  <2>1. journal \in Seq(Event) /\ \A k \in DOMAIN block : block[k].by = r
    BY <1>3 DEF JournalInv, TypeOK
  <2>2. /\ Len(journal) \in Nat
        /\ DOMAIN journal' = 1 .. (Len(journal) + Len(block))
        /\ \A k \in DOMAIN block : journal'[Len(journal) + k] = block[k]
        /\ EventsBy(r)' = EventsBy(r) \cup ((Len(journal) + 1) .. (Len(journal) + Len(block)))
    BY <1>3, <2>1, AppendStory
  <2>. QED  BY <1>3, <1>4, <2>2
<1>6. ToldOfRun(r)'
  <2>1. /\ (Len(journal) + 1) .. (Len(journal) + 1) = {Len(journal) + 1}
        /\ Len(journal) + 1 \in DOMAIN journal'
    BY <1>5
  <2>. QED  BY <1>1, <1>5, <2>1 DEF ToldOfRun
<1>. QED  BY <1>1, <1>3, <1>6, TellStoryInv

LEMMA InvestigateStoryInv ==
  ASSUME JournalInv, StoryInv, NEW i \in Investigations, InvestigateCommit(i)
  PROVE  StoryInv'
<1>1. /\ UNCHANGED <<row, run>>
      /\ \A j \in Investigations \ {i} : inv'[j] = inv[j] /\ (j \in saved' <=> j \in saved)
      /\ i \in saved' /\ inv'[i] = "answered"
      /\ i \notin Runs
  BY RequestsAssumption DEF InvestigateCommit, JournalInv, TypeOK
<1>2. PICK block \in Seq(Event) :
        /\ Len(block) = 1
        /\ DOMAIN block = {1}
        /\ block[1].by = i
        /\ journal' = journal \o block
  BY EventBlock DEF InvestigateCommit, EventTypes
<1>3. Len(block) > 0 /\ \A k \in DOMAIN block : block[k].by = i
  BY <1>2
<1>. QED  BY <1>1, <1>2, <1>3, TellStoryInv

LEMMA WriteStoryInv ==
  ASSUME JournalInv, StoryInv, NEW w \in Writers,
         journal' = Append(journal, [seq |-> LastSeq + 1, type |-> "other", by |-> w]),
         UNCHANGED <<row, saved, run, inv>>
  PROVE  StoryInv'
<1>1. w \notin Runs \cup Investigations
  BY RequestsAssumption
<1>2. PICK block \in Seq(Event) :
        /\ Len(block) = 1
        /\ DOMAIN block = {1}
        /\ block[1].by = w
        /\ journal' = journal \o block
  BY EventBlock DEF EventTypes
<1>. QED  BY <1>1, <1>2, TellStoryInv

\* A run that moves has not ended.
LEMMA RunMoveIsQuiet ==
  ASSUME JournalInv, StoryInv, NEW r \in Runs, NEW pc, RunMoves(r, pc),
         run[r].pc \notin {"completed", "failed"}
  PROVE  StoryInv'
BY QuietStoryInv DEF RunMoves, JournalInv, TypeOK

LEMMA RunStepStoryInv ==
  ASSUME JournalInv, StoryInv, NEW r \in Runs, RunStep(r) \/ RunFault(r)
  PROVE  StoryInv'
<1>1. CASE RunBegin(r)
  BY <1>1, QuietStoryInv DEF RunBegin, JournalInv, TypeOK
<1>2. CASE \E pc : RunMoves(r, pc) /\ run[r].pc \notin {"completed", "failed"}
  BY <1>2, RunMoveIsQuiet
<1>. QED
  BY <1>1, <1>2, CommitStoryInv, RecordStoryInv
  DEF RunStep, RunFault, RunCheck, RunIndex, RunInsert, RunLock, RunFlush, RunDeadlock,
      RecordInsert, RecordDeadlock, RunRaise, RunDie

LEMMA NextStoryInv == JournalInv /\ StoryInv /\ [Next]_vars => StoryInv'
<1>. SUFFICES ASSUME JournalInv, StoryInv, [Next]_vars PROVE StoryInv'
  OBVIOUS
<1>1. CASE UNCHANGED vars
  BY <1>1, QuietStoryInv DEF vars
<1>2. ASSUME NEW i \in Investigations,
             Investigate(i) \/ InvestigateDeadlock(i) \/ InvestigateDie(i)
      PROVE  StoryInv'
  BY <1>2, QuietStoryInv
  DEF Investigate, InvestigateDeadlock, InvestigateDie, JournalInv, TypeOK
<1>3. ASSUME NEW w \in Writers, Write(w) PROVE StoryInv'
  BY <1>3, WriteStoryInv DEF Write
<1>. QED
  BY <1>1, <1>2, <1>3, RunStepStoryInv, InvestigateStoryInv DEF Next, InvestigationStep

LEMMA InitStoryInv == Init => StoryInv
<1>. SUFFICES ASSUME Init PROVE StoryInv
  OBVIOUS
<1>1. DOMAIN journal = {1} /\ journal[1].by = Nobody
  BY DEF Init
<1>2. \A p \in Runs \cup Investigations : EventsBy(p) = {}
  BY <1>1, RequestsAssumption DEF EventsBy
<1>3. /\ \A r \in Runs : row[r] = "absent"
      /\ saved = {}
  BY DEF Init
<1>. QED  BY <1>2, <1>3 DEF StoryInv, ToldOfRun, RowsAreLast

\* The journal tells what was committed and nothing that was rolled back: a
\* completed run by three events in a row, a recorded failure and a saved
\* investigation by one.
THEOREM JournalTellsRows == Spec => []JournalMatchesRows
<1>1. JournalInv /\ StoryInv /\ [Next]_vars => JournalInv' /\ StoryInv'
  BY NextJournalInv, NextStoryInv
<1>2. Spec => []StoryInv
  BY <1>1, InitJournalInv, InitStoryInv, PTL DEF Spec
<1>. QED  BY <1>2, StoryMatchesRows, PTL

(***************************************************************************)
(* The journal implements AuditLog.  Each number has one entry, so that    *)
(* the entries are the events of the journal without their numbers, and a  *)
(* commit tells the whole story of a request that was silent before.       *)
(***************************************************************************)
IdleWritersSilent == \A w \in Writers : writer[w] = "idle" => EventsBy(w) = {}

EntrySet == SUBSET [type: EventTypes, by: Runs \cup Investigations \cup Writers \cup {Nobody}]

\* The entries of a journal without gaps
EntriesOf(j) == [k \in 1 .. Len(j) |-> Log!Entry(j[k].type, j[k].by)]

LEMMA EntriesAreEvents == TypeOK /\ SequenceIsCommitOrder => entries = EntriesOf(journal)
<1>. SUFFICES ASSUME TypeOK, SequenceIsCommitOrder PROVE entries = EntriesOf(journal)
  OBVIOUS
<1>. DEFINE n == Len(journal)
            readAt(k) == {[type |-> journal[i].type, by |-> journal[i].by] :
                             i \in {j \in DOMAIN journal : journal[j].seq = k}}
<1>1. n \in Nat /\ DOMAIN journal = 1 .. n /\ LastSeq = n
  BY LastSeqIsLength DEF TypeOK
<1>2. ASSUME NEW k \in 1 .. n
      PROVE  readAt(k) = Log!Entry(journal[k].type, journal[k].by)
  <2>1. {j \in DOMAIN journal : journal[j].seq = k} = {k}
    BY <1>1, <1>2 DEF SequenceIsCommitOrder
  <2>. QED  BY <2>1 DEF Log!Entry
<1>3. entries = [k \in 1 .. n |-> readAt(k)]
  BY <1>1 DEF entries
<1>. HIDE DEF n, readAt
<1>4. entries = [k \in 1 .. n |-> Log!Entry(journal[k].type, journal[k].by)]
  BY <1>2, <1>3
<1>. QED  BY <1>4 DEF n, EntriesOf

LEMMA EntriesAreSeq ==
  ASSUME NEW j \in Seq(Event)
  PROVE  /\ EntriesOf(j) \in Seq(EntrySet)
         /\ Len(EntriesOf(j)) = Len(j)
         /\ \A k \in 1 .. Len(j) : EntriesOf(j)[k] = Log!Entry(j[k].type, j[k].by)
<1>1. Len(j) \in Nat
  BY LenProperties
<1>2. ASSUME NEW k \in 1 .. Len(j) PROVE Log!Entry(j[k].type, j[k].by) \in EntrySet
  <2>1. j[k] \in Event
    BY ElementOfSeq
  <2>. QED  BY <2>1 DEF Log!Entry, EntrySet, Event
<1>3. EntriesOf(j) \in [1 .. Len(j) -> EntrySet]
  BY <1>2 DEF EntriesOf
<1>4. EntriesOf(j) \in Seq(EntrySet)
  BY <1>1, <1>3, SeqDef
<1>5. Len(EntriesOf(j)) = Len(j)
  <2>1. DOMAIN EntriesOf(j) = 1 .. Len(j)
    BY DEF EntriesOf
  <2>. QED  BY <1>1, <1>4, <2>1, LenProperties
<1>. QED  BY <1>4, <1>5 DEF EntriesOf

LEMMA EntriesOfConcat ==
  ASSUME NEW j \in Seq(Event), NEW block \in Seq(Event)
  PROVE  EntriesOf(j \o block) = EntriesOf(j) \o EntriesOf(block)
<1>. DEFINE jb == j \o block
            e == EntriesOf(j)
            f == EntriesOf(block)
            ef == e \o f
            g == EntriesOf(jb)
<1>1. /\ jb \in Seq(Event)
      /\ Len(jb) = Len(j) + Len(block)
      /\ \A k \in 1 .. Len(j) + Len(block) :
            jb[k] = IF k <= Len(j) THEN j[k] ELSE block[k - Len(j)]
  BY ConcatProperties
<1>2. /\ e \in Seq(EntrySet) /\ Len(e) = Len(j)
      /\ f \in Seq(EntrySet) /\ Len(f) = Len(block)
  BY EntriesAreSeq
<1>3. /\ ef \in Seq(EntrySet)
      /\ Len(ef) = Len(e) + Len(f)
      /\ \A k \in 1 .. Len(e) + Len(f) : ef[k] = IF k <= Len(e) THEN e[k] ELSE f[k - Len(e)]
  <2>. HIDE DEF e, f
  <2>. QED  BY <1>2, ConcatProperties
<1>4. \A k \in 1 .. Len(j) : e[k] = Log!Entry(j[k].type, j[k].by)
  BY EntriesAreSeq
<1>5. \A k \in 1 .. Len(block) : f[k] = Log!Entry(block[k].type, block[k].by)
  BY EntriesAreSeq
<1>. HIDE DEF jb
<1>6. /\ g \in Seq(EntrySet) /\ Len(g) = Len(jb)
      /\ \A k \in 1 .. Len(jb) : g[k] = Log!Entry(jb[k].type, jb[k].by)
  BY <1>1, EntriesAreSeq
<1>7. Len(j) \in Nat /\ Len(block) \in Nat
  BY LenProperties
<1>. HIDE DEF e, f, ef, g
<1>8. ASSUME NEW k \in 1 .. Len(g) PROVE g[k] = ef[k]
  <2>1. k \in 1 .. Len(j) + Len(block)
    BY <1>1, <1>6
  <2>2. CASE k <= Len(j)
    <3>1. k \in 1 .. Len(j)
      BY <1>7, <2>1, <2>2
    <3>2. jb[k] = j[k] /\ ef[k] = e[k]
      BY <1>1, <1>2, <1>3, <2>1, <2>2
    <3>. QED  BY <1>1, <1>4, <1>6, <2>1, <3>1, <3>2
  <2>3. CASE ~(k <= Len(j))
    <3>1. k - Len(j) \in 1 .. Len(block)
      BY <1>7, <2>1, <2>3
    <3>2. jb[k] = block[k - Len(j)] /\ ef[k] = f[k - Len(j)]
      BY <1>1, <1>2, <1>3, <2>1, <2>3
    <3>. QED  BY <1>1, <1>5, <1>6, <2>1, <3>1, <3>2
  <2>. QED  BY <2>2, <2>3
<1>9. Len(g) = Len(ef)
  BY <1>1, <1>2, <1>3, <1>6
<1>10. g = ef
  BY <1>3, <1>6, <1>8, <1>9, SeqEqual
<1>. QED  BY <1>10 DEF g, ef, e, f, jb

LEMMA SilentHasNoEvent ==
  ASSUME TypeOK, SequenceIsCommitOrder, NEW p, EventsBy(p) = {}
  PROVE  Log!Silent(p)
<1>1. entries = EntriesOf(journal) /\ DOMAIN journal = 1 .. Len(journal)
  BY EntriesAreEvents DEF TypeOK
<1>2. \A k \in DOMAIN journal : journal[k].by # p
  BY DEF EventsBy
<1>3. ASSUME NEW k \in DOMAIN entries PROVE \A e \in entries[k] : e.by # p
  <2>1. k \in DOMAIN journal /\ entries[k] = Log!Entry(journal[k].type, journal[k].by)
    BY <1>1 DEF EntriesOf
  <2>. QED  BY <1>2, <2>1 DEF Log!Entry
<1>. QED  BY <1>3 DEF Log!Silent

\* A block of events by a silent p is a story of p.
LEMMA BlockIsTold ==
  ASSUME TypeOK, SequenceIsCommitOrder, TypeOK', SequenceIsCommitOrder',
         NEW p, EventsBy(p) = {},
         NEW block \in Seq(Event), journal' = journal \o block,
         NEW stories, EntriesOf(block) \in stories
  PROVE  Log!Tell(p, stories)
<1>1. entries = EntriesOf(journal) /\ Log!Silent(p)
  BY EntriesAreEvents, SilentHasNoEvent
<1>2. (TypeOK /\ SequenceIsCommitOrder => entries = EntriesOf(journal))'
  BY EntriesAreEvents, PTL
<1>3. entries' = EntriesOf(journal')
  BY <1>2
<1>4. entries' = entries \o EntriesOf(block)
  BY <1>1, <1>3, EntriesOfConcat DEF TypeOK
<1>. QED  BY <1>1, <1>4 DEF Log!Tell

\* The block of a single event is a story of one entry.
LEMMA EventIsTold ==
  ASSUME JournalInv, JournalInv', NEW type \in EventTypes,
         NEW p \in Runs \cup Investigations \cup Writers, EventsBy(p) = {},
         journal' = Append(journal, [seq |-> LastSeq + 1, type |-> type, by |-> p]),
         NEW stories, <<Log!Entry(type, p)>> \in stories
  PROVE  Log!Tell(p, stories)
<1>1. PICK block \in Seq(Event) : /\ Len(block) = 1
                                  /\ block[1].by = p
                                  /\ block[1].type = type
                                  /\ journal' = journal \o block
  BY EventBlock
<1>2. EntriesOf(block) = <<Log!Entry(type, p)>>
  BY <1>1 DEF EntriesOf
<1>. QED  BY <1>1, <1>2, BlockIsTold DEF JournalInv

LEMMA CommitIsTold ==
  ASSUME JournalInv, JournalInv', StoryInv, NEW r \in Runs, RunCommit(r)
  PROVE  Log!Tell(r, Log!RunStory(r))
<1>. DEFINE block == <<[seq |-> RunSeq(r, 1), type |-> "run_started", by |-> r],
                       [seq |-> RunSeq(r, 2), type |-> "result_persisted", by |-> r],
                       [seq |-> RunSeq(r, 3), type |-> "run_completed", by |-> r]>>
            story == <<Log!Entry("run_started", r), Log!Entry("result_persisted", r),
                       Log!Entry("run_completed", r)>>
<1>1. run[r].pc = "working" /\ RunSeq(r, 1) \in Nat /\ RunSeq(r, 2) \in Nat /\ RunSeq(r, 3) \in Nat
  BY DEF RunCommit, RunSeq, JournalInv, TypeOK, RunRecord
<1>2. block \in Seq(Event)
  BY <1>1 DEF Event, EventTypes
<1>3. journal' = journal \o block
  BY DEF RunCommit
<1>4. EventsBy(r) = {}
  BY <1>1 DEF StoryInv, RowsAreLast, ToldOfRun
<1>5. EntriesOf(block) = story
  <2>1. /\ Len(block) = 3
        /\ block[1].type = "run_started" /\ block[1].by = r
        /\ block[2].type = "result_persisted" /\ block[2].by = r
        /\ block[3].type = "run_completed" /\ block[3].by = r
    OBVIOUS
  <2>. HIDE DEF block
  <2>2. EntriesOf(block) = [k \in 1 .. 3 |-> Log!Entry(block[k].type, block[k].by)]
    BY <2>1 DEF EntriesOf
  <2>. QED  BY <2>1, <2>2
<1>6. story \in Log!RunStory(r)
  BY DEF Log!RunStory
<1>. HIDE DEF block, story
<1>. QED  BY <1>2, <1>3, <1>4, <1>5, <1>6, BlockIsTold DEF JournalInv

LEMMA RecordIsTold ==
  ASSUME JournalInv, JournalInv', StoryInv, NEW r \in Runs, RecordCommit(r)
  PROVE  Log!Tell(r, Log!RunStory(r))
<1>1. EventsBy(r) = {}
  BY DEF RecordCommit, StoryInv, RowsAreLast, ToldOfRun
<1>2. journal' = Append(journal, [seq |-> LastSeq + 1, type |-> "run_failed", by |-> r])
  BY DEF RecordCommit, FailureEvents, JournalInv, TypeOK
<1>3. <<Log!Entry("run_failed", r)>> \in Log!RunStory(r)
  BY DEF Log!RunStory
<1>. QED  BY <1>1, <1>2, <1>3, EventIsTold DEF EventTypes

LEMMA InvestigateIsTold ==
  ASSUME JournalInv, JournalInv', StoryInv, NEW i \in Investigations, InvestigateCommit(i)
  PROVE  Log!Tell(i, {<<Log!Entry("ai_recommendation", i)>>})
<1>1. EventsBy(i) = {}
  BY DEF InvestigateCommit, StoryInv, RowsAreLast
<1>. QED  BY <1>1, EventIsTold DEF InvestigateCommit, EventTypes

\* A step that is not a commit leaves the entries alone.
LEMMA QuietEntries == UNCHANGED journal => UNCHANGED entries
BY DEF entries, LastSeq

LEMMA RunStepIsTold ==
  ASSUME JournalInv, JournalInv', StoryInv, NEW r \in Runs, RunStep(r) \/ RunFault(r)
  PROVE  Log!Next \/ UNCHANGED entries
<1>1. CASE RunCommit(r) \/ RecordCommit(r)
  BY <1>1, CommitIsTold, RecordIsTold DEF Log!Next
<1>2. CASE ~(RunCommit(r) \/ RecordCommit(r))
  BY <1>2, QuietEntries
  DEF RunStep, RunFault, RunMoves, RunCheck, RunBegin, RunIndex, RunInsert, RunLock, RunFlush,
      RunDeadlock, RecordInsert, RecordDeadlock, RunRaise, RunDie
<1>. QED  BY <1>1, <1>2

\* A writer is silent until it appends its event.
LEMMA KeepSilent ==
  ASSUME JournalInv, NEW p, NEW block \in Seq(Event), \A k \in DOMAIN block : block[k].by = p,
         journal' = journal \o block, NEW w, EventsBy(w) = {}, w # p
  PROVE  EventsBy(w)' = {}
BY OthersEvents DEF JournalInv, TypeOK

LEMMA EventKeepsSilent ==
  ASSUME JournalInv, NEW type \in EventTypes,
         NEW p \in Runs \cup Investigations \cup Writers,
         journal' = Append(journal, [seq |-> LastSeq + 1, type |-> type, by |-> p]),
         NEW w, EventsBy(w) = {}, w # p
  PROVE  EventsBy(w)' = {}
<1>1. PICK block \in Seq(Event) : /\ DOMAIN block = {1}
                                  /\ block[1].by = p
                                  /\ journal' = journal \o block
  BY EventBlock
<1>. QED  BY <1>1, KeepSilent

LEMMA RunKeepsSilent ==
  ASSUME JournalInv, NEW r \in Runs, RunStep(r) \/ RunFault(r),
         NEW w \in Writers, EventsBy(w) = {}
  PROVE  EventsBy(w)' = {}
<1>. w # r
  BY RequestsAssumption
<1>1. CASE RunCommit(r)
  <2>. DEFINE block == <<[seq |-> RunSeq(r, 1), type |-> "run_started", by |-> r],
                         [seq |-> RunSeq(r, 2), type |-> "result_persisted", by |-> r],
                         [seq |-> RunSeq(r, 3), type |-> "run_completed", by |-> r]>>
  <2>1. RunSeq(r, 1) \in Nat /\ RunSeq(r, 2) \in Nat /\ RunSeq(r, 3) \in Nat
    BY DEF RunSeq, JournalInv, TypeOK, RunRecord
  <2>2. block \in Seq(Event) /\ \A k \in DOMAIN block : block[k].by = r
    BY <2>1 DEF Event, EventTypes
  <2>3. journal' = journal \o block
    BY <1>1 DEF RunCommit
  <2>. HIDE DEF block
  <2>. QED  BY <2>2, <2>3, KeepSilent
<1>2. CASE RecordCommit(r)
  <2>1. journal' = Append(journal, [seq |-> LastSeq + 1, type |-> "run_failed", by |-> r])
    BY <1>2 DEF RecordCommit, FailureEvents, JournalInv, TypeOK
  <2>. QED  BY <2>1, EventKeepsSilent DEF EventTypes
<1>3. CASE UNCHANGED journal
  BY <1>3 DEF EventsBy
<1>. QED
  BY <1>1, <1>2, <1>3
  DEF RunStep, RunFault, RunMoves, RunCheck, RunBegin, RunIndex, RunInsert, RunLock, RunFlush,
      RunDeadlock, RecordInsert, RecordDeadlock, RunRaise, RunDie

LEMMA NextWritersSilent ==
  JournalInv /\ IdleWritersSilent /\ [Next]_vars => IdleWritersSilent'
<1>. SUFFICES ASSUME JournalInv, IdleWritersSilent, [Next]_vars,
                     NEW w \in Writers, writer'[w] = "idle"
              PROVE  EventsBy(w)' = {}
  BY DEF IdleWritersSilent
<1>1. CASE UNCHANGED <<journal, writer>>
  BY <1>1 DEF IdleWritersSilent, EventsBy
<1>2. ASSUME NEW r \in Runs, RunStep(r) \/ RunFault(r) PROVE EventsBy(w)' = {}
  <2>1. UNCHANGED writer
    BY <1>2
    DEF RunStep, RunFault, RunMoves, RunCheck, RunBegin, RunIndex, RunInsert, RunLock, RunFlush,
        RunCommit, RunDeadlock, RecordInsert, RecordCommit, RecordDeadlock, RunRaise, RunDie
  <2>. QED  BY <1>2, <2>1, RunKeepsSilent DEF IdleWritersSilent
<1>3. ASSUME NEW i \in Investigations, InvestigateCommit(i) PROVE EventsBy(w)' = {}
  <2>1. w # i /\ EventsBy(w) = {}
    BY <1>3, RequestsAssumption DEF InvestigateCommit, IdleWritersSilent
  <2>. QED  BY <1>3, <2>1, EventKeepsSilent DEF InvestigateCommit, EventTypes
<1>4. ASSUME NEW v \in Writers, Write(v) PROVE EventsBy(w)' = {}
  <2>1. w # v /\ EventsBy(w) = {}
    BY <1>4 DEF Write, IdleWritersSilent, JournalInv, TypeOK
  <2>. QED  BY <1>4, <2>1, EventKeepsSilent DEF Write, EventTypes
<1>5. ASSUME NEW i \in Investigations,
             Investigate(i) \/ InvestigateDeadlock(i) \/ InvestigateDie(i)
      PROVE  UNCHANGED <<journal, writer>>
  BY <1>5 DEF Investigate, InvestigateDeadlock, InvestigateDie
<1>. QED
  BY <1>1, <1>2, <1>3, <1>4, <1>5 DEF Next, InvestigationStep, vars

LEMMA InitEntries == Init => Log!Init /\ IdleWritersSilent
<1>. SUFFICES ASSUME Init PROVE Log!Init /\ IdleWritersSilent
  OBVIOUS
<1>1. /\ Len(journal) = 1 /\ DOMAIN journal = {1}
      /\ journal[1].type = "opened" /\ journal[1].by = Nobody
  BY DEF Init
<1>2. entries = EntriesOf(journal)
  BY InitJournalInv, EntriesAreEvents DEF JournalInv
<1>3. EntriesOf(journal) = [k \in 1 .. 1 |-> Log!Entry("opened", Nobody)]
  BY <1>1 DEF EntriesOf
<1>4. entries = <<Log!Entry("opened", Nobody)>>
  BY <1>2, <1>3
<1>5. IdleWritersSilent
  BY <1>1, RequestsAssumption DEF IdleWritersSilent, EventsBy
<1>. QED  BY <1>4, <1>5 DEF Log!Init

LEMMA StepIsTold ==
  ASSUME JournalInv, JournalInv', StoryInv, IdleWritersSilent, [Next]_vars
  PROVE  [Log!Next]_entries
<1>1. CASE UNCHANGED journal
  BY <1>1, QuietEntries
<1>2. ASSUME NEW i \in Investigations, InvestigateCommit(i) PROVE Log!Next
  BY <1>2, InvestigateIsTold DEF Log!Next
<1>3. ASSUME NEW w \in Writers, Write(w) PROVE Log!Next
  <2>1. Log!Tell(w, {<<Log!Entry("other", w)>>})
    BY <1>3, EventIsTold DEF Write, IdleWritersSilent, EventTypes
  <2>. QED  BY <2>1 DEF Log!Next
<1>4. ASSUME NEW i \in Investigations,
             Investigate(i) \/ InvestigateDeadlock(i) \/ InvestigateDie(i)
      PROVE  UNCHANGED journal
  BY <1>4 DEF Investigate, InvestigateDeadlock, InvestigateDie
<1>. QED
  BY <1>1, <1>2, <1>3, <1>4, RunStepIsTold DEF Next, InvestigationStep, vars

\* The journal implements AuditLog: an append-only log in which every number has
\* one entry, and to which a request adds its whole story as one uninterrupted
\* block or nothing, although runs number their events from a snapshot.
THEOREM JournalIsAuditLog == Spec => LogSpec
<1>1. JournalInv /\ StoryInv /\ IdleWritersSilent /\ [Next]_vars
        => JournalInv' /\ StoryInv' /\ IdleWritersSilent'
  BY NextJournalInv, NextStoryInv, NextWritersSilent
<1>2. JournalInv /\ JournalInv' /\ StoryInv /\ IdleWritersSilent /\ [Next]_vars
        => [Log!Next]_entries
  BY StepIsTold
<1>. QED
  BY <1>1, <1>2, InitJournalInv, InitStoryInv, InitEntries, PTL DEF Spec, LogSpec, Log!Spec

-----------------------------------------------------------------------------
(***************************************************************************)
(* SourceSync: the steps of the runs keep the invariants above, as do the  *)
(* other requests; two moves are new, a run that fails on an outdated or a *)
(* contended batch.                                                        *)
(***************************************************************************)
ForcedOut(r) ==
    \/ run[r].pc = "inserted" /\ RunMoves(r, "failing")
    \/ run[r].pc = "recording" /\ RunMoves(r, "failed")

RunMove(r) == RunStep(r) \/ RunFault(r) \/ ForcedOut(r)

TablesInv == JournalInv /\ StoryInv /\ SerialInv /\ IdleWritersSilent

LEMMA RunMoveInv ==
  ASSUME TablesInv, NEW r \in Runs, RunMove(r)
  PROVE  TablesInv'
<1>1. CASE RunStep(r) \/ RunFault(r)
  <2>1. IdleWritersSilent'
    BY <1>1, NextWritersSilent DEF TablesInv, Next
  <2>. QED  BY <1>1, <2>1, RunStepInv, RunStepStoryInv, RunStepSerialInv DEF TablesInv
<1>2. CASE ForcedOut(r)
  <2>1. JournalInv'
    BY <1>2, RunMovesInv DEF ForcedOut, TablesInv, RunStates
  <2>2. StoryInv'
    BY <1>2, RunMoveIsQuiet DEF ForcedOut, TablesInv
  <2>3. SerialInv'
    <3>1. /\ UNCHANGED journal
          /\ \A s \in Runs : run[s].pc = "completed" => run'[s] = run[s]
      BY <1>2 DEF ForcedOut, RunMoves, TablesInv, JournalInv, TypeOK
    <3>. QED  BY <3>1, QuietSerialInv DEF TablesInv
  <2>4. IdleWritersSilent'
    BY <1>2 DEF ForcedOut, RunMoves, TablesInv, IdleWritersSilent, EventsBy
  <2>. QED  BY <2>1, <2>2, <2>3, <2>4 DEF TablesInv
<1>. QED  BY <1>1, <1>2 DEF RunMove

\* What a run leaves alone
LEMMA RunMoveFrame ==
  ASSUME TablesInv, NEW r \in Runs, RunMove(r)
  PROVE  /\ UNCHANGED <<inv, writer>>
         /\ \A s \in Runs \ {r} : run'[s] = run[s]
         /\ ~RunBegin(r) => run'[r].seen = run[r].seen
BY DEF RunMove, ForcedOut, RunStep, RunFault, RunMoves, RunCheck, RunBegin, RunIndex, RunInsert,
       RunLock, RunFlush, RunCommit, RunDeadlock, RecordInsert, RecordCommit, RecordDeadlock,
       RunRaise, RunDie, TablesInv, JournalInv, TypeOK, RunRecord

LEMMA RunMoveKeepsSilent ==
  ASSUME TablesInv, NEW r \in Runs, RunMove(r)
  PROVE  /\ EventsBy(Sync)' = EventsBy(Sync)
         /\ \A i \in DOMAIN journal : i \in DOMAIN journal' /\ journal'[i] = journal[i]
<1>. Sync # r /\ Sync \in Writers
  BY SyncAssumption, RequestsAssumption
<1>1. journal \in Seq(Event)
  BY DEF TablesInv, JournalInv, TypeOK
<1>2. CASE RunCommit(r)
  <2>. DEFINE block == <<[seq |-> RunSeq(r, 1), type |-> "run_started", by |-> r],
                         [seq |-> RunSeq(r, 2), type |-> "result_persisted", by |-> r],
                         [seq |-> RunSeq(r, 3), type |-> "run_completed", by |-> r]>>
  <2>1. RunSeq(r, 1) \in Nat /\ RunSeq(r, 2) \in Nat /\ RunSeq(r, 3) \in Nat
    BY DEF RunSeq, TablesInv, JournalInv, TypeOK, RunRecord
  <2>2. block \in Seq(Event) /\ \A k \in DOMAIN block : block[k].by = r
    BY <2>1 DEF Event, EventTypes
  <2>3. journal' = journal \o block
    BY <1>2 DEF RunCommit
  <2>. HIDE DEF block
  <2>4. EventsBy(Sync)' = EventsBy(Sync)
    BY <1>1, <2>2, <2>3, OthersEvents
  <2>5. \A i \in DOMAIN journal : i \in DOMAIN journal' /\ journal'[i] = journal[i]
    BY <1>1, <2>2, <2>3, AppendStory
  <2>. QED  BY <2>4, <2>5
<1>3. CASE RecordCommit(r)
  <2>1. journal' = Append(journal, [seq |-> LastSeq + 1, type |-> "run_failed", by |-> r])
    BY <1>1, <1>3 DEF RecordCommit, FailureEvents
  <2>2. PICK block \in Seq(Event) : /\ DOMAIN block = {1}
                                    /\ block[1].by = r
                                    /\ journal' = journal \o block
    BY <2>1, EventBlock DEF TablesInv, EventTypes
  <2>3. \A k \in DOMAIN block : block[k].by = r
    BY <2>2
  <2>4. EventsBy(Sync)' = EventsBy(Sync)
    BY <1>1, <2>2, <2>3, OthersEvents
  <2>5. \A i \in DOMAIN journal : i \in DOMAIN journal' /\ journal'[i] = journal[i]
    BY <1>1, <2>2, <2>3, AppendStory
  <2>. QED  BY <2>4, <2>5
<1>4. CASE UNCHANGED journal
  BY <1>4 DEF EventsBy
<1>. QED
  BY <1>2, <1>3, <1>4
  DEF RunMove, ForcedOut, RunStep, RunFault, RunMoves, RunCheck, RunBegin, RunIndex, RunInsert,
      RunLock, RunFlush, RunDeadlock, RecordInsert, RecordDeadlock, RunRaise, RunDie

-----------------------------------------------------------------------------
(* The invariant of the sync: its row and its event are committed together,*)
(* and a run has the source rows in its snapshot exactly if their event is *)
(* among the events that its snapshot holds.                               *)
SyncStates == {"fetching", "fetched", "rejected", "persisting", "updating", "marking",
               "unpersisted", "ok", "bad gateway", "error", "died"}

BatchStates == {"running", "completed", "failed"}

AnswerTellsBatch ==
    /\ sync = "ok" => batch = "completed"
    /\ sync = "bad gateway" => batch = "failed"
    /\ sync \notin {"ok", "bad gateway"} => batch = "running"

EventTellsBatch ==
    IF batch = "running" THEN EventsBy(Sync) = {}
                         ELSE \E k \in DOMAIN journal : EventsBy(Sync) = {k}

ViewIsOfSnapshot ==
    \A r \in Runs :
        view[r].source = "full" <=>
            /\ batch = "completed"
            /\ \E k \in EventsBy(Sync) : k <= run[r].seen

SyncInv ==
    /\ sync \in SyncStates /\ batch \in BatchStates /\ source \in {"empty", "full"}
    /\ view \in [Runs -> [batch : BatchStates, source : {"empty", "full"}]]
    /\ batch = "completed" <=> source = "full"
    /\ AnswerTellsBatch
    /\ EventTellsBatch
    /\ ViewIsOfSnapshot

LEMMA InitSyncInv == SyncInit => TablesInv /\ SyncInv
<1>. SUFFICES ASSUME SyncInit PROVE TablesInv /\ SyncInv
  OBVIOUS
<1>1. TablesInv
  BY InitJournalInv, InitStoryInv, InitSerialInv, InitEntries DEF SyncInit, TablesInv
<1>2. DOMAIN journal = {1} /\ journal[1].by = Nobody
  BY DEF SyncInit, Init
<1>3. EventsBy(Sync) = {}
  BY <1>2, SyncAssumption, RequestsAssumption DEF EventsBy
<1>4. SyncInv
  BY <1>3
  DEF SyncInit, SyncInv, SyncStates, BatchStates, AnswerTellsBatch, EventTellsBatch,
      ViewIsOfSnapshot
<1>. QED  BY <1>1, <1>4

LEMMA RunMoveSyncInv ==
  ASSUME TablesInv, SyncInv, NEW r \in Runs, RunMove(r), ~RunBegin(r), UNCHANGED syncVars
  PROVE  SyncInv'
<1>1. /\ \A s \in Runs : run'[s].seen = run[s].seen
      /\ EventsBy(Sync)' = EventsBy(Sync)
      /\ \A k \in DOMAIN journal : k \in DOMAIN journal'
  BY RunMoveFrame, RunMoveKeepsSilent
<1>2. EventTellsBatch' /\ ViewIsOfSnapshot'
  BY <1>1 DEF SyncInv, EventTellsBatch, ViewIsOfSnapshot, syncVars
<1>. QED  BY <1>2 DEF SyncInv, AnswerTellsBatch, syncVars

LEMMA BeginViewSyncInv ==
  ASSUME TablesInv, SyncInv, NEW r \in Runs, BeginView(r)
  PROVE  SyncInv'
<1>1. /\ \A s \in Runs \ {r} : run'[s] = run[s] /\ view'[s] = view[s]
      /\ run'[r].seen = LastSeq
      /\ view'[r] = [batch |-> batch, source |-> source]
      /\ UNCHANGED <<journal, batch, source, sync>>
  BY DEF BeginView, RunBegin, TablesInv, JournalInv, TypeOK, SyncInv
<1>2. view' \in [Runs -> [batch : BatchStates, source : {"empty", "full"}]]
  BY DEF BeginView, SyncInv
<1>3. /\ LastSeq = Len(journal) /\ Len(journal) \in Nat
      /\ DOMAIN journal = 1 .. Len(journal)
  BY LastSeqIsLength DEF TablesInv, JournalInv, TypeOK
<1>4. EventsBy(Sync)' = EventsBy(Sync)
  BY <1>1 DEF EventsBy
<1>5. EventTellsBatch'
  BY <1>1, <1>4 DEF SyncInv, EventTellsBatch
<1>6. batch = "completed" <=> \E k \in EventsBy(Sync) : batch = "completed" /\ k <= LastSeq
  BY <1>3 DEF SyncInv, EventTellsBatch
<1>7. ViewIsOfSnapshot'
  BY <1>1, <1>4, <1>6 DEF SyncInv, ViewIsOfSnapshot
<1>. QED  BY <1>1, <1>2, <1>5, <1>7 DEF SyncInv, AnswerTellsBatch

\* The sync appends its event as any writer does.
LEMMA SyncEventTables ==
  ASSUME TablesInv, LockFree(Sync), UNCHANGED <<row, saved, run, inv>>,
         writer' = [writer EXCEPT ![Sync] = "answered"],
         journal' = Append(journal, [seq |-> LastSeq + 1, type |-> "other", by |-> Sync])
  PROVE  TablesInv'
<1>1. Sync \in Writers /\ Sync \notin Runs \cup Investigations
  BY SyncAssumption, RequestsAssumption
<1>2. JournalInv /\ StoryInv /\ SerialInv /\ IdleWritersSilent
  BY DEF TablesInv
<1>3. JournalInv'
  <2>1. /\ journal' \in Seq(Event)
        /\ SequenceIsCommitOrder'
        /\ Len(journal') >= Len(journal)
    BY <1>1, <1>2, NextEvent DEF EventTypes
  <2>2. Len(journal') \in Nat
    BY <2>1
  <2>3. OneRunInFlight' /\ LockExclusive' /\ SnapshotIsPast' /\ WorkingIsFresh'
    BY <1>1, <1>2, <2>1, <2>2, AppendLocksInv
  <2>4. TypeOK'
    BY <1>1, <1>2, <2>1 DEF JournalInv, TypeOK
  <2>. QED  BY <2>1, <2>3, <2>4 DEF JournalInv
<1>4. StoryInv'
  BY <1>1, <1>2, WriteStoryInv
<1>5. SerialInv'
  BY <1>1, <1>2, OtherEventSerialInv DEF EventTypes
<1>6. IdleWritersSilent'
  <2>. SUFFICES ASSUME NEW w \in Writers, writer'[w] = "idle" PROVE EventsBy(w)' = {}
    BY DEF IdleWritersSilent
  <2>1. w # Sync /\ EventsBy(w) = {}
    BY <1>1, <1>2 DEF IdleWritersSilent, JournalInv, TypeOK
  <2>. QED  BY <1>1, <1>2, <2>1, EventKeepsSilent DEF EventTypes
<1>. QED  BY <1>3, <1>4, <1>5, <1>6 DEF TablesInv

LEMMA SyncEventIsLast ==
  ASSUME TablesInv, EventsBy(Sync) = {},
         journal' = Append(journal, [seq |-> LastSeq + 1, type |-> "other", by |-> Sync])
  PROVE  /\ Len(journal) \in Nat
         /\ Len(journal) + 1 \in DOMAIN journal'
         /\ EventsBy(Sync)' = {Len(journal) + 1}
<1>1. PICK block \in Seq(Event) : /\ Len(block) = 1
                                  /\ DOMAIN block = {1}
                                  /\ block[1].by = Sync
                                  /\ journal' = journal \o block
  BY EventBlock, SyncAssumption DEF EventTypes, TablesInv
<1>2. \A k \in DOMAIN block : block[k].by = Sync
  BY <1>1
<1>. DEFINE n == Len(journal)
<1>3. /\ n \in Nat
      /\ DOMAIN journal' = 1 .. (n + Len(block))
      /\ EventsBy(Sync)' = EventsBy(Sync) \cup ((n + 1) .. (n + Len(block)))
  BY <1>1, <1>2, AppendStory DEF TablesInv, JournalInv, TypeOK
<1>. HIDE DEF n
<1>4. n \in Nat => n + 1 \in 1 .. (n + 1) /\ (n + 1) .. (n + 1) = {n + 1}
  OBVIOUS
<1>5. n \in Nat /\ n + 1 \in DOMAIN journal' /\ EventsBy(Sync)' = {n + 1}
  BY <1>1, <1>3, <1>4
<1>. QED  BY <1>5 DEF n

LEMMA PastIsBefore == \A n, s \in Nat : s <= n => ~(n + 1 <= s)
OBVIOUS

\* It comes after every snapshot.
LEMMA SyncEndsInv ==
  ASSUME TablesInv, SyncInv, batch = "running",
         NEW status \in {"completed", "failed"}, NEW rows, NEW answer,
         \/ status = "completed" /\ rows = "full" /\ answer = "ok"
         \/ status = "failed" /\ rows = "empty" /\ answer = "bad gateway",
         SyncEnds(status, rows, answer)
  PROVE  TablesInv' /\ SyncInv'
<1>1. journal' = Append(journal, [seq |-> LastSeq + 1, type |-> "other", by |-> Sync])
  BY DEF SyncEnds, SyncEvent
<1>2. /\ UNCHANGED <<row, saved, run, inv, view>> /\ LockFree(Sync)
      /\ writer' = [writer EXCEPT ![Sync] = "answered"]
  BY DEF SyncEnds, SyncLockFree
<1>3. batch' = status /\ source' = rows /\ sync' = answer
  BY DEF SyncEnds
<1>4. EventsBy(Sync) = {}
  BY DEF SyncInv, EventTellsBatch
<1>5. TablesInv'
  BY <1>1, <1>2, SyncEventTables
<1>6. /\ Len(journal) \in Nat
      /\ Len(journal) + 1 \in DOMAIN journal'
      /\ EventsBy(Sync)' = {Len(journal) + 1}
  BY <1>1, <1>4, SyncEventIsLast
<1>7. \A r \in Runs : /\ run[r].seen \in Nat /\ run[r].seen <= Len(journal)
                      /\ view[r].source # "full"
  BY DEF TablesInv, JournalInv, TypeOK, RunRecord, SnapshotIsPast, SyncInv, ViewIsOfSnapshot
<1>8. ViewIsOfSnapshot'
  <2>. SUFFICES ASSUME NEW r \in Runs
                PROVE  view[r].source # "full" /\ ~(Len(journal) + 1 <= run[r].seen)
    BY <1>2, <1>6 DEF ViewIsOfSnapshot
  <2>. QED  BY <1>6, <1>7, PastIsBefore
<1>9. EventTellsBatch'
  BY <1>3, <1>6 DEF EventTellsBatch
<1>10. SyncInv'
  BY <1>2, <1>3, <1>8, <1>9 DEF SyncInv, SyncStates, BatchStates, AnswerTellsBatch
<1>. QED  BY <1>5, <1>10

\* A step of the sync that commits nothing of the batch
LEMMA SyncMovesInv ==
  ASSUME TablesInv, SyncInv, NEW pc \in SyncStates \ {"ok", "bad gateway"},
         sync \notin {"ok", "bad gateway"},
         sync' = pc, UNCHANGED <<vars, batch, source, view>>
  PROVE  TablesInv' /\ SyncInv'
<1>1. TablesInv'
  <2>1. JournalInv'
    BY NextJournalInv DEF TablesInv
  <2>2. StoryInv' /\ SerialInv' /\ IdleWritersSilent'
    BY NextStoryInv, NextSerialInv, NextWritersSilent DEF TablesInv
  <2>. QED  BY <2>1, <2>2 DEF TablesInv
<1>2. SyncInv'
  BY DEF SyncInv, vars, AnswerTellsBatch, EventTellsBatch, ViewIsOfSnapshot, EventsBy
<1>. QED  BY <1>1, <1>2

\* An investigation or another writer
OtherStep ==
    \/ \E i \in Investigations : Investigate(i) \/ InvestigationStep(i) \/ InvestigateDie(i)
    \/ \E w \in Writers \ {Sync} : Write(w)

LEMMA OtherEventKeepsSync ==
  ASSUME TablesInv, NEW type \in EventTypes, NEW p \in (Investigations \cup Writers) \ {Sync},
         journal' = Append(journal, [seq |-> LastSeq + 1, type |-> type, by |-> p])
  PROVE  /\ EventsBy(Sync)' = EventsBy(Sync)
         /\ \A k \in DOMAIN journal : k \in DOMAIN journal'
<1>1. PICK block \in Seq(Event) : /\ DOMAIN block = {1}
                                  /\ block[1].by = p
                                  /\ journal' = journal \o block
  BY EventBlock DEF TablesInv
<1>2. journal \in Seq(Event) /\ \A k \in DOMAIN block : block[k].by = p
  BY <1>1 DEF TablesInv, JournalInv, TypeOK
<1>3. EventsBy(Sync)' = EventsBy(Sync)
  BY <1>1, <1>2, OthersEvents
<1>4. \A k \in DOMAIN journal : k \in DOMAIN journal'
  BY <1>1, <1>2, AppendStory
<1>. QED  BY <1>3, <1>4

LEMMA OtherStepSyncInv ==
  ASSUME TablesInv, SyncInv, OtherStep, UNCHANGED syncVars
  PROVE  TablesInv' /\ SyncInv'
<1>1. TablesInv'
  <2>1. Next
    BY DEF OtherStep, Next
  <2>. QED  BY <2>1, NextJournalInv, NextStoryInv, NextSerialInv, NextWritersSilent DEF TablesInv
<1>2. UNCHANGED run
  BY DEF OtherStep, Investigate, InvestigationStep, InvestigateCommit, InvestigateDeadlock,
         InvestigateDie, Write
<1>3. /\ EventsBy(Sync)' = EventsBy(Sync)
      /\ \A k \in DOMAIN journal : k \in DOMAIN journal'
  <2>1. CASE UNCHANGED journal
    BY <2>1 DEF EventsBy
  <2>2. ASSUME NEW i \in Investigations, InvestigateCommit(i)
        PROVE  /\ EventsBy(Sync)' = EventsBy(Sync)
               /\ \A k \in DOMAIN journal : k \in DOMAIN journal'
    BY <2>2, OtherEventKeepsSync, SyncAssumption, RequestsAssumption
    DEF InvestigateCommit, EventTypes
  <2>3. ASSUME NEW w \in Writers \ {Sync}, Write(w)
        PROVE  /\ EventsBy(Sync)' = EventsBy(Sync)
               /\ \A k \in DOMAIN journal : k \in DOMAIN journal'
    BY <2>3, OtherEventKeepsSync DEF Write, EventTypes
  <2>4. ASSUME NEW i \in Investigations,
               Investigate(i) \/ InvestigateDeadlock(i) \/ InvestigateDie(i)
        PROVE  UNCHANGED journal
    BY <2>4 DEF Investigate, InvestigateDeadlock, InvestigateDie
  <2>. QED  BY <2>1, <2>2, <2>3, <2>4 DEF OtherStep, InvestigationStep
<1>4. EventTellsBatch' /\ ViewIsOfSnapshot'
  BY <1>2, <1>3 DEF SyncInv, EventTellsBatch, ViewIsOfSnapshot, syncVars
<1>5. SyncInv'
  BY <1>4 DEF SyncInv, AnswerTellsBatch, syncVars
<1>. QED  BY <1>1, <1>5

LEMMA NextSyncInv == TablesInv /\ SyncInv /\ [SyncNext]_allVars => TablesInv' /\ SyncInv'
<1>. SUFFICES ASSUME TablesInv, SyncInv, [SyncNext]_allVars PROVE TablesInv' /\ SyncInv'
  OBVIOUS
<1>1. CASE UNCHANGED allVars
  <2>1. UNCHANGED vars /\ UNCHANGED syncVars
    BY <1>1 DEF allVars
  <2>2. TablesInv'
    BY <2>1, NextJournalInv, NextStoryInv, NextSerialInv, NextWritersSilent DEF TablesInv
  <2>3. SyncInv'
    BY <2>1 DEF SyncInv, vars, syncVars, AnswerTellsBatch, EventTellsBatch, ViewIsOfSnapshot,
                EventsBy
  <2>. QED  BY <2>2, <2>3
<1>2. CASE \/ SyncFetch \/ SyncUpdate \/ MarkUpdate \/ MarkExpired
           \/ SyncDeadlock \/ SyncRaise \/ SyncDie
  <2>1. /\ sync' \in SyncStates \ {"ok", "bad gateway"}
        /\ UNCHANGED <<vars, batch, source, view>>
    <3>1. CASE SyncFetch
      BY <3>1 DEF SyncFetch, FetchFailures, SyncMoves, SyncStates
    <3>2. CASE \E pc \in {"updating", "marking", "unpersisted", "error", "died"} :
                 SyncMoves(pc)
      BY <3>2 DEF SyncMoves, SyncStates
    <3>. QED
      BY <1>2, <3>1, <3>2
      DEF SyncUpdate, MarkUpdate, MarkExpired, SyncDeadlock, SyncRaise, AfterRollback, SyncDie
  <2>2. sync \notin {"ok", "bad gateway"}
    BY <1>2 DEF SyncFetch, SyncUpdate, MarkUpdate, MarkExpired, SyncDeadlock, SyncDeadlocked,
                SyncWaits, SyncRaise, SyncDie
  <2>. QED  BY <2>1, <2>2, SyncMovesInv
<1>3. CASE SyncPersist
  <2>1. /\ sync = "fetched" /\ sync' = "persisting"
        /\ UNCHANGED <<vars, batch, source, view>>
    BY <1>3 DEF SyncPersist, FlushedRows
  <2>2. "persisting" \in SyncStates \ {"ok", "bad gateway"}
    BY DEF SyncStates
  <2>. QED  BY <2>1, <2>2, SyncMovesInv
<1>4. CASE SyncComplete
  <2>1. batch = "running"
    BY <1>4 DEF SyncComplete, SyncInv, AnswerTellsBatch
  <2>. QED  BY <1>4, <2>1, SyncEndsInv DEF SyncComplete
<1>5. CASE MarkCommit
  <2>1. batch = "running" /\ source = "empty"
    BY <1>5 DEF MarkCommit, SyncInv, AnswerTellsBatch
  <2>. QED  BY <1>5, <2>1, SyncEndsInv DEF MarkCommit, MarkedStatus
<1>6. ASSUME NEW r \in Runs, RunProgress(r) \/ (RunFault(r) /\ UNCHANGED syncVars)
      PROVE  TablesInv' /\ SyncInv'
  <2>1. CASE BeginView(r)
    BY <2>1, BeginViewSyncInv, RunMoveInv DEF BeginView, RunMove, RunStep
  <2>2. CASE RunMove(r) /\ UNCHANGED syncVars /\ ~RunBegin(r)
    BY <2>2, RunMoveInv, RunMoveSyncInv
  <2>3. CASE ~BeginView(r)
    <3>1. RunMove(r) /\ UNCHANGED syncVars
      BY <1>6, <2>3 DEF RunProgress, LockBatch, LockOutdated, DeadlockWithSync, RunMove, RunStep,
                        ForcedOut
    <3>2. ~RunBegin(r)
      BY <1>6, <2>3
      DEF RunProgress, LockBatch, LockOutdated, DeadlockWithSync, RunFault, RunRaise, RunDie,
          RunBegin, RunMoves, RunCheck, RunIndex, RunInsert, RunLock, RunFlush, RunCommit,
          RunDeadlock, RecordInsert, RecordCommit, RecordDeadlock, TablesInv, JournalInv, TypeOK,
          RunRecord
    <3>. QED  BY <2>2, <3>1, <3>2
  <2>. QED  BY <2>1, <2>3
<1>7. CASE OtherStep /\ UNCHANGED syncVars
  BY <1>7, OtherStepSyncInv
<1>. QED
  BY <1>1, <1>2, <1>3, <1>4, <1>5, <1>6, <1>7
  DEF SyncNext, SyncProgress, OtherStep, StartInvestigation, InvestigationProgress, WriteBeside

LEMMA SyncInvHolds == SyncSpec => [](TablesInv /\ SyncInv)
BY InitSyncInv, NextSyncInv, PTL DEF SyncSpec

\* What the requests about a batch promise, they promise also while the sync that
\* fills the batch is under way: numbers in the order of the commits, serial
\* completed runs, and a journal that tells what was committed.
THEOREM RunsBesideSync ==
  SyncSpec => [](/\ TypeOK
                 /\ SequenceIsCommitOrder
                 /\ CompletedRunsAreSerial
                 /\ JournalMatchesRows)
<1>1. TablesInv => /\ TypeOK
                   /\ SequenceIsCommitOrder
                   /\ CompletedRunsAreSerial
                   /\ JournalMatchesRows
  BY StoryMatchesRows DEF TablesInv, JournalInv, SerialInv
<1>. QED  BY <1>1, SyncInvHolds, PTL

\* The status of the batch, its source rows, the event of the sync and the
\* answer of the request agree at every commit, and a sync that fails or dies
\* without a 502 leaves a running batch without rows or event.
THEOREM StatusIsTold == SyncSpec => []StatusTellsSource
<1>1. SyncInv => StatusTellsSource
  <2>. SUFFICES ASSUME SyncInv PROVE StatusTellsSource
    OBVIOUS
  <2>1. batch = "running" <=> EventsBy(Sync) = {}
    BY DEF SyncInv, EventTellsBatch
  <2>2. Cardinality(EventsBy(Sync)) \in {0, 1}
    BY FS_EmptySet, FS_Singleton DEF SyncInv, EventTellsBatch
  <2>3. Cardinality(EventsBy(Sync)) <= 1
    BY <2>2
  <2>4. /\ batch = "completed" <=> sync = "ok"
        /\ batch = "failed" <=> sync = "bad gateway"
    BY DEF SyncInv, AnswerTellsBatch
  <2>. QED  BY <2>1, <2>3, <2>4 DEF SyncInv, StatusTellsSource
<1>. QED  BY <1>1, SyncInvHolds, PTL

\* A completed run read the source rows exactly if the journal has their event
\* before the run's own: its snapshot is the batch its journal tells of.
THEOREM RunsReadWhatIsTold == SyncSpec => []RunsReadJournaledSource
<1>1. TablesInv /\ SyncInv => RunsReadJournaledSource
  <2>. SUFFICES ASSUME TablesInv, SyncInv,
                       NEW i \in DOMAIN journal, journal[i].type = "run_started"
                PROVE  view[journal[i].by].source = "full" <=>
                         \E k \in EventsBy(Sync) : k < i /\ batch = "completed"
    BY DEF RunsReadJournaledSource
  <2>1. journal[i].by \in Runs /\ run[journal[i].by].seen = i - 1
    BY DEF TablesInv, SerialInv, StartedRunsCompleted, CompletedRunsAreSerial
  <2>2. view[journal[i].by].source = "full" <=>
           batch = "completed" /\ \E k \in EventsBy(Sync) : k <= i - 1
    BY <2>1 DEF SyncInv, ViewIsOfSnapshot
  <2>3. i \in Int /\ EventsBy(Sync) \subseteq Int
    BY DEF TablesInv, JournalInv, TypeOK, EventsBy
  <2>4. \A k \in EventsBy(Sync) : k <= i - 1 <=> k < i
    BY <2>3
  <2>. QED  BY <2>2, <2>4
<1>. QED  BY <1>1, SyncInvHolds, PTL

LEMMA SyncEndsIsTold ==
  ASSUME TablesInv, TablesInv', SyncInv, batch = "running",
         NEW status, NEW rows, NEW answer, SyncEnds(status, rows, answer)
  PROVE  Log!Next
<1>1. EventsBy(Sync) = {}
  BY DEF SyncInv, EventTellsBatch
<1>2. Log!Tell(Sync, {<<Log!Entry("other", Sync)>>})
  BY <1>1, EventIsTold, SyncAssumption DEF SyncEnds, SyncEvent, EventTypes, TablesInv
<1>. QED  BY <1>2, SyncAssumption DEF Log!Next

LEMMA SyncStepIsTold ==
  ASSUME TablesInv, TablesInv', SyncInv, [SyncNext]_allVars
  PROVE  [Log!Next]_entries
<1>1. CASE UNCHANGED journal
  BY <1>1, QuietEntries
<1>2. CASE SyncComplete \/ MarkCommit
  <2>1. batch = "running"
    BY <1>2 DEF SyncComplete, MarkCommit, SyncInv, AnswerTellsBatch
  <2>. QED  BY <1>2, <2>1, SyncEndsIsTold DEF SyncComplete, MarkCommit
<1>3. ASSUME NEW r \in Runs, RunProgress(r) \/ (RunFault(r) /\ UNCHANGED syncVars)
      PROVE  [Log!Next]_entries
  <2>1. CASE RunStep(r) \/ RunFault(r)
    BY <2>1, RunStepIsTold DEF TablesInv
  <2>2. CASE LockOutdated(r) \/ DeadlockWithSync(r)
    BY <2>2, QuietEntries DEF LockOutdated, DeadlockWithSync, RunMoves
  <2>. QED
    BY <1>3, <2>1, <2>2 DEF RunProgress, BeginView, LockBatch, RunStep
<1>4. CASE OtherStep
  <2>1. [Next]_vars
    BY <1>4 DEF OtherStep, Next
  <2>. QED  BY <2>1, StepIsTold DEF TablesInv
<1>. QED
  BY <1>1, <1>2, <1>3, <1>4
  DEF OtherStep, StartInvestigation, InvestigationProgress, WriteBeside,
      SyncNext, SyncProgress, SyncFetch, SyncPersist, SyncUpdate, MarkUpdate, MarkExpired,
      SyncDeadlock, SyncRaise, SyncDie, SyncMoves, allVars, vars

\* The journal implements AuditLog beside a sync as well: whatever the outcome
\* of the sync, it tells one event or nothing.
THEOREM SyncJournalIsAuditLog == SyncSpec => LogSpec
<1>1. TablesInv /\ TablesInv' /\ SyncInv /\ [SyncNext]_allVars => [Log!Next]_entries
  BY SyncStepIsTold
<1>2. SyncInit => Log!Init
  BY InitEntries DEF SyncInit
<1>. QED
  BY <1>1, <1>2, InitSyncInv, NextSyncInv, PTL DEF SyncSpec, LogSpec, Log!Spec
=============================================================================
