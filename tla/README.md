# RoboRecon: a TLA+ development

RoboRecon reconciles a merchant's ledger with Razorpay activity and bank
settlements. A FastAPI service (`apps/api`) keeps everything in PostgreSQL; a
React client (`apps/web`) reads it. This directory holds TLA+ models of the
service, the TLC runs that check them on small instances, and theorems about
them that TLAPS checks for every value of the constants. Paths below are
relative to `apps/api/app/` unless they start with `apps/`, `README.md` or
`CONTEXT.md`.

## 1. Inventory

Every HTTP request has one SQLAlchemy `AsyncSession` (`database.py`) and
therefore at most one transaction at a time. Transactions are READ COMMITTED,
except the one of a reconciliation run, which is REPEATABLE READ. There is no
other shared memory between requests: components interact through rows, row
locks, unique indexes and foreign keys, and through calls in one transaction.

| Component | State it keeps | Operations that change it | Called by / calls | What makes it correct |
|---|---|---|---|---|
| Audit journal (`audit/`) | `AuditEvent` rows, numbered per batch | `append_event`, inside the caller's transaction | every writer below | numbers are 1, 2, 3 ... in commit order; an event is there if and only if what it tells of was committed |
| Reconciliation run (`reconciliation/service.py`) | `ReconciliationRun`, results, match links, exceptions | `run_reconciliation`: check, insert, snapshot, both stages, commit; a failed run on error | client; calls engine, audit, investigator | one run at a time; a run works on one state of the batch; a failure leaves a failed run and nothing else |
| Engine, stage A and B (`reconciliation/engine.py`, `policy.py`) | none (pure) | scoring, candidate selection, settlement chain | run | autonomous outcomes are unambiguous; every source row gets its outcome |
| Exception review (`exception/service.py`) | `ReconciliationException`, human links, result status | `review_exception` (approve, reject) | client; calls metrics, brief, audit | one terminal decision per exception; links, result, metrics and audit agree with it |
| Batch Close Brief (`reconciliation/close_brief.py`) | `BatchCloseBrief` | `assess_batch_close` (two transactions around provider I/O), `mark_latest_brief_stale` | client, review; calls provider, audit | no open work omitted, stale when decided upon later, one generation at a time, every generation ends |
| Evaluation (`evaluation/service.py`) | `ReconciliationRun.metrics` | `evaluate_run` on a reader's first visit, `_adjust_metrics` from reviews | client, review | the report counts what the rows say |
| AI investigator (`ai/`) | `AIInvestigationRecord` | `investigate_exception`, `investigate_completed_run` (provider rounds, tools, fallback) | client, run; calls audit | advisory: never changes an outcome; what is answered is saved |
| Razorpay sync (`razorpay/router.py`, `adapter.py`, `demo/source_service.py`) | `Batch`, the source tables | `sync_snapshot`: open the batch, fetch, persist or mark failed | client; calls audit | a batch completes with all of its rows or fails with none |
| Demo reset (`demo/`) | everything | `reset_demo` clears the tables and loads the benchmark | client; calls audit | all or nothing |
| Ledger read model (`ledger/read_model.py`), copilot (`copilot/`), batch list (`batch/`) | none | queries only | client | reads are consistent with the rows |
| Schema upgrade (`database_init.py`) | schema, sequence numbers of old events | `initialize_database` before the API serves | operator | renumbering keeps order |
| Web client (`apps/web`) | query cache | mutations and invalidation | user | views follow the server |

What is hard in this code: requests that overlap on rows of one run or batch
and hold different locks in different orders; work done between two
transactions (a brief, a sync) that others do not wait for; snapshots that are
outdated when they are used (a brief's, an evaluation's, a run's
`max(sequence)`); deadlocks whose victim swallows the error; failures after
which only part of the work is undone; process deaths between two transactions;
and, in the engine, an order of entries and payments that decides who takes a
record, and thresholds that stand in for evidence.
`PROJECT.json` lists each of these as a hazard with the line where it bites and
the properties that cover it.

## 2. Modules

| Module | Models | Checked by | Proved in |
|---|---|---|---|
| `ReviewClose` | reviews, close briefs and evaluations over one completed run | `MCReviewClose` | `ReviewCloseProofs`, `CloseBriefProofs` |
| `Casework` | the promise of reviews: one terminal decision per exception | refinement from `ReviewClose` | `ReviewCloseProofs` |
| `BatchJournal` | runs, investigations and other writers over one batch's row and journal | through `MCSourceSync` | `JournalProofs` |
| `AuditLog` | the promise of the journal: an append-only log of whole stories | refinement from `SourceSync`, proved also from `BatchJournal` | `JournalProofs` |
| `SourceSync` | a Razorpay sync composed with the runs of `BatchJournal` on its batch | `MCSourceSync` | `JournalProofs` |
| `StageA` | `reconcile_stage_a`: ledger entries against payments and refunds | `MCEngine` | `EngineProofs` |
| `StageB` | `reconcile_stage_b`: captured payments against settlements and bank credits, and the engine of both stages | `MCEngine` | `EngineProofs` |
| `BriefDraft` | what a close brief says: the provider's answer, its validation, the fallback, themes and plan; on top of `ReviewClose` | `MCBriefDraft` | `CloseBriefProofs` |
| `RunRows` | the rows that completed runs of one batch leave, and what reviews do to them | through the next two | `OutcomesProofs` |
| `RunMetrics` | the stored evaluation report: computed, adjusted by reviews, computed anew | `MCOutcomes` | `OutcomesProofs` |
| `LedgerView` | which relationship of a source row the transactions view shows | `MCOutcomes` | `OutcomesProofs` |
| `Investigation` | AI investigations: providers, tools, fallback, portfolio, their transaction, and reviews of the same run | `MCInvestigation` | `InvestigationProofs` |
| `RazorpayFetch` | the fetch of a snapshot from Razorpay, page by page, and its mapping | `MCRazorpayFetch` | `RazorpayFetchProofs` |

`SumTheorems` has the lemmas about sums over finite sets that three of the proof
modules share.

### ReviewClose

One completed run. Constants are its exceptions (those with a result, those
with money) and the requests: each element of `Reviews`, `Assessments`,
`Evaluations` is one HTTP request. `status`, `reviewedAt`, `reviewedBy` are the
columns of `ReconciliationException`; `systemLinks` and `humanLinks` the
`MatchLink` rows; `noMatch` the results set to `confirmed_no_match`; `metrics`
the `open_exceptions` of the run's stored report; `brief` the `BatchCloseBrief`
rows; `audit` the events of these handlers.

* A review is `ReviewReceive` (it takes `reviewed_at`), `ReviewLock` (the
  exception is locked, checked, and the human link of an approval flushed, which
  takes FOR KEY SHARE on the run), `ReviewCommit` (the run is locked, metrics
  adjusted, the brief marked stale, the event appended, COMMIT), or one of the
  refusals. `ReviewDeadlock` is the deadlock of two approvals: both share the
  run row, both want it FOR UPDATE. `ReviewCrash` is a process death.
* An assessment is `AssessAdmit` (lock the run FOR UPDATE, look for a brief that
  is being generated), `AssessStart` (take the snapshot, insert and commit the
  placeholder), `AssessGenerate` (the provider), `AssessComplete` (write the
  brief, compare `max(reviewed_at)` with `captured_at`, append the event),
  `AssessConflict` or `AssessCrash`. Whoever wants the run row, another
  assessment, a review or the write of an evaluation, waits from the look to the
  insert (`HoldsRun`, `RunOpen`); the others go on. The partial unique index on
  generating briefs is not in the model: it never has anything to refuse.
* An evaluation is `EvalStart`, `EvalRead`, `EvalWrite`: it locks nothing.

Time is one host's clock (`clock`), advanced by `Tick` up to `MaxClock`; two
events may share an instant. Amounts are abstracted to zero or not (`Priced`),
which is what the posture depends on. The contents of a draft are in
`BriefDraft`: the posture and the covered exceptions are computed from the
snapshot, whatever the provider answers.

### BriefDraft

`ReviewClose` with one more variable, `content`, the mode, themes and money each
assessment writes; `Generate` is `AssessGenerate` with an answer of the provider.
An answer is a sequence of themes (an error is an answer without themes), and
`Answers` the set of what a provider may say. `Valid` is
`validate_provider_response`, `Grouped` the deterministic fallback, `Planned` the
server's work on either: exposure, priority by exposure, count, risk and title,
and the citations a theme lacks. Texts are left out, a title counts by its
order; which of several faults is reported is abstracted, because each leads to
the fallback. Themes of an answer are numbered, those of the fallback are keyed by what
groups them.

### RunRows, RunMetrics, LedgerView

`RunRows` has the result rows of each completed run of a batch with their links
and, because a result that is not autonomous has exactly one exception, the
decision on it as a field; `quarantine` has the exceptions of records that were
not parsed. Runs exclude each other and reviews lock what they read
(`BatchJournal`, `ReviewClose`), so that each is one step here. An evaluation is
one step too, although it locks nothing: what reviews do between its reads and
its write is in `ReviewClose` (`MetricsNeverUndercount`, and the run
`metrics_lost_update`), and `RunMetrics` speaks of them one after another. What the engine
returns is a constant of the shape `StageA` and `StageB` produce, and `engine`
remembers it for comparison.

`RunMetrics` adds the report stored on each run. `Report` is `evaluate_run`:
each result is attributed to a case of the ground truth (`CaseOf`), cases are
judged (`Correct`, `Resolved`, `FinanciallyResolved`, `Recalled`), links counted,
and the rates, classes, stages and acceptance checks derived. `Adjusted` is
`_adjust_metrics`. `DeployVersion` makes stored reports outdated, so that the
next visit computes them anew. Rates are in hundredths of a percent, rounded half
up. Results of one run have random ids; where the code depends on their order
(the review that speaks for a case), the model takes that of the rows.

`LedgerView` is one query over `RunRows`: the relationships of a source row to
results, links and exceptions, and the order that decides which is shown. Rows a
run inserts share `created_at`; what only random ids order is a set of
candidates, each of which may be shown.

### Investigation

A request investigates one exception (`StartOne`, the endpoint) or a portfolio
(`StartPortfolio`, after a run), one exception after another in one transaction.
`ask[r]` is its progress: the queue, the provider and round, what the tools have
told this provider (`results`), the trace over all providers; the provider after
the last is the fallback. `Ask` is one answer of a provider: a failure, a
recommendation or a tool call, which `Refusal` admits or refuses in the order of
the code. `tx[r]` is what the transaction has written, or that it is aborted:
`AuditFails` is the error that `_audit_investigation` swallows, `PersistFails`
the one that is taken for a failure of the provider. Locks follow from it: a
flushed record shares its exception, the run and the batch (foreign keys), the
first event takes the batch FOR UPDATE; of reviews only their locks are here.
The texts an answer consists of, confidence and explanation, are left out; what
it cites is not.

### RazorpayFetch

`known` is how much of its history each of the five collections has at the
provider, `at`, `skip` and `page` where the fetch is, `fetched` the places in the
history of what it has. `Arrive` adds the next record to a list, which is
shown newest first: that and a short page only at the end are assumptions about
Razorpay. `NextPage`, `NextCollection`, `Reject` and `Map` are the four
ways a response is taken, `ResponseFails` is every invalid one. `Snapshot` maps
records to rows, `MappingEnds` says how it ends: rejected, an uncaught error, or
fetched, the outcomes `SourceSync` goes on from. A record that changes while it
is fetched is not modelled.

### BatchJournal

One batch. `journal` is the committed events in commit order, each with the
`sequence` it was given; `row` the committed run rows; `saved` the committed
investigations. A run's `seen` is the `max(sequence)` of its snapshot. The lock
on the batch row is read off the requests' progress: after its insert a run
shares it (foreign key), from its first `append_event` on it owns it; a flushed
investigation shares it; `Write` (a review or a close brief at its end) takes
and releases it. `IndexFree` is the partial unique index on running runs, at
which an insert waits for the other transaction; `Taken` is the unique index on
`(batch_id, sequence)`. `RunCommit` stands for everything between the snapshot
and COMMIT: the transaction holds the batch row FOR UPDATE throughout, so
nothing that shares the batch can be interleaved. Two sharers that both want
FOR UPDATE are deadlocked; either may be the victim.

### SourceSync

`BatchJournal`'s runs meet a sync that is between its transactions. The module
adds the batch's status, its source rows (none or all), the sync's progress and
what each run's snapshot saw; it keeps the runs' actions, adds the sync to what
`RunLock` and `RecordCommit` wait for, and adds the two ways in which a run
loses to it (`LockOutdated`: REPEATABLE READ refuses to lock an updated row;
`DeadlockWithSync`). A transaction of the rows that fails goes through
"unpersisted" to `MarkExpired`, the second call of `mark_failed`, which raises
before it writes. An investigation needs an exception, which only a run over
committed rows leaves (`Investigable`), and so comes after the sync; a close
brief needs no more than a completed run, so its append may wait for the sync
(`WriteBeside`). The module is the whole of what happens to a batch and its
journal, and its run is the one that checks `BatchJournal` as well.

### StageA

`batch` is what the run's snapshot read; it never changes. `MatchEntry` is one
turn of the loop over the ledger entries and appends to `outcomes`; `considered`
and `reserved` are the loop's two sets of record ids; `ReportMissing` is the
walk over the records that follows and sets `missing` and `done`. The operators
carry the names of what the code computes: a candidate per payment and refund
(`Pool`), its evidence for an entry (`Exact`, `SimilarBy`, `AmountMatches`,
`Score`), the eligible ones, the margin to the next best, the status, and
`CanAutoResolve` of `policy.py`. Scores are integers in points of a hundred and
amounts integers in the smallest unit, as in the code. Two things are
abstracted: what difflib says of two normalised references is a parameter
(`Ratio`, `TextRatio`, in percent), and business times count in days. Record ids
are numbers in the order of the UUIDs, by which the snapshot is sorted. Two
payments may carry one provider identifier (the last is the parent of a refund,
as in the dictionary the code builds); orders may not. The evidence records that
explain an outcome are left out, the decision is not.

### StageB

After `done`, `SettlePayment` is one turn of the loop over the captured payments
and appends to `settled`; `used` is the loop's set of reserved resources.
A payment has one case per settlement with a line that names it; a case follows
that settlement to the later ones that release what it holds, and each of them
to its bank credit. `MathContradictions`, `BankContradictions` and
`CaseContradictions` name the contradictions the code records, `CaseScore` its
points, `CaseStatus` the order in which it looks at them. The arithmetic of a
settlement (which lines count, with which sign, held and released value) is
that of the code. `EngineSpec` is a whole run of the engine: stage A's steps,
then stage B's, over one batch.

### Assumptions about what is not in the repository

PostgreSQL: a foreign key check takes FOR KEY SHARE on the referenced row; FOR
UPDATE conflicts with it and with everything else, an UPDATE of other columns
only with itself and FOR UPDATE; an insert that meets an uncommitted entry of a
unique index waits for it; a REPEATABLE READ snapshot is taken by the first
statement; deadlocks are detected and abort one of the waiting transactions;
COMMIT of an aborted transaction is a rollback. SQLAlchemy: a SELECT flushes
pending changes first; rolling back `session.begin()` expires the objects of
the session whatever `expire_on_commit` says, and an expired attribute cannot be
loaded outside the session's greenlet.

## 3. Runs

`CHECK_DEADLOCK FALSE` throughout: a system whose requests are all answered
stops.

| Run | Question | Bounds and why they are enough |
|---|---|---|
| `review_close` | do decisions, links, audit and briefs agree under any interleaving, and do reviews implement `Casework` | 2 reviews, 2 assessments, deaths, 3 instants, 3 exceptions (with result and money, with result only, quarantined): two reviews meet on one exception or on the run row, an assessment overlaps a review and another assessment |
| `review_flow` | can the stored count hide an open exception, can a brief omit open work or its money, is everyone answered | 2 reviews, 2 assessments, 1 evaluation, 2 exceptions (one with money), 1 instant, no deaths, and a provider that sorts both exceptions, only one, one of them twice, cites a row of the other, or fails: an evaluation that reads before and writes after a review, two approvals that deadlock |
| `source_sync` | numbering, journal against rows, serial runs, status and answer of a sync however it ends, refinement of `AuditLog`, termination | 3 runs, two of which may fail or die, 1 investigation and the sync, which may too, and 1 other writer: a run before, one during and one after the sync; two runs that overlap; deadlocks of the sync with a run and of an investigation with a run's first event |
| `engine` | what does the engine close without a human, and what does it report missing | 13,267 batches, each walked through both stages. Stage A: up to two entries over up to two payments with every mix of receipt, amount, capture and order; two entries over three payments; up to two entries over up to two refunds of one payment. Stage B: one or two payments or two rows of one; refunds that repeat an identifier; a fee of either sign; a hold with no, a partial, an early, a full release; a second settlement that names the payment again; bank credits missing, exact, off, doubled, or only near |
| `outcomes` | do the stored report and the transactions view agree with the rows, in any order of reviews, first visits and new report versions | 2 runs of one batch, with and without ground truth, 1 quarantined record, 2 report versions: one case with an exception in each stage, one result of another case that pays itself from the same settlement; the later run closes what the first left open |
| `investigation` | is what is saved grounded and journaled, and does everyone end | 2 requests (each for one exception or the portfolio of two), 1 review, 2 providers, 2 rounds, failing statements and deaths: a second provider after a first that had used a tool, two requests that both want the batch, a portfolio and a review that wait for each other |
| `razorpay_fetch` | is a snapshot complete while the lists grow | pages of 2, at most 2 of them, and lists of 1 to 4 records: lists that end at, before and after a page, at the last page allowed, an arrival between any two responses |

The bounds are small because each of them only has to let every conflict happen
once: every safety invariant and action property of the passing runs, and every
refinement, is also proved for every value of the constants (section 4), so that
TLC alone answers for liveness. The engine's operators were compared with the Python
engine on every batch of `MCEngine`; they agree on all outcomes.

`ReviewsAnswered`, `GenerationsComplete`, `RequestsEnd`, `SyncEnd` and
`InvestigationsEnd` assume weak fairness of each accepted request's own steps:
the event loop resumes every coroutine, a lock is granted once it is free
(PostgreSQL queues waiters), the deadlock detector runs, and provider I/O ends
by the clients' timeouts. Arrival of a request, failure and death are never
fair (`Fallible` says which requests may fail or die); where a run has deaths, the properties say that a request ends or its
process dies. In `review_flow` the fairness is that of `ReviewClose`, with the
contents of briefs on top. `ReviewsAnswered`, `RequestsEnd` and
`InvestigationsEnd` hold because a deadlock is broken, not because it cannot
happen: their mutants remove the detector or leak a lock.

Runs that expect a violation each check one statement of the documentation, the
comments or the tests that the code does not keep:

| Run | Statement | What happens |
|---|---|---|
| `brief_staleness_gap` | README.md:26, a later decision marks the latest brief stale | `reviewed_at` is taken before the review waits; one that commits while the brief is generated goes unnoticed |
| `metrics_lost_update` | CONTEXT.md:62, open exceptions have no decision yet | a review between the reads and the write of an evaluation is counted as open for good |
| `sync_left_running` | `razorpay/router.py:40`, an "explicit success/failure lifecycle", and tests/test_razorpay_adapter.py:400, a failed persistence leaves a failed batch, its event and a 502 | `mark_failed` reads the id of an object that the rollback has expired and raises: the batch stays running, nothing is journaled, the answer is a 500 |
| `autonomous_duplicate` | tests/test_reconciliation_engine.py:324, a duplicate is not autonomous | the status looks at every candidate, the autonomy only at the best one: an entry may be a duplicate and closed at once |
| `money_counted_twice` | CONTEXT.md:101, Money Reconciled is the value of ledger entries closed, without double counting | approving the exceptions of both stages of a case adds its amount twice |

Further observations, which no run states as a property:

* A rejection rewrites the result and deletes the system links of a completed
  run (`exception/service.py:278-288`); CONTEXT.md:43 calls results immutable
  after completion. `Casework` and `LinksFollowDecision` describe what it does.
* Overlapping runs are neither refused nor carried out. The check for a running
  run (`reconciliation/service.py:400-411`) sees committed rows only, and a
  running row never is one; the insert waits at the unique index, the run then
  fails at its first event, on an outdated sequence number (line 439), is
  recorded as failed and answered with a 500, where
  tests/test_reconciliation_lifecycle.py:126 and the router's 409 have
  `RunAlreadyRunning`. `CompletedRunsAreSerial` and `JournalMatchesRows` say what
  remains of such a run.
* A run may start and complete on a batch whose sync has not committed its rows
  yet (`reconciliation/service.py:398-399` checks that the batch exists, not its
  status). `RunsReadJournaledSource` says what such a run has read.
* Stage A prefers the higher score: a record with a similar reference and the
  right amount can beat one that carries the entry's exact reference and
  another amount. `IdentifiersAreUnrivalled` is what remains true.
* A record that was merely considered for some entry is never reported missing
  from the ledger; one that was eligible through its digits alone is not
  considered, so it may be selected for an entry and reported missing as well.
  Such an outcome is at most ambiguous: `MissingIsUnclaimed` is about matches
  and exact references.
* One bank credit may verify two settlements with the same UTR and amount: the
  code reserves payments, refunds and lines, not credits.
* A payment that two settlements name is closed without a human when one case
  is verified and the other contradicts it by fifteen points.
* A failed persistence is not the only end of a sync that leaves its batch
  running for good: a timestamp that `datetime` cannot hold raises a
  `ValueError` in the fetch that nothing catches, and `mark_failed` after a
  rejected fetch may fail itself. `StatusTellsSource` says what such a batch is:
  empty, without an event of its end, and not answered with a 200 or a 502.
* The error of an investigation's events is swallowed (`ai/investigator.py:403`);
  if it was the database's, COMMIT is a rollback: the answer is a 200, and
  nothing is saved, nor in a portfolio anything before it. An error at the
  insert of the record is taken for the provider's, and the next one is asked.
* A process death between the two transactions of an assessment leaves a
  generating brief that refuses every later assessment (`close_brief.py:631`),
  though README.md:26 lets a user reassess.
* A portfolio reads the open exceptions once: one decided meanwhile is still
  investigated; and it keeps the batch row locked while it asks about the next.
* A provider's citation of one of its exceptions that gives a source type and no
  source id is not compared with anything (`close_brief.py:399`).
* A rejected result lowers what a later report says of exceptions recalled, and
  may leave its case together with its links: rates that count whole cases can
  rise or fall when the report is computed anew. `MatcherScoresStand` is what
  does not. The figures per class are never adjusted by reviews, while those of
  the stage and the unresolved cases are also taken down for cases that nothing
  should match.
* In the transactions view a candidate a human has approved still shows as
  unreconciled, because the result keeps its status.
* A Razorpay list of exactly page size times the page limit is refused, though
  nothing is missing. What an arrival shifts to the next page is fetched twice,
  and nothing removes it: doubled recon rows are doubled settlement lines and
  held amounts. A settlement that was created after its list was read is made up
  of its recon rows, with the amount zero; an order created then leaves its
  payments with the order id as receipt. The recon list is that of one month,
  and a synced batch has no bank credits, so that stage B settles none of it
  alone.
* Two concurrent demo resets: the second deletes what its snapshot of each
  statement shows, meets rows the first has inserted meanwhile, and fails on
  foreign keys, which do not cascade.

Every property of a passing run has a mutant of a mapped definition that
violates it (`PROJECT.json`, `mutants`); mutants are defined next to what they
change and marked as such.

## 4. Proofs

All theorems hold for every value of the constants that satisfies the named
assumptions (finite exceptions and assessments, disjoint sets of requests,
amounts that are integers). A property of the runs is seldom inductive: each
proof names the invariant that is, and what the property alone does not say.

* `ReviewCloseProofs`: `TypeCorrect`, `ReviewsStand`, `LinksAgree`,
  `ImplementsCasework`. The invariant is `DecisionInv`: an exception is locked
  by at most one review (`LockExclusive`), a review that holds its lock has
  found the exception open and it still is (`LockedStillOpen`), an exception is
  open exactly while it has no decider (`OpenUndecided`), and the decider is the
  review that was answered (`DecidersAnswered`). `AnsweredReviewStands` alone is
  not inductive: it does not say why a second review cannot commit.
* `CloseBriefProofs`, the workflow: `StaleMarked`, `BriefsCover`,
  `OneBriefGenerated`, `AuditTellsDecisions`, `MetricsSafe`. Of any number of
  assessments one at most is between its look for a generating brief and the end
  of that brief: the lock on the run excludes others up to the insert, the row
  from there on, also when the process has died. Everything rests on
  one lemma, a commit only shrinks the open exceptions and the unresolved money
  (`CommitShrinksWork`), and on `BriefInv`, which ties a brief's row to its
  request and its snapshot, and times reviews by the clock. The audit trail is
  kept as the set of its events (`AuditInv`): a commit appends one about an
  exception that had none, since it was open, a completion one of a brief that
  was still generating. For metrics, `SeenNeverUndercounts` says that what an
  evaluation has read and not written yet is no undercount either.
* `CloseBriefProofs`, what a brief says: `AnyAnswerIsAccounted`,
  `DraftImplementsReviewClose`, `BriefsAccountForOpenWork`. A valid answer, the
  fallback and no answer at all each cover the open exceptions once
  (`SuggestedCovers`, `GroupedCovers`), which the server's additions keep
  (`PlannedPartition`). The keys of the plan are in a strict total order
  (`LessTransitive`, `LessTotal`), so that a priority, which counts what is
  ahead, goes by exposure (`PlannedByExposure`). Exposures of disjoint themes
  add up to the money of their union (`ThemesAddUp`), and what has no price
  adds nothing (`MoneyOfPriced`). That the completed brief says it of the
  exceptions of its row needs `DraftInv`: a snapshot's open and priced
  exceptions are among its unresolved ones (`SnapshotPriced`), and what was
  generated accounts for the snapshot it was generated from.
* `JournalProofs`, `BatchJournal`: `TypeCorrect`, `SequenceCorrect`,
  `SerialRuns`, `JournalTellsRows`, `JournalIsAuditLog`. A run
  numbers its events from an outdated snapshot, so `SequenceIsCommitOrder` needs
  `WorkingIsFresh` (past its first flush, a run's snapshot is the newest state:
  the unique index lets nothing else through) and `LockExclusive` (nobody else
  shares the batch row then, so it stays the newest); `OneRunInFlight`, what the
  index of running runs enforces, is a part of the invariant and nothing more.
  `SerialInv` adds that who
  journaled `run_started` has completed. `StoryInv` says of every run, absent,
  failed or completed, which events are its own and that they stand together.
  For the refinement of `AuditLog` a step appends a whole story or nothing, by
  somebody who had told none (`IdleWritersSilent`).
* `JournalProofs`, `SourceSync`: `RunsBesideSync`, `StatusIsTold`,
  `RunsReadWhatIsTold`, `SyncJournalIsAuditLog`. The steps of the runs, the
  investigations and the other writers keep the invariants above (`TablesInv`),
  as do the sync's own, so that `RunsBesideSync` has types, numbering, serial
  runs and a true journal with all of them; `SyncInv` adds that the
  answer and the event of the sync agree with the batch (`AnswerTellsBatch`,
  `EventTellsBatch`) and that a run has seen rows exactly if the event of the
  sync was in its snapshot of the journal (`ViewIsOfSnapshot`).
* `EngineProofs`, stage A: `TypeCorrect`, `RecordsUsedOnce`, `MatchesSupported`,
  `IdentifiersUnrivalled`, `MissingUnclaimed`. The invariant `StageAInv` ties the
  loop's sets to its outcomes: `reserved` is exactly what autonomous outcomes
  selected (`ReservedBySelection`), whatever was matched or named by an entry is
  in `considered` (`EntriesConsidered`), and `missing` avoids that
  (`MissingOnceDone`). The work is in lemmas about one decision: the best
  candidate is one of the eligible (`OptionsAreChoices`), an autonomous
  selection is not reserved yet (`AutonomousIsFree`), and a match carries a
  reference and no contradiction (`MatchedIsSupported`).
* `EngineProofs`, stage B: `EngineMatches` (the engine's run is a run of stage A,
  so the above holds of it: `EngineRecordsUsedOnce`), `SettleTypeCorrect`,
  `MoneySettledOnce`, `SettledFunded`, `HoldsReleased`. The policy decides on a
  score; that the score cannot be reached by a case with a contradiction is
  arithmetic over all its parts (`ScoreIsNotEnough`: an unverified case stays at
  85 at most), from which `AutonomousIsBacked` follows. `SettledOnce` is not
  inductive: `ClosedAreBacked` keeps the resources of a closed payment in `used`,
  so that a later payment with one of them collides, which is what
  `ResourcesAreDisjoint` needs. The sums of a settlement's lines are compared,
  never evaluated: what the code found equal is what the properties name.
* `OutcomesProofs`: `RowsTypeCorrect`, `ViewTellsReviews`,
  `OpenExceptionsAreCounted`, `MatcherIsScoredAlone`. `RowInv` says that an
  autonomous row is what the engine returned (`AutonomousStand`): reviews and
  only reviews change a row, and only one with an exception. `ViewShowsOpenWork`
  then follows from what may be shown and in which order. `MetricInv` says of
  the report stored on each run how its counts relate to the rows now
  (`ReportTrue`): a decision takes one exception off the rows and one off the
  report, and the scores of the matcher are of autonomous rows, so that no
  decision moves them.
* `InvestigationProofs`: `GroundInvariant`, `RecommendationsAreGrounded`,
  `StoryInvariant`, `JournalTellsOfInvestigations`. The trace runs over all
  providers and does not say whose an item is, so `GroundInv` speaks of the calls
  after the last failure: they read what the present provider has been told, and
  what is written or saved was recommended on those grounds. `StoryInv` adds
  what a transaction holds before it commits: its events tell of its records,
  but for the one whose events are still to be written (`Told`), the queue has
  no exception twice and none that was written about (`QueueOK`), and an aborted
  transaction holds nothing (`TxTells`). Without the queue, one exception
  investigated twice in a portfolio could not be excluded.
* `RazorpayFetchProofs`: `FetchInvariant`, `SnapshotIsComplete`,
  `RepeatsBounded`, `NothingIsFetchedTwice`. A list counted from its newest
  record moves under the fetch; the invariant says that each record that was
  there when the fetch of its collection began is fetched, or at a place the
  coming pages reach (`Underway`), for a skip that only counts what was fetched.
  Repetitions are bounded by counting places. Where nothing arrived, what was
  fetched is the history in another order (`EachPlaceOnce`), so that held
  amounts, which are sums, are those of the history (`HeldOnce`).
* `SumTheorems` proves of `MapThenSumSet` what the last and the brief need: a
  sum does not depend on the order in which it is computed (`SumsRemove`,
  `SumsAgree`), is that of its parts (`SumOfParts`) and does not change under
  other names (`SumRenamed`). The induction over a finite set that these take
  goes over a set of subsets (`BySize`), not over an operator.

Only model-checked is liveness (`ReviewsAnswered`, `GenerationsComplete`,
`RequestsEnd`, `SyncEnd`, `InvestigationsEnd`): it rests on fairness and
ENABLED, which TLAPS does not reason about. The runs that expect a violation
refute one statement each, for which their instance is enough.

## 5. The plan, and what is not modelled

Every safety property of the runs is proved. What may follow is more to prove:
with `SumTheorems`, that the settlements closed together are worth what the bank
credited for them; and of the reports, that counts and rates computed anew stay
within their bounds.

Partly modelled: a run's engine input (how source rows become `StageA`'s and
`StageB`'s batch) and the evidence written with results; the HTTP requests and
the parsing of the two provider clients; the listing around the transactions
view. A model of these would copy field names from one record to another.

Not modelled, for good: the demo reset, one transaction of unconditional deletes
and inserts whose races PostgreSQL decides by foreign keys and snapshots; the
copilot, the batch list and the other listings (queries without state); the
schema upgrade (runs before the API serves); configuration and wiring; formatting
and schemas; the `common/code_generator.py` helper (unused); the benchmark data
set; and the web client, whose query cache nothing depends on.
