---------------------------- MODULE ReviewClose ----------------------------
(***************************************************************************)
(* The human half of one completed reconciliation run: reviewers decide    *)
(* its exceptions, assessors ask for a Batch Close Brief over it, and a    *)
(* reader's first visit evaluates it.  All three write rows of the same    *)
(* run in separate PostgreSQL transactions (READ COMMITTED), one per HTTP  *)
(* request, except that an assessment uses two with provider I/O between   *)
(* them.  Every element of Reviews, Assessments and Evaluations is one     *)
(* HTTP request, taken from its arrival to its answer.                     *)
(*                                                                         *)
(* A step is a transaction, or the part of one between two row locks that  *)
(* another request can be waiting for.  The locks are read off the process *)
(* states: a "locked" review holds its exception FOR UPDATE and, when it   *)
(* approves, FOR KEY SHARE on the run row (the foreign key of the          *)
(* MatchLink it has flushed), which blocks every FOR UPDATE of the run; an *)
(* "admitted" assessment holds the run row FOR UPDATE.                     *)
(***************************************************************************)
EXTENDS Integers, FiniteSets, Sequences

CONSTANTS
    Exceptions,   \* the exceptions the run persisted
    WithResult,   \* those that belong to a result (a quarantined row has none)
    Priced,       \* those whose amount is not zero
    Reviews,      \* POST /exceptions/{id}/review requests
    Assessments,  \* POST /reconciliation-runs/{id}/close-brief requests
    Evaluations,  \* requests that find the run's metrics missing
    MaxClock,     \* bound on the clock
    Fallible,     \* may an assessment die between its two transactions
    NoReview,     \* the reviewed_by of an undecided exception
    UnknownId     \* an exception id that no row has

ASSUME ExceptionsAssumption ==
    /\ IsFiniteSet(Exceptions)
    /\ WithResult \subseteq Exceptions
    /\ Priced \subseteq WithResult
    /\ UnknownId \notin Exceptions

ASSUME RequestsAssumption ==
    /\ IsFiniteSet(Assessments)
    /\ NoReview \notin Reviews
    /\ Fallible \in BOOLEAN
    /\ MaxClock \in Nat

VARIABLES
    clock,       \* datetime.now(timezone.utc), shared by every handler
    status,      \* ReconciliationException.status
    reviewedAt,  \* ReconciliationException.reviewed_at, NoTime when null
    reviewedBy,  \* ReconciliationException.reviewed_by
    systemLinks, \* exceptions whose result still has its system MatchLinks
    humanLinks,  \* human_approved MatchLinks, as <<exception, review>>
    noMatch,     \* exceptions whose result became confirmed_no_match
    metrics,     \* open_exceptions of ReconciliationRun.metrics, or NoMetrics
    brief,       \* BatchCloseBrief rows, one per assessment
    audit,       \* the audit events of these handlers, in sequence order
    review,      \* progress of each review request
    assess,      \* progress of each assessment and the snapshot it holds
    eval         \* progress of each evaluation and the rows it has read

reviewVars == <<status, reviewedAt, reviewedBy, systemLinks, humanLinks, noMatch>>
vars == <<clock, reviewVars, metrics, brief, audit, review, assess, eval>>

-----------------------------------------------------------------------------
NoTime == 0
NoMetrics == -1

Actions == {"approve", "reject"}
Decided == {"approved", "rejected"}
Decision(action) == IF action = "approve" THEN "approved" ELSE "rejected"

ReviewStates == {"idle", "received", "locked", "answered", "conflict",
                 "invalid", "missing", "aborted"}
AssessStates == {"idle", "admitted", "generating", "generated", "answered", "conflict",
                 "crashed"}
EvalStates == {"idle", "started", "read", "answered"}
Postures == {"ready", "review required"}

ReviewRecord ==
    [pc: ReviewStates, exc: Exceptions \cup {UnknownId}, action: Actions, candidate: BOOLEAN, at: Nat]
BriefRecord ==
    [state: {"absent", "generating", "completed"}, open: SUBSET Exceptions,
     posture: Postures, created: Nat, generatedAt: Nat, staleAt: Nat]
AssessRecord ==
    [pc: AssessStates, open: SUBSET Exceptions, unresolved: SUBSET Exceptions,
     capturedAt: Nat, generatedAt: Nat]
AuditEvent ==
    [type: {"review.approved", "review.rejected"}, exc: Exceptions, actor: Reviews]
        \cup [type: {"batch.close_brief.generated"}, brief: Assessments]

Open == {e \in Exceptions : status[e] = "open"}

\* _money_totals: an approved exception leaves the unresolved money, a rejected one stays
Unresolved == {e \in Priced : status[e] # "approved"}

Exists(a) == brief[a].state # "absent"
Completed(a) == brief[a].state = "completed"
Generating(a) == brief[a].state = "generating"

\* ORDER BY generated_at DESC, created_at DESC
Newer(a, b) ==
    \/ brief[a].generatedAt > brief[b].generatedAt
    \/ /\ brief[a].generatedAt = brief[b].generatedAt
       /\ brief[a].created > brief[b].created

IsLatest(a) ==
    /\ Completed(a)
    /\ \A b \in Assessments \ {a} : Completed(b) => Newer(a, b)

-----------------------------------------------------------------------------
(* Row locks.                                                              *)

\* Mutants: the SELECT loses its FOR UPDATE; an error no longer rolls back
ExceptionUnlocked(e) == TRUE
ExceptionLeaked(e) ==
    \A r \in Reviews : ~(review[r].pc \in {"locked", "conflict", "invalid"}
                           /\ review[r].exc = e)

\* SELECT ... FOR UPDATE of the exception row would not wait
ExceptionFree(e) ==
    \A r \in Reviews : ~(review[r].pc = "locked" /\ review[r].exc = e)

\* Mutant: a failed transaction keeps its lock on the run
SharesRunLeaked(r) ==
    review[r].pc \in {"locked", "aborted"} /\ review[r].action = "approve"

SharesRun(r) == review[r].pc = "locked" /\ review[r].action = "approve"

\* Mutant: the SELECT of the run loses its FOR UPDATE
HoldsNothing(a) == FALSE

HoldsRun(a) == assess[a].pc = "admitted"

\* Nobody holds the run row FOR UPDATE: a FOR KEY SHARE or an UPDATE would not wait
RunOpen == \A a \in Assessments : ~HoldsRun(a)

\* SELECT ... FOR UPDATE of the run row would wait for nobody but the holders in own
RunFree(own) == RunOpen /\ \A r \in Reviews \ own : ~SharesRun(r)

-----------------------------------------------------------------------------
Init ==
    /\ clock = 1
    /\ status = [e \in Exceptions |-> "open"]
    /\ reviewedAt = [e \in Exceptions |-> NoTime]
    /\ reviewedBy = [e \in Exceptions |-> NoReview]
    /\ systemLinks = WithResult
    /\ humanLinks = {}
    /\ noMatch = {}
    /\ metrics = NoMetrics
    /\ brief = [a \in Assessments |->
                  [state |-> "absent", open |-> {}, posture |-> "review required",
                   created |-> 0, generatedAt |-> NoTime, staleAt |-> NoTime]]
    /\ audit = <<>>
    /\ review = [r \in Reviews |->
                   [pc |-> "idle", exc |-> UnknownId, action |-> "reject",
                    candidate |-> FALSE, at |-> NoTime]]
    /\ assess = [a \in Assessments |->
                   [pc |-> "idle", open |-> {}, unresolved |-> {},
                    capturedAt |-> NoTime, generatedAt |-> NoTime]]
    /\ eval = [v \in Evaluations |-> [pc |-> "idle", seen |-> 0]]

Tick ==
    /\ clock < MaxClock
    /\ clock' = clock + 1
    /\ UNCHANGED <<reviewVars, metrics, brief, audit, review, assess, eval>>

-----------------------------------------------------------------------------
(* review_exception.                                                       *)

\* The handler takes reviewed_at before it asks for any lock.  candidate says
\* whether the posted candidate_id is one of the result's candidates and names
\* a source row of the batch.
ReviewReceive(r, e, action, candidate) ==
    /\ review[r].pc = "idle"
    /\ candidate => action = "approve" /\ e \in WithResult
    /\ review' = [review EXCEPT ![r] = [pc |-> "received", exc |-> e,
                     action |-> action, candidate |-> candidate, at |-> clock]]
    /\ UNCHANGED <<clock, reviewVars, metrics, brief, audit, assess, eval>>

\* An answer that rolls the transaction back: only the request's state changes.
ReviewAnswer(r, answer) ==
    /\ review' = [review EXCEPT ![r].pc = answer]
    /\ UNCHANGED <<clock, reviewVars, metrics, brief, audit, assess, eval>>

\* ReviewNotFound: 404
ReviewMissing(r) ==
    /\ review[r].pc = "received"
    /\ review[r].exc \notin Exceptions
    /\ ReviewAnswer(r, "missing")

\* The locked SELECT has returned the exception row.
ReviewSelected(r) ==
    /\ review[r].pc = "received"
    /\ review[r].exc \in Exceptions
    /\ ExceptionFree(review[r].exc)

\* Mutant: the status check is dropped
AnyStatus(r) == TRUE

StillOpen(r) == status[review[r].exc] = "open"

\* An approval needs one of its result's candidates.
CandidateValid(r) == review[r].action = "approve" => review[r].candidate

\* ReviewConflict: 409
ReviewTooLate(r) ==
    /\ ReviewSelected(r)
    /\ ~StillOpen(r)
    /\ ReviewAnswer(r, "conflict")

\* InvalidReviewCandidate: 422
ReviewInvalid(r) ==
    /\ ReviewSelected(r)
    /\ StillOpen(r)
    /\ ~CandidateValid(r)
    /\ ReviewAnswer(r, "invalid")

\* Lock the exception, validate, change it and flush: every later wait of the
\* transaction is for the run row.  An approval's flush may have to wait for it
\* as well; the exception counts as locked from then on, which is as if its
\* SELECT had come later.
ReviewLock(r) ==
    /\ ReviewSelected(r)
    /\ StillOpen(r)
    /\ CandidateValid(r)
    /\ review[r].action = "approve" => RunOpen
    /\ review' = [review EXCEPT ![r].pc = "locked"]
    /\ UNCHANGED <<clock, reviewVars, metrics, brief, audit, assess, eval>>

\* Mutant: metrics that were never evaluated are adjusted too
AlwaysAdjusted == metrics - 1

\* _adjust_metrics, as far as open_exceptions goes
AdjustedMetrics ==
    IF metrics = NoMetrics THEN NoMetrics ELSE IF metrics > 0 THEN metrics - 1 ELSE 0

\* mark_latest_brief_stale: only the latest completed brief, and only once
MarkedStale(at) ==
    [a \in Assessments |->
        IF IsLatest(a) /\ brief[a].staleAt = NoTime
        THEN [brief[a] EXCEPT !.staleAt = at]
        ELSE brief[a]]

\* Mutant: a rejection leaves the provisional links
AllSystemLinks(e, action) == systemLinks

\* A rejection deletes the result's links by "system", an approval keeps them.
KeptSystemLinks(e, action) ==
    IF action = "reject" THEN systemLinks \ {e} ELSE systemLinks

\* Mutant: one event type for both decisions
ApprovedEvent(r) == [type |-> "review.approved", exc |-> review[r].exc, actor |-> r]

ReviewEvent(r) ==
    [type |-> IF review[r].action = "approve" THEN "review.approved"
              ELSE "review.rejected",
     exc |-> review[r].exc, actor |-> r]

\* Lock the run, adjust its metrics, mark the brief, append the event, commit.
ReviewCommit(r) ==
    LET e == review[r].exc
        action == review[r].action
    IN  /\ review[r].pc = "locked"
        /\ RunFree({r})
        /\ status' = [status EXCEPT ![e] = Decision(action)]
        /\ reviewedAt' = [reviewedAt EXCEPT ![e] = review[r].at]
        /\ reviewedBy' = [reviewedBy EXCEPT ![e] = r]
        /\ systemLinks' = KeptSystemLinks(e, action)
        /\ humanLinks' = IF action = "approve"
                          THEN humanLinks \cup {<<e, r>>} ELSE humanLinks
        /\ noMatch' = IF action = "reject" THEN noMatch \cup ({e} \cap WithResult)
                       ELSE noMatch
        /\ metrics' = AdjustedMetrics
        /\ brief' = MarkedStale(review[r].at)
        /\ audit' = Append(audit, ReviewEvent(r))
        /\ review' = [review EXCEPT ![r].pc = "answered"]
        /\ UNCHANGED <<clock, assess, eval>>

\* Two approvals each hold FOR KEY SHARE on the run and each wait for the other
\* to give it up: PostgreSQL aborts one, which the endpoint answers with a 500.
ReviewDeadlock(r) ==
    /\ SharesRun(r)
    /\ \E s \in Reviews \ {r} : SharesRun(s)
    /\ ReviewAnswer(r, "aborted")

\* The process or its database connection goes away: the transaction rolls back.
ReviewCrash(r) ==
    /\ Fallible
    /\ review[r].pc \in {"received", "locked"}
    /\ ReviewAnswer(r, "aborted")

-----------------------------------------------------------------------------
(* assess_batch_close.                                                     *)

NoneGenerating == \A b \in Assessments : ~Generating(b)

\* _start_assessment locks the run and looks for a committed generating brief.
AssessAdmit(a) ==
    /\ assess[a].pc = "idle"
    /\ RunFree({})
    /\ NoneGenerating
    /\ assess' = [assess EXCEPT ![a].pc = "admitted"]
    /\ UNCHANGED <<clock, reviewVars, metrics, brief, audit, review, eval>>

\* It reads the snapshot, inserts the placeholder and commits.  The unique index
\* on generating briefs has nothing left to refuse (OneGeneration).
AssessStart(a) ==
    /\ assess[a].pc = "admitted"
    /\ brief' = [brief EXCEPT ![a] =
                   [state |-> "generating", open |-> Open, posture |-> "review required",
                    created |-> Cardinality({b \in Assessments : Exists(b)}) + 1,
                    generatedAt |-> NoTime, staleAt |-> NoTime]]
    /\ assess' = [assess EXCEPT ![a] =
                    [pc |-> "generating", open |-> Open, unresolved |-> Unresolved,
                     capturedAt |-> clock, generatedAt |-> NoTime]]
    /\ UNCHANGED <<clock, reviewVars, metrics, audit, review, eval>>

\* CloseBriefConflict: 409
AssessConflict(a) ==
    /\ assess[a].pc = "idle"
    /\ RunFree({})
    /\ ~NoneGenerating
    /\ assess' = [assess EXCEPT ![a].pc = "conflict"]
    /\ UNCHANGED <<clock, reviewVars, metrics, brief, audit, review, eval>>

\* _generate_draft and _artifact, outside every transaction: a provider answer
\* or the fallback, then generated_at
AssessGenerate(a) ==
    /\ assess[a].pc = "generating"
    /\ assess' = [assess EXCEPT ![a].pc = "generated", ![a].generatedAt = clock]
    /\ UNCHANGED <<clock, reviewVars, metrics, brief, audit, review, eval>>

\* Mutant: unresolved money is forgotten
PostureByCount(a) == IF assess[a].open = {} THEN "ready" ELSE "review required"

Posture(a) ==
    IF assess[a].open = {} /\ assess[a].unresolved = {} THEN "ready" ELSE "review required"

\* max(reviewed_at) of the run's exceptions
IsLatestReviewTime(t) ==
    /\ t \in {NoTime} \cup {reviewedAt[e] : e \in Exceptions}
    /\ \A e \in Exceptions : reviewedAt[e] <= t

\* Mutant: a review in the same instant as the snapshot is taken for an older one
StaleAtStrict(a, last) == IF last > assess[a].capturedAt THEN last ELSE brief[a].staleAt

StaleAtCompletion(a, last) ==
    IF last >= assess[a].capturedAt THEN last ELSE brief[a].staleAt

\* The second transaction: _apply_artifact, the comparison with captured_at, audit.
AssessComplete(a) ==
    /\ assess[a].pc = "generated"
    /\ RunFree({})
    /\ \E last \in {NoTime} \cup {reviewedAt[e] : e \in Exceptions} :
          /\ IsLatestReviewTime(last)
          /\ brief' = [brief EXCEPT ![a] =
                         [@ EXCEPT !.state = "completed", !.open = assess[a].open,
                                   !.posture = Posture(a),
                                   !.generatedAt = assess[a].generatedAt,
                                   !.staleAt = StaleAtCompletion(a, last)]]
    /\ audit' = Append(audit, [type |-> "batch.close_brief.generated", brief |-> a])
    /\ assess' = [assess EXCEPT ![a].pc = "answered"]
    /\ UNCHANGED <<clock, reviewVars, metrics, review, eval>>

\* The process goes away, or a transaction fails.  Once the placeholder is
\* committed, nothing in the code finishes or removes it.
AssessCrash(a) ==
    /\ Fallible
    /\ assess[a].pc \in {"admitted", "generating", "generated"}
    /\ assess' = [assess EXCEPT ![a].pc = "crashed"]
    /\ UNCHANGED <<clock, reviewVars, metrics, brief, audit, review, eval>>

-----------------------------------------------------------------------------
(* _evaluate_if_needed and evaluate_run, which take no row lock.           *)

EvalStart(v) ==
    /\ eval[v].pc = "idle"
    /\ metrics = NoMetrics
    /\ eval' = [eval EXCEPT ![v].pc = "started"]
    /\ UNCHANGED <<clock, reviewVars, metrics, brief, audit, review, assess>>

EvalRead(v) ==
    /\ eval[v].pc = "started"
    /\ eval' = [eval EXCEPT ![v] = [pc |-> "read", seen |-> Cardinality(Open)]]
    /\ UNCHANGED <<clock, reviewVars, metrics, brief, audit, review, assess>>

\* run.metrics = report: overwrites whatever a review has put there meanwhile
EvalWrite(v) ==
    /\ eval[v].pc = "read"
    /\ RunOpen
    /\ metrics' = eval[v].seen
    /\ eval' = [eval EXCEPT ![v].pc = "answered"]
    /\ UNCHANGED <<clock, reviewVars, brief, audit, review, assess>>

-----------------------------------------------------------------------------
ReviewStep(r) ==
    \/ \E e \in Exceptions \cup {UnknownId}, action \in Actions, candidate \in BOOLEAN :
          ReviewReceive(r, e, action, candidate)
    \/ ReviewMissing(r)
    \/ ReviewTooLate(r)
    \/ ReviewInvalid(r)
    \/ ReviewLock(r)
    \/ ReviewCommit(r)
    \/ ReviewDeadlock(r)
    \/ ReviewCrash(r)

AssessStep(a) ==
    \/ AssessAdmit(a)
    \/ AssessStart(a)
    \/ AssessConflict(a)
    \/ AssessGenerate(a)
    \/ AssessComplete(a)
    \/ AssessCrash(a)

EvalStep(v) == EvalStart(v) \/ EvalRead(v) \/ EvalWrite(v)

Next ==
    \/ Tick
    \/ \E r \in Reviews : ReviewStep(r)
    \/ \E a \in Assessments : AssessStep(a)
    \/ \E v \in Evaluations : EvalStep(v)

Spec == Init /\ [][Next]_vars

\* The event loop resumes every request it has accepted, row locks are granted
\* once their holders end, the deadlock detector runs, and provider I/O is cut
\* off by a timeout.  That a request arrives, or a process dies, is never due.
Fairness ==
    /\ \A r \in Reviews :
          /\ WF_vars(ReviewMissing(r) \/ ReviewTooLate(r) \/ ReviewInvalid(r)
                       \/ ReviewLock(r) \/ ReviewCommit(r))
          /\ WF_vars(ReviewDeadlock(r))
    /\ \A a \in Assessments : WF_vars(AssessStart(a) \/ AssessGenerate(a) \/ AssessComplete(a))

FairSpec == Spec /\ Fairness

-----------------------------------------------------------------------------
(* Properties.                                                             *)

\* Every row and every request's progress has the shape the schema gives it.
TypeOK ==
    /\ clock \in Nat \ {0}
    /\ status \in [Exceptions -> {"open"} \cup Decided]
    /\ reviewedAt \in [Exceptions -> Nat]
    /\ reviewedBy \in [Exceptions -> Reviews \cup {NoReview}]
    /\ systemLinks \subseteq WithResult
    /\ humanLinks \subseteq Exceptions \X Reviews
    /\ noMatch \subseteq WithResult
    /\ metrics \in Nat \cup {NoMetrics}
    /\ brief \in [Assessments -> BriefRecord]
    /\ audit \in Seq(AuditEvent)
    /\ review \in [Reviews -> ReviewRecord]
    /\ assess \in [Assessments -> AssessRecord]
    /\ eval \in [Evaluations -> [pc: EvalStates, seen: Nat]]

\* A review that was answered with a 200 is the recorded decision of its
\* exception for good: no concurrent review replaces it (review_exception's
\* FOR UPDATE and its status check).
AnsweredReviewStands ==
    \A r \in Reviews : review[r].pc = "answered" =>
        /\ reviewedBy[review[r].exc] = r
        /\ status[review[r].exc] = Decision(review[r].action)
        /\ reviewedAt[review[r].exc] = review[r].at

\* The links and the result of an exception agree with its decision at every
\* commit: an approval has exactly the deciding review's human link, a
\* rejection leaves no system link and a confirmed_no_match result, an open
\* exception is as the run left it.
LinksFollowDecision ==
    \A e \in Exceptions :
        /\ {r \in Reviews : <<e, r>> \in humanLinks}
             = IF status[e] = "approved" THEN {reviewedBy[e]} ELSE {}
        /\ e \in noMatch <=> e \in WithResult /\ status[e] = "rejected"
        /\ e \in systemLinks <=> e \in WithResult /\ status[e] # "rejected"

\* The audit trail has exactly one event per decision, naming its actor, and
\* one per completed brief, and none for what was rolled back (append_event
\* inside each transaction).
AuditTrailComplete ==
    /\ \A e \in Exceptions :
          {audit[i] : i \in {j \in DOMAIN audit :
                               audit[j].type # "batch.close_brief.generated"
                               /\ audit[j].exc = e}}
            = IF status[e] = "open" THEN {}
              ELSE {[type |-> IF status[e] = "approved" THEN "review.approved"
                              ELSE "review.rejected",
                     exc |-> e, actor |-> reviewedBy[e]]}
    /\ \A a \in Assessments : Completed(a) <=>
          [type |-> "batch.close_brief.generated", brief |-> a]
            \in {audit[i] : i \in DOMAIN audit}
    /\ \A i, j \in DOMAIN audit : audit[i] = audit[j] => i = j

\* The brief a reader sees is either marked stale or was captured after every
\* recorded reviewed_at (mark_latest_brief_stale for a finished brief, the
\* comparison in assess_batch_close for one that was being generated).
StaleAfterLaterReview ==
    \A a \in Assessments : IsLatest(a) /\ brief[a].staleAt = NoTime =>
        \A e \in Exceptions : reviewedAt[e] < assess[a].capturedAt

\* A brief names every exception that is still open, and "ready" stays true:
\* no exception of a run whose brief is ready is open or unresolved money
\* (_start_assessment's snapshot against reviews committing around it).
BriefsCoverOpenWork ==
    \A a \in Assessments :
        /\ Exists(a) => Open \subseteq brief[a].open
        /\ brief[a].posture = "ready" => Open = {} /\ Unresolved = {}

\* However assessments race, one that has seen no generating brief stays alone
\* until its own is completed: no other has looked before it inserts, and none
\* is admitted while its brief is generated, whether or not its process lives
\* (the run's FOR UPDATE in _start_assessment, held from the look to the insert).
Assessing(a) == assess[a].pc = "admitted" \/ Generating(a)
OneGeneration ==
    \A a, b \in Assessments : Assessing(a) /\ Assessing(b) => a = b

\* The reported open_exceptions never hides an open exception, even when an
\* evaluation and reviews overwrite each other's metrics.
MetricsNeverUndercount == metrics # NoMetrics => metrics >= Cardinality(Open)

\* The decisions, each with its review: what Casework is about.
decisionOf == [e \in Exceptions |-> [verdict |-> status[e], by |-> reviewedBy[e]]]

\* Reviews implement one terminal decision per exception.
CW == INSTANCE Casework WITH Nobody <- NoReview, decision <- decisionOf
CaseworkSpec == CW!Spec

\* Every review request that arrives is answered, deadlocks included.
ReviewsAnswered ==
    \A r \in Reviews : review[r].pc = "received" ~> review[r].pc \notin {"received", "locked"}

\* Every started generation ends in a completed brief.
GenerationsComplete ==
    \A a \in Assessments : Generating(a) ~> Completed(a)

\* README.md:26, "A later terminal Review Decision marks the latest brief
\* stale": a latest brief that is not stale lists no exception that has been
\* decided since it was assessed.
LatestBriefIsCurrent ==
    \A a \in Assessments : IsLatest(a) /\ brief[a].staleAt = NoTime =>
        brief[a].open \subseteq Open

\* CONTEXT.md:62, an Open Exception "has not yet received a terminal Review
\* Decision": the reported count is the number of open exceptions.
MetricsCountOpenExceptions == metrics # NoMetrics => metrics = Cardinality(Open)

=============================================================================
