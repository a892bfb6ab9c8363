------------------------------ MODULE RunMetrics ------------------------------
(***************************************************************************)
(* The evaluation report stored on a run: computed from the run's rows and *)
(* the hidden ground truth when the run is first shown, adjusted in place  *)
(* by every review after that, and computed anew when the stored one is of *)
(* another report version.  Rates are in hundredths of a percent.          *)
(***************************************************************************)
EXTENDS RunRows, Integers, FiniteSetsExt

CONSTANTS
    Truth,        \* the evaluation cases of the benchmark
    FastRuns,     \* whether the runs keep to RUNTIME_LIMIT_MS
    MaxVersion    \* bound on the report versions deployed

ExpectedStatuses == EngineStatuses \cup {"confirmed_no_match", "malformed"}
Case == [class: STRING, amount: Nat, matchable: BOOLEAN, expected: ExpectedStatuses,
         sources: SUBSET Source]

ASSUME TruthAssumption ==
    /\ IsFiniteSet(Truth) /\ FastRuns \in BOOLEAN /\ MaxVersion \in Nat
    /\ \A c \in Truth :
        /\ c.class \in STRING /\ c.amount \in Nat /\ c.matchable \in BOOLEAN
        /\ c.expected \in ExpectedStatuses /\ c.sources \subseteq Source

VARIABLES
    benchmark,  \* whether the batch has ground truth
    version,    \* EVALUATION_REPORT_VERSION of the deployed program
    metrics     \* the report stored on each run, or None

metricVars == <<benchmark, version, metrics>>
outcomeVars == <<rowVars, metricVars>>

Cases == IF benchmark THEN Truth ELSE {}
Classes == {c.class : c \in Cases}
Sum(f(_), S) == MapThenSumSet(f, S)
Money(cases) == Sum(LAMBDA c : c.amount, cases)
Percentage(n, d) == IF d = 0 THEN 0 ELSE (20000 * n + d) \div (2 * d)

-----------------------------------------------------------------------------
(***************************************************************************)
(* Predictions: a result as the evaluator sees it.                         *)
(***************************************************************************)
Overlap(c, selected) == Cardinality(c.sources \cap selected)

Closest(selected) ==
    {c \in Cases : /\ Overlap(c, selected) > 0
                   /\ \A d \in Cases : Overlap(d, selected) <= Overlap(c, selected)}

\* The one case of the primary source, or the one case with the largest overlap.
CaseOf(primary, selected) ==
    LET own == {c \in Cases : primary \in c.sources}
        near == IF Cardinality(own) = 1 THEN own ELSE Closest(selected)
    IN IF Cardinality(near) = 1 THEN CHOOSE c \in near : TRUE ELSE None

SelectedBy(row) == {row.primary} \cup row.selected \cup {l.source : l \in row.links}

Predict(row, i) ==
    [slot |-> i, stage |-> row.stage, status |-> row.status, autonomous |-> row.autonomous,
     review |-> row.review, selected |-> SelectedBy(row),
     case |-> CaseOf(row.primary, SelectedBy(row))]

Predictions(table) == {Predict(table[i], i) : i \in DOMAIN table}
Autonomous(P) == {p \in P : p.autonomous}
About(P, c) == {p \in P : p.case = c}
AllSelected(P) == UNION {p.selected : p \in P}

-----------------------------------------------------------------------------
(***************************************************************************)
(* One case.                                                               *)
(***************************************************************************)
StatusCorrect(c, P) ==
    IF c.expected = "matched"
    THEN {p.status : p \in P} = {"matched"} /\ {p.stage : p \in P} = Stages
    ELSE \E p \in P : p.status = c.expected

Correct(c, P) ==
    /\ StatusCorrect(c, P)
    /\ c.expected = "matched" => AllSelected(P) = c.sources

Resolved(c, P) == c.matchable /\ Correct(c, P)

AutonomouslyResolved(c, P) ==
    c.expected = "matched" /\ Correct(c, P) /\ \A p \in P : p.autonomous /\ p.review = None

FinanciallyResolved(c, P) ==
    /\ c.expected = "matched"
    /\ Correct(c, P)
    /\ \A p \in P : p.autonomous \/ p.review = "approved"

Recalled(c, P) == ~c.matchable /\ \E p \in P : ~p.autonomous /\ p.status = c.expected

\* A wrong link is a source of another case; an outcome without links is one too.
FalsePositives(expected, p) ==
    LET wrong == Cardinality(p.selected \ expected)
    IN IF wrong > 0 THEN wrong ELSE IF p.selected = {} THEN 1 ELSE 0

CaseSources(p) == IF p.case = None THEN {} ELSE p.case.sources

OfTypes(c, types) == {s \in c.sources : SourceType[s] \in types}

StageSources(c, stage) ==
    IF stage = "ledger_to_razorpay"
    THEN OfTypes(c, {"ledger", "razorpay_order"})
         \cup (IF OfTypes(c, {"razorpay_refund"}) # {} THEN OfTypes(c, {"razorpay_refund"})
               ELSE OfTypes(c, {"razorpay_payment"}))
    ELSE OfTypes(c, {"razorpay_payment", "razorpay_refund", "settlement", "bank_credit"})

StageCorrect(c, P, stage) ==
    /\ P # {}
    /\ c.expected = "matched"
    /\ \A p \in P : p.status = "matched"
    /\ AllSelected(P) = StageSources(c, stage)

Undecided(P) == {p \in P : ~p.autonomous /\ p.review \notin {"approved", "rejected"}}

-----------------------------------------------------------------------------
(***************************************************************************)
(* The report.  What only a benchmark can say is None without one, and the *)
(* stages are then not reported.                                           *)
(***************************************************************************)
Scored(x) == IF benchmark THEN x ELSE None

LinkCount(A) == Sum(LAMBDA p : Cardinality(p.selected), A)
Precision(links, wrong) == Percentage(IF wrong > links THEN 0 ELSE links - wrong, links)

\* expected[p]: the sources that p may have selected
LinkScores(A, expected) ==
    LET wrong == Sum(LAMBDA p : FalsePositives(expected[p], p), A)
    IN [links |-> LinkCount(A), falsePositives |-> wrong,
        precision |-> Precision(LinkCount(A), wrong)]

\* How far the matcher's own links, those no human saw, are right.
MatcherScores(A) ==
    LET ofCase == [p \in A |-> CaseSources(p)]
    IN [over_all |-> LinkScores(A, ofCase),
        stage |-> [s \in Stages |->
            LinkScores({p \in A : p.stage = s},
                       [p \in A |-> IF p.case = None THEN {} ELSE StageSources(p.case, s)])],
        class |-> [k \in Classes |->
            LinkScores({p \in A : p.case # None /\ p.case.class = k}, ofCase)]]

StageReport(P, stage) ==
    LET of == {p \in P : p.stage = stage}
        positive == {c \in Cases : c.matchable}
        correct == {c \in positive : StageCorrect(c, About(of, c), stage)}
        alone == {c \in correct : \A p \in About(of, c) : p.autonomous}
    IN [correctnessRate |-> Percentage(Cardinality(correct), Cardinality(positive)),
        autonomyRate |-> Percentage(Cardinality(alone), Cardinality(positive)),
        unresolved_cases |-> Cardinality(positive \ correct),
        open_exceptions |-> Cardinality(Undecided(of))]

ClassReport(P, class) ==
    LET of == {c \in Cases : c.class = class}
        matchable == {c \in of : c.matchable}
        paid == {c \in of : FinanciallyResolved(c, About(P, c))}
        mine == {p \in P : p.case # None /\ p.case \in of}
    IN [matchRate |-> Percentage(Cardinality({c \in of : Resolved(c, About(P, c))}),
                                 Cardinality(matchable)),
        matchable |-> Cardinality(matchable),
        autonomous |-> Cardinality({c \in of : AutonomouslyResolved(c, About(P, c))}),
        open_exceptions |-> Cardinality(Undecided(mine)),
        unresolved_cases |-> Cardinality(matchable \ paid),
        money_reconciled |-> Money(paid),
        money_unresolved |-> Money(of \ paid)]

\* The last reviewed prediction of a case, in the order of the rows, speaks for it.
ReviewOf(c, P) ==
    LET reviewed == {p \in About(P, c) : p.review \in {"approved", "rejected"}}
    IN IF reviewed = {} THEN None
       ELSE (CHOOSE p \in reviewed : \A q \in reviewed : q.slot <= p.slot).review

ReviewReport(P) ==
    LET reviewed(as) == {c \in Cases : ReviewOf(c, P) = as}
        paid == {c \in Cases : FinanciallyResolved(c, About(P, c))}
        resolved == paid \cup reviewed("approved")
        matchable == {c \in Cases : c.matchable}
    IN [closedCases |-> Cardinality(resolved) + Cardinality(reviewed("rejected") \ paid),
        reviewedCases |-> Cardinality(reviewed("approved") \cup reviewed("rejected")),
        approvedCases |-> Cardinality(reviewed("approved")),
        rejectedCases |-> Cardinality(reviewed("rejected")),
        resolvedCases |-> Cardinality(resolved),
        matchRate |-> Scored(Percentage(Cardinality(resolved \cap matchable),
                                        Cardinality(matchable))),
        moneyReconciled |-> Scored(Money(paid))]

\* At least 90 % of everything that should match, 98 % precision, all exceptions.
Acceptance(r) ==
    [benchmarkAvailable |-> benchmark,
     precision |-> benchmark /\ r.matcher.over_all.precision >= 9800,
     falsePositives |-> benchmark /\ r.matcher.over_all.falsePositives <= 8,
     matchRate |-> benchmark /\ r.match_rate >= 9000,
     endToEndAutonomy |-> benchmark /\ r.end_to_end_autonomy_rate >= 9000,
     stageACorrectness |-> benchmark /\ r.stage["ledger_to_razorpay"].correctnessRate >= 9000,
     stageBCorrectness |-> benchmark /\ r.stage["razorpay_to_settlement"].correctnessRate >= 9000,
     positiveClassAccuracy |->
        LET positive == {k \in Classes : r.per_class[k].matchable > 0}
        IN positive # {} /\ \A k \in positive : r.per_class[k].matchRate >= 9000,
     exceptionRecall |-> benchmark /\ r.exception_recall = 10000,
     runtime |-> benchmark /\ FastRuns]

Scores(P) ==
    LET matchable == {c \in Cases : c.matchable}
        rate(S) == Percentage(Cardinality(S), Cardinality(matchable))
        paid == {c \in Cases : FinanciallyResolved(c, About(P, c))}
    IN [matcher |-> Scored(MatcherScores(Autonomous(P))),
        match_rate |-> Scored(rate({c \in Cases : Resolved(c, About(P, c))})),
        end_to_end_autonomy_rate |->
            Scored(rate({c \in Cases : AutonomouslyResolved(c, About(P, c))})),
        exception_recall |->
            Scored(Percentage(Cardinality({c \in Cases : Recalled(c, About(P, c))}),
                              Cardinality(Cases \ matchable))),
        matchable_cases |-> Scored(Cardinality(matchable)),
        financially_unresolved_cases |-> Scored(Cardinality(matchable \ paid)),
        money_reconciled |-> Scored(Money(paid)),
        money_unresolved |-> Scored(Money(Cases \ paid)),
        stage |-> [s \in (IF benchmark THEN Stages ELSE {}) |-> StageReport(P, s)],
        per_class |-> Scored([k \in Classes |-> ClassReport(P, k)]),
        review_adjusted |-> ReviewReport(P)]

\* evaluate_run: the open exceptions are counted from their own rows.
Report(P, open) ==
    [version |-> version, open_exceptions |-> open, scores |-> Scores(P),
     acceptance |-> Acceptance(Scores(P))]

-----------------------------------------------------------------------------
(***************************************************************************)
(* _adjust_metrics: a review changes the stored report, not the classes,   *)
(* the rates of the matcher or the acceptance checks.                      *)
(***************************************************************************)
Down(n, by) == IF by > n THEN 0 ELSE n - by

AdjustReview(r, approved, amount, matchable) ==
    LET resolved == r.resolvedCases + 1
    IN IF approved
       THEN [r EXCEPT !.closedCases = @ + 1, !.reviewedCases = @ + 1, !.approvedCases = @ + 1,
                      !.resolvedCases = resolved,
                      !.matchRate = IF matchable \in {None, 0} THEN @
                                    ELSE Percentage(resolved, matchable),
                      !.moneyReconciled = IF @ = None THEN None ELSE @ + amount]
       ELSE [r EXCEPT !.closedCases = @ + 1, !.reviewedCases = @ + 1, !.rejectedCases = @ + 1]

\* Mutant: the report of the stage keeps the exception.
StageKept(stages, stage, approved) == stages

AdjustStage(stages, stage, approved) ==
    IF stage \notin DOMAIN stages THEN stages
    ELSE [stages EXCEPT ![stage].open_exceptions = Down(@, 1),
                        ![stage].unresolved_cases = IF approved THEN Down(@, 1) ELSE @]

AdjustScores(s, approved, amount, stage) ==
    LET less(n, by) == IF n = None \/ ~approved THEN n ELSE Down(n, by)
    IN [s EXCEPT !.financially_unresolved_cases = less(@, 1),
                 !.money_reconciled = IF @ = None \/ ~approved THEN @ ELSE @ + amount,
                 !.money_unresolved = less(@, amount),
                 !.stage = AdjustStage(@, stage, approved),
                 !.review_adjusted = AdjustReview(@, approved, amount, s.matchable_cases)]

Adjusted(m, approved, amount, stage) ==
    IF m = None THEN None
    ELSE [m EXCEPT !.open_exceptions = Down(@, 1),
                   !.scores = AdjustScores(@, approved, amount, stage)]

-----------------------------------------------------------------------------
MetricInit ==
    /\ RowInit
    /\ benchmark \in BOOLEAN
    /\ version = 1
    /\ metrics = <<>>

Complete ==
    /\ CompleteRun
    /\ metrics' = Append(metrics, None)
    /\ UNCHANGED <<benchmark, version>>

Approve(k, i) ==
    /\ ApproveResult(k, i)
    /\ metrics' = [metrics EXCEPT ![k] = Adjusted(@, TRUE, rows[k][i].amount, rows[k][i].stage)]
    /\ UNCHANGED <<benchmark, version>>

Reject(k, i) ==
    /\ RejectResult(k, i)
    /\ metrics' = [metrics EXCEPT ![k] = Adjusted(@, FALSE, rows[k][i].amount, rows[k][i].stage)]
    /\ UNCHANGED <<benchmark, version>>

RejectMalformed(k, q) ==
    /\ RejectQuarantined(k, q)
    /\ metrics' = [metrics EXCEPT ![k] = Adjusted(@, FALSE, 0, None)]
    /\ UNCHANGED <<benchmark, version>>

OpenCount(k) == Cardinality(OpenResults(k)) + Cardinality(OpenQuarantined(k))

\* The POST that ran the run, or a GET of it, finds no report of this version.
Evaluate(k) ==
    /\ k \in Runs
    /\ metrics[k] # None => metrics[k].version # version
    /\ metrics' = [metrics EXCEPT ![k] = Report(Predictions(rows[k]), OpenCount(k))]
    /\ UNCHANGED <<rowVars, benchmark, version>>

\* Reviews go on adjusting a report of the old version, the next visit replaces it.
DeployVersion ==
    /\ version < MaxVersion
    /\ version' = version + 1
    /\ UNCHANGED <<rowVars, benchmark, metrics>>

MetricNext ==
    \/ Complete \/ DeployVersion
    \/ \E k \in Runs :
        \/ Evaluate(k)
        \/ \E i \in Results(k) : Approve(k, i) \/ Reject(k, i)
        \/ \E q \in Quarantined : RejectMalformed(k, q)

MetricSpec == MetricInit /\ [][MetricNext]_outcomeVars

-----------------------------------------------------------------------------
(***************************************************************************)
(* Properties.                                                             *)
(***************************************************************************)
Reported == {k \in Runs : metrics[k] # None}

\* However reviews, first visits and re-evaluations follow on each other, the
\* stored report counts the exceptions that are open: over all, and in the
\* stage of their results.  Nothing is counted out twice or left in.
OpenCountsExact ==
    \A k \in Reported :
        /\ metrics[k].open_exceptions = OpenCount(k)
        /\ benchmark => \A s \in Stages :
            metrics[k].scores.stage[s].open_exceptions
                = Cardinality({i \in OpenResults(k) : rows[k][i].stage = s})

AsCompleted(k) == [i \in DOMAIN engine[k] |-> Persisted(engine[k][i])]

\* Human decisions make the matcher look neither better nor worse: precision and
\* false positives, over all, by stage and by class, are those of the rows the
\* run persisted, be the report computed before the reviews, after them or twice.
\* (Of the rates that count whole cases this is not true: a result leaves its
\* case when a review changes its links, its status when it is rejected.)
MatcherScoresStand ==
    benchmark =>
        \A k \in Reported :
            metrics[k].scores.matcher = MatcherScores(Autonomous(Predictions(AsCompleted(k))))

\* CONTEXT.md:101: Money Reconciled is the gross value of ledger entries
\* closed by the run, kept apart from settlement value "to avoid double
\* counting": it is at most the value of the cases that have an accepted link.
AcceptedCases(k) ==
    {p.case : p \in {q \in Predictions(rows[k]) : q.autonomous \/ q.review = "approved"}} \ {None}

MoneyCountedOnce ==
    benchmark =>
        \A k \in Reported :
            metrics[k].scores.money_reconciled <= Money(AcceptedCases(k))
=============================================================================
