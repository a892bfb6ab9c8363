------------------------------- MODULE RunRows -------------------------------
(***************************************************************************)
(* The rows that completed runs of one batch leave behind, and what human  *)
(* reviews do to them: results, their match links and their exceptions.    *)
(* Runs of a batch exclude each other and reviews lock the rows they read  *)
(* (BatchJournal, ReviewClose): each is one step here, and run k is the    *)
(* k-th to start.                                                          *)
(*                                                                         *)
(* A result that is not autonomous has exactly one exception, about the    *)
(* result's primary source and for its amount, so that the exception is a  *)
(* field of the result.  A quarantined record has an exception of its own. *)
(***************************************************************************)
EXTENDS Naturals, Sequences, FiniteSets

CONSTANTS
    Source,       \* source rows of the batch
    SourceType,   \* what each of them is
    OrderOf,      \* the order of a payment or refund, None for other rows
    MaxRuns,      \* bound on the runs of the batch
    Outcomes,     \* what the engine of the k-th run may return: sequences of outcomes
    Quarantined,  \* ingestion records that could not be parsed
    None

SourceTypes == {"ledger", "razorpay_order", "razorpay_payment", "razorpay_refund",
                "settlement", "settlement_line", "bank_credit"}
Stages == {"ledger_to_razorpay", "razorpay_to_settlement"}
EngineStatuses == {"matched", "ambiguous", "duplicate", "amount_mismatch", "missing_ledger",
                   "missing_razorpay", "missing_settlement", "missing_bank_credit"}
ReviewStatuses == {"open", "approved", "rejected"}
Roles == {"primary", "selected", "related", "human_approved"}

Outcome == [stage: Stages, primary: Source, selected: SUBSET Source, candidates: SUBSET Source,
            status: EngineStatuses, autonomous: BOOLEAN, amount: Nat]
Link == [source: Source, role: Roles]

ASSUME RowAssumption ==
    /\ SourceType \in [Source -> SourceTypes]
    /\ OrderOf \in [Source -> Source \cup {None}]
    /\ MaxRuns \in Nat
    /\ Outcomes \in [1 .. MaxRuns -> SUBSET Seq(Outcome)]
    /\ IsFiniteSet(Quarantined)
    /\ None \notin Source \cup ReviewStatuses \cup Stages

VARIABLES
    engine,      \* what the engine of each completed run returned
    rows,        \* the result rows of each completed run
    quarantine   \* the exceptions of its quarantined records

rowVars == <<engine, rows, quarantine>>

Row == [stage: Stages, primary: Source, selected: SUBSET Source, candidates: SUBSET Source,
        status: EngineStatuses \cup {"confirmed_no_match"}, autonomous: BOOLEAN, amount: Nat,
        links: SUBSET Link, review: ReviewStatuses \cup {None}]

-----------------------------------------------------------------------------
(***************************************************************************)
(* What a run persists.                                                    *)
(***************************************************************************)
RelatedOrders(o) ==
    IF o.stage = "ledger_to_razorpay"
    THEN {OrderOf[s] : s \in {o.primary} \cup o.selected} \ {None}
    ELSE {}

\* One link per source: the first role it is found in.
LinksOf(o) ==
    {[source |-> o.primary, role |-> "primary"]}
    \cup {[source |-> s, role |-> "selected"] : s \in o.selected \ {o.primary}}
    \cup {[source |-> s, role |-> "related"] :
            s \in RelatedOrders(o) \ (o.selected \cup {o.primary})}

Persisted(o) ==
    [stage |-> o.stage, primary |-> o.primary, selected |-> o.selected,
     candidates |-> o.candidates, status |-> o.status, autonomous |-> o.autonomous,
     amount |-> o.amount, links |-> LinksOf(o),
     review |-> IF o.autonomous THEN None ELSE "open"]

Runs == 1 .. Len(rows)
Results(k) == DOMAIN rows[k]

RowInit ==
    /\ engine = <<>>
    /\ rows = <<>>
    /\ quarantine = <<>>

CompleteRun ==
    /\ Len(rows) < MaxRuns
    /\ \E outcomes \in Outcomes[Len(rows) + 1] :
        /\ engine' = Append(engine, outcomes)
        /\ rows' = Append(rows, [i \in DOMAIN outcomes |-> Persisted(outcomes[i])])
    /\ quarantine' = Append(quarantine, [q \in Quarantined |-> "open"])

-----------------------------------------------------------------------------
(***************************************************************************)
(* Reviews.                                                                *)
(***************************************************************************)
Open(k, i) == k \in Runs /\ i \in Results(k) /\ rows[k][i].review = "open"

\* Mutant: an approved result counts as resolved by the matcher.
ApprovedAsMatched(row, s) ==
    [row EXCEPT !.review = "approved", !.autonomous = TRUE,
                !.links = @ \cup {[source |-> s, role |-> "human_approved"]}]

\* The status of the result stays what the engine made it.
Approved(row, s) ==
    [row EXCEPT !.review = "approved",
                !.links = @ \cup {[source |-> s, role |-> "human_approved"]}]

\* The system's links go, the ids the engine selected stay.
Rejected(row) ==
    [row EXCEPT !.review = "rejected", !.status = "confirmed_no_match",
                !.links = {l \in @ : l.role = "human_approved"}]

ApproveResult(k, i) ==
    /\ Open(k, i)
    /\ \E s \in rows[k][i].candidates : rows' = [rows EXCEPT ![k][i] = Approved(@, s)]
    /\ UNCHANGED <<engine, quarantine>>

RejectResult(k, i) ==
    /\ Open(k, i)
    /\ rows' = [rows EXCEPT ![k][i] = Rejected(@)]
    /\ UNCHANGED <<engine, quarantine>>

\* Without a result there is no candidate to approve.
RejectQuarantined(k, q) ==
    /\ k \in Runs
    /\ quarantine[k][q] = "open"
    /\ quarantine' = [quarantine EXCEPT ![k][q] = "rejected"]
    /\ UNCHANGED <<engine, rows>>

-----------------------------------------------------------------------------
OpenResults(k) == {i \in Results(k) : rows[k][i].review = "open"}
OpenQuarantined(k) == {q \in Quarantined : quarantine[k][q] = "open"}

\* Rows have the types of their tables; exactly the results that are not
\* autonomous have an exception.
RowTypeOK ==
    /\ engine \in Seq(Seq(Outcome))
    /\ rows \in Seq(Seq(Row))
    /\ quarantine \in Seq([Quarantined -> ReviewStatuses])
    /\ Len(engine) = Len(rows) /\ Len(quarantine) = Len(rows)
    /\ \A k \in Runs :
        /\ DOMAIN engine[k] = DOMAIN rows[k]
        /\ \A i \in Results(k) : rows[k][i].autonomous <=> rows[k][i].review = None
=============================================================================
