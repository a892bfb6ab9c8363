------------------------------- MODULE StageA -------------------------------
(***************************************************************************)
(* Stage A of the deterministic engine: reconcile_stage_a walks over the   *)
(* ledger entries of a batch in order, scores the Razorpay records each    *)
(* one could be about, and decides.  What an autonomous outcome selects is *)
(* reserved, so that a later entry cannot take it again; what no entry     *)
(* could be about is reported as missing from the ledger at the end.       *)
(*                                                                         *)
(* References are normalised tokens.  What difflib says of two of them is  *)
(* a parameter: Ratio of the whole tokens, TextRatio of what is left of    *)
(* them without digits, in percent.  Business times are in days.           *)
(***************************************************************************)
EXTENDS Integers, Sequences

CONSTANTS
    References,   \* normalised references and provider identifiers
    NoReference,  \* the empty one
    DigitsOf,     \* the digits in a reference
    NoDigits,     \* what DigitsOf says of a reference without digits
    Ratio,        \* similarity of two references
    TextRatio,    \* the same without their digits
    Currencies,
    Batches       \* the batches a run may be asked to reconcile

Kinds == {"payment", "refund"}
Entry == [reference: References, kind: Kinds, amount: Nat, currency: Currencies, day: Int]
Order == [providerId: References, receipt: References, amount: Nat, currency: Currencies,
          paid: BOOLEAN]
Payment == [id: Nat, providerId: References, order: References, receipt: References,
            amount: Nat, currency: Currencies, captured: BOOLEAN, day: Int]
Refund == [id: Nat, providerId: References, payment: References, amount: Nat,
           currency: Currencies, day: Int]

ASSUME ReferenceAssumption ==
    /\ NoReference \in References
    /\ DOMAIN DigitsOf = References
    /\ DigitsOf[NoReference] = NoDigits
    /\ Ratio \in [References \X References -> 0 .. 100]
    /\ TextRatio \in [References \X References -> 0 .. 100]

\* A record's identifier is unique across payments and refunds (UUIDs), an
\* order's provider identifier among the orders of a batch.  A payment may be
\* there twice.  Other fields of a batch are those of stage B.
ASSUME BatchAssumption ==
    \A b \in Batches :
        /\ b.ledger \in Seq(Entry)
        /\ b.orders \subseteq Order /\ b.payments \subseteq Payment /\ b.refunds \subseteq Refund
        /\ \A x, y \in b.payments \cup b.refunds : x.id = y.id => x = y
        /\ b.payments \cap b.refunds = {}
        /\ \A x, y \in b.orders : x.providerId = y.providerId => x = y

VARIABLES
    batch,       \* the sources, as the run's snapshot saw them
    outcomes,    \* one outcome per ledger entry, in order
    considered,  \* records some entry could be about
    reserved,    \* records an autonomous outcome has selected
    missing,     \* records reported as missing from the ledger
    done         \* whether they have been reported

vars == <<batch, outcomes, considered, reserved, missing, done>>

-----------------------------------------------------------------------------
(***************************************************************************)
(* The pool of candidates.  A candidate has at most one parent, the        *)
(* payment a refund returns, and at most one linked order.                 *)
(***************************************************************************)
OrdersOf(p) == {o \in batch.orders : o.providerId = p.order}
\* Of payments that share a provider identifier the last one counts.
ParentsOf(r) ==
    {p \in batch.payments :
        /\ p.providerId = r.payment
        /\ \A q \in batch.payments : q.providerId = p.providerId => q.id <= p.id}

\* The order of a captured payment is paid and agrees with it.
ChainVerified(p) ==
    /\ p.captured
    /\ \E o \in OrdersOf(p) : o.paid /\ o.amount = p.amount /\ o.currency = p.currency

PaymentCandidate(p) ==
    [id |-> p.id, kind |-> "payment", amount |-> p.amount, currency |-> p.currency,
     day |-> p.day, original |-> p.receipt,
     references |-> {p.providerId, p.order, p.receipt} \cup {o.receipt : o \in OrdersOf(p)},
     captured |-> p.captured, parents |-> {},
     chain |-> ChainVerified(p), linked |-> OrdersOf(p) # {}]

RefundCandidate(r) ==
    [id |-> r.id, kind |-> "refund", amount |-> r.amount, currency |-> r.currency,
     day |-> r.day, original |-> r.providerId,
     references |-> {r.providerId, r.payment}
                        \cup UNION {{p.receipt, p.order} : p \in ParentsOf(r)},
     captured |-> \E p \in ParentsOf(r) : p.captured, parents |-> ParentsOf(r),
     chain |-> \E p \in ParentsOf(r) : ChainVerified(p),
     linked |-> \E p \in ParentsOf(r) : OrdersOf(p) # {}]

Pool == {PaymentCandidate(p) : p \in batch.payments}
            \cup {RefundCandidate(r) : r \in batch.refunds}

-----------------------------------------------------------------------------
(***************************************************************************)
(* Evidence of one candidate for one entry.                                *)
(***************************************************************************)
Exact(e, c) == e.reference # NoReference /\ e.reference \in c.references

SameDigits(l, r) == DigitsOf[l] # NoDigits /\ DigitsOf[l] = DigitsOf[r]

\* References that share their digits are close only if their texts are alike.
Similarity(l, r) ==
    IF SameDigits(l, r)
    THEN IF TextRatio[l, r] >= 50 THEN 85 ELSE TextRatio[l, r]
    ELSE Ratio[l, r]

SimilarBy(e, c, percent) == \E r \in c.references : Similarity(e.reference, r) >= percent

NumericKey(e, c) == \E r \in c.references : SameDigits(e.reference, r)

HasReference(e, c) == Exact(e, c) \/ SimilarBy(e, c, 75)

ReferencePoints(e, c) ==
    IF Exact(e, c) THEN 45
    ELSE IF SimilarBy(e, c, 90) THEN 30
    ELSE IF SimilarBy(e, c, 75) \/ NumericKey(e, c) THEN 20 ELSE 0

Distance(m, n) == IF m >= n THEN m - n ELSE n - m
LargerOf(m, n) == IF m >= n THEN m ELSE n

AmountWindow(m, n) == LargerOf(100, (LargerOf(m, n) * 5) \div 1000)

\* A refund returns at most what its payment captured; its entry tells of
\* either amount.
RefundAmountAgrees(e, c) ==
    \E p \in c.parents : c.amount <= p.amount /\ e.amount \in {c.amount, p.amount}

AmountCompatible(e, c) ==
    IF c.kind = "refund"
    THEN c.amount > 0 /\ RefundAmountAgrees(e, c)
    ELSE Distance(c.amount, e.amount) <= AmountWindow(e.amount, c.amount)

AmountMatches(e, c) ==
    IF c.kind = "payment" THEN c.amount = e.amount ELSE RefundAmountAgrees(e, c)

Eligible(e, c) ==
    \/ Exact(e, c)
    \/ /\ c.currency = e.currency
       /\ Distance(e.day, c.day) <= 7
       /\ AmountCompatible(e, c) \/ (c.linked /\ NumericKey(e, c))

\* Mutant: the amount is scored but contradicts nothing.
AmountTolerated(e, c) ==
    {k \in {"currency", "date", "lifecycle"} :
        CASE k = "currency" -> c.currency # e.currency
          [] k = "date" -> Distance(e.day, c.day) > 7
          [] k = "lifecycle" -> ~c.captured}

Contradictions(e, c) ==
    {k \in {"currency", "amount", "date", "lifecycle"} :
        CASE k = "currency" -> c.currency # e.currency
          [] k = "amount" -> ~AmountMatches(e, c)
          [] k = "date" -> Distance(e.day, c.day) > 7
          [] k = "lifecycle" -> ~c.captured}

Points(e, c) ==
      ReferencePoints(e, c)
    + (IF AmountMatches(e, c) THEN 35 ELSE 0)
    + (CASE Distance(e.day, c.day) <= 1 -> 10
         [] Distance(e.day, c.day) \in 2 .. 7 -> 5
         [] OTHER -> 0)
    + (IF c.captured THEN 10 ELSE 0)
    + (IF c.chain THEN 20 ELSE 0)

Score(e, c) == IF Points(e, c) > 100 THEN 100 ELSE Points(e, c)

-----------------------------------------------------------------------------
(***************************************************************************)
(* Candidates of the next entry, and what is decided about it.             *)
(***************************************************************************)
EligibleFor(e) == {c \in Pool : c.kind = e.kind /\ Eligible(e, c)}

\* Candidates that share the entry's digits are duplicates of each other.
SharesKey(e, c) == NumericKey(e, c) /\ \E d \in EligibleFor(e) \ {c} : NumericKey(e, d)

\* Mutant: nobody looks at what earlier outcomes took.
NeverCollides(c) == FALSE

Collides(c) == c.id \in reserved

Scored(e, c) ==
    [id |-> c.id,
     score |-> Score(e, c),
     contradictions |-> Contradictions(e, c)
                            \cup (IF Collides(c) THEN {"batch_collision"} ELSE {}),
     duplicate |-> SharesKey(e, c) \/ Collides(c),
     exact |-> Exact(e, c),
     verified |-> FALSE,
     reference |-> HasReference(e, c),
     numeric |-> (~HasReference(e, c) /\ NumericKey(e, c))
                    \/ SameDigits(e.reference, c.original)]

Candidates(e) == {Scored(e, c) : c \in EligibleFor(e)}

\* Reserved records are left out unless there is nothing else.
Free(S) == {c \in S : c.id \notin reserved}
Selectable(S) == IF Free(S) # {} THEN Free(S) ELSE S

\* Mutant: the first exact identifier will do.
MarkNothing(S) == S

\* Several exact identifiers are duplicates of each other.
MarkExact(S) ==
    LET exact == {c \in S : c.exact}
    IN {IF c \in exact /\ exact # {c} THEN [c EXCEPT !.duplicate = TRUE] ELSE c : c \in S}

Before(c, d) == c.score > d.score \/ (c.score = d.score /\ c.id < d.id)

First(S) == CHOOSE c \in S : \A d \in S \ {c} : Before(c, d)

\* How far the best candidate is ahead of the next one.
Margin(S) ==
    LET best == First(S)
    IN best.score - (IF S = {best} THEN 0 ELSE First(S \ {best}).score)

\* policy.py: the only authority boundary of a deterministic outcome.
CanAutoResolve(c, margin) ==
    /\ c.contradictions = {}
    /\ ~c.duplicate
    /\ c.exact \/ c.verified \/ (c.score >= 90 /\ margin >= 15)

Insufficient(c) == ~c.exact /\ ~c.reference /\ ~c.numeric /\ c.score < 65

Duplicates(S) == {c \in S : c.duplicate}

StatusOf(S) ==
    LET best == First(S)
    IN CASE Duplicates(S) # {} -> "duplicate"
         [] Duplicates(S) = {} /\ best.contradictions # {} -> "amount_mismatch"
         [] Duplicates(S) = {} /\ best.contradictions = {}
              /\ (~best.reference \/ (S # {best} /\ Margin(S) < 15)) -> "ambiguous"
         [] OTHER -> "matched"

SelectedBy(S) ==
    IF Duplicates(S) # {} THEN {c.id : c \in Duplicates(S)} ELSE {First(S).id}

\* Mutant: the two ways to be missing confused.
DecideMissingLedger(S) ==
    IF S = {} \/ Insufficient(First(S))
    THEN [status |-> "missing_ledger", selected |-> {}, autonomous |-> FALSE]
    ELSE [status |-> StatusOf(S),
          selected |-> SelectedBy(S),
          autonomous |-> /\ StatusOf(S) # "ambiguous"
                         /\ CanAutoResolve(First(S), Margin(S))]

\* An outcome, given the candidates that may be selected.
Decide(S) ==
    IF S = {} \/ Insufficient(First(S))
    THEN [status |-> "missing_razorpay", selected |-> {}, autonomous |-> FALSE]
    ELSE [status |-> StatusOf(S),
          selected |-> SelectedBy(S),
          autonomous |-> /\ StatusOf(S) # "ambiguous"
                         /\ CanAutoResolve(First(S), Margin(S))]

OutcomeFor(e) == Decide(MarkExact(Selectable(Candidates(e))))

\* Mutant: a reference alone is not enough.
ConsideredByScore(e) == {c.id : c \in {d \in EligibleFor(e) : Score(e, d) >= 65}}

\* What an entry could be about need not be reported; nor need the payment
\* that such a refund returns.
ConsideredBy(e) ==
    LET about == {c \in EligibleFor(e) : HasReference(e, c) \/ Score(e, c) >= 65}
    IN {c.id : c \in about} \cup UNION {{p.id : p \in c.parents} : c \in about}

-----------------------------------------------------------------------------
Init ==
    /\ batch \in Batches
    /\ outcomes = <<>>
    /\ considered = {}
    /\ reserved = {}
    /\ missing = {}
    /\ done = FALSE

MatchEntry ==
    /\ Len(outcomes) < Len(batch.ledger)
    /\ LET entry == batch.ledger[Len(outcomes) + 1]
           outcome == OutcomeFor(entry)
       IN /\ outcomes' = Append(outcomes, outcome)
          /\ considered' = considered \cup ConsideredBy(entry)
          /\ reserved' = IF outcome.autonomous THEN reserved \cup outcome.selected ELSE reserved
    /\ UNCHANGED <<batch, missing, done>>

ReportMissing ==
    /\ Len(outcomes) = Len(batch.ledger)
    /\ ~done
    /\ missing' = {c.id : c \in Pool} \ considered
    /\ done' = TRUE
    /\ UNCHANGED <<batch, outcomes, considered, reserved>>

Next == MatchEntry \/ ReportMissing

Spec == Init /\ [][Next]_vars

-----------------------------------------------------------------------------
Statuses == {"matched", "missing_razorpay", "duplicate", "amount_mismatch", "ambiguous"}
RecordIds == {c.id : c \in Pool}
OutcomeRecord == [status: Statuses, selected: SUBSET RecordIds, autonomous: BOOLEAN]

\* The variables have their types: what is reserved or considered are records
\* of the batch, and there are no more outcomes than entries.
TypeOK ==
    /\ outcomes \in Seq(OutcomeRecord)
    /\ Len(outcomes) <= Len(batch.ledger)
    /\ considered \subseteq RecordIds
    /\ reserved \subseteq RecordIds
    /\ missing \subseteq RecordIds
    /\ done \in BOOLEAN

\* No Razorpay record closes two ledger entries: the selections of autonomous
\* outcomes are disjoint (reserved_ids in reconcile_stage_a).
NoRecordTwice ==
    \A i, j \in 1 .. Len(outcomes) :
        i # j /\ outcomes[i].autonomous /\ outcomes[j].autonomous
            => outcomes[i].selected \cap outcomes[j].selected = {}

\* An autonomous match is about one record that agrees with its entry in kind,
\* currency, amount and time, was captured, and is tied to it by a reference:
\* no sum of points outweighs a contradiction or replaces an identity.
Supports(e, c) ==
    /\ c.kind = e.kind /\ c.currency = e.currency /\ c.captured
    /\ AmountMatches(e, c) /\ Distance(e.day, c.day) <= 7
    /\ HasReference(e, c)

MatchesAreSupported ==
    \A i \in 1 .. Len(outcomes) :
        outcomes[i].autonomous /\ outcomes[i].status = "matched" =>
            \E c \in Pool : outcomes[i].selected = {c.id} /\ Supports(batch.ledger[i], c)

\* When an entry is matched to the record that carries its identifier, any
\* other record that carries it had been taken by an earlier outcome.
IdentifiersAreUnrivalled ==
    \A i \in 1 .. Len(outcomes) : \A c, d \in Pool :
        LET entry == batch.ledger[i]
        IN /\ outcomes[i].autonomous /\ outcomes[i].status = "matched"
           /\ outcomes[i].selected = {c.id} /\ Exact(entry, c)
           /\ d # c /\ d.kind = entry.kind /\ Exact(entry, d)
           => \E j \in 1 .. i - 1 : outcomes[j].autonomous /\ d.id \in outcomes[j].selected

\* What is reported as missing from the ledger is not what a match is about,
\* and no entry of the batch names it.
MissingIsUnclaimed ==
    \A c \in Pool : c.id \in missing =>
        \A i \in 1 .. Len(batch.ledger) :
            /\ ~(outcomes[i].status = "matched" /\ c.id \in outcomes[i].selected)
            /\ ~(batch.ledger[i].kind = c.kind /\ Exact(batch.ledger[i], c))

\* test_reconciliation_engine.py:324, duplicate veto: an outcome that says
\* duplicate leaves the decision to a human.
DuplicatesAreReviewed ==
    \A i \in 1 .. Len(outcomes) :
        outcomes[i].status = "duplicate" => ~outcomes[i].autonomous

=============================================================================
