------------------------------- MODULE StageB -------------------------------
(***************************************************************************)
(* Stage B of the deterministic engine, run on the same batch after stage  *)
(* A: reconcile_stage_b takes the captured payments in order and follows   *)
(* each one to the settlements whose lines name it, to later settlements   *)
(* that release what those hold, and to the bank credits.  What an         *)
(* autonomous outcome used is reserved.                                    *)
(***************************************************************************)
EXTENDS StageA, FiniteSets, FiniteSetsExt

CONSTANT Utrs

LineTypes == {"payment", "refund", "transfer", "fee", "tax", "hold", "release", "adjustment"}
Settlement == [id: Nat, providerId: References, amount: Int, fee: Int, tax: Int, held: Int,
               currency: Currencies, utr: Utrs, day: Int]
Line == [id: Nat, settlement: Nat, type: LineTypes, reference: References, amount: Int,
         currency: Currencies, day: Int]
Credit == [id: Nat, utr: Utrs, amount: Int, currency: Currencies, day: Int]

ASSUME SettlementAssumption ==
    \A b \in Batches :
        /\ b.settlements \subseteq Settlement /\ b.lines \subseteq Line
        /\ b.credits \subseteq Credit
        /\ \A x, y \in b.settlements : x.id = y.id => x = y
        /\ \A x, y \in b.credits : x.id = y.id => x = y

VARIABLES
    settled,  \* one outcome per captured payment considered so far, in order
    used      \* what autonomous outcomes used up

settleVars == <<settled, used>>

-----------------------------------------------------------------------------
(***************************************************************************)
(* One settlement: its arithmetic and its bank credit.                     *)
(***************************************************************************)
Total(lines) == MapThenSumSet(LAMBDA l : l.amount, lines)

LinesOf(s) == {l \in batch.lines : l.settlement = s.id}
LinesIn(settlements) == UNION {LinesOf(s) : s \in settlements}

Debits == {"refund", "fee", "tax", "hold"}

WrongDirection(l) ==
    \/ l.type \in {"payment", "release"} /\ l.amount < 0
    \/ l.type \in Debits /\ l.amount > 0

\* A line in the wrong direction is left out, except a payment's; so is a
\* transfer.
Counts(l) == l.type # "transfer" /\ (WrongDirection(l) => l.type = "payment")

Debited(s, type) == -Total({l \in LinesOf(s) : l.type = type /\ Counts(l)})
Held(s) == Debited(s, "hold")
Expected(s) == Total({l \in LinesOf(s) : Counts(l)})

MathContradictions(s) ==
    {k \in {"line_currency", "direction", "amount", "fee", "tax", "hold"} :
        CASE k = "line_currency" -> \E l \in LinesOf(s) : l.currency # s.currency
          [] k = "direction" -> \E l \in LinesOf(s) : WrongDirection(l)
          [] k = "amount" -> s.amount # Expected(s)
          [] k = "fee" -> s.fee # Debited(s, "fee")
          [] k = "tax" -> s.tax # Debited(s, "tax")
          [] k = "hold" -> s.held # Held(s)}

UtrCredits(s) == {c \in batch.credits : c.utr = s.utr}

\* Amount and date are asked only when no credit carries the settlement's UTR.
NearCredits(s) ==
    {c \in batch.credits :
        c.currency = s.currency /\ c.amount = s.amount /\ Distance(c.day, s.day) <= 7}

CreditsFor(s) == IF UtrCredits(s) # {} THEN UtrCredits(s) ELSE NearCredits(s)

Closer(s, c, d) ==
    IF UtrCredits(s) # {} \/ Distance(c.day, s.day) = Distance(d.day, s.day)
    THEN c.id < d.id
    ELSE Distance(c.day, s.day) < Distance(d.day, s.day)

CreditFor(s) ==
    CHOOSE c \in CreditsFor(s) : \A d \in CreditsFor(s) \ {c} : Closer(s, c, d)

\* Mutant: the UTR says enough.
UtrTrusted(s) ==
    IF CreditsFor(s) = {} THEN {"bank_credit_missing"}
    ELSE {k \in {"bank_duplicate", "bank_currency"} :
            CASE k = "bank_duplicate" -> CreditsFor(s) # {CreditFor(s)}
              [] k = "bank_currency" -> CreditFor(s).currency # s.currency}

BankContradictions(s) ==
    IF CreditsFor(s) = {} THEN {"bank_credit_missing"}
    ELSE {k \in {"bank_duplicate", "bank_currency", "bank_amount"} :
            CASE k = "bank_duplicate" -> CreditsFor(s) # {CreditFor(s)}
              [] k = "bank_currency" -> CreditFor(s).currency # s.currency
              [] k = "bank_amount" -> CreditFor(s).amount # s.amount}

BankVerified(s) == UtrCredits(s) # {} /\ BankContradictions(s) = {}

-----------------------------------------------------------------------------
(***************************************************************************)
(* One payment and the settlements one of them leads to.                   *)
(***************************************************************************)
Names(l, p) == l.reference # NoReference /\ l.reference = p.providerId

BaseSettlements(p) ==
    {s \in batch.settlements : \E l \in LinesOf(s) : l.type = "payment" /\ Names(l, p)}

ReleaseLines(held, settlements) ==
    {l \in LinesIn(settlements \ {held}) :
        l.type = "release" /\ l.reference = held.providerId /\ l.day > held.day}

Related(base) ==
    {base} \cup {s \in batch.settlements : ReleaseLines(base, {s}) # {}}

RefundsOf(p) == {r \in batch.refunds : r.payment = p.providerId}

LinesNaming(p, settlements, type) == {l \in LinesIn(settlements) : l.type = type /\ Names(l, p)}

PaymentAgrees(p, related) ==
    /\ LinesNaming(p, related, "payment") # {}
    /\ \A l \in LinesNaming(p, related, "payment") : l.amount = p.amount

RefundAgrees(p, r, related) ==
    /\ r.amount <= p.amount
    /\ \E l \in LinesNaming(p, related, "refund") : l.amount = -r.amount

LineNamedTwice(related) ==
    \E l, m \in LinesIn(related) :
        l # m /\ l.type = m.type /\ l.reference = m.reference /\ l.reference # NoReference

\* Mutant: any later release will do.
ReleasedInPart(held, related) == ReleaseLines(held, related) # {}

\* Held value counts once later settlements have released all of it.
Released(held, related) ==
    /\ ReleaseLines(held, related) # {}
    /\ Total(ReleaseLines(held, related)) = Held(held)

Holding(related) == {s \in related : Held(s) > 0}

CaseContradictions(p, related) ==
    {k \in {"currency", "payment_amount", "line_reference", "refund_currency", "refund_amount",
            "hold_release_missing"} :
        CASE k = "currency" -> \E s \in related : s.currency # p.currency
          [] k = "payment_amount" -> ~PaymentAgrees(p, related)
          [] k = "line_reference" -> LineNamedTwice(related)
          [] k = "refund_currency" -> \E r \in RefundsOf(p) : r.currency # p.currency
          [] k = "refund_amount" -> \E r \in RefundsOf(p) : ~RefundAgrees(p, r, related)
          [] k = "hold_release_missing" -> \E s \in Holding(related) : ~Released(s, related)}
    \cup UNION {MathContradictions(s) \cup BankContradictions(s) : s \in related}

\* Mutant: a row is used up, not what it stands for.
RowsOf(p, related) ==
    {<<"payment", p.id>>} \cup {<<"refund", r.id>> : r \in RefundsOf(p)}

\* What two payments' cases cannot both use: the payment, its refunds and the
\* lines that name it, by row and by reference.
ResourcesOf(p, related) ==
    {<<"payment", p.id>>, <<"payment reference", p.providerId>>}
    \cup UNION {{<<"refund", r.id>>, <<"refund reference", r.providerId>>} : r \in RefundsOf(p)}
    \cup UNION {{<<"line", l.id>>, <<"line reference", l.type, l.reference>>}
                    : l \in LinesNaming(p, related, "payment") \cup LinesNaming(p, related, "refund")}

MathVerified(contradictions) == contradictions \subseteq {"bank_credit_missing"}

CaseScore(p, related, contradictions) ==
      (IF MathVerified(contradictions) THEN 50 ELSE 0)
    + (IF PaymentAgrees(p, related) THEN 10 ELSE 0)
    + (IF \A s \in related : BankVerified(s) THEN 25
       ELSE IF \E s \in related : BankVerified(s) THEN 15 ELSE 0)
    + (IF Holding(related) # {} /\ "hold_release_missing" \notin contradictions THEN 10 ELSE 0)

CaseFor(p, base) ==
    LET related == Related(base)
        resources == ResourcesOf(p, related)
        contradictions == CaseContradictions(p, related)
        collides == resources \cap used # {}
    IN [id |-> base.id,
        score |-> CaseScore(p, related, contradictions),
        contradictions |-> contradictions
                               \cup (IF collides THEN {"batch_collision"} ELSE {}),
        duplicate |-> collides,
        exact |-> FALSE,
        verified |-> MathVerified(contradictions) /\ \A s \in related : BankVerified(s),
        resources |-> resources,
        selected |-> [settlements |-> {s.id : s \in related},
                      refunds |-> {r.id : r \in RefundsOf(p)},
                      credits |-> {CreditFor(s).id : s \in {t \in related : CreditsFor(t) # {}}}]]

Cases(p) == {CaseFor(p, base) : base \in BaseSettlements(p)}

\* Cases that collide are left out unless there is nothing else.
OpenCases(p) ==
    LET free == {c \in Cases(p) : ~c.duplicate}
    IN IF free # {} THEN free ELSE Cases(p)

CaseStatus(S) ==
    LET best == First(S)
    IN IF best.duplicate THEN "duplicate"
       ELSE IF "hold_release_missing" \in best.contradictions THEN "missing_settlement"
       ELSE IF "bank_credit_missing" \in best.contradictions THEN "missing_bank_credit"
       ELSE IF best.contradictions # {} THEN "amount_mismatch"
       ELSE IF S # {best} /\ Margin(S) < 15 THEN "ambiguous" ELSE "matched"

NothingSelected == [settlements |-> {}, refunds |-> {}, credits |-> {}]

Settle(p) ==
    LET open == OpenCases(p)
    IN IF BaseSettlements(p) = {}
       THEN [payment |-> p, status |-> "missing_settlement", selected |-> NothingSelected,
             autonomous |-> FALSE, resources |-> {}]
       ELSE [payment |-> p, status |-> CaseStatus(open), selected |-> First(open).selected,
             autonomous |-> /\ CaseStatus(open) # "ambiguous"
                            /\ CanAutoResolve(First(open), Margin(open)),
             resources |-> First(open).resources]

-----------------------------------------------------------------------------
EngineInit == Init /\ settled = <<>> /\ used = {}

\* Mutant: a payment that failed is settled too.
AllUnsettled == {p \in batch.payments : \A i \in 1 .. Len(settled) : settled[i].payment # p}

\* The captured payments without an outcome yet.
Unsettled ==
    {p \in batch.payments : p.captured /\ \A i \in 1 .. Len(settled) : settled[i].payment # p}

SettlePayment ==
    /\ done
    /\ \E p \in Unsettled :
        /\ \A q \in Unsettled : p.id <= q.id
        /\ LET outcome == Settle(p)
           IN /\ settled' = Append(settled, outcome)
              /\ used' = IF outcome.autonomous THEN used \cup outcome.resources ELSE used
    /\ UNCHANGED vars

StageANext == Next /\ UNCHANGED settleVars

EngineNext == StageANext \/ SettlePayment

EngineSpec == EngineInit /\ [][EngineNext]_<<vars, settleVars>>

-----------------------------------------------------------------------------
CaseStatuses == {"matched", "missing_settlement", "missing_bank_credit", "duplicate",
                 "amount_mismatch", "ambiguous"}

\* The variables have their types: an outcome is about a captured payment of
\* the batch and selects rows of the batch.
SettleTypeOK ==
    /\ DOMAIN settled = 1 .. Len(settled)
    /\ \A i \in 1 .. Len(settled) :
        /\ settled[i].payment \in {p \in batch.payments : p.captured}
        /\ settled[i].status \in CaseStatuses
        /\ settled[i].autonomous \in BOOLEAN
        /\ settled[i].selected.settlements \subseteq {s.id : s \in batch.settlements}
        /\ settled[i].selected.refunds \subseteq {r.id : r \in batch.refunds}
        /\ settled[i].selected.credits \subseteq {c.id : c \in batch.credits}

Closed == {i \in 1 .. Len(settled) : settled[i].autonomous}

\* No money is closed twice: two payments settled without a human are not the
\* same payment, nor share a refund, under whatever rows the batch holds them.
SettledOnce ==
    \A i, j \in Closed : i # j =>
        LET p == settled[i].payment
            q == settled[j].payment
        IN /\ p.providerId # q.providerId
           /\ {r.providerId : r \in RefundsOf(p)} \cap {r.providerId : r \in RefundsOf(q)} = {}

SelectedSettlements(i) == {s \in batch.settlements : s.id \in settled[i].selected.settlements}

\* A payment settled without a human is backed by settlements whose net is the
\* sum of their lines and arrived in full as the one credit with their UTR,
\* and its own lines are for its amount: no score stands in for either.
SettledIsFunded ==
    \A i \in Closed :
        /\ settled[i].status = "matched"
        /\ SelectedSettlements(i) # {}
        /\ \A s \in SelectedSettlements(i) :
            /\ s.amount = Total({l \in LinesOf(s) : l.type # "transfer"})
            /\ \E c \in batch.credits :
                /\ {d \in batch.credits : d.utr = s.utr} = {c}
                /\ c.amount = s.amount /\ c.currency = s.currency
            /\ \A l \in LinesOf(s) :
                l.type = "payment" /\ l.reference = settled[i].payment.providerId
                    => l.amount = settled[i].payment.amount

\* Held value is not closed before other settlements have released all of it.
HoldsAreReleased ==
    \A i \in Closed : \A s \in SelectedSettlements(i) :
        LET held == -Total({l \in LinesOf(s) : l.type = "hold"})
        IN held > 0 =>
            Total({l \in LinesIn(SelectedSettlements(i) \ {s}) :
                    l.type = "release" /\ l.reference = s.providerId /\ l.day > s.day}) = held

=============================================================================
