------------------------------ MODULE MCEngine ------------------------------
(***************************************************************************)
(* Small batches for stages A and B.  Similarities are those difflib gives *)
(* for the tokens below; what is not listed is below 75, the lowest that   *)
(* counts.                                                                 *)
(***************************************************************************)
EXTENDS StageB

Receipts == {"INVOICE1001", "INVOICE1002", "X1001", "Y1001"}
PaymentTokens == <<"PAYA", "PAYB", "PAYC">>
OrderTokens == <<"ORDA", "ORDB", "ORDC">>
RefundTokens == <<"RFNDA", "RFNDB">>

TokensIn(s) == {s[i] : i \in DOMAIN s}
MCReferences == {""} \cup Receipts \cup TokensIn(PaymentTokens) \cup TokensIn(OrderTokens)
                    \cup TokensIn(RefundTokens) \cup {"SETL1", "SETL2"}

MCDigitsOf ==
    [r \in MCReferences |->
        CASE r \in {"INVOICE1001", "X1001", "Y1001"} -> "1001"
          [] r = "INVOICE1002" -> "1002"
          [] OTHER -> ""]

MCRatio ==
    [p \in MCReferences \X MCReferences |->
        CASE p[1] = p[2] -> 100
          [] {p[1], p[2]} = {"INVOICE1001", "INVOICE1002"} -> 91
          [] {p[1], p[2]} = {"RFNDA", "RFNDB"} -> 80
          [] p[1] # p[2] /\ {p[1], p[2]} \subseteq TokensIn(PaymentTokens) -> 75
          [] OTHER -> 67]

MCTextRatio == [p \in MCReferences \X MCReferences |-> IF p[1] = p[2] THEN 100 ELSE 0]

-----------------------------------------------------------------------------
\* One payment per slot, with its own order; amounts 10000 and 9000.
Variants == [receipt : Receipts, amount : {9000, 10000}, captured : {TRUE}]
                \cup {[receipt |-> "INVOICE1001", amount |-> 10000, captured |-> FALSE]}

PaymentIn(slot, v) ==
    [id |-> slot, providerId |-> PaymentTokens[slot], order |-> OrderTokens[slot],
     receipt |-> v.receipt, amount |-> v.amount, currency |-> "INR",
     captured |-> v.captured, day |-> slot]

OrderIn(slot, v) ==
    [providerId |-> OrderTokens[slot], receipt |-> v.receipt, amount |-> v.amount,
     currency |-> "INR", paid |-> TRUE]

Entries ==
    {[reference |-> r, kind |-> "payment", amount |-> 10000, currency |-> "INR", day |-> 1]
        : r \in {"INVOICE1001", "INVOICE1002", "X1001", "PAYB"}}
    \cup {[reference |-> "INVOICE1001", kind |-> "payment", amount |-> 10000,
           currency |-> "INR", day |-> 12],
          [reference |-> "INVOICE1001", kind |-> "payment", amount |-> 10000,
           currency |-> "USD", day |-> 1]}

Ledgers(entries) == {<<>>} \cup {<<e>> : e \in entries} \cup {<<e, f>> : e, f \in entries}

\* A batch that nothing has been settled of yet.
LedgerBatch(ledger, orders, payments, refunds) ==
    [ledger |-> ledger, orders |-> orders, payments |-> payments, refunds |-> refunds,
     settlements |-> {}, lines |-> {}, credits |-> {}]

PaymentBatches ==
    {LedgerBatch(ledger,
                 {OrderIn(slot, choice[slot]) : slot \in {n \in DOMAIN choice : linked}},
                 {PaymentIn(slot, choice[slot]) : slot \in DOMAIN choice}, {})
        : ledger \in Ledgers(Entries), choice \in UNION {[1 .. n -> Variants] : n \in 0 .. 2},
          linked \in BOOLEAN}

\* Three payments: what it takes for two of them to be each other's duplicates
\* while the third is the best.
Trios ==
    {LedgerBatch(ledger,
                 {OrderIn(slot, choice[slot]) : slot \in 1 .. 3},
                 {PaymentIn(slot, choice[slot]) : slot \in 1 .. 3}, {})
        : ledger \in {<<e, f>> : e, f \in {x \in Entries : x.day = 1 /\ x.currency = "INR"
                                                /\ x.reference \in Receipts}},
          choice \in [1 .. 3 -> {v \in Variants : v.captured /\ v.receipt # "Y1001"}]}

\* Two refunds of one payment, in full or in part.
RefundIn(slot, amount) ==
    [id |-> 3 + slot, providerId |-> RefundTokens[slot], payment |-> "PAYA",
     amount |-> amount, currency |-> "INR", day |-> slot]

RefundEntries ==
    [reference : {"RFNDA", "PAYA", "X1001"}, kind : {"refund"}, amount : {4000, 10000},
     currency : {"INR"}, day : {1}]
    \cup {[reference |-> "INVOICE1001", kind |-> "payment", amount |-> 10000,
           currency |-> "INR", day |-> 1]}

RefundBatches ==
    {LedgerBatch(ledger, {OrderIn(1, v)}, {PaymentIn(1, v)},
                 {RefundIn(slot, amounts[slot]) : slot \in 1 .. n})
        : ledger \in Ledgers(RefundEntries),
          v \in {w \in Variants : w.receipt = "INVOICE1001" /\ w.amount = 10000},
          amounts \in [1 .. 2 -> {4000, 10000, 12000}],
          n \in 0 .. 2}

LedgerBatches == PaymentBatches \cup Trios \cup RefundBatches

-----------------------------------------------------------------------------
(***************************************************************************)
(* Batches for stage B: payment 1, and perhaps a second one or another row *)
(* of the same, in settlement 1; settlement 2 releases what 1 holds or     *)
(* names a payment again.                                                  *)
(***************************************************************************)
PaymentOf(n, id) ==
    [id |-> id, providerId |-> PaymentTokens[n], order |-> OrderTokens[n], receipt |-> "",
     amount |-> 10000, currency |-> "INR", captured |-> TRUE, day |-> 1]

PaymentSets == {{PaymentOf(1, 1)}, {PaymentOf(1, 1), PaymentOf(2, 2)},
                {PaymentOf(1, 1), PaymentOf(1, 2)}}

\* Refund row n of payment n; the second may repeat the first's identifier.
RefundOf(n, token) ==
    [id |-> 3 + n, providerId |-> token, payment |-> PaymentTokens[n], amount |-> 4000,
     currency |-> "INR", day |-> 2]

RefundSets == {{}, {RefundOf(1, "RFNDA")}, {RefundOf(1, "RFNDA"), RefundOf(2, "RFNDA")}}

LineOf(id, settlement, type, reference, amount, day) ==
    [id |-> id, settlement |-> settlement, type |-> type, reference |-> reference,
     amount |-> amount, currency |-> "INR", day |-> day]

PaymentLines(payments) ==
    {LineOf(100 + id, 1, "payment", PaymentTokens[id], 10000, 3) : id \in {p.id : p \in
        {q \in payments : q.providerId = PaymentTokens[q.id]}}}

RefundLines(refunds) ==
    {LineOf(110 + r.id, 1, "refund", r.payment, -4000, 3) : r \in refunds}

FeeLines == {{LineOf(121, 1, "fee", "", amount, 3)} : amount \in {-200, 200}}

HoldLines == {{}, {LineOf(131, 1, "hold", "", -3000, 3)}}

\* What settlement 2 is: none, a release in one or two parts, in time or not,
\* or another settlement that names payment 1 or moves an unrelated transfer.
SecondLines ==
    {{}, {LineOf(141, 2, "release", "SETL1", 3000, 5)},
     {LineOf(141, 2, "release", "SETL1", 2000, 5)},
     {LineOf(141, 2, "release", "SETL1", 3000, 3)},
     {LineOf(141, 2, "release", "SETL1", 2000, 5), LineOf(142, 2, "release", "", 1000, 5)},
     {LineOf(143, 2, "payment", "PAYA", 10000, 5)},
     {LineOf(143, 2, "payment", "PAYA", 10000, 5), LineOf(141, 2, "release", "SETL1", 3000, 5)},
     {LineOf(144, 2, "payment", "PAYA", 9000, 5), LineOf(145, 2, "transfer", "", -500, 5)}}

SettlementOf(id, lines, off, day) ==
    LET own == {l \in lines : l.settlement = id}
    IN [id |-> id, providerId |-> IF id = 1 THEN "SETL1" ELSE "SETL2",
        amount |-> off + Total({l \in own : l.type # "transfer"}),
        fee |-> -Total({l \in own : l.type = "fee"}), tax |-> 0,
        held |-> -Total({l \in own : l.type = "hold"}),
        currency |-> "INR", utr |-> id, day |-> day]

\* Credits of settlement s: amounts and UTRs.
CreditsOf(s, shape) ==
    LET credit(n, utr, amount) ==
            [id |-> 10 * s.id + n, utr |-> utr, amount |-> amount, currency |-> "INR",
             day |-> s.day + n]
    IN CASE shape = "none" -> {}
         [] shape = "exact" -> {credit(1, s.utr, s.amount)}
         [] shape = "off" -> {credit(1, s.utr, s.amount - 1), credit(2, 9, s.amount)}
         [] shape = "twice" -> {credit(1, s.utr, s.amount), credit(2, s.utr, s.amount)}
         [] shape = "near" -> {credit(1, 9, s.amount), credit(8, 9, s.amount)}

SettlementBatch(payments, refunds, lines, off, shape1, shape2) ==
    LET settlements == {SettlementOf(1, lines, off, 3)}
                           \cup {SettlementOf(2, lines, 0, 5)
                                    : l \in {m \in lines : m.settlement = 2}}
    IN [ledger |-> <<>>, orders |-> {}, payments |-> payments, refunds |-> refunds,
        settlements |-> settlements, lines |-> lines,
        credits |-> UNION {CreditsOf(s, IF s.id = 1 THEN shape1 ELSE shape2) : s \in settlements}]

\* Who shares what, when the settlements are in order.
SharingBatches ==
    {SettlementBatch(payments, refunds,
                     PaymentLines(payments) \cup RefundLines(debited) \cup hold \cup second,
                     0, shape, "exact")
        : payments \in PaymentSets, refunds \in RefundSets, debited \in RefundSets,
          hold \in HoldLines, second \in SecondLines, shape \in {"exact", "near"}}

\* What can be wrong with the settlements and credits of a payment or two.
FundingBatches ==
    {SettlementBatch(payments, {}, PaymentLines(payments) \cup fee \cup hold \cup second,
                     off, shape1, shape2)
        : payments \in {{PaymentOf(1, 1)}, {PaymentOf(1, 1), PaymentOf(2, 2)}},
          fee \in FeeLines, hold \in HoldLines, second \in SecondLines, off \in {0, 1},
          shape1 \in {"none", "exact", "off", "twice", "near"}, shape2 \in {"exact", "off"}}

SettlementBatches == SharingBatches \cup FundingBatches

MCBatches == LedgerBatches \cup SettlementBatches

=============================================================================
