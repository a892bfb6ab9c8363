------------------------------- MODULE MCOutcomes -------------------------------
(***************************************************************************)
(* One batch for TLC.  Its case has a ledger entry (l1) whose payment (p1) *)
(* has a rival (d1), a payment the ledger knows nothing of.  The first run *)
(* leaves l1 and p1 to review; the second has found the bank credit (b1)   *)
(* and closes them, but pays d1 with the same settlement.                  *)
(***************************************************************************)
EXTENDS RunMetrics, LedgerView

CONSTANTS l1, o1, p1, d1, s1, b1

MCSourceType ==
    [x \in Source |->
        CASE x = l1 -> "ledger" [] x = o1 -> "razorpay_order"
          [] x \in {p1, d1} -> "razorpay_payment"
          [] x = s1 -> "settlement" [] x = b1 -> "bank_credit"]

MCOrderOf == [x \in Source |-> IF x \in {p1, d1} THEN o1 ELSE None]

StageA(primary, selected, candidates, status, autonomous, amount) ==
    [stage |-> "ledger_to_razorpay", primary |-> primary, selected |-> selected,
     candidates |-> candidates, status |-> status, autonomous |-> autonomous, amount |-> amount]

StageB(primary, selected, candidates, status, autonomous, amount) ==
    [stage |-> "razorpay_to_settlement", primary |-> primary, selected |-> selected,
     candidates |-> candidates, status |-> status, autonomous |-> autonomous, amount |-> amount]

First == <<StageA(l1, {p1}, {p1, d1}, "ambiguous", FALSE, 3),
           StageB(p1, {s1}, {s1}, "missing_bank_credit", FALSE, 3)>>

Second == <<StageA(l1, {p1}, {p1, d1}, "matched", TRUE, 3),
            StageA(d1, {d1}, {d1}, "missing_ledger", FALSE, 2),
            StageB(p1, {s1, b1}, {s1}, "matched", TRUE, 3),
            StageB(d1, {s1}, {s1}, "matched", TRUE, 2)>>

MCOutcomeTables == <<{First}, {Second}>>

MCTruth ==
    {[class |-> "ambiguous", amount |-> 3, matchable |-> TRUE, expected |-> "matched",
      sources |-> {l1, o1, p1, s1, b1}],
     [class |-> "missing_ledger", amount |-> 2, matchable |-> FALSE,
      expected |-> "missing_ledger", sources |-> {d1}]}
=============================================================================
