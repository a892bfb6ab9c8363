--------------------------- MODULE MCRazorpayFetch ---------------------------
(***************************************************************************)
(* A history for TLC: three orders, a payment of the second, two refunds,  *)
(* the second of which is malformed, two settlements and four recon rows   *)
(* (as many as the pages allow are too many): a held one, one without a    *)
(* UTR, one with a timestamp beyond datetime's, and one more.              *)
(***************************************************************************)
EXTENDS RazorpayFetch

Order(id, receipt) == [id |-> id, receipt |-> receipt, valid |-> TRUE, dated |-> TRUE]
Payment(id, order, captured) ==
    [id |-> id, order |-> order, status |-> "captured", captured |-> captured,
     valid |-> TRUE, dated |-> TRUE]
Refund(id, payment, valid) ==
    [id |-> id, payment |-> payment, valid |-> valid, dated |-> TRUE]
Settlement(id, amount, fee) ==
    [id |-> id, amount |-> amount, fee |-> fee, tax |-> 0, utr |-> id,
     valid |-> TRUE, dated |-> TRUE]
Recon(id, type, settlement, amount, fee) ==
    [id |-> id, type |-> type, settlement |-> settlement, amount |-> amount,
     credit |-> IF type = "refund" THEN 0 ELSE amount,
     debit |-> IF type = "refund" THEN amount ELSE 0,
     fee |-> fee, tax |-> fee, on_hold |-> FALSE, payment |-> None, order |-> None,
     utr |-> settlement, valid |-> TRUE, dated |-> TRUE]

MCHistory ==
    [orders |-> <<Order("o1", "r1"), Order("o2", None), Order("o3", "r3")>>,
     payments |-> <<Payment("p1", "o2", None)>>,
     refunds |-> <<Refund("f1", "p1", TRUE), Refund("f2", "p1", FALSE)>>,
     settlements |-> <<Settlement("s1", 90, 0), Settlement("s2", 50, 5)>>,
     recon |-> <<[Recon("p1", "payment", "s1", 100, 4) EXCEPT !.payment = "p1", !.on_hold = TRUE],
                 [Recon("f1", "refund", "s2", 10, 0) EXCEPT !.utr = None, !.order = "o1"],
                 [Recon("t1", "transfer", "s2", 60, 3) EXCEPT !.dated = FALSE],
                 Recon("a1", "adjustment", "s1", 1, 0)>>]
=============================================================================
