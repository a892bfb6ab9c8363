---------------------------- MODULE MCInvestigation ----------------------------
(***************************************************************************)
(* Two exceptions for TLC: x of a payment (pay) with a settlement (setl),  *)
(* which has one line (line), and y of the payment alone, so that its      *)
(* settlement is out of bounds.  A provider may time out, ask for the      *)
(* settlement, or recommend on the grounds of the line; asked by the       *)
(* request r2, it recommends on those of the payment.                      *)
(***************************************************************************)
EXTENDS Investigation

CONSTANTS x, y, pay, setl, line, nid, r2

Cite(type, id) == [type |-> type, id |-> id]
MCRecords == {Cite("razorpay_payment", pay), Cite("settlement", setl), Cite("settlement_line", line)}
MCReferences ==
    [e \in Exceptions |->
        {Cite("razorpay_payment", pay)} \cup (IF e = x THEN {Cite("source", setl)} ELSE {})]
MCLinesOf == [i \in Ids |-> IF i = setl THEN {Cite("settlement_line", line)} ELSE {}]
MCAmount == [e \in Exceptions |-> IF e = x THEN 2 ELSE 1]
MCMentions == [e \in Exceptions |-> IF e = x THEN {"net_discrepancy"} ELSE {"refund", "net_discrepancy"}]

Tool(name, ids) == [kind |-> "tool", tool |-> name, ids |-> ids]
Recommend(cited) == [kind |-> "recommendation", cited |-> cited]

Timeout == [kind |-> "failure", code |-> "timeout"]

MCAnswers ==
    [r \in Requests |->
        IF r = r2 THEN {Recommend({Cite("razorpay_payment", pay)})}
        ELSE {Timeout, Tool("get_settlement_breakdown", {setl}),
              Recommend({Cite("settlement_line", line)})}]
=============================================================================
