---------------------------- MODULE RazorpayFetch ----------------------------
(***************************************************************************)
(* The fetch of a snapshot from Razorpay (HttpRazorpaySource): five        *)
(* collections, one after the other, each in pages of a list that the      *)
(* provider shows newest first and goes on adding to, and the mapping of   *)
(* what was fetched to source rows.  A fetch ends "fetched", "rejected"    *)
(* (RazorpayAdapterError) or in an "error" of another kind, the outcomes   *)
(* SourceSync goes on from.                                                *)
(*                                                                         *)
(* A record has the fields the mapping reads; "valid" says whether its     *)
(* payload model accepts it, "dated" whether datetime can hold its         *)
(* timestamp.  It does not change, so that items of one id are the same.   *)
(* Source rows go by their provider's ids.  The recon list is that of the  *)
(* one month the requests name.                                            *)
(***************************************************************************)
EXTENDS Integers, Sequences, FiniteSets, FiniteSetsExt, SequencesExt

CONSTANTS
    History,            \* the records of each collection, oldest first
    PageSize, MaxPages,
    None

Collections == <<"orders", "payments", "refunds", "settlements", "recon">>
Names == {Collections[n] : n \in DOMAIN Collections}

Records(c) == {History[c][k] : k \in DOMAIN History[c]}

ASSUME FetchAssumption ==
    /\ \A c \in Names : History[c] \in Seq(Records(c))
    /\ \A c \in {"orders", "settlements"} : \A k, n \in DOMAIN History[c] :
        History[c][k].id = History[c][n].id => k = n
    /\ \A r \in Records("recon") : r.amount \in Int
    /\ PageSize \in Nat \ {0} /\ MaxPages \in Nat \ {0}

VARIABLES
    known,    \* how much of its history each collection has at the provider
    at,       \* the place of the collection being fetched
    skip, page,
    fetched,  \* the items of each collection, as places in its history
    begun,    \* known, when the fetch of the collection began
    status

vars == <<known, at, skip, page, fetched, begun, status>>

-----------------------------------------------------------------------------
(***************************************************************************)
(* The mapping (_map_snapshot) of a sequence of records per collection.    *)
(***************************************************************************)
Receipt(order) == IF order.receipt = None THEN order.id ELSE order.receipt

\* An unknown order is its own receipt.
ReceiptOf(orders, id) ==
    LET of == {o \in Range(orders) : o.id = id}
    IN IF of = {} THEN id ELSE Receipt(CHOOSE o \in of : TRUE)

PaymentRow(orders, p) ==
    [payment |-> p.id, order |-> p.order, receipt |-> ReceiptOf(orders, p.order),
     captured |-> IF p.captured = None THEN p.status = "captured" ELSE p.captured]

\* The lines of a row of the recon list.
Lines(r) ==
    LET line(type, amount, reference) ==
            [settlement |-> r.settlement, type |-> type, amount |-> amount,
             reference |-> reference]
    IN  <<line(r.type, IF r.credit >= r.debit THEN r.amount ELSE -r.amount,
               IF r.payment # None THEN r.payment ELSE IF r.order # None THEN r.order ELSE r.id)>>
        \o (IF r.fee = 0 THEN <<>> ELSE <<line("fee", -r.fee, r.id)>>)
        \o (IF r.tax = 0 THEN <<>> ELSE <<line("tax", -r.tax, r.id)>>)

FirstNonzero(s) ==
    LET nonzero == SelectSeq(s, LAMBDA n : n # 0)
    IN IF nonzero = <<>> THEN 0 ELSE Head(nonzero)

\* What the recon rows of a settlement hold back.
Held(recon, id) == {n \in DOMAIN recon : recon[n].settlement = id /\ recon[n].on_hold}
HeldIn(recon, id) == MapThenSumSet(LAMBDA n : recon[n].amount, Held(recon, id))

\* A settlement that is not in its list is made up of its recon rows, without an amount.
SettlementRow(items, id) ==
    LET of == {s \in Range(items["settlements"]) : s.id = id}
        own == CHOOSE s \in of : TRUE
        rows == SelectSeq(items["recon"], LAMBDA r : r.settlement = id)
        row(amount, utr, fees, taxes) ==
            [settlement |-> id, amount |-> amount, utr |-> utr,
             fee |-> FirstNonzero(fees \o [n \in DOMAIN rows |-> rows[n].fee]),
             tax |-> FirstNonzero(taxes \o [n \in DOMAIN rows |-> rows[n].tax]),
             held |-> HeldIn(items["recon"], id)]
    IN IF of = {} THEN row(0, Head(rows).utr, <<>>, <<>>)
       ELSE row(own.amount, own.utr, <<own.fee>>, <<own.tax>>)

SettlementIds(items) ==
    {s.id : s \in Range(items["settlements"])} \cup {r.settlement : r \in Range(items["recon"])}

Snapshot(items) ==
    [orders |-> {[order |-> o.id, receipt |-> Receipt(o)] : o \in Range(items["orders"])},
     payments |-> {PaymentRow(items["orders"], p) : p \in Range(items["payments"])},
     refunds |-> {[refund |-> r.id, payment |-> r.payment] : r \in Range(items["refunds"])},
     settlements |-> {SettlementRow(items, id) : id \in SettlementIds(items)},
     lines |-> UNION {Range(Lines(r)) : r \in Range(items["recon"])}]

\* A recon row whose settlement nobody has named must give its UTR.
WithoutUtr(items, n) ==
    LET recon == items["recon"]
    IN  /\ recon[n].utr = None
        /\ \A s \in Range(items["settlements"]) : s.id # recon[n].settlement
        /\ \A k \in 1 .. n - 1 : recon[k].settlement # recon[n].settlement

\* Every payload is validated first, then the rows are made, collection by collection.
MappingEnds(items) ==
    LET all(c) == Range(items[c])
        undated(n) == ~items["recon"][n].dated
        bad == {n \in DOMAIN items["recon"] : undated(n) \/ WithoutUtr(items, n)}
    IN  IF \E c \in Names : \E r \in all(c) : ~r.valid THEN "rejected"
        ELSE IF \E c \in Names \ {"recon"} : \E r \in all(c) : ~r.dated THEN "error"
        ELSE IF bad = {} THEN "fetched"
        ELSE IF WithoutUtr(items, CHOOSE n \in bad : \A k \in bad : n <= k) THEN "rejected"
        ELSE "error"

-----------------------------------------------------------------------------
(***************************************************************************)
(* The provider.  It has nothing that names what it does not have.         *)
(***************************************************************************)
Has(k, c, id) == \E n \in 1 .. k[c] : History[c][n].id = id

Consistent(k) ==
    /\ \A n \in 1 .. k["payments"] : Has(k, "orders", History["payments"][n].order)
    /\ \A n \in 1 .. k["refunds"] : Has(k, "payments", History["refunds"][n].payment)
    /\ \A n \in 1 .. k["recon"] : Has(k, "settlements", History["recon"][n].settlement)

Arrive(c) ==
    /\ status = "fetching"
    /\ known[c] < Len(History[c])
    /\ known' = [known EXCEPT ![c] = @ + 1]
    /\ Consistent(known')
    /\ UNCHANGED <<at, skip, page, fetched, begun, status>>

-----------------------------------------------------------------------------
(***************************************************************************)
(* The fetch.                                                              *)
(***************************************************************************)
Here == Collections[at]

Init ==
    /\ known \in [Names -> 0 .. Max({Len(History[c]) : c \in Names})]
    /\ \A c \in Names : known[c] <= Len(History[c])
    /\ Consistent(known)
    /\ at = 1
    /\ skip = 0
    /\ page = 1
    /\ fetched = [c \in Names |-> <<>>]
    /\ begun = known
    /\ status = "fetching"

\* The next items of the list as it is now, newest first.
Page ==
    LET left == known[Here] - skip
    IN [n \in 1 .. IF left < PageSize THEN left ELSE PageSize |-> known[Here] + 1 - skip - n]

With(items) == [fetched EXCEPT ![Here] = @ \o items]
Items(f) == [c \in Names |-> [n \in DOMAIN f[c] |-> History[c][f[c][n]]]]

\* Mutants: the next page starts with the last item of this, or past the first of its own.
SkipOverlaps == skip + Len(Page) - 1
SkipSkips == skip + Len(Page) + 1

Skip == skip + Len(Page)

TooLong == page = MaxPages

NextPage ==
    /\ status = "fetching" /\ Len(Page) = PageSize /\ ~TooLong
    /\ fetched' = With(Page)
    /\ skip' = Skip
    /\ page' = page + 1
    /\ UNCHANGED <<known, at, begun, status>>

\* A list that ends with the last page allowed is taken for one that goes on.
Reject ==
    /\ status = "fetching" /\ Len(Page) = PageSize /\ TooLong
    /\ status' = "rejected"
    /\ UNCHANGED <<known, at, skip, page, fetched, begun>>

NextCollection ==
    /\ status = "fetching" /\ Len(Page) < PageSize /\ at < Len(Collections)
    /\ fetched' = With(Page)
    /\ at' = at + 1
    /\ skip' = 0
    /\ page' = 1
    /\ begun' = [begun EXCEPT ![Collections[at + 1]] = known[Collections[at + 1]]]
    /\ UNCHANGED <<known, status>>

Map ==
    /\ status = "fetching" /\ Len(Page) < PageSize /\ at = Len(Collections)
    /\ fetched' = With(Page)
    /\ status' = MappingEnds(Items(With(Page)))
    /\ UNCHANGED <<known, at, skip, page, begun>>

\* No response in time, one that is not a collection, or a wrong count.
ResponseFails ==
    /\ status = "fetching"
    /\ status' = "rejected"
    /\ UNCHANGED <<known, at, skip, page, fetched, begun>>

Next ==
    \/ \E c \in Names : Arrive(c)
    \/ NextPage \/ Reject \/ NextCollection \/ Map \/ ResponseFails

Spec == Init /\ [][Next]_vars

-----------------------------------------------------------------------------
(***************************************************************************)
(* Properties.                                                             *)
(***************************************************************************)
Before(c) == {History[c][n] : n \in 1 .. begun[c]}

\* A snapshot has what the provider had of a collection when its fetch began,
\* whatever arrived between two pages or two collections: each order, payment,
\* refund and settlement has its row and each recon row all of its lines; a
\* payment carries the receipt of its order and a settlement its own amount,
\* unless the provider got the order or the settlement after that list was read.
SnapshotComplete ==
    status = "fetched" =>
        LET snapshot == Snapshot(Items(fetched))
        IN  /\ \A o \in Before("orders") :
                \E row \in snapshot.orders : row.order = o.id /\ row.receipt = Receipt(o)
            /\ \A p \in Before("payments") :
                \E row \in snapshot.payments :
                    /\ row.payment = p.id /\ row.order = p.order
                    /\ \A o \in Before("orders") : o.id = p.order => row.receipt = Receipt(o)
            /\ \A r \in Before("refunds") :
                [refund |-> r.id, payment |-> r.payment] \in snapshot.refunds
            /\ \A s \in Before("settlements") :
                \E row \in snapshot.settlements :
                    row.settlement = s.id /\ row.amount = s.amount /\ row.utr = s.utr
            /\ \A r \in Before("recon") :
                /\ Range(Lines(r)) \subseteq snapshot.lines
                /\ \E row \in snapshot.settlements : row.settlement = r.settlement

RepeatsAreShifts ==
    \A c \in Names :
        Len(fetched[c]) - Cardinality(Range(fetched[c])) <= known[c] - begun[c]

\* Only what an arrival pushed to a later page is fetched twice: at most as many
\* items as arrived during the fetch of the collection.  Where nothing did, a
\* settlement holds back what its recon rows hold.
NothingTwice ==
    /\ RepeatsAreShifts
    /\ status = "fetched" /\ known["recon"] = begun["recon"] =>
        \A row \in Snapshot(Items(fetched)).settlements :
            row.held = HeldIn(SubSeq(History["recon"], 1, known["recon"]), row.settlement)
=============================================================================
