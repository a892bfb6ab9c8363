--------------------------- MODULE OutcomesProofs ---------------------------
(***************************************************************************)
(* Theorems about the rows of completed runs, and about what the report    *)
(* and the transactions view make of them, for any engine, any number of   *)
(* runs and any reviews.                                                   *)
(***************************************************************************)
EXTENDS RunMetrics, LedgerView, SequenceTheorems, FunctionTheorems, FiniteSetTheorems,
        WellFoundedInduction, TLAPS

(***************************************************************************)
(* The rows.  A review changes only rows that are not autonomous, and      *)
(* leaves them so: what the matcher did alone stays as it was persisted.   *)
(***************************************************************************)
AutonomousStand ==
    \A k \in Runs : \A i \in Results(k) :
        /\ rows[k][i].autonomous <=> engine[k][i].autonomous
        /\ rows[k][i].autonomous => rows[k][i] = Persisted(engine[k][i])

RowInv == RowTypeOK /\ AutonomousStand

LEMMA PersistedIsRow ==
  ASSUME NEW o \in Outcome
  PROVE  /\ Persisted(o) \in Row
         /\ Persisted(o).autonomous = o.autonomous
         /\ o.autonomous <=> Persisted(o).review = None
<1>1. /\ o.primary \in Source /\ o.selected \subseteq Source
      /\ o.autonomous \in BOOLEAN
  BY DEF Outcome
<1>2. RelatedOrders(o) \subseteq Source
  BY <1>1, RowAssumption DEF RelatedOrders
<1>3. LinksOf(o) \subseteq Link
  BY <1>1, <1>2 DEF LinksOf, Link, Roles
<1>4. None # "open"
  BY RowAssumption DEF ReviewStatuses
<1>. DEFINE links == LinksOf(o)
<1>. HIDE DEF links
<1>5. /\ Persisted(o).autonomous = o.autonomous
      /\ Persisted(o).review = IF o.autonomous THEN None ELSE "open"
  BY DEF Persisted
<1>6. Persisted(o) \in Row
  <2>1. Persisted(o) = [stage |-> o.stage, primary |-> o.primary, selected |-> o.selected,
                        candidates |-> o.candidates, status |-> o.status,
                        autonomous |-> o.autonomous, amount |-> o.amount, links |-> links,
                        review |-> IF o.autonomous THEN None ELSE "open"]
    BY DEF Persisted, links
  <2>2. links \in SUBSET Link
    BY <1>3 DEF links
  <2>3. (IF o.autonomous THEN None ELSE "open") \in ReviewStatuses \cup {None}
    BY DEF ReviewStatuses
  <2>. DEFINE review == IF o.autonomous THEN None ELSE "open"
  <2>. HIDE DEF review
  <2>4. [stage |-> o.stage, primary |-> o.primary, selected |-> o.selected,
         candidates |-> o.candidates, status |-> o.status, autonomous |-> o.autonomous,
         amount |-> o.amount, links |-> links, review |-> review] \in Row
    BY <2>2, <2>3 DEF Outcome, Row, review
  <2>. QED  BY <2>1, <2>4 DEF review
<1>. QED  BY <1>1, <1>4, <1>5, <1>6

LEMMA ReviewedIsRow ==
  ASSUME NEW row \in Row, row.review = "open", row.autonomous <=> row.review = None,
         NEW s \in Source
  PROVE  /\ Approved(row, s) \in Row /\ Rejected(row) \in Row
         /\ ~Approved(row, s).autonomous /\ Approved(row, s).review = "approved"
         /\ ~Rejected(row).autonomous /\ Rejected(row).review = "rejected"
<1>1. ~row.autonomous /\ "approved" \in ReviewStatuses /\ "rejected" \in ReviewStatuses
  BY RowAssumption DEF ReviewStatuses
<1>2. row.links \cup {[source |-> s, role |-> "human_approved"]} \in SUBSET Link
  BY DEF Row, Link, Roles
<1>3. {l \in row.links : l.role = "human_approved"} \in SUBSET Link
  BY DEF Row
<1>. DEFINE more == row.links \cup {[source |-> s, role |-> "human_approved"]}
            fewer == {l \in row.links : l.role = "human_approved"}
<1>4. Approved(row, s) = [row EXCEPT !.review = "approved", !.links = more]
  BY DEF Approved
<1>5. Rejected(row) = [row EXCEPT !.review = "rejected", !.status = "confirmed_no_match",
                                  !.links = fewer]
  BY DEF Rejected
<1>. HIDE DEF more, fewer
<1>6. /\ [row EXCEPT !.review = "approved", !.links = more] \in Row
      /\ [row EXCEPT !.review = "approved", !.links = more].autonomous = row.autonomous
      /\ [row EXCEPT !.review = "approved", !.links = more].review = "approved"
  BY <1>1, <1>2 DEF Row, more
<1>7. /\ [row EXCEPT !.review = "rejected", !.status = "confirmed_no_match", !.links = fewer] \in Row
      /\ [row EXCEPT !.review = "rejected", !.status = "confirmed_no_match",
                     !.links = fewer].autonomous = row.autonomous
      /\ [row EXCEPT !.review = "rejected", !.status = "confirmed_no_match",
                     !.links = fewer].review = "rejected"
  BY <1>1, <1>3 DEF Row, fewer
<1>. QED  BY <1>1, <1>4, <1>5, <1>6, <1>7

LEMMA CompleteEffect ==
  ASSUME RowInv, CompleteRun
  PROVE  LET n == Len(rows)
         IN  /\ n \in Nat
             /\ rows' \in Seq(Seq(Row)) /\ Len(rows') = n + 1
             /\ engine' \in Seq(Seq(Outcome)) /\ Len(engine') = n + 1
             /\ quarantine' \in Seq([Quarantined -> ReviewStatuses]) /\ Len(quarantine') = n + 1
             /\ \A k \in 1 .. n : /\ rows'[k] = rows[k] /\ engine'[k] = engine[k]
                                  /\ quarantine'[k] = quarantine[k]
             /\ DOMAIN engine'[n + 1] = DOMAIN rows'[n + 1]
             /\ \A i \in DOMAIN rows'[n + 1] :
                   /\ engine'[n + 1][i] \in Outcome
                   /\ rows'[n + 1][i] = Persisted(engine'[n + 1][i])
<1>. DEFINE n == Len(rows)
<1>1. PICK outcomes \in Outcomes[n + 1] :
        /\ n < MaxRuns
        /\ engine' = Append(engine, outcomes)
        /\ rows' = Append(rows, [i \in DOMAIN outcomes |-> Persisted(outcomes[i])])
        /\ quarantine' = Append(quarantine, [q \in Quarantined |-> "open"])
  BY DEF CompleteRun
<1>2. /\ n \in Nat /\ Len(engine) = n /\ Len(quarantine) = n
      /\ engine \in Seq(Seq(Outcome)) /\ rows \in Seq(Seq(Row))
      /\ quarantine \in Seq([Quarantined -> ReviewStatuses])
  BY LenProperties DEF RowInv, RowTypeOK
<1>3. outcomes \in Seq(Outcome)
  <2>1. n + 1 \in 1 .. MaxRuns
    BY <1>1, <1>2, RowAssumption
  <2>. QED  BY <1>1, <2>1, RowAssumption
<1>. DEFINE new == [i \in DOMAIN outcomes |-> Persisted(outcomes[i])]
            opened == [q \in Quarantined |-> "open"]
<1>4. /\ DOMAIN new = DOMAIN outcomes
      /\ \A i \in DOMAIN outcomes : outcomes[i] \in Outcome /\ new[i] = Persisted(outcomes[i])
  BY <1>3
<1>5. new \in Seq(Row)
  <2>1. Len(outcomes) \in Nat /\ DOMAIN outcomes = 1 .. Len(outcomes)
    BY <1>3, LenProperties
  <2>2. new \in [1 .. Len(outcomes) -> Row]
    BY <1>4, <2>1, PersistedIsRow
  <2>. QED  BY <2>1, <2>2, SeqDef
<1>6. opened \in [Quarantined -> ReviewStatuses]
  BY DEF ReviewStatuses
<1>. HIDE DEF new, opened, n
<1>7. /\ rows' \in Seq(Seq(Row)) /\ Len(rows') = n + 1 /\ rows'[n + 1] = new
      /\ \A k \in 1 .. n : rows'[k] = rows[k]
  BY <1>1, <1>2, <1>5 DEF new, n
<1>8. /\ engine' \in Seq(Seq(Outcome)) /\ Len(engine') = n + 1 /\ engine'[n + 1] = outcomes
      /\ \A k \in 1 .. n : engine'[k] = engine[k]
  BY <1>1, <1>2, <1>3 DEF n
<1>9. /\ quarantine' \in Seq([Quarantined -> ReviewStatuses]) /\ Len(quarantine') = n + 1
      /\ \A k \in 1 .. n : quarantine'[k] = quarantine[k]
  BY <1>1, <1>2, <1>6 DEF opened
<1>. QED  BY <1>2, <1>4, <1>7, <1>8, <1>9 DEF n

LEMMA CompleteRowInv ==
  ASSUME RowInv, CompleteRun
  PROVE  RowInv'
<1>. DEFINE n == Len(rows)
<1>1. /\ n \in Nat
      /\ rows' \in Seq(Seq(Row)) /\ Len(rows') = n + 1
      /\ engine' \in Seq(Seq(Outcome)) /\ Len(engine') = n + 1
      /\ quarantine' \in Seq([Quarantined -> ReviewStatuses]) /\ Len(quarantine') = n + 1
      /\ \A k \in 1 .. n : rows'[k] = rows[k] /\ engine'[k] = engine[k]
      /\ DOMAIN engine'[n + 1] = DOMAIN rows'[n + 1]
      /\ \A i \in DOMAIN rows'[n + 1] :
            /\ engine'[n + 1][i] \in Outcome
            /\ rows'[n + 1][i] = Persisted(engine'[n + 1][i])
  BY CompleteEffect
<1>. HIDE DEF n
<1>2. ASSUME NEW k \in 1 .. (n + 1)
      PROVE  /\ DOMAIN engine'[k] = DOMAIN rows'[k]
             /\ \A i \in DOMAIN rows'[k] :
                  /\ rows'[k][i].autonomous <=> rows'[k][i].review = None
                  /\ rows'[k][i].autonomous <=> engine'[k][i].autonomous
                  /\ rows'[k][i].autonomous => rows'[k][i] = Persisted(engine'[k][i])
  <2>1. CASE k = n + 1
    <3>. SUFFICES ASSUME NEW i \in DOMAIN rows'[n + 1]
                  PROVE  /\ rows'[n + 1][i].autonomous <=> rows'[n + 1][i].review = None
                         /\ rows'[n + 1][i].autonomous <=> engine'[n + 1][i].autonomous
                         /\ rows'[n + 1][i].autonomous =>
                              rows'[n + 1][i] = Persisted(engine'[n + 1][i])
      BY <1>1, <2>1
    <3>. DEFINE o == engine'[n + 1][i]
    <3>1. o \in Outcome /\ rows'[n + 1][i] = Persisted(o)
      BY <1>1
    <3>. HIDE DEF o
    <3>2. /\ Persisted(o).autonomous = o.autonomous
          /\ o.autonomous <=> Persisted(o).review = None
      BY <3>1, PersistedIsRow
    <3>. QED  BY <3>1, <3>2 DEF o
  <2>2. CASE k # n + 1
    <3>1. k \in 1 .. n
      BY <1>1, <2>2
    <3>2. rows'[k] = rows[k] /\ engine'[k] = engine[k] /\ k \in Runs
      BY <1>1, <3>1 DEF Runs, n
    <3>. QED  BY <3>2 DEF RowInv, RowTypeOK, AutonomousStand, Results
  <2>. QED  BY <2>1, <2>2
<1>. QED  BY <1>1, <1>2 DEF RowInv, RowTypeOK, AutonomousStand, Runs, Results

\* A review changes one row that is open.
Replaced(k, i, new) ==
    /\ k \in Runs /\ i \in Results(k)
    /\ rows[k][i].review = "open"
    /\ new \in Row /\ ~new.autonomous /\ new.review \in {"approved", "rejected"}
    /\ rows' = [rows EXCEPT ![k][i] = new]
    /\ UNCHANGED <<engine, quarantine>>

LEMMA ReplacedEffect ==
  ASSUME RowInv, NEW k, NEW i, NEW new, Replaced(k, i, new)
  PROVE  /\ rows' \in Seq(Seq(Row)) /\ Runs' = Runs
         /\ \A j \in Runs : DOMAIN rows'[j] = DOMAIN rows[j]
         /\ \A j \in Runs : \A l \in Results(j) :
               rows'[j][l] = IF j = k /\ l = i THEN new ELSE rows[j][l]
         /\ \A j \in Runs \ {k} : rows'[j] = rows[j]
         /\ ~rows[k][i].autonomous
<1>1. /\ rows \in Seq(Seq(Row)) /\ k \in Runs /\ i \in Results(k) /\ new \in Row
      /\ rows' = [rows EXCEPT ![k][i] = new]
      /\ ~rows[k][i].autonomous
  BY RowAssumption DEF RowInv, RowTypeOK, Replaced, ReviewStatuses
<1>2. /\ DOMAIN rows = Runs /\ Len(rows) \in Nat
      /\ rows[k] \in Seq(Row) /\ i \in DOMAIN rows[k]
  BY <1>1, LenProperties DEF Runs, Results
<1>. DEFINE table == [rows[k] EXCEPT ![i] = new]
<1>3. table \in Seq(Row) /\ DOMAIN table = DOMAIN rows[k]
  BY <1>1, <1>2, ExceptSeq, LenProperties
<1>4. \A l \in DOMAIN rows[k] : table[l] = IF l = i THEN new ELSE rows[k][l]
  BY <1>2
<1>5. rows' = [rows EXCEPT ![k] = table]
  BY <1>1
<1>. HIDE DEF table
<1>6. rows' \in Seq(Seq(Row)) /\ Len(rows') = Len(rows)
  BY <1>1, <1>2, <1>3, <1>5, ExceptSeq DEF Runs
<1>7. /\ rows'[k] = table
      /\ \A j \in Runs \ {k} : rows'[j] = rows[j]
  BY <1>1, <1>2, <1>5
<1>8. Runs' = Runs
  BY <1>6 DEF Runs
<1>. QED  BY <1>1, <1>3, <1>4, <1>6, <1>7, <1>8 DEF Results

LEMMA ReplacedRowInv ==
  ASSUME RowInv, NEW k, NEW i, NEW new, Replaced(k, i, new)
  PROVE  RowInv'
<1>1. /\ rows' \in Seq(Seq(Row)) /\ Runs' = Runs
      /\ \A j \in Runs : DOMAIN rows'[j] = DOMAIN rows[j]
      /\ \A j \in Runs : \A l \in Results(j) :
            rows'[j][l] = IF j = k /\ l = i THEN new ELSE rows[j][l]
      /\ ~rows[k][i].autonomous
  BY ReplacedEffect
<1>2. UNCHANGED <<engine, quarantine>> /\ ~new.autonomous /\ new.review # None
  BY RowAssumption DEF Replaced, ReviewStatuses
<1>3. Len(rows') = Len(rows)
  BY <1>1, LenProperties DEF Runs, RowInv, RowTypeOK
<1>4. ASSUME NEW j \in Runs
      PROVE  /\ DOMAIN engine'[j] = DOMAIN rows'[j]
             /\ \A l \in DOMAIN rows'[j] :
                  /\ rows'[j][l].autonomous <=> rows'[j][l].review = None
                  /\ rows'[j][l].autonomous <=> engine'[j][l].autonomous
                  /\ rows'[j][l].autonomous => rows'[j][l] = Persisted(engine'[j][l])
  <2>1. /\ DOMAIN engine[j] = DOMAIN rows[j]
        /\ \A l \in DOMAIN rows[j] :
             /\ rows[j][l].autonomous <=> rows[j][l].review = None
             /\ rows[j][l].autonomous <=> engine[j][l].autonomous
             /\ rows[j][l].autonomous => rows[j][l] = Persisted(engine[j][l])
    BY DEF RowInv, RowTypeOK, AutonomousStand, Results
  <2>2. ASSUME NEW l \in DOMAIN rows'[j], j = k, l = i
        PROVE  /\ rows'[j][l] = new
               /\ ~engine[j][l].autonomous
    BY <1>1, <2>1, <2>2 DEF Results
  <2>3. ASSUME NEW l \in DOMAIN rows'[j], ~(j = k /\ l = i)
        PROVE  rows'[j][l] = rows[j][l] /\ l \in DOMAIN rows[j]
    BY <1>1, <2>3 DEF Results
  <2>. QED  BY <1>1, <1>2, <2>1, <2>2, <2>3
<1>. QED  BY <1>1, <1>2, <1>3, <1>4 DEF RowInv, RowTypeOK, AutonomousStand, Results

LEMMA ReviewReplaces ==
  ASSUME RowInv, NEW k, NEW i, ApproveResult(k, i) \/ RejectResult(k, i)
  PROVE  \E new : Replaced(k, i, new)
<1>. DEFINE row == rows[k][i]
<1>1. k \in Runs /\ i \in Results(k) /\ row.review = "open" /\ UNCHANGED <<engine, quarantine>>
  BY DEF ApproveResult, RejectResult, Open
<1>2. row \in Row /\ (row.autonomous <=> row.review = None)
  <2>1. rows[k] \in Seq(Row)
    BY <1>1, ElementOfSeq DEF Runs, RowInv, RowTypeOK
  <2>2. row \in Row
    BY <1>1, <2>1 DEF Results
  <2>. QED  BY <1>1, <2>2 DEF RowInv, RowTypeOK
<1>3. CASE ApproveResult(k, i)
  <2>1. PICK s \in row.candidates : rows' = [rows EXCEPT ![k][i] = Approved(row, s)]
    BY <1>3 DEF ApproveResult
  <2>2. s \in Source
    BY <1>2, <2>1 DEF Row
  <2>. HIDE DEF row
  <2>3. /\ Approved(row, s) \in Row
        /\ ~Approved(row, s).autonomous /\ Approved(row, s).review = "approved"
    BY <1>1, <1>2, <2>2, ReviewedIsRow
  <2>4. rows[k][i].review = "open"
    BY <1>1 DEF row
  <2>5. Replaced(k, i, Approved(row, s))
    BY <1>1, <2>1, <2>3, <2>4 DEF Replaced
  <2>. QED  BY <2>5
<1>4. CASE RejectResult(k, i)
  <2>1. rows' = [rows EXCEPT ![k][i] = Rejected(row)]
    BY <1>4 DEF RejectResult
  <2>2. row.primary \in Source
    BY <1>2 DEF Row
  <2>. HIDE DEF row
  <2>3. Rejected(row) \in Row /\ ~Rejected(row).autonomous /\ Rejected(row).review = "rejected"
    BY <1>1, <1>2, <2>2, ReviewedIsRow
  <2>4. rows[k][i].review = "open"
    BY <1>1 DEF row
  <2>5. Replaced(k, i, Rejected(row))
    BY <1>1, <2>1, <2>3, <2>4 DEF Replaced
  <2>. QED  BY <2>5
<1>. QED  BY <1>3, <1>4

LEMMA QuarantineEffect ==
  ASSUME RowInv, NEW k, NEW q \in Quarantined, RejectQuarantined(k, q)
  PROVE  /\ k \in Runs /\ quarantine[k][q] = "open"
         /\ quarantine' \in Seq([Quarantined -> ReviewStatuses])
         /\ Len(quarantine') = Len(quarantine)
         /\ \A p \in Quarantined :
               quarantine'[k][p] = IF p = q THEN "rejected" ELSE quarantine[k][p]
         /\ \A j \in Runs \ {k} : quarantine'[j] = quarantine[j]
         /\ UNCHANGED <<engine, rows>>
<1>1. /\ k \in Runs /\ quarantine[k][q] = "open"
      /\ quarantine' = [quarantine EXCEPT ![k][q] = "rejected"]
      /\ UNCHANGED <<engine, rows>>
      /\ quarantine \in Seq([Quarantined -> ReviewStatuses])
      /\ Len(quarantine) = Len(rows)
  BY DEF RejectQuarantined, RowInv, RowTypeOK
<1>2. /\ k \in 1 .. Len(quarantine) /\ DOMAIN quarantine = 1 .. Len(quarantine)
      /\ DOMAIN quarantine = Runs
      /\ quarantine[k] \in [Quarantined -> ReviewStatuses]
  BY <1>1, LenProperties, ElementOfSeq DEF Runs
<1>. DEFINE table == [quarantine[k] EXCEPT ![q] = "rejected"]
<1>3. /\ table \in [Quarantined -> ReviewStatuses]
      /\ \A p \in Quarantined : table[p] = IF p = q THEN "rejected" ELSE quarantine[k][p]
  BY <1>2 DEF ReviewStatuses
<1>4. quarantine' = [quarantine EXCEPT ![k] = table]
  BY <1>1
<1>. HIDE DEF table
<1>5. /\ quarantine' \in Seq([Quarantined -> ReviewStatuses])
      /\ Len(quarantine') = Len(quarantine)
  BY <1>1, <1>2, <1>3, <1>4, ExceptSeq
<1>6. quarantine'[k] = table /\ \A j \in Runs \ {k} : quarantine'[j] = quarantine[j]
  BY <1>1, <1>2, <1>4
<1>. QED  BY <1>1, <1>3, <1>5, <1>6

LEMMA QuarantineRowInv ==
  ASSUME RowInv, NEW k, NEW q \in Quarantined, RejectQuarantined(k, q)
  PROVE  RowInv'
<1>1. /\ quarantine' \in Seq([Quarantined -> ReviewStatuses])
      /\ Len(quarantine') = Len(quarantine)
      /\ UNCHANGED <<engine, rows>>
  BY QuarantineEffect
<1>. QED  BY <1>1 DEF RowInv, RowTypeOK, AutonomousStand, Runs, Results

LEMMA NextRowInv == RowInv /\ [MetricNext]_outcomeVars => RowInv'
<1>. SUFFICES ASSUME RowInv, [MetricNext]_outcomeVars PROVE RowInv'
  OBVIOUS
<1>1. CASE UNCHANGED rowVars
  BY <1>1 DEF rowVars, RowInv, RowTypeOK, AutonomousStand, Runs, Results
<1>2. CASE Complete
  BY <1>2, CompleteRowInv DEF Complete
<1>3. ASSUME NEW k, NEW i, Approve(k, i) \/ Reject(k, i) PROVE RowInv'
  BY <1>3, ReviewReplaces, ReplacedRowInv DEF Approve, Reject
<1>4. ASSUME NEW k, NEW q \in Quarantined, RejectMalformed(k, q) PROVE RowInv'
  BY <1>4, QuarantineRowInv DEF RejectMalformed
<1>. QED
  BY <1>1, <1>2, <1>3, <1>4 DEF MetricNext, DeployVersion, Evaluate, outcomeVars

LEMMA InitRowInv == MetricInit => RowInv
<1>. SUFFICES ASSUME MetricInit PROVE RowInv
  OBVIOUS
<1>1. engine = <<>> /\ rows = <<>> /\ quarantine = <<>>
  BY DEF MetricInit, RowInit
<1>2. Runs = {}
  BY <1>1 DEF Runs
<1>3. /\ engine \in Seq(Seq(Outcome)) /\ rows \in Seq(Seq(Row))
      /\ quarantine \in Seq([Quarantined -> ReviewStatuses])
      /\ Len(engine) = Len(rows) /\ Len(quarantine) = Len(rows)
  BY <1>1
<1>. QED  BY <1>2, <1>3 DEF RowInv, RowTypeOK, AutonomousStand

\* Rows keep the types of their tables, and exactly the results that are not
\* autonomous have an exception, whatever the engine returned and whoever
\* reviews it.
THEOREM RowsTypeCorrect == MetricSpec => []RowTypeOK
<1>1. MetricSpec => []RowInv
  BY InitRowInv, NextRowInv, PTL DEF MetricSpec
<1>2. RowInv => RowTypeOK
  BY DEF RowInv
<1>. QED  BY <1>1, <1>2, PTL

(***************************************************************************)
(* The transactions view.                                                  *)
(***************************************************************************)
LEMMA Least ==
  ASSUME NEW T \in SUBSET Nat, T # {}
  PROVE  \E m \in T : \A k \in T : m <= k
<1>1. IsWellFoundedOn(OpToRel(<, Nat), Nat)
  BY NatLessThanWellFounded
<1>2. PICK m \in T : \A k \in T : <<k, m>> \notin OpToRel(<, Nat)
  BY <1>1, WFMin
<1>3. \A k \in T : ~(k < m)
  BY <1>2 DEF OpToRel
<1>. QED  BY <1>3

LEMMA Greatest ==
  ASSUME NEW n \in Nat, NEW S \in SUBSET (1 .. n), S # {}
  PROVE  \E m \in S : \A k \in S : k <= m
<1>. DEFINE T == {j \in Nat : n - j \in S}
<1>1. \A k \in S : n - k \in T /\ n - (n - k) = k
  OBVIOUS
<1>2. T \in SUBSET Nat /\ T # {}
  BY <1>1
<1>3. PICK j \in T : \A i \in T : j <= i
  BY <1>2, Least
<1>4. \A k \in S : k <= n - j
  BY <1>1, <1>3
<1>. QED  BY <1>3, <1>4

\* What the three kinds of relationships are.
LEMMA ResultRelation ==
  ASSUME NEW x, NEW a \in ResultRelations(x)
  PROVE  \E id \in ResultIds :
            /\ RowOf(id).primary = x
            /\ a.run = id[1] /\ a.priority = 1 /\ a.late = FALSE
            /\ a.state = "autonomous" => RowOf(id).status = "matched" /\ RowOf(id).autonomous
<1>1. PICK id \in {r \in ResultIds : RowOf(r).primary = x} :
        a = Relation(id, 1, FALSE, MatchedState(RowOf(id).status, RowOf(id).autonomous))
  BY DEF ResultRelations
<1>. DEFINE state == MatchedState(RowOf(id).status, RowOf(id).autonomous)
<1>. HIDE DEF state
<1>2. a = [run |-> id[1], priority |-> 1, late |-> FALSE, state |-> state]
  BY <1>1 DEF Relation, state
<1>3. a.run = id[1] /\ a.priority = 1 /\ a.late = FALSE /\ a.state = state
  BY <1>2
<1>4. state = "autonomous" => RowOf(id).status = "matched" /\ RowOf(id).autonomous
  BY DEF state, MatchedState
<1>. QED  BY <1>1, <1>3, <1>4

LEMMA LinkRelation ==
  ASSUME NEW x, NEW a \in LinkRelations(x)
  PROVE  \E id \in ResultIds : \E human \in BOOLEAN :
            /\ LinksTo(id, x, human) # {}
            /\ a.run = id[1] /\ a.priority = 2 /\ a.late = human
            /\ a.state = MatchedState(RowOf(id).status, ~human /\ RowOf(id).autonomous)
<1>1. CASE a \in {Relation(id, 2, FALSE, MatchedState(RowOf(id).status, RowOf(id).autonomous)) :
                    id \in {r \in ResultIds : LinksTo(r, x, FALSE) # {}}}
  <2>1. PICK id \in {r \in ResultIds : LinksTo(r, x, FALSE) # {}} :
          a = Relation(id, 2, FALSE, MatchedState(RowOf(id).status, RowOf(id).autonomous))
    BY <1>1
  <2>. DEFINE state == MatchedState(RowOf(id).status, RowOf(id).autonomous)
  <2>2. state = MatchedState(RowOf(id).status, ~FALSE /\ RowOf(id).autonomous)
    BY DEF MatchedState
  <2>. HIDE DEF state
  <2>3. a = [run |-> id[1], priority |-> 2, late |-> FALSE, state |-> state]
    BY <2>1 DEF Relation, state
  <2>4. a.run = id[1] /\ a.priority = 2 /\ a.late = FALSE /\ a.state = state
    BY <2>3
  <2>. QED  BY <2>1, <2>2, <2>4
<1>2. CASE a \in {Relation(id, 2, TRUE, MatchedState(RowOf(id).status, FALSE)) :
                    id \in {r \in ResultIds : LinksTo(r, x, TRUE) # {}}}
  <2>1. PICK id \in {r \in ResultIds : LinksTo(r, x, TRUE) # {}} :
          a = Relation(id, 2, TRUE, MatchedState(RowOf(id).status, FALSE))
    BY <1>2
  <2>. DEFINE state == MatchedState(RowOf(id).status, FALSE)
  <2>2. state = MatchedState(RowOf(id).status, ~TRUE /\ RowOf(id).autonomous)
    BY DEF MatchedState
  <2>. HIDE DEF state
  <2>3. a = [run |-> id[1], priority |-> 2, late |-> TRUE, state |-> state]
    BY <2>1 DEF Relation, state
  <2>4. a.run = id[1] /\ a.priority = 2 /\ a.late = TRUE /\ a.state = state
    BY <2>3
  <2>. QED  BY <2>1, <2>2, <2>4
<1>. QED  BY <1>1, <1>2 DEF LinkRelations

\* Exceptions that are about x.
ExceptionIds(x) == {r \in ResultIds : RowOf(r).primary = x /\ RowOf(r).review # None}

LEMMA ExceptionRelation ==
  ASSUME NEW x, NEW a \in ExceptionRelations(x)
  PROVE  \E id \in ExceptionIds(x) :
            a.run = id[1] /\ a.priority = 3 /\ a.late = FALSE /\ a.state = RowOf(id).review
<1>1. PICK id \in ExceptionIds(x) : a = Relation(id, 3, FALSE, RowOf(id).review)
  BY DEF ExceptionRelations, ExceptionIds
<1>. DEFINE state == RowOf(id).review
<1>. HIDE DEF state
<1>2. a = [run |-> id[1], priority |-> 3, late |-> FALSE, state |-> state]
  BY <1>1 DEF Relation, state
<1>3. a.run = id[1] /\ a.priority = 3 /\ a.late = FALSE /\ a.state = state
  BY <1>2
<1>. QED  BY <1>1, <1>3 DEF state

LEMMA ExceptionIsRelated ==
  ASSUME NEW x, NEW id \in ExceptionIds(x)
  PROVE  \E a \in ExceptionRelations(x) : a.run = id[1] /\ a.state = RowOf(id).review
<1>. DEFINE state == RowOf(id).review
            a == Relation(id, 3, FALSE, state)
<1>1. a \in ExceptionRelations(x)
  BY DEF ExceptionRelations, ExceptionIds
<1>. HIDE DEF state
<1>2. a.run = id[1] /\ a.state = state
  BY DEF Relation
<1>. QED  BY <1>1, <1>2 DEF state

LEMMA LatestIsGreatest ==
  ASSUME RowInv, NEW x, TouchedBy(x) # {}
  PROVE  /\ TouchedBy(x) \subseteq Runs /\ Runs \subseteq Nat
         /\ LatestRun(x) \in TouchedBy(x)
         /\ \A j \in TouchedBy(x) : j <= LatestRun(x)
<1>1. Len(rows) \in Nat /\ Runs = 1 .. Len(rows)
  BY LenProperties DEF RowInv, RowTypeOK, Runs
<1>2. \A id \in ResultIds : id[1] \in Runs
  BY DEF ResultIds
<1>3. ASSUME NEW a \in Relations(x) PROVE a.run \in Runs
  <2>1. CASE a \in ResultRelations(x)
    <3>1. PICK id \in ResultIds :
            /\ RowOf(id).primary = x
            /\ a.run = id[1] /\ a.priority = 1 /\ a.late = FALSE
            /\ a.state = "autonomous" => RowOf(id).status = "matched" /\ RowOf(id).autonomous
      BY <2>1, ResultRelation
    <3>. QED  BY <1>2, <3>1
  <2>2. CASE a \in LinkRelations(x)
    <3>1. PICK id \in ResultIds : a.run = id[1]
      BY <2>2, LinkRelation
    <3>. QED  BY <1>2, <3>1
  <2>3. CASE a \in ExceptionRelations(x)
    <3>1. PICK id \in ExceptionIds(x) : a.run = id[1]
      BY <2>3, ExceptionRelation
    <3>. QED  BY <1>2, <3>1 DEF ExceptionIds
  <2>. QED  BY <2>1, <2>2, <2>3 DEF Relations
<1>4. TouchedBy(x) \subseteq Runs
  BY <1>3 DEF TouchedBy
<1>5. \E m \in TouchedBy(x) : \A j \in TouchedBy(x) : j <= m
  BY <1>1, <1>4, Greatest
<1>. QED  BY <1>1, <1>4, <1>5 DEF LatestRun

\* Nothing older than the last run is shown.
LEMMA ShownIsOfLatestRun ==
  ASSUME RowInv, NEW x, NEW a \in Latest(x)
  PROVE  TouchedBy(x) # {} /\ a \in Relations(x) /\ a.run = LatestRun(x)
<1>1. a \in Relations(x) /\ \A b \in Relations(x) : ~Before(b, a)
  BY DEF Latest
<1>2. a.run \in TouchedBy(x)
  BY <1>1 DEF TouchedBy
<1>3. /\ a.run \in Nat /\ LatestRun(x) \in Nat
      /\ a.run <= LatestRun(x) /\ LatestRun(x) \in TouchedBy(x)
  BY <1>2, LatestIsGreatest
<1>4. PICK b \in Relations(x) : b.run = LatestRun(x)
  BY <1>3 DEF TouchedBy
<1>5. ~(b.run > a.run)
  BY <1>1 DEF Before
<1>. QED  BY <1>1, <1>2, <1>3, <1>4, <1>5

\* The exceptions of the last run come before everything else.
LEMMA ExceptionsAreShown ==
  ASSUME RowInv, NEW x, TouchedBy(x) # {},
         NEW b \in ExceptionRelations(x), b.run = LatestRun(x)
  PROVE  /\ b \in Latest(x)
         /\ \A a \in Latest(x) : a \in ExceptionRelations(x)
<1>1. b \in Relations(x) /\ b.priority = 3 /\ b.late = FALSE
  BY ExceptionRelation DEF Relations
<1>2. ASSUME NEW a \in Relations(x)
      PROVE  \/ a.priority = 1
             \/ a.priority = 2
             \/ a.priority = 3 /\ a.late = FALSE /\ a \in ExceptionRelations(x)
  <2>1. CASE a \in ResultRelations(x)
    BY <2>1, ResultRelation
  <2>2. CASE a \in LinkRelations(x)
    BY <2>2, LinkRelation
  <2>3. CASE a \in ExceptionRelations(x)
    BY <2>3, ExceptionRelation
  <2>. QED  BY <1>2, <2>1, <2>2, <2>3 DEF Relations
<1>3. ASSUME NEW a \in Relations(x) PROVE ~Before(a, b)
  <2>1. a.run \in Nat /\ LatestRun(x) \in Nat /\ a.run <= LatestRun(x)
    BY LatestIsGreatest DEF TouchedBy
  <2>2. b.run = LatestRun(x) /\ b.priority = 3 /\ b.late = FALSE
    BY <1>1
  <2>3. a.priority \in {1, 2} \/ (a.priority = 3 /\ a.late = FALSE)
    BY <1>2
  <2>. QED  BY <2>1, <2>2, <2>3 DEF Before
<1>4. ASSUME NEW a \in Latest(x) PROVE a \in ExceptionRelations(x)
  <2>1. a \in Relations(x) /\ a.run = LatestRun(x)
    BY ShownIsOfLatestRun
  <2>2. ~(b.priority > a.priority)
    BY <1>1, <2>1 DEF Latest, Before
  <2>3. \/ a.priority = 1
        \/ a.priority = 2
        \/ a.priority = 3 /\ a \in ExceptionRelations(x)
    BY <1>2, <2>1
  <2>4. b.priority = 3
    BY <1>1
  <2>5. ~(a.priority = 1) /\ ~(a.priority = 2)
    BY <2>2, <2>4
  <2>. QED  BY <2>3, <2>5
<1>. QED  BY <1>1, <1>3, <1>4 DEF Latest

LEMMA OpenWorkIsShown ==
  ASSUME RowInv, NEW x, TouchedBy(x) # {}, ReviewsOn(x) # {}
  PROVE  ShownStates(x) = ReviewsOn(x)
<1>1. ReviewsOn(x) = {RowOf(id).review : id \in {r \in ExceptionIds(x) : r[1] = LatestRun(x)}}
  BY DEF ReviewsOn, ExceptionIds
<1>2. Relations(x) # {}
  BY DEF TouchedBy
<1>3. ASSUME NEW review \in ReviewsOn(x) PROVE \E b \in Latest(x) : b.state = review
  <2>1. PICK id \in ExceptionIds(x) : id[1] = LatestRun(x) /\ RowOf(id).review = review
    BY <1>1
  <2>. QED  BY <2>1, ExceptionIsRelated, ExceptionsAreShown
<1>4. ASSUME NEW a \in Latest(x) PROVE a.state \in ReviewsOn(x)
  <2>1. a.run = LatestRun(x)
    BY ShownIsOfLatestRun
  <2>2. PICK id \in ExceptionIds(x) : id[1] = LatestRun(x)
    BY <1>1
  <2>3. PICK b \in ExceptionRelations(x) : b.run = LatestRun(x)
    BY <2>2, ExceptionIsRelated
  <2>4. a \in ExceptionRelations(x)
    BY <2>3, ExceptionsAreShown
  <2>5. PICK r \in ExceptionIds(x) : a.run = r[1] /\ a.state = RowOf(r).review
    BY <2>4, ExceptionRelation
  <2>. QED  BY <1>1, <2>1, <2>5
<1>. QED  BY <1>2, <1>3, <1>4 DEF ShownStates

LEMMA ReconciledIsProved ==
  ASSUME RowInv, NEW x, "autonomous" \in ShownStates(x)
  PROVE  \E id \in ResultIds :
            /\ id[1] = LatestRun(x)
            /\ RowOf(id).autonomous /\ RowOf(id).status = "matched"
            /\ x \in {RowOf(id).primary} \cup {l.source : l \in RowOf(id).links}
<1>1. PICK a \in Latest(x) : a.state = "autonomous"
  BY DEF ShownStates
<1>2. a \in Relations(x) /\ a.run = LatestRun(x)
  BY ShownIsOfLatestRun
<1>3. \A status, autonomous :
          MatchedState(status, autonomous) = "autonomous" => status = "matched" /\ autonomous
  BY DEF MatchedState
<1>4. CASE a \in ResultRelations(x)
  <2>1. PICK id \in ResultIds :
          /\ RowOf(id).primary = x
          /\ a.run = id[1]
          /\ a.state = "autonomous" => RowOf(id).status = "matched" /\ RowOf(id).autonomous
    BY <1>4, ResultRelation
  <2>. QED  BY <1>1, <1>2, <2>1
<1>5. CASE a \in LinkRelations(x)
  <2>1. PICK id \in ResultIds, human \in BOOLEAN :
          /\ LinksTo(id, x, human) # {}
          /\ a.run = id[1]
          /\ a.state = MatchedState(RowOf(id).status, ~human /\ RowOf(id).autonomous)
    BY <1>5, LinkRelation
  <2>2. RowOf(id).status = "matched" /\ RowOf(id).autonomous
    BY <1>1, <1>3, <2>1
  <2>3. x \in {l.source : l \in RowOf(id).links}
    BY <2>1 DEF LinksTo
  <2>. QED  BY <1>2, <2>1, <2>2, <2>3
<1>6. CASE a \in ExceptionRelations(x)
  <2>1. PICK id \in ResultIds : RowOf(id).review # None /\ a.state = RowOf(id).review
    BY <1>6, ExceptionRelation DEF ExceptionIds
  <2>2. \E k \in Runs : \E i \in Results(k) : id = <<k, i>>
    BY DEF ResultIds
  <2>3. PICK k \in Runs : \E i \in Results(k) : id = <<k, i>>
    BY <2>2
  <2>4. PICK i \in Results(k) : id = <<k, i>>
    BY <2>3
  <2>5. rows[k] \in Seq(Row)
    BY ElementOfSeq DEF Runs, RowInv, RowTypeOK
  <2>6. rows[k][i] \in Row /\ RowOf(id) = rows[k][i]
    BY <2>4, <2>5, ElementOfSeq DEF RowOf, Results
  <2>7. RowOf(id).review \in {"open", "approved", "rejected"}
    BY <2>1, <2>6 DEF Row, ReviewStatuses
  <2>. QED  BY <1>1, <2>1, <2>7
<1>. QED  BY <1>2, <1>4, <1>5, <1>6 DEF Relations

\* The transactions view hides no open work and invents no success: a row shows
\* the review of the last run that knows it, and shows as reconciled only if
\* that run matched it without a human.
THEOREM ViewTellsReviews == MetricSpec => []ViewShowsOpenWork
<1>1. RowInv => ViewShowsOpenWork
  BY OpenWorkIsShown, ReconciledIsProved DEF ViewShowsOpenWork
<1>2. MetricSpec => []RowInv
  BY InitRowInv, NextRowInv, PTL DEF MetricSpec
<1>. QED  BY <1>1, <1>2, PTL

(***************************************************************************)
(* Stored reports.  A report has the fields that reviews adjust, counts    *)
(* what is open, and carries the scores of the matcher's own rows.         *)
(***************************************************************************)
ReportFields(m) ==
    /\ {"open_exceptions", "scores"} \subseteq DOMAIN m
    /\ {"matcher", "stage"} \subseteq DOMAIN m.scores
    /\ benchmark =>
        /\ DOMAIN m.scores.stage = Stages
        /\ \A s \in Stages :
            {"open_exceptions", "unresolved_cases"} \subseteq DOMAIN m.scores.stage[s]

OpenInStage(k, s) == {i \in OpenResults(k) : rows[k][i].stage = s}

CountsOpen(m, k) ==
    /\ m.open_exceptions = OpenCount(k)
    /\ benchmark => \A s \in Stages :
        m.scores.stage[s].open_exceptions = Cardinality(OpenInStage(k, s))

MatcherOf(k) == MatcherScores(Autonomous(Predictions(AsCompleted(k))))

ReportTrue(k) ==
    metrics[k] # None =>
        /\ ReportFields(metrics[k])
        /\ CountsOpen(metrics[k], k)
        /\ benchmark => metrics[k].scores.matcher = MatcherOf(k)

ReportSequence == \E S : metrics \in Seq(S)

MetricInv ==
    /\ RowInv
    /\ benchmark \in BOOLEAN
    /\ ReportSequence
    /\ Len(metrics) = Len(rows)
    /\ \A k \in Runs : ReportTrue(k)

\* What adjusting does to the report of a stage, to the scores and to the report.
LEMMA AdjustStageEffect ==
  ASSUME NEW stages, NEW stage, NEW approved, DOMAIN stages = Stages,
         \A s \in Stages :
            {"open_exceptions", "unresolved_cases"} \subseteq DOMAIN stages[s]
  PROVE  LET new == AdjustStage(stages, stage, approved)
         IN  /\ DOMAIN new = Stages
             /\ \A s \in Stages :
                   /\ {"open_exceptions", "unresolved_cases"} \subseteq DOMAIN new[s]
                   /\ new[s].open_exceptions =
                        IF s = stage THEN Down(stages[s].open_exceptions, 1)
                        ELSE stages[s].open_exceptions
<1>1. CASE stage \notin Stages
  BY <1>1 DEF AdjustStage
<1>2. CASE stage \in Stages
  <2>. DEFINE open == Down(stages[stage].open_exceptions, 1)
              cases == IF approved THEN Down(stages[stage].unresolved_cases, 1)
                       ELSE stages[stage].unresolved_cases
              report == [stages[stage] EXCEPT !.open_exceptions = open, !.unresolved_cases = cases]
  <2>1. AdjustStage(stages, stage, approved) = [stages EXCEPT ![stage] = report]
    BY <1>2 DEF AdjustStage
  <2>. HIDE DEF open, cases
  <2>2. /\ {"open_exceptions", "unresolved_cases"} \subseteq DOMAIN report
        /\ report.open_exceptions = open
    BY <1>2
  <2>. HIDE DEF report
  <2>. QED  BY <1>2, <2>1, <2>2 DEF open
<1>. QED  BY <1>1, <1>2

LEMMA AdjustScoresEffect ==
  ASSUME NEW s, NEW approved, NEW amount, NEW stage, {"matcher", "stage"} \subseteq DOMAIN s
  PROVE  LET new == AdjustScores(s, approved, amount, stage)
         IN  /\ {"matcher", "stage"} \subseteq DOMAIN new
             /\ new.matcher = s.matcher
             /\ new.stage = AdjustStage(s.stage, stage, approved)
<1>. DEFINE less(n, by) == IF n = None \/ ~approved THEN n ELSE Down(n, by)
            financial == less(s.financially_unresolved_cases, 1)
            money == IF s.money_reconciled = None \/ ~approved THEN s.money_reconciled
                     ELSE s.money_reconciled + amount
            unresolved == less(s.money_unresolved, amount)
            stages == AdjustStage(s.stage, stage, approved)
            review == AdjustReview(s.review_adjusted, approved, amount, s.matchable_cases)
<1>1. AdjustScores(s, approved, amount, stage)
        = [s EXCEPT !.financially_unresolved_cases = financial, !.money_reconciled = money,
                    !.money_unresolved = unresolved, !.stage = stages,
                    !.review_adjusted = review]
  BY DEF AdjustScores
<1>. HIDE DEF financial, money, unresolved, stages, review
<1>2. /\ {"matcher", "stage"} \subseteq DOMAIN AdjustScores(s, approved, amount, stage)
      /\ AdjustScores(s, approved, amount, stage).matcher = s.matcher
      /\ AdjustScores(s, approved, amount, stage).stage = stages
  BY <1>1
<1>. QED  BY <1>2 DEF stages

LEMMA AdjustedEffect ==
  ASSUME NEW m, m # None, ReportFields(m), NEW approved, NEW amount, NEW stage
  PROVE  LET new == Adjusted(m, approved, amount, stage)
         IN  /\ ReportFields(new)
             /\ new.open_exceptions = Down(m.open_exceptions, 1)
             /\ new.scores.matcher = m.scores.matcher
             /\ benchmark => \A s \in Stages :
                   new.scores.stage[s].open_exceptions =
                     IF s = stage THEN Down(m.scores.stage[s].open_exceptions, 1)
                     ELSE m.scores.stage[s].open_exceptions
<1>. DEFINE open == Down(m.open_exceptions, 1)
            scores == AdjustScores(m.scores, approved, amount, stage)
            new == Adjusted(m, approved, amount, stage)
<1>1. new = [m EXCEPT !.open_exceptions = open, !.scores = scores]
  BY DEF Adjusted
<1>2. {"open_exceptions", "scores"} \subseteq DOMAIN m /\ {"matcher", "stage"} \subseteq DOMAIN m.scores
  BY DEF ReportFields
<1>3. /\ {"matcher", "stage"} \subseteq DOMAIN scores
      /\ scores.matcher = m.scores.matcher
      /\ scores.stage = AdjustStage(m.scores.stage, stage, approved)
  BY <1>2, AdjustScoresEffect
<1>. HIDE DEF open, scores, new
<1>4. /\ {"open_exceptions", "scores"} \subseteq DOMAIN new
      /\ new.open_exceptions = open /\ new.scores = scores
  BY <1>1, <1>2
<1>5. ASSUME benchmark
      PROVE  /\ DOMAIN scores.stage = Stages
             /\ \A s \in Stages :
                   /\ {"open_exceptions", "unresolved_cases"} \subseteq DOMAIN scores.stage[s]
                   /\ scores.stage[s].open_exceptions =
                        IF s = stage THEN Down(m.scores.stage[s].open_exceptions, 1)
                        ELSE m.scores.stage[s].open_exceptions
  BY <1>3, <1>5, AdjustStageEffect DEF ReportFields
<1>6. ReportFields(new)
  BY <1>3, <1>4, <1>5 DEF ReportFields
<1>. QED  BY <1>3, <1>4, <1>5, <1>6 DEF new, open

(***************************************************************************)
(* What the matcher is scored on.  Its predictions are made of the         *)
(* autonomous rows, which stand; the cases stand with the benchmark.       *)
(***************************************************************************)
LEMMA MatcherRowsStand ==
  ASSUME RowInv, NEW k \in Runs
  PROVE  Autonomous(Predictions(rows[k])) = Autonomous(Predictions(AsCompleted(k)))
<1>. DEFINE persisted == AsCompleted(k)
<1>1. /\ DOMAIN engine[k] = DOMAIN rows[k]
      /\ \A i \in DOMAIN rows[k] : /\ rows[k][i].autonomous <=> engine[k][i].autonomous
                                   /\ rows[k][i].autonomous => rows[k][i] = Persisted(engine[k][i])
  BY DEF RowInv, RowTypeOK, AutonomousStand, Results
<1>2. /\ DOMAIN persisted = DOMAIN rows[k]
      /\ \A i \in DOMAIN rows[k] : persisted[i] = Persisted(engine[k][i])
  BY <1>1 DEF AsCompleted
<1>3. \A i \in DOMAIN rows[k] : persisted[i].autonomous = engine[k][i].autonomous
  <2>1. \A o : Persisted(o).autonomous = o.autonomous
    BY DEF Persisted
  <2>. QED  BY <1>2, <2>1
<1>. HIDE DEF persisted
<1>4. ASSUME NEW i \in DOMAIN rows[k]
      PROVE  /\ rows[k][i].autonomous <=> persisted[i].autonomous
             /\ rows[k][i].autonomous => Predict(rows[k][i], i) = Predict(persisted[i], i)
  BY <1>1, <1>2, <1>3
<1>5. \A row, i : Predict(row, i).autonomous = row.autonomous
  BY DEF Predict
<1>6. ASSUME NEW p \in Autonomous(Predictions(rows[k]))
      PROVE  p \in Autonomous(Predictions(persisted))
  <2>1. PICK i \in DOMAIN rows[k] : p = Predict(rows[k][i], i) /\ p.autonomous
    BY DEF Autonomous, Predictions
  <2>2. p = Predict(persisted[i], i)
    BY <1>4, <1>5, <2>1
  <2>. QED  BY <1>2, <2>1, <2>2 DEF Autonomous, Predictions
<1>7. ASSUME NEW p \in Autonomous(Predictions(persisted))
      PROVE  p \in Autonomous(Predictions(rows[k]))
  <2>1. PICK i \in DOMAIN rows[k] : p = Predict(persisted[i], i) /\ p.autonomous
    BY <1>2 DEF Autonomous, Predictions
  <2>2. persisted[i].autonomous
    BY <1>5, <2>1
  <2>3. p = Predict(rows[k][i], i)
    BY <1>4, <2>1, <2>2
  <2>. QED  BY <2>1, <2>3 DEF Autonomous, Predictions
<1>. QED  BY <1>6, <1>7 DEF persisted

LEMMA CasesFrame ==
  ASSUME UNCHANGED benchmark
  PROVE  Cases' = Cases /\ Classes' = Classes
BY DEF Cases, Classes

LEMMA PredictionsFrame ==
  ASSUME UNCHANGED benchmark, NEW table
  PROVE  Predictions(table)' = Predictions(table)
<1>1. Cases' = Cases
  BY CasesFrame
<1>2. ASSUME NEW selected PROVE Closest(selected)' = Closest(selected)
  BY <1>1 DEF Closest
<1>3. ASSUME NEW primary, NEW selected PROVE CaseOf(primary, selected)' = CaseOf(primary, selected)
  <2>. DEFINE own == {c \in Cases : primary \in c.sources}
  <2>1. own' = own
    BY <1>1
  <2>2. Closest(selected)' = Closest(selected)
    BY <1>2
  <2>3. CaseOf(primary, selected) =
          LET near == IF Cardinality(own) = 1 THEN own ELSE Closest(selected)
          IN IF Cardinality(near) = 1 THEN CHOOSE c \in near : TRUE ELSE None
    BY DEF CaseOf
  <2>4. CaseOf(primary, selected)' =
          LET near == IF Cardinality(own') = 1 THEN own' ELSE Closest(selected)'
          IN IF Cardinality(near) = 1 THEN CHOOSE c \in near : TRUE ELSE None
    BY DEF CaseOf
  <2>. HIDE DEF own
  <2>. QED  BY <2>1, <2>2, <2>3, <2>4
<1>4. ASSUME NEW row, NEW i PROVE Predict(row, i)' = Predict(row, i)
  <2>. DEFINE selected == SelectedBy(row)
  <2>1. CaseOf(row.primary, selected)' = CaseOf(row.primary, selected)
    BY <1>3
  <2>. QED  BY <2>1 DEF Predict
<1>5. \A i \in DOMAIN table : Predict(table[i], i)' = Predict(table[i], i)
  BY <1>4
<1>. QED  BY <1>5 DEF Predictions

LEMMA MatcherScoresFrame ==
  ASSUME UNCHANGED benchmark, NEW A
  PROVE  MatcherScores(A)' = MatcherScores(A)
<1>1. Classes' = Classes
  BY CasesFrame
<1>. QED  BY <1>1 DEF MatcherScores

(***************************************************************************)
(* What is counted.                                                        *)
(***************************************************************************)
LEMMA OpenAreFinite ==
  ASSUME RowInv, NEW k \in Runs
  PROVE  /\ IsFiniteSet(OpenResults(k)) /\ Cardinality(OpenResults(k)) \in Nat
         /\ IsFiniteSet(OpenQuarantined(k)) /\ Cardinality(OpenQuarantined(k)) \in Nat
         /\ OpenCount(k) \in Nat
         /\ \A s : IsFiniteSet(OpenInStage(k, s)) /\ Cardinality(OpenInStage(k, s)) \in Nat
<1>1. rows[k] \in Seq(Row)
  BY ElementOfSeq DEF Runs, RowInv, RowTypeOK
<1>2. Len(rows[k]) \in Nat /\ Results(k) = 1 .. Len(rows[k])
  BY <1>1, LenProperties DEF Results
<1>3. IsFiniteSet(Results(k))
  BY <1>2, FS_Interval
<1>4. OpenResults(k) \in SUBSET Results(k) /\ OpenQuarantined(k) \in SUBSET Quarantined
  BY DEF OpenResults, OpenQuarantined
<1>5. IsFiniteSet(OpenResults(k)) /\ IsFiniteSet(OpenQuarantined(k))
  BY <1>3, <1>4, FS_Subset, RowAssumption
<1>6. ASSUME NEW s PROVE IsFiniteSet(OpenInStage(k, s))
  <2>1. OpenInStage(k, s) \in SUBSET OpenResults(k)
    BY DEF OpenInStage
  <2>. QED  BY <1>5, <2>1, FS_Subset
<1>. QED  BY <1>5, <1>6, FS_CardinalityType DEF OpenCount

LEMMA OneLess ==
  ASSUME NEW S, IsFiniteSet(S), NEW x \in S
  PROVE  Cardinality(S \ {x}) = Down(Cardinality(S), 1) /\ Cardinality(S) > 0
<1>1. Cardinality(S) \in Nat /\ Cardinality(S \ {x}) \in Nat
  BY FS_RemoveElement, FS_CardinalityType
<1>2. Cardinality(S \ {x}) = Cardinality(S) - 1
  BY FS_RemoveElement
<1>. QED  BY <1>1, <1>2 DEF Down

\* What a review takes out of the counts.
LEMMA ReviewCounts ==
  ASSUME RowInv, NEW k, NEW i, NEW new, Replaced(k, i, new)
  PROVE  /\ OpenCount(k)' = Down(OpenCount(k), 1)
         /\ \A s \in Stages : Cardinality(OpenInStage(k, s))' =
                IF s = rows[k][i].stage THEN Down(Cardinality(OpenInStage(k, s)), 1)
                ELSE Cardinality(OpenInStage(k, s))
<1>1. /\ DOMAIN rows'[k] = DOMAIN rows[k]
      /\ \A l \in Results(k) : rows'[k][l] = IF l = i THEN new ELSE rows[k][l]
      /\ quarantine' = quarantine /\ k \in Runs /\ i \in Results(k)
      /\ rows[k][i].review = "open" /\ new.review # "open"
  <2>1. /\ quarantine' = quarantine /\ k \in Runs /\ i \in Results(k)
        /\ rows[k][i].review = "open" /\ new.review \in {"approved", "rejected"}
    BY DEF Replaced
  <2>2. /\ \A j \in Runs : DOMAIN rows'[j] = DOMAIN rows[j]
        /\ \A j \in Runs : \A l \in Results(j) :
              rows'[j][l] = IF j = k /\ l = i THEN new ELSE rows[j][l]
    BY ReplacedEffect
  <2>. QED  BY <2>1, <2>2
<1>2. OpenResults(k)' = OpenResults(k) \ {i} /\ i \in OpenResults(k)
  BY <1>1 DEF OpenResults, Results
<1>3. OpenQuarantined(k)' = OpenQuarantined(k)
  BY <1>1 DEF OpenQuarantined
<1>4. OpenCount(k)' = Down(OpenCount(k), 1)
  <2>1. OpenCount(k)' = Cardinality(OpenResults(k) \ {i}) + Cardinality(OpenQuarantined(k))
    BY <1>2, <1>3 DEF OpenCount
  <2>2. /\ Cardinality(OpenResults(k) \ {i}) = Down(Cardinality(OpenResults(k)), 1)
        /\ Cardinality(OpenResults(k)) > 0
    BY <1>1, <1>2, OpenAreFinite, OneLess
  <2>3. Cardinality(OpenResults(k)) \in Nat /\ Cardinality(OpenQuarantined(k)) \in Nat
    BY <1>1, OpenAreFinite
  <2>. QED  BY <2>1, <2>2, <2>3 DEF Down, OpenCount
<1>5. ASSUME NEW s \in Stages
      PROVE  Cardinality(OpenInStage(k, s))' =
                IF s = rows[k][i].stage THEN Down(Cardinality(OpenInStage(k, s)), 1)
                ELSE Cardinality(OpenInStage(k, s))
  <2>1. \A l \in OpenResults(k) \ {i} : rows'[k][l] = rows[k][l]
    BY <1>1 DEF OpenResults
  <2>2. OpenInStage(k, s)' = {l \in OpenResults(k) \ {i} : rows[k][l].stage = s}
    BY <1>2, <2>1 DEF OpenInStage
  <2>3. CASE s = rows[k][i].stage
    <3>1. OpenInStage(k, s)' = OpenInStage(k, s) \ {i} /\ i \in OpenInStage(k, s)
      BY <1>2, <2>2, <2>3 DEF OpenInStage
    <3>2. IsFiniteSet(OpenInStage(k, s))
      BY <1>1, OpenAreFinite
    <3>3. Cardinality(OpenInStage(k, s) \ {i}) = Down(Cardinality(OpenInStage(k, s)), 1)
      BY <3>1, <3>2, OneLess
    <3>. QED  BY <2>3, <3>1, <3>3
  <2>4. CASE s # rows[k][i].stage
    <3>1. OpenInStage(k, s)' = OpenInStage(k, s)
      BY <2>2, <2>4 DEF OpenInStage
    <3>. QED  BY <2>4, <3>1
  <2>. QED  BY <2>3, <2>4
<1>. QED  BY <1>4, <1>5

LEMMA QuarantineCounts ==
  ASSUME RowInv, NEW k, NEW q \in Quarantined, RejectQuarantined(k, q)
  PROVE  /\ OpenCount(k)' = Down(OpenCount(k), 1)
         /\ \A s : Cardinality(OpenInStage(k, s))' = Cardinality(OpenInStage(k, s))
<1>1. /\ k \in Runs /\ quarantine[k][q] = "open" /\ rows' = rows
      /\ \A p \in Quarantined :
            quarantine'[k][p] = IF p = q THEN "rejected" ELSE quarantine[k][p]
  BY QuarantineEffect
<1>2. OpenResults(k)' = OpenResults(k)
  BY <1>1 DEF OpenResults, Results
<1>3. OpenQuarantined(k)' = OpenQuarantined(k) \ {q} /\ q \in OpenQuarantined(k)
  BY <1>1 DEF OpenQuarantined
<1>4. OpenCount(k)' = Cardinality(OpenResults(k)) + Cardinality(OpenQuarantined(k) \ {q})
  BY <1>2, <1>3 DEF OpenCount
<1>5. /\ Cardinality(OpenQuarantined(k) \ {q}) = Down(Cardinality(OpenQuarantined(k)), 1)
      /\ Cardinality(OpenQuarantined(k)) > 0
  BY <1>1, <1>3, OpenAreFinite, OneLess
<1>6. Cardinality(OpenResults(k)) \in Nat /\ Cardinality(OpenQuarantined(k)) \in Nat
  BY <1>1, OpenAreFinite
<1>7. OpenCount(k)' = Down(OpenCount(k), 1)
  BY <1>4, <1>5, <1>6 DEF Down, OpenCount
<1>8. ASSUME NEW s PROVE Cardinality(OpenInStage(k, s))' = Cardinality(OpenInStage(k, s))
  BY <1>1, <1>2 DEF OpenInStage
<1>. QED  BY <1>7, <1>8

LEMMA OtherRunsKeepCounts ==
  ASSUME NEW j, rows'[j] = rows[j], quarantine'[j] = quarantine[j]
  PROVE  /\ OpenCount(j)' = OpenCount(j)
         /\ \A s : Cardinality(OpenInStage(j, s))' = Cardinality(OpenInStage(j, s))
<1>1. OpenResults(j)' = OpenResults(j)
  BY DEF OpenResults, Results
<1>2. OpenQuarantined(j)' = OpenQuarantined(j)
  BY DEF OpenQuarantined
<1>3. OpenCount(j)' = OpenCount(j)
  BY <1>1, <1>2 DEF OpenCount
<1>4. ASSUME NEW s PROVE Cardinality(OpenInStage(j, s))' = Cardinality(OpenInStage(j, s))
  BY <1>1 DEF OpenInStage
<1>. QED  BY <1>3, <1>4

\* The open exceptions the evaluator finds in a stage are those of its rows.
LEMMA EvaluationCounts ==
  ASSUME RowInv, NEW k \in Runs, NEW s
  PROVE  Cardinality(Undecided({p \in Predictions(rows[k]) : p.stage = s}))
            = Cardinality(OpenInStage(k, s))
<1>. DEFINE S == OpenInStage(k, s)
            T == Undecided({p \in Predictions(rows[k]) : p.stage = s})
            f == [i \in S |-> Predict(rows[k][i], i)]
<1>1. \A row, i : /\ Predict(row, i).slot = i /\ Predict(row, i).stage = row.stage
                  /\ Predict(row, i).autonomous = row.autonomous
                  /\ Predict(row, i).review = row.review
  BY DEF Predict
<1>2. ASSUME NEW i \in Results(k)
      PROVE  ~rows[k][i].autonomous /\ rows[k][i].review \notin {"approved", "rejected"}
                <=> rows[k][i].review = "open"
  <2>1. rows[k] \in Seq(Row)
    BY ElementOfSeq DEF Runs, RowInv, RowTypeOK
  <2>2. rows[k][i] \in Row
    BY <2>1, ElementOfSeq DEF Results
  <2>3. rows[k][i].autonomous <=> rows[k][i].review = None
    BY DEF RowInv, RowTypeOK
  <2>4. rows[k][i].review \in {"open", "approved", "rejected", None}
    BY <2>2 DEF Row, ReviewStatuses
  <2>5. None # "open"
    BY RowAssumption DEF ReviewStatuses
  <2>. QED  BY <2>3, <2>4, <2>5
<1>3. ASSUME NEW i \in S PROVE f[i] \in T
  <2>1. i \in Results(k) /\ rows[k][i].review = "open" /\ rows[k][i].stage = s
    BY DEF OpenInStage, OpenResults
  <2>2. f[i] = Predict(rows[k][i], i) /\ f[i] \in Predictions(rows[k])
    BY <2>1 DEF Predictions, Results
  <2>3. f[i].stage = s /\ ~f[i].autonomous /\ f[i].review \notin {"approved", "rejected"}
    BY <1>1, <1>2, <2>1, <2>2
  <2>. HIDE DEF f
  <2>. QED  BY <2>2, <2>3 DEF Undecided
<1>4. ASSUME NEW p \in T PROVE \E i \in S : f[i] = p
  <2>1. /\ p \in Predictions(rows[k]) /\ p.stage = s
        /\ ~p.autonomous /\ p.review \notin {"approved", "rejected"}
    BY DEF Undecided
  <2>2. PICK i \in Results(k) : p = Predict(rows[k][i], i)
    BY <2>1 DEF Predictions, Results
  <2>3. rows[k][i].review = "open" /\ rows[k][i].stage = s
    BY <1>1, <1>2, <2>1, <2>2
  <2>. QED  BY <2>2, <2>3 DEF OpenInStage, OpenResults
<1>5. \A i, j \in S : f[i] = f[j] => i = j
  BY <1>1
<1>. HIDE DEF S, T, f
<1>6. f \in [S -> T]
  BY <1>3 DEF f
<1>7. f \in Bijection(S, T)
  BY <1>4, <1>5, <1>6, Fun_IsBij
<1>8. IsFiniteSet(S)
  BY OpenAreFinite DEF S
<1>9. ExistsBijection(S, T)
  BY <1>7, Fun_ExistsBij
<1>. QED  BY <1>8, <1>9, FS_Bijection DEF S, T

(***************************************************************************)
(* Steps.                                                                  *)
(***************************************************************************)
LEMMA MatcherOfRows ==
  ASSUME NEW k, NEW table, NEW A
  PROVE  table = AsCompleted(k) /\ A = Autonomous(Predictions(table))
            => MatcherOf(k) = MatcherScores(A)
BY DEF MatcherOf

LEMMA MatcherFrame ==
  ASSUME UNCHANGED benchmark, NEW k, engine'[k] = engine[k]
  PROVE  MatcherOf(k)' = MatcherOf(k)
<1>1. AsCompleted(k)' = AsCompleted(k)
  BY DEF AsCompleted
<1>2. PICK table : table = AsCompleted(k)
  OBVIOUS
<1>3. Predictions(table)' = Predictions(table)
  BY PredictionsFrame
<1>4. PICK A : A = Autonomous(Predictions(table))
  OBVIOUS
<1>5. MatcherScores(A)' = MatcherScores(A)
  BY MatcherScoresFrame
<1>6. MatcherOf(k) = MatcherScores(A)
  BY <1>2, <1>4 DEF MatcherOf
<1>7. (AsCompleted(k))' = table /\ Autonomous(Predictions(table)') = A
  BY <1>1, <1>2, <1>3, <1>4
<1>8. (table = AsCompleted(k) /\ A = Autonomous(Predictions(table)) => MatcherOf(k) = MatcherScores(A))'
  BY MatcherOfRows, PTL
<1>. QED  BY <1>5, <1>6, <1>7, <1>8

\* The report of a run that a step leaves alone stays true.
LEMMA ReportKept ==
  ASSUME NEW j, ReportTrue(j), UNCHANGED benchmark, metrics'[j] = metrics[j],
         engine'[j] = engine[j], rows'[j] = rows[j], quarantine'[j] = quarantine[j]
  PROVE  ReportTrue(j)'
<1>1. MatcherOf(j)' = MatcherOf(j)
  BY MatcherFrame
<1>2. /\ OpenCount(j)' = OpenCount(j)
      /\ \A s : Cardinality(OpenInStage(j, s))' = Cardinality(OpenInStage(j, s))
  BY OtherRunsKeepCounts
<1>3. PICK m : m = metrics[j]
  OBVIOUS
<1>4. ReportFields(m)' <=> ReportFields(m)
  BY DEF ReportFields
<1>5. CountsOpen(m, j)' <=> CountsOpen(m, j)
  BY <1>2 DEF CountsOpen
<1>6. ReportTrue(j)' <=>
        (m # None => /\ ReportFields(m)'
                     /\ CountsOpen(m, j)'
                     /\ benchmark => m.scores.matcher = MatcherOf(j)')
  BY <1>3 DEF ReportTrue
<1>. QED  BY <1>1, <1>3, <1>4, <1>5, <1>6 DEF ReportTrue

LEMMA ScoresEffect ==
  ASSUME NEW P
  PROVE  /\ {"matcher", "stage"} \subseteq DOMAIN Scores(P)
         /\ benchmark => Scores(P).matcher = MatcherScores(Autonomous(P))
         /\ benchmark => Scores(P).stage = [s \in Stages |-> StageReport(P, s)]
<1>. DEFINE matchable == {c \in Cases : c.matchable}
            rate(S) == Percentage(Cardinality(S), Cardinality(matchable))
            paid == {c \in Cases : FinanciallyResolved(c, About(P, c))}
            matcher == Scored(MatcherScores(Autonomous(P)))
            stages == [s \in (IF benchmark THEN Stages ELSE {}) |-> StageReport(P, s)]
            a == Scored(rate({c \in Cases : Resolved(c, About(P, c))}))
            b == Scored(rate({c \in Cases : AutonomouslyResolved(c, About(P, c))}))
            c1 == Scored(Percentage(Cardinality({c \in Cases : Recalled(c, About(P, c))}),
                                    Cardinality(Cases \ matchable)))
            d == Scored(Cardinality(matchable))
            e == Scored(Cardinality(matchable \ paid))
            f == Scored(Money(paid))
            g == Scored(Money(Cases \ paid))
            h == Scored([k \in Classes |-> ClassReport(P, k)])
            r == ReviewReport(P)
<1>1. Scores(P) = [matcher |-> matcher, match_rate |-> a, end_to_end_autonomy_rate |-> b,
                   exception_recall |-> c1, matchable_cases |-> d,
                   financially_unresolved_cases |-> e, money_reconciled |-> f,
                   money_unresolved |-> g, stage |-> stages, per_class |-> h,
                   review_adjusted |-> r]
  BY DEF Scores
<1>2. benchmark => /\ matcher = MatcherScores(Autonomous(P))
                   /\ stages = [s \in Stages |-> StageReport(P, s)]
  BY DEF Scored
<1>. HIDE DEF matcher, stages, a, b, c1, d, e, f, g, h, r
<1>3. /\ {"matcher", "stage"} \subseteq DOMAIN Scores(P)
      /\ Scores(P).matcher = matcher /\ Scores(P).stage = stages
  BY <1>1
<1>. QED  BY <1>2, <1>3

LEMMA StageReportEffect ==
  ASSUME NEW P, NEW s
  PROVE  /\ {"open_exceptions", "unresolved_cases"} \subseteq DOMAIN StageReport(P, s)
         /\ StageReport(P, s).open_exceptions
                = Cardinality(Undecided({p \in P : p.stage = s}))
BY DEF StageReport

LEMMA ReportEffect ==
  ASSUME NEW P, NEW open
  PROVE  LET m == Report(P, open)
         IN  /\ ReportFields(m)
             /\ m.open_exceptions = open
             /\ benchmark => m.scores.matcher = MatcherScores(Autonomous(P))
             /\ benchmark => \A s \in Stages :
                   m.scores.stage[s].open_exceptions
                      = Cardinality(Undecided({p \in P : p.stage = s}))
<1>. DEFINE scores == Scores(P)
            m == Report(P, open)
            acceptance == Acceptance(scores)
<1>1. m = [version |-> version, open_exceptions |-> open, scores |-> scores,
           acceptance |-> acceptance]
  BY DEF Report
<1>2. /\ {"matcher", "stage"} \subseteq DOMAIN scores
      /\ benchmark => scores.matcher = MatcherScores(Autonomous(P))
      /\ benchmark => scores.stage = [s \in Stages |-> StageReport(P, s)]
  BY ScoresEffect
<1>. HIDE DEF scores, acceptance, m
<1>3. /\ {"open_exceptions", "scores"} \subseteq DOMAIN m
      /\ m.open_exceptions = open /\ m.scores = scores
  BY <1>1
<1>4. ASSUME benchmark, NEW s \in Stages
      PROVE  /\ {"open_exceptions", "unresolved_cases"} \subseteq DOMAIN scores.stage[s]
             /\ scores.stage[s].open_exceptions
                    = Cardinality(Undecided({p \in P : p.stage = s}))
  <2>1. scores.stage[s] = StageReport(P, s)
    BY <1>2, <1>4
  <2>. QED  BY <2>1, StageReportEffect
<1>5. benchmark => DOMAIN scores.stage = Stages
  BY <1>2
<1>6. ReportFields(m)
  BY <1>2, <1>3, <1>4, <1>5 DEF ReportFields
<1>. QED  BY <1>2, <1>3, <1>4, <1>6 DEF m

\* Reports are replaced in a sequence.
LEMMA ReportReplaced ==
  ASSUME ReportSequence, NEW k \in 1 .. Len(metrics), NEW new,
         metrics' = [metrics EXCEPT ![k] = new]
  PROVE  /\ ReportSequence'
         /\ Len(metrics') = Len(metrics)
         /\ metrics'[k] = new
         /\ \A j \in 1 .. Len(metrics) : j # k => metrics'[j] = metrics[j]
<1>. PICK S : metrics \in Seq(S)
  BY DEF ReportSequence
<1>. DEFINE T == S \cup {new}
<1>1. metrics \in Seq(T)
  BY SeqDef
<1>2. DOMAIN metrics = 1 .. Len(metrics)
  BY LenProperties
<1>. HIDE DEF T
<1>3. new \in T
  BY DEF T
<1>4. metrics' \in Seq(T) /\ Len(metrics') = Len(metrics)
  BY <1>1, <1>2, <1>3, ExceptSeq
<1>5. metrics'[k] = new /\ \A j \in 1 .. Len(metrics) : j # k => metrics'[j] = metrics[j]
  BY <1>2
<1>6. ReportSequence'
  BY <1>4 DEF ReportSequence
<1>. QED  BY <1>4, <1>5, <1>6

LEMMA AdjustKeepsTrue ==
  ASSUME MetricInv, RowInv', Len(rows') = Len(rows), UNCHANGED <<benchmark, engine>>,
         NEW k \in Runs, NEW approved, NEW amount, NEW stage,
         metrics' = [metrics EXCEPT ![k] = Adjusted(metrics[k], approved, amount, stage)],
         \A j \in Runs \ {k} : rows'[j] = rows[j] /\ quarantine'[j] = quarantine[j],
         OpenCount(k)' = Down(OpenCount(k), 1),
         \A s \in Stages : Cardinality(OpenInStage(k, s))' =
            IF s = stage THEN Down(Cardinality(OpenInStage(k, s)), 1)
            ELSE Cardinality(OpenInStage(k, s))
  PROVE  MetricInv'
<1>1. PICK new : new = Adjusted(metrics[k], approved, amount, stage)
  OBVIOUS
<1>2. ReportSequence
  BY DEF MetricInv
<1>3. k \in 1 .. Len(metrics) /\ Runs = 1 .. Len(metrics) /\ Runs' = Runs
  BY DEF MetricInv, Runs
<1>4. metrics' = [metrics EXCEPT ![k] = new]
  BY <1>1
<1>5. /\ ReportSequence'
      /\ Len(metrics') = Len(metrics)
      /\ metrics'[k] = new
      /\ \A j \in Runs : j # k => metrics'[j] = metrics[j]
  <2>1. /\ ReportSequence'
        /\ Len(metrics') = Len(metrics)
        /\ metrics'[k] = new
        /\ \A j \in 1 .. Len(metrics) : j # k => metrics'[j] = metrics[j]
    BY <1>2, <1>3, <1>4, ReportReplaced
  <2>. QED  BY <1>3, <2>1
<1>6. ReportTrue(k)'
  <2>. SUFFICES ASSUME new # None
                PROVE  /\ ReportFields(new)'
                       /\ CountsOpen(new, k)'
                       /\ benchmark' => new.scores.matcher = MatcherOf(k)'
    BY <1>5 DEF ReportTrue
  <2>1. metrics[k] # None
    BY <1>1 DEF Adjusted
  <2>2. PICK m : m = metrics[k]
    OBVIOUS
  <2>3. /\ m # None /\ ReportFields(m) /\ CountsOpen(m, k)
        /\ benchmark => m.scores.matcher = MatcherOf(k)
    BY <2>1, <2>2 DEF MetricInv, ReportTrue
  <2>4. /\ ReportFields(new)
        /\ new.open_exceptions = Down(m.open_exceptions, 1)
        /\ new.scores.matcher = m.scores.matcher
        /\ benchmark => \A s \in Stages :
              new.scores.stage[s].open_exceptions =
                IF s = stage THEN Down(m.scores.stage[s].open_exceptions, 1)
                ELSE m.scores.stage[s].open_exceptions
    BY <1>1, <2>2, <2>3, AdjustedEffect
  <2>5. ReportFields(new)'
    BY <2>4 DEF ReportFields
  <2>6. CountsOpen(new, k)'
    BY <2>3, <2>4 DEF CountsOpen
  <2>7. MatcherOf(k)' = MatcherOf(k)
    BY MatcherFrame
  <2>. QED  BY <2>3, <2>4, <2>5, <2>6, <2>7
<1>7. ASSUME NEW j \in Runs, j # k PROVE ReportTrue(j)'
  <2>1. ReportTrue(j)
    BY DEF MetricInv
  <2>2. /\ metrics'[j] = metrics[j] /\ rows'[j] = rows[j] /\ quarantine'[j] = quarantine[j]
        /\ engine'[j] = engine[j]
    BY <1>5, <1>7
  <2>. QED  BY <2>1, <2>2, ReportKept
<1>8. /\ benchmark' \in BOOLEAN /\ Len(metrics') = Len(rows')
  BY <1>5 DEF MetricInv
<1>9. \A j \in Runs' : ReportTrue(j)'
  BY <1>3, <1>6, <1>7
<1>. QED  BY <1>5, <1>8, <1>9 DEF MetricInv

LEMMA EvaluateTells ==
  ASSUME MetricInv, NEW k, Evaluate(k)
  PROVE  MetricInv'
<1>1. /\ k \in Runs /\ UNCHANGED <<engine, rows, quarantine, benchmark>>
      /\ metrics' = [metrics EXCEPT ![k] = Report(Predictions(rows[k]), OpenCount(k))]
  BY DEF Evaluate, rowVars
<1>2. RowInv /\ RowInv' /\ benchmark \in BOOLEAN
  BY <1>1 DEF MetricInv, RowInv, RowTypeOK, AutonomousStand, Runs, Results
<1>3. PICK P : P = Predictions(rows[k])
  OBVIOUS
<1>4. PICK open : open = OpenCount(k)
  OBVIOUS
<1>5. PICK new : new = Report(P, open)
  OBVIOUS
<1>6. k \in 1 .. Len(metrics) /\ Runs = 1 .. Len(metrics) /\ Runs' = Runs /\ ReportSequence
  BY <1>1 DEF MetricInv, Runs
<1>7. metrics' = [metrics EXCEPT ![k] = new]
  BY <1>1, <1>3, <1>4, <1>5
<1>8. /\ ReportSequence' /\ Len(metrics') = Len(metrics)
      /\ metrics'[k] = new
      /\ \A j \in Runs : j # k => metrics'[j] = metrics[j]
  BY <1>6, <1>7, ReportReplaced
<1>9. ReportTrue(k)'
  <2>1. /\ ReportFields(new)
        /\ new.open_exceptions = open
        /\ benchmark => new.scores.matcher = MatcherScores(Autonomous(P))
        /\ benchmark => \A s \in Stages :
              new.scores.stage[s].open_exceptions
                 = Cardinality(Undecided({p \in P : p.stage = s}))
    BY <1>5, ReportEffect
  <2>2. ReportFields(new)'
    BY <1>1, <2>1 DEF ReportFields
  <2>3. Autonomous(P) = Autonomous(Predictions(AsCompleted(k)))
    BY <1>1, <1>2, <1>3, MatcherRowsStand
  <2>4. MatcherOf(k)' = MatcherOf(k) /\ MatcherOf(k) = MatcherScores(Autonomous(P))
    BY <1>1, <2>3, MatcherFrame DEF MatcherOf
  <2>5. /\ OpenCount(k)' = OpenCount(k)
        /\ \A s : Cardinality(OpenInStage(k, s))' = Cardinality(OpenInStage(k, s))
    BY <1>1, OtherRunsKeepCounts
  <2>6. \A s : Cardinality(Undecided({p \in P : p.stage = s})) = Cardinality(OpenInStage(k, s))
    BY <1>1, <1>2, <1>3, EvaluationCounts
  <2>7. CountsOpen(new, k)'
    BY <1>1, <1>4, <2>1, <2>5, <2>6 DEF CountsOpen
  <2>8. benchmark' => new.scores.matcher = MatcherOf(k)'
    BY <1>1, <2>1, <2>4
  <2>. QED  BY <1>8, <2>2, <2>7, <2>8 DEF ReportTrue
<1>10. ASSUME NEW j \in Runs, j # k PROVE ReportTrue(j)'
  <2>1. ReportTrue(j)
    BY DEF MetricInv
  <2>2. /\ metrics'[j] = metrics[j] /\ rows'[j] = rows[j] /\ quarantine'[j] = quarantine[j]
        /\ engine'[j] = engine[j] /\ UNCHANGED benchmark
    BY <1>1, <1>8, <1>10
  <2>. QED  BY <2>1, <2>2, ReportKept
<1>11. benchmark' \in BOOLEAN /\ Len(metrics') = Len(rows')
  BY <1>1, <1>2, <1>8 DEF MetricInv
<1>12. \A j \in Runs' : ReportTrue(j)'
  BY <1>6, <1>9, <1>10
<1>. QED  BY <1>2, <1>8, <1>11, <1>12 DEF MetricInv

LEMMA CompleteTells ==
  ASSUME MetricInv, Complete
  PROVE  MetricInv'
<1>. PICK n : n = Len(rows)
  OBVIOUS
<1>1. /\ CompleteRun /\ RowInv /\ RowInv' /\ UNCHANGED benchmark
      /\ metrics' = Append(metrics, None)
      /\ benchmark \in BOOLEAN /\ Len(metrics) = n /\ ReportSequence
  BY CompleteRowInv DEF Complete, MetricInv
<1>2. /\ n \in Nat /\ Len(rows') = n + 1
      /\ \A k \in 1 .. n : /\ rows'[k] = rows[k] /\ engine'[k] = engine[k]
                           /\ quarantine'[k] = quarantine[k]
  BY <1>1, CompleteEffect
<1>3. Runs = 1 .. n /\ Runs' = 1 .. (n + 1)
  BY <1>2 DEF Runs
<1>4. PICK S : metrics \in Seq(S)
  BY <1>1 DEF ReportSequence
<1>5. metrics \in Seq(S \cup {None})
  BY <1>4, SeqDef
<1>6. /\ metrics' \in Seq(S \cup {None}) /\ Len(metrics') = n + 1
      /\ metrics'[n + 1] = None
      /\ \A k \in 1 .. n : metrics'[k] = metrics[k]
  BY <1>1, <1>5, AppendProperties
<1>7. ReportSequence'
  BY <1>6 DEF ReportSequence
<1>8. ReportTrue(n + 1)'
  BY <1>6 DEF ReportTrue
<1>9. ASSUME NEW k \in 1 .. n PROVE ReportTrue(k)'
  <2>1. ReportTrue(k)
    BY <1>3 DEF MetricInv
  <2>. QED  BY <1>1, <1>2, <1>6, <2>1, ReportKept
<1>10. \A k \in Runs' : ReportTrue(k)'
  <2>1. \A k \in 1 .. (n + 1) : k = n + 1 \/ k \in 1 .. n
    BY <1>2
  <2>. QED  BY <1>3, <1>8, <1>9, <2>1
<1>. QED  BY <1>1, <1>2, <1>6, <1>7, <1>10 DEF MetricInv

LEMMA ReviewTells ==
  ASSUME MetricInv, NEW k, NEW i, Approve(k, i) \/ Reject(k, i)
  PROVE  MetricInv'
<1>1. PICK new : Replaced(k, i, new)
  BY ReviewReplaces DEF MetricInv, Approve, Reject
<1>2. PICK approved : metrics' =
        [metrics EXCEPT ![k] = Adjusted(metrics[k], approved, rows[k][i].amount, rows[k][i].stage)]
  BY DEF Approve, Reject
<1>3. PICK amount : amount = rows[k][i].amount
  OBVIOUS
<1>4. PICK stage : stage = rows[k][i].stage
  OBVIOUS
<1>5. metrics' = [metrics EXCEPT ![k] = Adjusted(metrics[k], approved, amount, stage)]
  BY <1>2, <1>3, <1>4
<1>6. /\ OpenCount(k)' = Down(OpenCount(k), 1)
      /\ \A s \in Stages : Cardinality(OpenInStage(k, s))' =
             IF s = stage THEN Down(Cardinality(OpenInStage(k, s)), 1)
             ELSE Cardinality(OpenInStage(k, s))
  BY <1>1, <1>4, ReviewCounts DEF MetricInv
<1>7. RowInv' /\ Runs' = Runs /\ \A j \in Runs \ {k} : rows'[j] = rows[j]
  BY <1>1, ReplacedEffect, ReplacedRowInv DEF MetricInv
<1>8. k \in Runs /\ UNCHANGED <<engine, quarantine>>
  BY <1>1 DEF Replaced
<1>9. Len(rows') = Len(rows)
  BY <1>7, LenProperties DEF MetricInv, RowInv, RowTypeOK, Runs
<1>10. UNCHANGED <<benchmark, engine>>
  BY <1>8 DEF Approve, Reject
<1>. QED  BY <1>5, <1>6, <1>7, <1>8, <1>9, <1>10, AdjustKeepsTrue

LEMMA RejectMalformedTells ==
  ASSUME MetricInv, NEW k, NEW q \in Quarantined, RejectMalformed(k, q)
  PROVE  MetricInv'
<1>1. /\ RejectQuarantined(k, q) /\ RowInv
      /\ metrics' = [metrics EXCEPT ![k] = Adjusted(metrics[k], FALSE, 0, None)]
      /\ UNCHANGED benchmark
  BY DEF RejectMalformed, MetricInv
<1>2. /\ k \in Runs /\ UNCHANGED <<engine, rows>>
      /\ \A j \in Runs \ {k} : quarantine'[j] = quarantine[j]
  BY <1>1, QuarantineEffect
<1>3. /\ OpenCount(k)' = Down(OpenCount(k), 1)
      /\ \A s : Cardinality(OpenInStage(k, s))' = Cardinality(OpenInStage(k, s))
  BY <1>1, QuarantineCounts
<1>4. RowInv'
  BY <1>1, QuarantineRowInv
<1>5. None \notin Stages
  BY RowAssumption
<1>. QED  BY <1>1, <1>2, <1>3, <1>4, <1>5, AdjustKeepsTrue

LEMMA NextMetricInv == MetricInv /\ [MetricNext]_outcomeVars => MetricInv'
<1>. SUFFICES ASSUME MetricInv, [MetricNext]_outcomeVars PROVE MetricInv'
  OBVIOUS
<1>1. CASE UNCHANGED <<rowVars, benchmark, metrics>>
  <2>1. UNCHANGED <<engine, rows, quarantine, benchmark, metrics>>
    BY <1>1 DEF rowVars
  <2>2. RowInv' /\ Runs' = Runs /\ ReportSequence' /\ Len(metrics') = Len(rows')
    BY <2>1 DEF MetricInv, RowInv, RowTypeOK, AutonomousStand, Runs, Results, ReportSequence
  <2>3. ASSUME NEW j \in Runs PROVE ReportTrue(j)'
    BY <2>1, ReportKept DEF MetricInv
  <2>. QED  BY <2>1, <2>2, <2>3 DEF MetricInv
<1>2. CASE Complete
  BY <1>2, CompleteTells
<1>3. ASSUME NEW k, Evaluate(k) PROVE MetricInv'
  BY <1>3, EvaluateTells
<1>4. ASSUME NEW k, NEW i, Approve(k, i) \/ Reject(k, i) PROVE MetricInv'
  BY <1>4, ReviewTells
<1>5. ASSUME NEW k, NEW q \in Quarantined, RejectMalformed(k, q) PROVE MetricInv'
  BY <1>5, RejectMalformedTells
<1>6. CASE UNCHANGED outcomeVars
  BY <1>1, <1>6 DEF outcomeVars, metricVars
<1>7. CASE DeployVersion
  BY <1>1, <1>7 DEF DeployVersion
<1>8. ASSUME NEW k \in Runs,
             \/ Evaluate(k)
             \/ \E i \in Results(k) : Approve(k, i) \/ Reject(k, i)
             \/ \E q \in Quarantined : RejectMalformed(k, q)
      PROVE  MetricInv'
  BY <1>3, <1>4, <1>5, <1>8
<1>. QED  BY <1>2, <1>6, <1>7, <1>8 DEF MetricNext

LEMMA InitMetricInv == MetricInit => MetricInv
<1>. SUFFICES ASSUME MetricInit PROVE MetricInv
  OBVIOUS
<1>1. RowInv
  BY InitRowInv
<1>2. rows = <<>> /\ metrics = <<>> /\ benchmark \in BOOLEAN
  BY DEF MetricInit, RowInit
<1>3. Runs = {} /\ Len(metrics) = Len(rows)
  BY <1>2 DEF Runs
<1>4. metrics \in Seq({None})
  BY <1>2
<1>5. ReportSequence
  BY <1>4 DEF ReportSequence
<1>. QED  BY <1>1, <1>2, <1>3, <1>5 DEF MetricInv

LEMMA MetricsInvariant == MetricSpec => []MetricInv
BY InitMetricInv, NextMetricInv, PTL DEF MetricSpec

\* However reviews, first visits and re-evaluations follow on each other, the
\* stored report counts exactly the exceptions that are open, over all and in
\* the stage of their results.
THEOREM OpenExceptionsAreCounted == MetricSpec => []OpenCountsExact
<1>1. MetricInv => OpenCountsExact
  BY DEF MetricInv, ReportTrue, CountsOpen, OpenCountsExact, OpenInStage, Reported
<1>. QED  BY <1>1, MetricsInvariant, PTL

\* Reviews make the matcher look neither better nor worse: whenever a report is
\* computed or adjusted, the precision and the false positives it shows are
\* those of the rows the engine persisted.
THEOREM MatcherIsScoredAlone == MetricSpec => []MatcherScoresStand
<1>1. MetricInv => MatcherScoresStand
  BY DEF MetricInv, ReportTrue, MatcherOf, MatcherScoresStand, Reported
<1>. QED  BY <1>1, MetricsInvariant, PTL
=============================================================================
