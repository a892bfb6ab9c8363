---------------------------- MODULE EngineProofs ----------------------------
(***************************************************************************)
(* Theorems about StageA, and about StageB and the engine of both stages,  *)
(* for every batch and whatever difflib says.                              *)
(***************************************************************************)
EXTENDS StageB, SequenceTheorems, WellFoundedInduction, TLAPS

(***************************************************************************)
(* Stage A.                                                                *)
(***************************************************************************)

(***************************************************************************)
(* The best candidate.  Scores and identifiers are naturals, so a nonempty *)
(* set of candidates has a first one.                                      *)
(***************************************************************************)
LEMMA Least ==
    ASSUME NEW T, T \subseteq Nat, T # {}
    PROVE  \E x \in T : \A y \in T : x <= y
<1>1. IsWellFoundedOn(OpToRel(<, Nat), Nat)
  BY NatLessThanWellFounded
<1>2. PICK x \in T : \A y \in T : <<y, x>> \notin OpToRel(<, Nat)
  BY <1>1, WFMin
<1>3. \A y \in T : ~(y < x)
  BY <1>2 DEF OpToRel
<1>. QED  BY <1>3

\* Candidates that can be ranked.
Ranked(S) ==
    /\ \A c \in S : c.score \in 0 .. 100 /\ c.id \in Nat
    /\ \A c, d \in S : c.id = d.id => c = d

LEMMA FirstIsBest ==
    ASSUME NEW S, Ranked(S), S # {}
    PROVE  First(S) \in S /\ \A d \in S \ {First(S)} : Before(First(S), d)
<1>. DEFINE deficits == {100 - c.score : c \in S}
            leaders(m) == {c \in S : 100 - c.score = m}
<1>1. PICK m \in deficits : \A n \in deficits : m <= n
  <2>1. deficits \subseteq Nat /\ deficits # {}
    BY DEF Ranked
  <2>. HIDE DEF deficits
  <2>. QED  BY <2>1, Least
<1>2. PICK i \in {c.id : c \in leaders(m)} : \A j \in {c.id : c \in leaders(m)} : i <= j
  <2>1. {c.id : c \in leaders(m)} \subseteq Nat /\ {c.id : c \in leaders(m)} # {}
    BY <1>1 DEF Ranked
  <2>. QED  BY <2>1, Least
<1>3. PICK c \in leaders(m) : c.id = i
  BY <1>2
<1>4. ASSUME NEW d \in S \ {c} PROVE Before(c, d)
  <2>1. m <= 100 - d.score /\ 100 - c.score = m
    BY <1>1, <1>3, <1>4
  <2>2. d.id # c.id
    BY <1>3, <1>4 DEF Ranked
  <2>3. CASE d.score = c.score
    <3>1. i <= d.id
      BY <2>1, <2>3, <1>2, <1>4
    <3>. QED  BY <3>1, <2>2, <2>3, <1>3, <1>4 DEF Before, Ranked
  <2>4. CASE d.score # c.score
    <3>1. c.score \in 0 .. 100 /\ d.score \in 0 .. 100
      BY <1>3, <1>4 DEF Ranked
    <3>2. c.score > d.score
      BY <2>1, <2>4, <3>1
    <3>. QED  BY <3>2 DEF Before
  <2>. QED  BY <2>3, <2>4
<1>. QED  BY <1>3, <1>4 DEF First

-----------------------------------------------------------------------------
(***************************************************************************)
(* Candidates can be ranked: every score is a percentage, and no two       *)
(* records of a batch have one identifier.                                 *)
(***************************************************************************)
LEMMA ScoreIsPercentage == ASSUME NEW e, NEW c PROVE Score(e, c) \in 0 .. 100
<1>1. ReferencePoints(e, c) \in Nat
  BY DEF ReferencePoints
<1>2. Points(e, c) \in Nat
  BY <1>1 DEF Points
<1>. QED  BY <1>2 DEF Score

LEMMA PoolIdentified ==
    ASSUME batch \in Batches
    PROVE  /\ \A c \in Pool : c.id \in Nat /\ c.day \in Int /\ c.kind \in Kinds
           /\ \A c, d \in Pool : c.id = d.id => c = d
<1>1. /\ batch.payments \subseteq Payment /\ batch.refunds \subseteq Refund
      /\ \A x, y \in batch.payments \cup batch.refunds : x.id = y.id => x = y
      /\ batch.payments \cap batch.refunds = {}
  BY BatchAssumption
<1>2. \A p \in batch.payments : PaymentCandidate(p).id = p.id /\ p.id \in Nat
                                 /\ PaymentCandidate(p).kind = "payment"
                                 /\ PaymentCandidate(p).day \in Int
  BY <1>1 DEF PaymentCandidate, Payment
<1>3. \A r \in batch.refunds : RefundCandidate(r).id = r.id /\ r.id \in Nat
                                /\ RefundCandidate(r).kind = "refund"
                                /\ RefundCandidate(r).day \in Int
  BY <1>1 DEF RefundCandidate, Refund
<1>4. \A c \in Pool : c.id \in Nat /\ c.day \in Int /\ c.kind \in Kinds
  BY <1>2, <1>3 DEF Pool, Kinds
<1>5. ASSUME NEW c \in Pool, NEW d \in Pool, c.id = d.id PROVE c = d
  <2>1. CASE \E p, q \in batch.payments : c = PaymentCandidate(p) /\ d = PaymentCandidate(q)
    BY <2>1, <1>1, <1>2, <1>5
  <2>2. CASE \E p, q \in batch.refunds : c = RefundCandidate(p) /\ d = RefundCandidate(q)
    BY <2>2, <1>1, <1>3, <1>5
  <2>3. CASE \E p \in batch.payments, r \in batch.refunds :
                {c, d} = {PaymentCandidate(p), RefundCandidate(r)}
    BY <2>3, <1>1, <1>2, <1>3, <1>5
  <2>. QED  BY <2>1, <2>2, <2>3 DEF Pool
<1>. QED  BY <1>4, <1>5

LEMMA CandidatesRanked ==
    ASSUME batch \in Batches, NEW e
    PROVE  Ranked(Candidates(e))
<1>1. EligibleFor(e) \subseteq Pool
  BY DEF EligibleFor
<1>2. \A c \in EligibleFor(e) : Scored(e, c).id = c.id /\ Scored(e, c).score = Score(e, c)
  BY DEF Scored
<1>3. \A s \in Candidates(e) : \E c \in EligibleFor(e) : s = Scored(e, c)
  BY DEF Candidates
<1>. QED  BY <1>1, <1>2, <1>3, PoolIdentified, ScoreIsPercentage DEF Ranked

\* What may be selected for an entry, before and after exact identifiers are
\* compared.
ChoicesFor(e) == Selectable(Candidates(e))
Options(e) == MarkExact(ChoicesFor(e))

LEMMA ChoicesAreScored ==
    ASSUME NEW e, NEW t \in ChoicesFor(e)
    PROVE  \E c \in EligibleFor(e) : t = Scored(e, c)
BY DEF ChoicesFor, Selectable, Free, Candidates

\* Marking changes nothing but the mark.
LEMMA OptionsAreChoices ==
    ASSUME NEW e, NEW s \in Options(e)
    PROVE  \E c \in EligibleFor(e) :
               /\ Scored(e, c) \in ChoicesFor(e)
               /\ s.id = c.id /\ s.score = Score(e, c)
               /\ s.contradictions = Scored(e, c).contradictions
               /\ s.reference = HasReference(e, c) /\ s.exact = Exact(e, c)
               /\ s \in {Scored(e, c), [Scored(e, c) EXCEPT !.duplicate = TRUE]}
<1>. DEFINE exact == {t \in ChoicesFor(e) : t.exact}
<1>1. PICK t \in ChoicesFor(e) :
          s = IF t \in exact /\ exact # {t} THEN [t EXCEPT !.duplicate = TRUE] ELSE t
  BY DEF Options, MarkExact
<1>2. PICK c \in EligibleFor(e) : t = Scored(e, c)
  BY ChoicesAreScored
<1>3. s \in {Scored(e, c), [Scored(e, c) EXCEPT !.duplicate = TRUE]}
  BY <1>1, <1>2
<1>. QED  BY <1>1, <1>2, <1>3 DEF Scored

LEMMA OptionsRanked ==
    ASSUME batch \in Batches, NEW e
    PROVE  Ranked(Options(e))
<1>. DEFINE exact == {t \in ChoicesFor(e) : t.exact}
            mark(t) == IF t \in exact /\ exact # {t} THEN [t EXCEPT !.duplicate = TRUE] ELSE t
<1>1. Ranked(ChoicesFor(e))
  BY CandidatesRanked DEF Ranked, ChoicesFor, Selectable, Free
<1>2. \A t \in ChoicesFor(e) : mark(t).id = t.id /\ mark(t).score = t.score
  BY ChoicesAreScored DEF Scored
<1>3. Options(e) = {mark(t) : t \in ChoicesFor(e)}
  BY DEF Options, MarkExact
<1>. HIDE DEF mark
<1>. QED  BY <1>1, <1>2, <1>3 DEF Ranked

-----------------------------------------------------------------------------
(***************************************************************************)
(* What an autonomous outcome says.                                        *)
(***************************************************************************)
LEMMA DecisionShape ==
    ASSUME batch \in Batches, NEW e,
           Options(e) # {}, ~Insufficient(First(Options(e)))
    PROVE  /\ OutcomeFor(e).status = StatusOf(Options(e))
           /\ OutcomeFor(e).selected = SelectedBy(Options(e))
           /\ OutcomeFor(e).autonomous =
                  (/\ StatusOf(Options(e)) # "ambiguous"
                   /\ CanAutoResolve(First(Options(e)), Margin(Options(e))))
<1>1. OutcomeFor(e) = Decide(Options(e))
  BY DEF OutcomeFor, Options, ChoicesFor
<1>. QED  BY <1>1 DEF Decide

LEMMA NoDecision ==
    ASSUME NEW e, Options(e) = {} \/ Insufficient(First(Options(e)))
    PROVE  OutcomeFor(e) = [status |-> "missing_razorpay", selected |-> {}, autonomous |-> FALSE]
BY DEF OutcomeFor, Options, ChoicesFor, Decide

LEMMA StatusRange ==
    ASSUME NEW S
    PROVE  /\ StatusOf(S) \in Statuses
           /\ StatusOf(S) = "matched" =>
                  Duplicates(S) = {} /\ First(S).contradictions = {} /\ First(S).reference
BY DEF StatusOf, Statuses

\* The best candidate of an autonomous outcome contradicts nothing, so it does
\* not collide, so nothing that could be selected does.
LEMMA AutonomousIsFree ==
    ASSUME batch \in Batches, NEW e, OutcomeFor(e).autonomous
    PROVE  /\ Options(e) # {} /\ First(Options(e)) \in Options(e)
           /\ ~Insufficient(First(Options(e)))
           /\ First(Options(e)).contradictions = {} /\ ~First(Options(e)).duplicate
           /\ ChoicesFor(e) = Free(Candidates(e))
           /\ \A s \in Options(e) : s.id \notin reserved
<1>. DEFINE best == First(Options(e))
<1>1. Options(e) # {} /\ ~Insufficient(best)
  BY NoDecision
<1>2. best \in Options(e)
  BY <1>1, OptionsRanked, FirstIsBest
<1>3. best.contradictions = {} /\ ~best.duplicate
  BY <1>1, DecisionShape DEF CanAutoResolve
<1>4. PICK c \in EligibleFor(e) :
          /\ Scored(e, c) \in ChoicesFor(e) /\ best.id = c.id
          /\ best.contradictions = Scored(e, c).contradictions
  BY <1>2, OptionsAreChoices
<1>5. c.id \notin reserved
  BY <1>3, <1>4 DEF Scored, Collides
<1>6. Scored(e, c) \in Free(Candidates(e))
  BY <1>5 DEF Free, Candidates, Scored
<1>7. ChoicesFor(e) = Free(Candidates(e))
  BY <1>6 DEF ChoicesFor, Selectable
<1>8. ASSUME NEW s \in Options(e) PROVE s.id \notin reserved
  <2>1. PICK d \in EligibleFor(e) : Scored(e, d) \in ChoicesFor(e) /\ s.id = d.id
    BY OptionsAreChoices
  <2>. QED  BY <2>1, <1>7 DEF Free, Scored
<1>. QED  BY <1>1, <1>2, <1>3, <1>7, <1>8

LEMMA AutonomousSelectsFree ==
    ASSUME batch \in Batches, NEW e, OutcomeFor(e).autonomous
    PROVE  OutcomeFor(e).selected \cap reserved = {}
<1>1. OutcomeFor(e).selected = SelectedBy(Options(e))
  BY AutonomousIsFree, DecisionShape
<1>2. SelectedBy(Options(e)) \subseteq {s.id : s \in Options(e)}
  BY AutonomousIsFree DEF SelectedBy, Duplicates
<1>. QED  BY <1>1, <1>2, AutonomousIsFree

LEMMA MatchedIsSupported ==
    ASSUME batch \in Batches, NEW e \in Entry,
           OutcomeFor(e).autonomous, OutcomeFor(e).status = "matched"
    PROVE  \E c \in EligibleFor(e) :
               /\ OutcomeFor(e).selected = {c.id}
               /\ Scored(e, c) \in Options(e)
               /\ Scored(e, c) = First(Options(e))
               /\ Supports(e, c)
<1>. DEFINE best == First(Options(e))
<1>1. /\ StatusOf(Options(e)) = "matched"
      /\ OutcomeFor(e).selected = SelectedBy(Options(e))
  BY AutonomousIsFree, DecisionShape
<1>2. OutcomeFor(e).selected = {best.id} /\ best.reference
  BY <1>1, StatusRange DEF SelectedBy
<1>3. PICK c \in EligibleFor(e) :
          /\ best.id = c.id /\ best.reference = HasReference(e, c)
          /\ best.contradictions = Scored(e, c).contradictions
          /\ best \in {Scored(e, c), [Scored(e, c) EXCEPT !.duplicate = TRUE]}
  BY AutonomousIsFree, OptionsAreChoices
<1>4. Contradictions(e, c) = {}
  BY <1>3, AutonomousIsFree DEF Scored
<1>5. /\ c.currency = e.currency /\ AmountMatches(e, c) /\ c.captured
      /\ ~(Distance(e.day, c.day) > 7)
  BY <1>4 DEF Contradictions
<1>6. Distance(e.day, c.day) <= 7
  <2>1. e.day \in Int /\ c.day \in Int
    BY <1>3, PoolIdentified DEF Entry, EligibleFor
  <2>2. Distance(e.day, c.day) \in Int
    BY <2>1 DEF Distance
  <2>. QED  BY <1>5, <2>2
<1>7. best = Scored(e, c)
  BY <1>3, AutonomousIsFree DEF Scored
<1>. QED  BY <1>2, <1>3, <1>5, <1>6, <1>7, AutonomousIsFree DEF Supports, EligibleFor

\* When several free records carry the entry's identifier, all are duplicates:
\* a match through the identifier leaves no free rival.
LEMMA MatchedIsUnrivalled ==
    ASSUME batch \in Batches, NEW e, OutcomeFor(e).autonomous,
           NEW c \in EligibleFor(e), Scored(e, c) = First(Options(e)), Exact(e, c),
           NEW d \in EligibleFor(e), d # c, Exact(e, d)
    PROVE  d.id \in reserved
<1>. SUFFICES ASSUME d.id \notin reserved PROVE FALSE
  OBVIOUS
<1>. DEFINE exact == {t \in ChoicesFor(e) : t.exact}
            mark(t) == IF t \in exact /\ exact # {t} THEN [t EXCEPT !.duplicate = TRUE] ELSE t
<1>1. Scored(e, d) \in exact
  <2>1. Scored(e, d).id = d.id /\ Scored(e, d).exact
    BY DEF Scored
  <2>2. Scored(e, d) \in Candidates(e)
    BY DEF Candidates
  <2>3. Scored(e, d) \in ChoicesFor(e)
    BY <2>1, <2>2, AutonomousIsFree DEF Free
  <2>. QED  BY <2>1, <2>3
<1>2. PICK t \in ChoicesFor(e) : Scored(e, c) = mark(t)
  BY AutonomousIsFree DEF Options, MarkExact
<1>3. t.id = c.id /\ t.exact /\ mark(t).duplicate = FALSE
  BY <1>2, ChoicesAreScored, AutonomousIsFree DEF Scored
<1>4. t = Scored(e, d)
  BY <1>1, <1>3, ChoicesAreScored DEF Scored
<1>5. d.id = c.id
  BY <1>3, <1>4 DEF Scored
<1>. QED  BY <1>5, PoolIdentified DEF EligibleFor

\* A match is about a record the entry refers to.
LEMMA MatchedIsConsidered ==
    ASSUME batch \in Batches, NEW e, OutcomeFor(e).status = "matched"
    PROVE  OutcomeFor(e).selected \subseteq ConsideredBy(e)
<1>. DEFINE best == First(Options(e))
<1>1. Options(e) # {} /\ ~Insufficient(best)
  BY NoDecision
<1>2. StatusOf(Options(e)) = "matched" /\ OutcomeFor(e).selected = SelectedBy(Options(e))
  BY <1>1, DecisionShape
<1>3. OutcomeFor(e).selected = {best.id} /\ best.reference
  BY <1>2, StatusRange DEF SelectedBy
<1>4. PICK c \in EligibleFor(e) : best.id = c.id /\ best.reference = HasReference(e, c)
  BY <1>1, OptionsRanked, FirstIsBest, OptionsAreChoices
<1>. QED  BY <1>3, <1>4 DEF ConsideredBy

LEMMA ExactIsConsidered ==
    ASSUME NEW e, NEW c \in Pool, c.kind = e.kind, Exact(e, c)
    PROVE  c.id \in ConsideredBy(e)
BY DEF ConsideredBy, EligibleFor, Eligible, HasReference

LEMMA OutcomeTyped ==
    ASSUME batch \in Batches, NEW e
    PROVE  OutcomeFor(e) \in OutcomeRecord
<1>. DEFINE record(status, selected, autonomous) ==
         [status |-> status, selected |-> selected, autonomous |-> autonomous]
<1>0. \A status \in Statuses, selected \in SUBSET RecordIds, autonomous \in BOOLEAN :
          record(status, selected, autonomous) \in OutcomeRecord
  BY DEF OutcomeRecord
<1>1. CASE Options(e) = {} \/ Insufficient(First(Options(e)))
  <2>1. OutcomeFor(e) = record("missing_razorpay", {}, FALSE)
    BY <1>1, NoDecision
  <2>2. "missing_razorpay" \in Statuses /\ {} \in SUBSET RecordIds /\ FALSE \in BOOLEAN
    BY DEF Statuses
  <2>. HIDE DEF record
  <2>. QED  BY <2>1, <2>2, <1>0, Zenon
<1>2. CASE Options(e) # {} /\ ~Insufficient(First(Options(e)))
  <2>. DEFINE alone == /\ StatusOf(Options(e)) # "ambiguous"
                       /\ CanAutoResolve(First(Options(e)), Margin(Options(e)))
  <2>1. OutcomeFor(e) = record(StatusOf(Options(e)), SelectedBy(Options(e)), alone)
    BY <1>2 DEF OutcomeFor, Options, ChoicesFor, Decide
  <2>2. \A s \in Options(e) : s.id \in RecordIds
    BY OptionsAreChoices DEF RecordIds, EligibleFor
  <2>3. SelectedBy(Options(e)) \in SUBSET RecordIds
    BY <2>2, <1>2, OptionsRanked, FirstIsBest DEF SelectedBy, Duplicates
  <2>4. StatusOf(Options(e)) \in Statuses
    BY StatusRange
  <2>5. alone \in BOOLEAN
    OBVIOUS
  <2>. HIDE DEF record, alone
  <2>. QED  BY <2>1, <2>3, <2>4, <2>5, <1>0, Zenon
<1>. QED  BY <1>1, <1>2

LEMMA ConsideredTyped ==
    ASSUME batch \in Batches, NEW e
    PROVE  ConsideredBy(e) \subseteq RecordIds
<1>1. \A c \in EligibleFor(e) : c.id \in RecordIds
  BY DEF EligibleFor, RecordIds
<1>2. \A p \in batch.payments : PaymentCandidate(p).id = p.id /\ PaymentCandidate(p) \in Pool
  BY DEF PaymentCandidate, Pool
<1>3. ASSUME NEW c \in Pool PROVE c.parents \subseteq batch.payments
  BY DEF Pool, PaymentCandidate, RefundCandidate, ParentsOf
<1>4. \A c \in EligibleFor(e) : \A p \in c.parents : p.id \in RecordIds
  BY <1>2, <1>3 DEF EligibleFor, RecordIds
<1>. QED  BY <1>1, <1>4 DEF ConsideredBy

-----------------------------------------------------------------------------
(***************************************************************************)
(* The inductive invariant.  NoRecordTwice needs to know that what an      *)
(* autonomous outcome selected is reserved; IdentifiersAreUnrivalled, that *)
(* nothing else is; MissingIsUnclaimed, that whatever was matched or named *)
(* by an entry is among the considered records.                            *)
(***************************************************************************)
Known == batch \in Batches /\ TypeOK

ReservedBySelection ==
    /\ \A i \in 1 .. Len(outcomes) :
           outcomes[i].autonomous => outcomes[i].selected \subseteq reserved
    /\ \A x \in reserved : \E i \in 1 .. Len(outcomes) :
           outcomes[i].autonomous /\ x \in outcomes[i].selected

EntriesConsidered ==
    \A i \in 1 .. Len(outcomes) :
        /\ outcomes[i].status = "matched" => outcomes[i].selected \subseteq considered
        /\ \A c \in Pool :
               c.kind = batch.ledger[i].kind /\ Exact(batch.ledger[i], c) => c.id \in considered

MissingOnceDone ==
    IF done THEN Len(outcomes) = Len(batch.ledger) /\ missing \cap considered = {}
    ELSE missing = {}

StageAInv ==
    /\ Known /\ ReservedBySelection /\ EntriesConsidered /\ MissingOnceDone
    /\ NoRecordTwice /\ MatchesAreSupported /\ IdentifiersAreUnrivalled

LEMMA StageAInit == Init => StageAInv
<1>. SUFFICES ASSUME Init PROVE StageAInv
  OBVIOUS
<1>1. /\ batch \in Batches /\ outcomes = <<>> /\ considered = {} /\ reserved = {}
      /\ missing = {} /\ done = FALSE
  BY DEF Init
<1>2. Len(outcomes) = 0 /\ outcomes \in Seq(OutcomeRecord)
  BY <1>1
<1>3. batch.ledger \in Seq(Entry)
  BY <1>1, BatchAssumption
<1>4. Len(batch.ledger) \in Nat
  BY <1>3, LenProperties
<1>5. Known
  <2>1. Len(outcomes) <= Len(batch.ledger)
    BY <1>2, <1>4
  <2>2. considered \subseteq RecordIds /\ reserved \subseteq RecordIds /\ missing \subseteq RecordIds
    BY <1>1
  <2>3. done \in BOOLEAN
    BY <1>1
  <2>. QED  BY <1>1, <1>2, <2>1, <2>2, <2>3 DEF Known, TypeOK
<1>. QED  BY <1>1, <1>2, <1>5 DEF StageAInv, ReservedBySelection, EntriesConsidered,
     MissingOnceDone, NoRecordTwice, MatchesAreSupported, IdentifiersAreUnrivalled

LEMMA PoolUnchanged ==
    ASSUME batch' = batch
    PROVE  Pool' = Pool /\ RecordIds' = RecordIds /\ OutcomeRecord' = OutcomeRecord
<1>1. Pool' = Pool
  BY DEF Pool, PaymentCandidate, RefundCandidate, ParentsOf, OrdersOf, ChainVerified
<1>. QED  BY <1>1 DEF RecordIds, OutcomeRecord

\* One more entry.
LEMMA MatchEntryStep ==
    ASSUME StageAInv, MatchEntry
    PROVE  StageAInv'
<1>. DEFINE n == Len(outcomes)
            entry == batch.ledger[n + 1]
            outcome == OutcomeFor(entry)
<1>1. /\ batch \in Batches /\ TypeOK /\ batch.ledger \in Seq(Entry)
      /\ outcomes \in Seq(OutcomeRecord) /\ outcome \in OutcomeRecord
  BY BatchAssumption, OutcomeTyped DEF StageAInv, Known, TypeOK
<1>2. /\ n < Len(batch.ledger)
      /\ outcomes' = Append(outcomes, outcome)
      /\ considered' = considered \cup ConsideredBy(entry)
      /\ reserved' = IF outcome.autonomous THEN reserved \cup outcome.selected ELSE reserved
      /\ batch' = batch /\ missing' = missing /\ done' = done
  BY DEF MatchEntry
<1>3. n \in Nat /\ Len(batch.ledger) \in Nat
  BY <1>1, LenProperties
<1>4. entry \in Entry
  BY <1>1, <1>2, <1>3, ElementOfSeq
<1>5. /\ outcomes' \in Seq(OutcomeRecord) /\ Len(outcomes') = n + 1
      /\ \A i \in 1 .. n : outcomes'[i] = outcomes[i]
      /\ outcomes'[n + 1] = outcome
  BY <1>1, <1>2, AppendProperties
<1>6. Pool' = Pool /\ RecordIds' = RecordIds /\ OutcomeRecord' = OutcomeRecord
  BY <1>2, PoolUnchanged
<1>7. outcome.selected \subseteq RecordIds /\ ConsideredBy(entry) \subseteq RecordIds
  BY <1>1, ConsideredTyped DEF OutcomeRecord
<1>8. 1 .. Len(outcomes') = (1 .. n) \cup {n + 1} /\ n + 1 \notin 1 .. n
  BY <1>3, <1>5
<1>. HIDE DEF n, entry, outcome
<1>9. Known'
  <2>1. Len(outcomes') <= Len(batch'.ledger)
    BY <1>2, <1>3, <1>5
  <2>. QED  BY <1>1, <1>2, <1>5, <1>6, <1>7, <2>1 DEF Known, TypeOK
<1>10. ReservedBySelection'
  BY <1>2, <1>5, <1>8 DEF StageAInv, ReservedBySelection, n
<1>11. EntriesConsidered'
  <2>1. outcome.status = "matched" => outcome.selected \subseteq ConsideredBy(entry)
    BY <1>1, MatchedIsConsidered DEF outcome
  <2>2. \A c \in Pool : c.kind = entry.kind /\ Exact(entry, c) => c.id \in ConsideredBy(entry)
    BY ExactIsConsidered
  <2>. QED  BY <1>2, <1>5, <1>6, <1>8, <2>1, <2>2 DEF StageAInv, EntriesConsidered, n, entry
<1>12. MissingOnceDone'
  BY <1>2, <1>3 DEF StageAInv, MissingOnceDone, n
<1>13. NoRecordTwice'
  <2>1. outcome.autonomous => outcome.selected \cap reserved = {}
    BY <1>1, AutonomousSelectsFree DEF outcome
  <2>2. \A i \in 1 .. n : outcomes[i].autonomous => outcomes[i].selected \subseteq reserved
    BY DEF StageAInv, ReservedBySelection, n
  <2>. QED  BY <1>5, <1>8, <2>1, <2>2 DEF StageAInv, NoRecordTwice, n
<1>14. MatchesAreSupported'
  <2>1. ASSUME outcome.autonomous, outcome.status = "matched"
        PROVE  \E c \in Pool : outcome.selected = {c.id} /\ Supports(entry, c)
    BY <1>1, <1>4, <2>1, MatchedIsSupported DEF outcome, EligibleFor
  <2>. QED  BY <1>2, <1>5, <1>6, <1>8, <2>1 DEF StageAInv, MatchesAreSupported, n, entry
<1>15. IdentifiersAreUnrivalled'
  <2>1. ASSUME NEW c \in Pool, NEW d \in Pool, outcome.autonomous,
               outcome.status = "matched", outcome.selected = {c.id}, Exact(entry, c),
               d # c, d.kind = entry.kind, Exact(entry, d)
        PROVE  \E j \in 1 .. n : outcomes[j].autonomous /\ d.id \in outcomes[j].selected
    <3>1. PICK b \in EligibleFor(entry) :
              outcome.selected = {b.id} /\ Scored(entry, b) = First(Options(entry))
      BY <1>1, <1>4, <2>1, MatchedIsSupported DEF outcome
    <3>2. b = c
      BY <1>1, <2>1, <3>1, PoolIdentified DEF EligibleFor
    <3>3. d \in EligibleFor(entry)
      BY <2>1 DEF EligibleFor, Eligible
    <3>4. d.id \in reserved
      BY <1>1, <2>1, <3>1, <3>2, <3>3, MatchedIsUnrivalled DEF outcome
    <3>. QED  BY <3>4 DEF StageAInv, ReservedBySelection, n
  <2>2. \A i \in 1 .. n : 1 .. i - 1 \subseteq 1 .. n
    BY <1>3
  <2>3. 1 .. (n + 1) - 1 = 1 .. n
    BY <1>3
  <2>4. ASSUME NEW i \in (1 .. n) \cup {n + 1}, NEW c \in Pool, NEW d \in Pool,
               outcomes'[i].autonomous, outcomes'[i].status = "matched",
               outcomes'[i].selected = {c.id}, Exact(batch.ledger[i], c),
               d # c, d.kind = batch.ledger[i].kind, Exact(batch.ledger[i], d)
        PROVE  \E j \in 1 .. i - 1 : outcomes'[j].autonomous /\ d.id \in outcomes'[j].selected
    <3>1. CASE i \in 1 .. n
      <4>1. PICK j \in 1 .. i - 1 : outcomes[j].autonomous /\ d.id \in outcomes[j].selected
        BY <1>5, <2>4, <3>1 DEF StageAInv, IdentifiersAreUnrivalled, n
      <4>2. j \in 1 .. n
        BY <2>2, <3>1
      <4>. QED  BY <1>5, <4>1, <4>2
    <3>2. CASE i = n + 1
      <4>1. PICK j \in 1 .. n : outcomes[j].autonomous /\ d.id \in outcomes[j].selected
        BY <1>5, <2>1, <2>4, <3>2 DEF entry
      <4>. QED  BY <1>5, <2>3, <3>2, <4>1
    <3>. QED  BY <3>1, <3>2
  <2>5. \A i \in 1 .. Len(outcomes') : \A c, d \in Pool' :
            /\ outcomes'[i].autonomous /\ outcomes'[i].status = "matched"
            /\ outcomes'[i].selected = {c.id} /\ Exact(batch'.ledger[i], c)
            /\ d # c /\ d.kind = batch'.ledger[i].kind /\ Exact(batch'.ledger[i], d)
            => \E j \in 1 .. i - 1 : outcomes'[j].autonomous /\ d.id \in outcomes'[j].selected
    BY <1>2, <1>6, <1>8, <2>4
  <2>. QED  BY <2>5, Zenon DEF IdentifiersAreUnrivalled
<1>. QED  BY <1>9, <1>10, <1>11, <1>12, <1>13, <1>14, <1>15 DEF StageAInv

\* The rest of the pool.
LEMMA ReportMissingStep ==
    ASSUME StageAInv, ReportMissing
    PROVE  StageAInv'
<1>1. /\ Len(outcomes) = Len(batch.ledger)
      /\ missing' = RecordIds \ considered /\ done' = TRUE
      /\ batch' = batch /\ outcomes' = outcomes
      /\ considered' = considered /\ reserved' = reserved
  BY DEF ReportMissing, RecordIds
<1>2. Pool' = Pool /\ RecordIds' = RecordIds /\ OutcomeRecord' = OutcomeRecord
  BY <1>1, PoolUnchanged
<1>3. Known'
  <2>1. batch \in Batches /\ outcomes \in Seq(OutcomeRecord)
        /\ Len(outcomes) <= Len(batch.ledger)
        /\ considered \subseteq RecordIds /\ reserved \subseteq RecordIds
    BY DEF StageAInv, Known, TypeOK
  <2>. QED  BY <1>1, <1>2, <2>1 DEF Known, TypeOK
<1>4. ReservedBySelection' /\ EntriesConsidered'
  BY <1>1, <1>2 DEF StageAInv, ReservedBySelection, EntriesConsidered
<1>5. MissingOnceDone'
  BY <1>1 DEF MissingOnceDone
<1>6. NoRecordTwice' /\ MatchesAreSupported' /\ IdentifiersAreUnrivalled'
  BY <1>1, <1>2 DEF StageAInv, NoRecordTwice, MatchesAreSupported, IdentifiersAreUnrivalled
<1>. QED  BY <1>3, <1>4, <1>5, <1>6 DEF StageAInv

LEMMA StageAStep == StageAInv /\ [Next]_vars => StageAInv'
<1>. SUFFICES ASSUME StageAInv, [Next]_vars PROVE StageAInv'
  OBVIOUS
<1>1. CASE MatchEntry
  BY <1>1, MatchEntryStep
<1>2. CASE ReportMissing
  BY <1>2, ReportMissingStep
<1>3. CASE UNCHANGED vars
  <2>1. /\ batch' = batch /\ outcomes' = outcomes /\ considered' = considered
        /\ reserved' = reserved /\ missing' = missing /\ done' = done
    BY <1>3 DEF vars
  <2>2. Pool' = Pool /\ RecordIds' = RecordIds /\ OutcomeRecord' = OutcomeRecord
    BY <2>1, PoolUnchanged
  <2>3. Known'
    BY <2>1, <2>2 DEF StageAInv, Known, TypeOK
  <2>4. ReservedBySelection' /\ EntriesConsidered' /\ MissingOnceDone'
    BY <2>1, <2>2 DEF StageAInv, ReservedBySelection, EntriesConsidered, MissingOnceDone
  <2>5. NoRecordTwice' /\ MatchesAreSupported' /\ IdentifiersAreUnrivalled'
    BY <2>1, <2>2 DEF StageAInv, NoRecordTwice, MatchesAreSupported, IdentifiersAreUnrivalled
  <2>. QED  BY <2>3, <2>4, <2>5 DEF StageAInv
<1>. QED  BY <1>1, <1>2, <1>3 DEF Next

LEMMA StageAInvariant == Spec => []StageAInv
BY StageAInit, StageAStep, PTL DEF Spec

\* What the considered records say of the missing ones.
LEMMA UnclaimedFromConsidered == StageAInv => MissingIsUnclaimed
<1>. SUFFICES ASSUME StageAInv, NEW c \in Pool, c.id \in missing,
                     NEW i \in 1 .. Len(batch.ledger)
              PROVE  /\ ~(outcomes[i].status = "matched" /\ c.id \in outcomes[i].selected)
                     /\ ~(batch.ledger[i].kind = c.kind /\ Exact(batch.ledger[i], c))
  BY DEF MissingIsUnclaimed
<1>1. c.id \notin considered /\ i \in 1 .. Len(outcomes)
  BY DEF StageAInv, MissingOnceDone
<1>. QED  BY <1>1 DEF StageAInv, EntriesConsidered

-----------------------------------------------------------------------------
\* Stage A works on the records of its batch.
THEOREM TypeCorrect == Spec => []TypeOK
<1>1. StageAInv => TypeOK
  BY DEF StageAInv, Known
<1>. QED  BY <1>1, StageAInvariant, PTL

\* No Razorpay record closes two ledger entries, in any batch.
THEOREM RecordsUsedOnce == Spec => []NoRecordTwice
<1>1. StageAInv => NoRecordTwice
  BY DEF StageAInv
<1>. QED  BY <1>1, StageAInvariant, PTL

\* Every autonomous match agrees with its entry and is tied to it.
THEOREM MatchesSupported == Spec => []MatchesAreSupported
<1>1. StageAInv => MatchesAreSupported
  BY DEF StageAInv
<1>. QED  BY <1>1, StageAInvariant, PTL

\* A match through an identifier leaves no other free record that carries it.
THEOREM IdentifiersUnrivalled == Spec => []IdentifiersAreUnrivalled
<1>1. StageAInv => IdentifiersAreUnrivalled
  BY DEF StageAInv
<1>. QED  BY <1>1, StageAInvariant, PTL

\* A record reported as missing from the ledger is claimed by no entry.
THEOREM MissingUnclaimed == Spec => []MissingIsUnclaimed
BY UnclaimedFromConsidered, StageAInvariant, PTL

(***************************************************************************)
(* Stage B and both stages.                                                *)
(***************************************************************************)

(***************************************************************************)
(* The best case of a payment is one of its cases, and can be ranked.      *)
(***************************************************************************)
LEMMA CaseScoreIsPercentage ==
    ASSUME NEW p, NEW related, NEW contradictions
    PROVE  CaseScore(p, related, contradictions) \in 0 .. 100
BY DEF CaseScore

LEMMA CasesRanked ==
    ASSUME batch \in Batches, NEW p
    PROVE  Ranked(Cases(p))
<1>1. /\ \A s \in batch.settlements : s.id \in Nat
      /\ \A s, t \in batch.settlements : s.id = t.id => s = t
  BY SettlementAssumption DEF Settlement
<1>2. ASSUME NEW base PROVE CaseFor(p, base).id = base.id /\ CaseFor(p, base).score \in 0 .. 100
  BY CaseScoreIsPercentage DEF CaseFor
<1>3. \A c \in Cases(p) : \E base \in batch.settlements : c = CaseFor(p, base)
  BY DEF Cases, BaseSettlements
<1>. QED  BY <1>1, <1>2, <1>3 DEF Ranked

LEMMA BestCase ==
    ASSUME batch \in Batches, NEW p, BaseSettlements(p) # {}
    PROVE  \E base \in BaseSettlements(p) : First(OpenCases(p)) = CaseFor(p, base)
<1>1. OpenCases(p) \subseteq Cases(p) /\ OpenCases(p) # {}
  BY DEF OpenCases, Cases
<1>2. Ranked(OpenCases(p))
  BY <1>1, CasesRanked DEF Ranked
<1>3. First(OpenCases(p)) \in Cases(p)
  BY <1>1, <1>2, FirstIsBest
<1>. QED  BY <1>3 DEF Cases

-----------------------------------------------------------------------------
(***************************************************************************)
(* What an autonomous outcome rests on: one base settlement whose case     *)
(* contradicts nothing and whose credits are all verified.                 *)
(***************************************************************************)
Balanced(s) == s.amount = Expected(s) /\ \A l \in LinesOf(s) : ~WrongDirection(l)

Rests(p, base) ==
    /\ base \in BaseSettlements(p)
    /\ PaymentAgrees(p, Related(base))
    /\ \A s \in Related(base) : Balanced(s) /\ BankVerified(s)
    /\ \A s \in Holding(Related(base)) : Released(s, Related(base))

LEMMA NothingContradicts ==
    ASSUME NEW p, NEW related, CaseContradictions(p, related) = {}
    PROVE  /\ PaymentAgrees(p, related)
           /\ \A s \in related : Balanced(s)
           /\ \A s \in Holding(related) : Released(s, related)
<1>1. ASSUME NEW s \in related PROVE MathContradictions(s) = {}
  <2>1. UNION {MathContradictions(t) \cup BankContradictions(t) : t \in related} = {}
    BY DEF CaseContradictions
  <2>2. MathContradictions(s) \cup BankContradictions(s)
            \subseteq UNION {MathContradictions(t) \cup BankContradictions(t) : t \in related}
    BY Zenon
  <2>. QED  BY <2>1, <2>2
<1>2. PaymentAgrees(p, related)
  BY DEF CaseContradictions
<1>3. \A s \in Holding(related) : Released(s, related)
  BY DEF CaseContradictions
<1>4. ASSUME NEW s \in related PROVE Balanced(s)
  <2>1. "amount" \notin MathContradictions(s) /\ "direction" \notin MathContradictions(s)
    BY <1>1
  <2>2. s.amount = Expected(s)
    BY <2>1 DEF MathContradictions
  <2>3. \A l \in LinesOf(s) : ~WrongDirection(l)
    BY <2>1 DEF MathContradictions
  <2>. QED  BY <2>2, <2>3 DEF Balanced
<1>. QED  BY <1>2, <1>3, <1>4

Backed(o) ==
    \E base \in batch.settlements :
        /\ Rests(o.payment, base)
        /\ o.status = "matched"
        /\ o.resources = ResourcesOf(o.payment, Related(base))
        /\ o.selected.settlements = {s.id : s \in Related(base)}

LEMMA Unlinked ==
    ASSUME NEW p, BaseSettlements(p) = {}
    PROVE  /\ Settle(p).payment = p
           /\ Settle(p).status = "missing_settlement"
           /\ Settle(p).selected = NothingSelected
           /\ Settle(p).autonomous = FALSE
BY DEF Settle

LEMMA Linked ==
    ASSUME NEW p, BaseSettlements(p) # {}
    PROVE  /\ Settle(p).payment = p
           /\ Settle(p).status = CaseStatus(OpenCases(p))
           /\ Settle(p).selected = First(OpenCases(p)).selected
           /\ Settle(p).autonomous =
                  (/\ CaseStatus(OpenCases(p)) # "ambiguous"
                   /\ CanAutoResolve(First(OpenCases(p)), Margin(OpenCases(p))))
           /\ Settle(p).resources = First(OpenCases(p)).resources
BY DEF Settle

\* Without verified credits a case scores 85 at most: only verification, never
\* the score, lets stage B act alone.
LEMMA ScoreIsNotEnough ==
    ASSUME NEW p, NEW related, NEW contradictions,
           ~\A s \in related : BankVerified(s)
    PROVE  CaseScore(p, related, contradictions) < 90
BY DEF CaseScore

LEMMA AutonomousIsBacked ==
    ASSUME batch \in Batches, NEW p, Settle(p).autonomous
    PROVE  Backed(Settle(p)) /\ Settle(p).resources \cap used = {}
<1>. DEFINE best == First(OpenCases(p))
<1>1. BaseSettlements(p) # {}
  BY Unlinked
<1>2. PICK base \in BaseSettlements(p) : best = CaseFor(p, base)
  BY <1>1, BestCase
<1>. DEFINE related == Related(base)
            contradictions == CaseContradictions(p, related)
<1>3. /\ best.contradictions = {} /\ ~best.duplicate
      /\ best.verified \/ best.score >= 90
      /\ CaseStatus(OpenCases(p)) # "ambiguous"
  <2>1. CaseStatus(OpenCases(p)) # "ambiguous" /\ CanAutoResolve(best, Margin(OpenCases(p)))
    BY <1>1, Linked, Zenon
  <2>2. best.exact = FALSE
    BY <1>2 DEF CaseFor
  <2>. QED  BY <2>1, <2>2 DEF CanAutoResolve
<1>4. /\ best.duplicate = (ResourcesOf(p, related) \cap used # {})
      /\ contradictions \subseteq best.contradictions
      /\ best.verified = (MathVerified(contradictions) /\ \A s \in related : BankVerified(s))
      /\ best.score = CaseScore(p, related, contradictions)
      /\ best.resources = ResourcesOf(p, related)
      /\ best.selected.settlements = {s.id : s \in related}
  BY <1>2 DEF CaseFor
<1>5. contradictions = {} /\ ResourcesOf(p, related) \cap used = {}
  BY <1>3, <1>4
<1>6. \A s \in related : BankVerified(s)
  <2>1. CASE best.verified
    BY <2>1, <1>4
  <2>2. CASE best.score >= 90
    <3>1. CaseScore(p, related, contradictions) \in 0 .. 100
      BY CaseScoreIsPercentage
    <3>. HIDE DEF related, contradictions
    <3>. QED  BY <2>2, <3>1, <1>4, ScoreIsNotEnough
  <2>. QED  BY <2>1, <2>2, <1>3
<1>7. CaseStatus(OpenCases(p)) = "matched"
  BY <1>3 DEF CaseStatus
<1>8. base \in batch.settlements
  BY DEF BaseSettlements
<1>9. Rests(p, base)
  BY <1>5, <1>6, NothingContradicts DEF Rests
<1>10. Backed(Settle(p))
  BY <1>1, <1>4, <1>7, <1>8, <1>9, Linked DEF Backed
<1>. QED  BY <1>1, <1>4, <1>5, <1>10, Linked

LEMMA SettleTyped ==
    ASSUME batch \in Batches, NEW p
    PROVE  /\ Settle(p).status \in CaseStatuses
           /\ Settle(p).autonomous \in BOOLEAN
           /\ Settle(p).selected.settlements \subseteq {s.id : s \in batch.settlements}
           /\ Settle(p).selected.refunds \subseteq {r.id : r \in batch.refunds}
<1>1. CASE BaseSettlements(p) = {}
  <2>1. Settle(p).status \in CaseStatuses /\ Settle(p).autonomous \in BOOLEAN
    BY <1>1, Unlinked DEF CaseStatuses
  <2>2. Settle(p).selected.settlements = {} /\ Settle(p).selected.refunds = {}
    <3>1. Settle(p).selected = NothingSelected
      BY <1>1, Unlinked
    <3>2. NothingSelected.settlements = {} /\ NothingSelected.refunds = {}
      BY DEF NothingSelected
    <3>. QED  BY <3>1, <3>2
  <2>. QED  BY <2>1, <2>2
<1>2. CASE BaseSettlements(p) # {}
  <2>1. CaseStatus(OpenCases(p)) \in CaseStatuses
    BY DEF CaseStatus, CaseStatuses
  <2>2. PICK base \in BaseSettlements(p) : First(OpenCases(p)) = CaseFor(p, base)
    BY <1>2, BestCase
  <2>3. Related(base) \subseteq batch.settlements
    BY DEF Related, BaseSettlements
  <2>4. Settle(p).selected = CaseFor(p, base).selected
    BY <1>2, <2>2, Linked
  <2>5. /\ CaseFor(p, base).selected.settlements = {s.id : s \in Related(base)}
        /\ CaseFor(p, base).selected.refunds = {r.id : r \in RefundsOf(p)}
    BY DEF CaseFor
  <2>6. Settle(p).autonomous \in BOOLEAN
    BY <1>2, Linked
  <2>7. Settle(p).status \in CaseStatuses
    BY <1>2, <2>1, Linked
  <2>. QED  BY <2>3, <2>4, <2>5, <2>6, <2>7 DEF RefundsOf
<1>. QED  BY <1>1, <1>2

\* The credit of a settlement is the closest of those that qualify.
LEMMA CreditChosen ==
    ASSUME batch \in Batches, NEW s \in batch.settlements, CreditsFor(s) # {}
    PROVE  CreditFor(s) \in CreditsFor(s)
<1>. DEFINE gap(c) == IF UtrCredits(s) # {} THEN 0 ELSE Distance(c.day, s.day)
            gaps == {gap(c) : c \in CreditsFor(s)}
            leaders(m) == {c \in CreditsFor(s) : gap(c) = m}
<1>1. CreditsFor(s) \subseteq batch.credits
  BY DEF CreditsFor, UtrCredits, NearCredits
<1>2. /\ \A c \in CreditsFor(s) : c.id \in Nat /\ c.day \in Int
      /\ \A c, d \in CreditsFor(s) : c.id = d.id => c = d
  BY <1>1, SettlementAssumption DEF Credit
<1>3. \A c \in CreditsFor(s) : gap(c) \in Nat
  <2>1. s.day \in Int
    BY SettlementAssumption DEF Settlement
  <2>. QED  BY <1>2, <2>1 DEF Distance
<1>4. \A c, d \in CreditsFor(s) :
          gap(c) < gap(d) \/ (gap(c) = gap(d) /\ c.id < d.id) => Closer(s, c, d)
  BY <1>3 DEF Closer
<1>. HIDE DEF gap
<1>5. PICK m \in gaps : \A n \in gaps : m <= n
  <2>1. gaps \subseteq Nat /\ gaps # {}
    BY <1>3
  <2>. HIDE DEF gaps
  <2>. QED  BY <2>1, Least
<1>6. PICK i \in {c.id : c \in leaders(m)} : \A j \in {c.id : c \in leaders(m)} : i <= j
  <2>1. {c.id : c \in leaders(m)} \subseteq Nat /\ {c.id : c \in leaders(m)} # {}
    BY <1>2, <1>5
  <2>. QED  BY <2>1, Least
<1>7. PICK c \in leaders(m) : c.id = i
  BY <1>6
<1>8. ASSUME NEW d \in CreditsFor(s) \ {c} PROVE Closer(s, c, d)
  <2>1. m <= gap(d) /\ gap(c) = m /\ m \in Nat /\ gap(d) \in Nat
    BY <1>3, <1>5, <1>7, <1>8
  <2>2. CASE gap(d) = m
    <3>1. i <= d.id /\ d.id # i
      BY <1>2, <1>6, <1>7, <1>8, <2>2
    <3>2. c.id < d.id
      BY <1>2, <1>7, <1>8, <3>1
    <3>. QED  BY <1>4, <1>7, <1>8, <2>1, <2>2, <3>2
  <2>3. CASE gap(d) # m
    <3>1. gap(c) < gap(d)
      BY <2>1, <2>3
    <3>. QED  BY <1>4, <1>7, <1>8, <3>1
  <2>. QED  BY <2>2, <2>3
<1>. QED  BY <1>7, <1>8 DEF CreditFor

LEMMA SelectedCredits ==
    ASSUME batch \in Batches, NEW p
    PROVE  Settle(p).selected.credits \subseteq {c.id : c \in batch.credits}
<1>1. CASE BaseSettlements(p) = {}
  <2>1. Settle(p).selected = NothingSelected
    BY <1>1, Unlinked
  <2>2. NothingSelected.credits = {}
    BY DEF NothingSelected
  <2>. QED  BY <2>1, <2>2
<1>2. CASE BaseSettlements(p) # {}
  <2>1. PICK base \in BaseSettlements(p) : First(OpenCases(p)) = CaseFor(p, base)
    BY <1>2, BestCase
  <2>2. Related(base) \subseteq batch.settlements
    BY DEF Related, BaseSettlements
  <2>3. ASSUME NEW s \in Related(base), CreditsFor(s) # {}
        PROVE  CreditFor(s) \in batch.credits
    BY <2>2, <2>3, CreditChosen DEF CreditsFor, UtrCredits, NearCredits
  <2>4. Settle(p).selected = CaseFor(p, base).selected
    BY <1>2, <2>1, Linked
  <2>5. CaseFor(p, base).selected.credits =
            {CreditFor(s).id : s \in {u \in Related(base) : CreditsFor(u) # {}}}
    BY DEF CaseFor
  <2>. QED  BY <2>3, <2>4, <2>5
<1>. QED  BY <1>1, <1>2

-----------------------------------------------------------------------------
(***************************************************************************)
(* The inductive invariant: every autonomous outcome is backed, its        *)
(* resources are used, and no two of them share any.                       *)
(***************************************************************************)
IsSequence == \E S : settled \in Seq(S)

ClosedAreBacked ==
    \A o : (\E i \in Closed : o = settled[i]) => Backed(o) /\ o.resources \subseteq used

ResourcesAreDisjoint ==
    \A i, j \in Closed : i # j => settled[i].resources \cap settled[j].resources = {}

SettleInv ==
    /\ batch \in Batches /\ IsSequence /\ SettleTypeOK
    /\ ClosedAreBacked /\ ResourcesAreDisjoint

LEMMA SettleInit == EngineInit => SettleInv
<1>. SUFFICES ASSUME EngineInit PROVE SettleInv
  OBVIOUS
<1>1. batch \in Batches /\ settled = <<>> /\ used = {}
  BY DEF EngineInit, Init
<1>2. IsSequence
  BY <1>1 DEF IsSequence
<1>3. DOMAIN settled = 1 .. Len(settled) /\ 1 .. Len(settled) = {}
  BY <1>1
<1>4. Closed = {}
  BY <1>3 DEF Closed
<1>. QED  BY <1>1, <1>2, <1>3, <1>4
          DEF SettleInv, SettleTypeOK, ClosedAreBacked, ResourcesAreDisjoint

\* What backs an outcome is in the batch, which never changes.
LEMMA BackedUnchanged ==
    ASSUME batch' = batch
    PROVE  \A o : Backed(o) => Backed(o)'
<1>1. /\ \A s : LinesOf(s)' = LinesOf(s)
      /\ \A s : UtrCredits(s)' = UtrCredits(s)
      /\ \A s : NearCredits(s)' = NearCredits(s)
      /\ \A p : RefundsOf(p)' = RefundsOf(p)
  BY DEF LinesOf, UtrCredits, NearCredits, RefundsOf
<1>2. /\ \A S : LinesIn(S)' = LinesIn(S)
      /\ \A s : CreditsFor(s)' = CreditsFor(s)
      /\ \A s, c, d : Closer(s, c, d)' <=> Closer(s, c, d)
  BY <1>1 DEF LinesIn, CreditsFor, Closer
<1>3. \A s : CreditFor(s)' = CreditFor(s)
  BY <1>2 DEF CreditFor
<1>4. \A s : BankContradictions(s)' = BankContradictions(s)
  BY <1>2, <1>3 DEF BankContradictions
<1>5. \A s : BankVerified(s)' <=> BankVerified(s)
  BY <1>1, <1>4 DEF BankVerified
<1>6. \A s, type : Debited(s, type)' = Debited(s, type)
  BY <1>1 DEF Debited
<1>7. \A s : Held(s)' = Held(s) /\ Expected(s)' = Expected(s)
  BY <1>1, <1>6 DEF Held, Expected
<1>8. \A s : Balanced(s)' <=> Balanced(s)
  BY <1>1, <1>7 DEF Balanced
<1>9. /\ \A h, S : ReleaseLines(h, S)' = ReleaseLines(h, S)
      /\ \A p, S, type : LinesNaming(p, S, type)' = LinesNaming(p, S, type)
      /\ \A p : BaseSettlements(p)' = BaseSettlements(p)
      /\ \A S : LineNamedTwice(S)' <=> LineNamedTwice(S)
      /\ \A S : Holding(S)' = Holding(S)
  BY <1>1, <1>2, <1>7 DEF ReleaseLines, LinesNaming, BaseSettlements, LineNamedTwice, Holding
<1>10. /\ \A s : Related(s)' = Related(s)
       /\ \A p, S : PaymentAgrees(p, S)' <=> PaymentAgrees(p, S)
       /\ \A p, r, S : RefundAgrees(p, r, S)' <=> RefundAgrees(p, r, S)
       /\ \A h, S : Released(h, S)' <=> Released(h, S)
  BY <1>7, <1>9 DEF Related, PaymentAgrees, RefundAgrees, Released
<1>11. \A p, S : ResourcesOf(p, S)' = ResourcesOf(p, S)
  BY <1>1, <1>9 DEF ResourcesOf
<1>12. \A p, base : Rests(p, base)' <=> Rests(p, base)
  BY <1>5, <1>8, <1>9, <1>10 DEF Rests
<1>. QED  BY <1>10, <1>11, <1>12 DEF Backed

\* One more payment.
LEMMA SettlePaymentStep ==
    ASSUME SettleInv, SettlePayment
    PROVE  SettleInv'
<1>. DEFINE n == Len(settled)
<1>1. PICK p \in Unsettled :
          /\ settled' = Append(settled, Settle(p))
          /\ used' = IF Settle(p).autonomous THEN used \cup Settle(p).resources ELSE used
          /\ batch' = batch
  BY DEF SettlePayment, vars
<1>0. PICK o : o = Settle(p)
  OBVIOUS
<1>2. PICK S : settled \in Seq(S)
  BY DEF SettleInv, IsSequence
<1>3. settled \in Seq(S \cup {o}) /\ n \in Nat
  BY <1>2, LenProperties
<1>4. /\ settled' \in Seq(S \cup {o}) /\ Len(settled') = n + 1
      /\ \A i \in 1 .. n : settled'[i] = settled[i]
      /\ settled'[n + 1] = o
  BY <1>0, <1>1, <1>3, AppendProperties
<1>5. 1 .. Len(settled') = (1 .. n) \cup {n + 1} /\ n + 1 \notin 1 .. n
  BY <1>3, <1>4
<1>6. IsSequence'
  BY <1>4 DEF IsSequence
<1>7. batch \in Batches /\ p \in {q \in batch.payments : q.captured} /\ o.payment = p
  <2>1. o.payment = p
    BY <1>0, Linked, Unlinked
  <2>. QED  BY <2>1 DEF SettleInv, Unsettled
<1>8. o.autonomous \in BOOLEAN
  BY <1>0, <1>7, SettleTyped
<1>9. o.autonomous => Backed(o)' /\ o.resources \cap used = {}
  BY <1>0, <1>1, <1>7, AutonomousIsBacked, BackedUnchanged
<1>10. /\ o.status \in CaseStatuses
       /\ o.selected.settlements \subseteq {s.id : s \in batch.settlements}
       /\ o.selected.refunds \subseteq {r.id : r \in batch.refunds}
       /\ o.selected.credits \subseteq {c.id : c \in batch.credits}
  BY <1>0, <1>7, SettleTyped, SelectedCredits
<1>. HIDE DEF n
<1>11. SettleTypeOK'
  <2>1. DOMAIN settled' = 1 .. Len(settled')
    BY <1>4
  <2>. QED  BY <1>1, <1>4, <1>5, <1>7, <1>8, <1>10, <2>1 DEF SettleInv, SettleTypeOK, n
<1>12. Closed' = IF o.autonomous THEN Closed \cup {n + 1} ELSE Closed
  BY <1>4, <1>5 DEF Closed, n
<1>13. used \subseteq used' /\ (o.autonomous => o.resources \subseteq used')
  BY <1>0, <1>1
<1>14. \A i \in Closed : i \in 1 .. n /\ settled'[i] = settled[i]
  BY <1>4 DEF Closed, n
<1>15. ClosedAreBacked'
  <2>1. ASSUME NEW q, NEW i \in Closed', q = settled'[i]
        PROVE  Backed(q)' /\ q.resources \subseteq used'
    <3>1. CASE i \in Closed
      <4>1. Backed(q) /\ q.resources \subseteq used
        BY <1>14, <2>1, <3>1 DEF SettleInv, ClosedAreBacked
      <4>. QED  BY <1>1, <1>13, <4>1, BackedUnchanged
    <3>2. CASE i = n + 1 /\ o.autonomous
      BY <1>4, <1>9, <1>13, <2>1, <3>2
    <3>. QED  BY <1>12, <2>1, <3>1, <3>2
  <2>. QED  BY <2>1 DEF ClosedAreBacked
<1>16. ResourcesAreDisjoint'
  <2>1. \A i \in Closed : settled[i].resources \subseteq used
    BY DEF SettleInv, ClosedAreBacked
  <2>. QED  BY <1>4, <1>9, <1>12, <1>14, <2>1 DEF SettleInv, ResourcesAreDisjoint
<1>. QED  BY <1>1, <1>6, <1>7, <1>11, <1>15, <1>16 DEF SettleInv

LEMMA SettleStep == SettleInv /\ [EngineNext]_<<vars, settleVars>> => SettleInv'
<1>. SUFFICES ASSUME SettleInv, [EngineNext]_<<vars, settleVars>> PROVE SettleInv'
  OBVIOUS
<1>1. CASE batch' = batch /\ settled' = settled /\ used' = used
  <2>1. \A o : Backed(o) => Backed(o)'
    BY <1>1, BackedUnchanged
  <2>2. Closed' = Closed
    BY <1>1 DEF Closed
  <2>3. ClosedAreBacked'
    BY <1>1, <2>1, <2>2 DEF SettleInv, ClosedAreBacked
  <2>4. IsSequence' /\ SettleTypeOK' /\ ResourcesAreDisjoint'
    BY <1>1, <2>2 DEF SettleInv, IsSequence, SettleTypeOK, ResourcesAreDisjoint
  <2>. QED  BY <1>1, <2>3, <2>4 DEF SettleInv
<1>2. CASE StageANext
  BY <1>1, <1>2 DEF StageANext, Next, MatchEntry, ReportMissing, settleVars
<1>3. CASE SettlePayment
  BY <1>3, SettlePaymentStep
<1>4. CASE UNCHANGED <<vars, settleVars>>
  BY <1>1, <1>4 DEF vars, settleVars
<1>. QED  BY <1>2, <1>3, <1>4 DEF EngineNext

LEMMA SettleInvariant == EngineSpec => []SettleInv
BY SettleInit, SettleStep, PTL DEF EngineSpec

\* The settlements an outcome selects are those of the case that backs it.
LEMMA SelectedAreRelated ==
    ASSUME batch \in Batches, NEW i, NEW base \in batch.settlements,
           settled[i].selected.settlements = {s.id : s \in Related(base)}
    PROVE  SelectedSettlements(i) = Related(base)
<1>1. Related(base) \subseteq batch.settlements
  BY DEF Related
<1>2. \A s, t \in batch.settlements : s.id = t.id => s = t
  BY SettlementAssumption
<1>. QED  BY <1>1, <1>2 DEF SelectedSettlements

\* No line runs in the wrong direction, so every line counts but transfers.
LEMMA BalancedCounts ==
    ASSUME NEW s, Balanced(s)
    PROVE  /\ s.amount = Total({l \in LinesOf(s) : l.type # "transfer"})
           /\ Held(s) = -Total({l \in LinesOf(s) : l.type = "hold"})
<1>1. \A l \in LinesOf(s) : Counts(l) <=> l.type # "transfer"
  BY DEF Balanced, Counts
<1>2. {l \in LinesOf(s) : Counts(l)} = {l \in LinesOf(s) : l.type # "transfer"}
  BY <1>1
<1>3. {l \in LinesOf(s) : l.type = "hold" /\ Counts(l)} = {l \in LinesOf(s) : l.type = "hold"}
  BY <1>1
<1>4. s.amount = Total({l \in LinesOf(s) : Counts(l)})
  BY DEF Balanced, Expected
<1>5. Held(s) = -Total({l \in LinesOf(s) : l.type = "hold" /\ Counts(l)})
  BY DEF Held, Debited
<1>. QED  BY <1>2, <1>3, <1>4, <1>5

LEMMA VerifiedCredit ==
    ASSUME NEW s, BankVerified(s)
    PROVE  \E c \in batch.credits :
               /\ {d \in batch.credits : d.utr = s.utr} = {c}
               /\ c.amount = s.amount /\ c.currency = s.currency
<1>1. UtrCredits(s) # {} /\ BankContradictions(s) = {}
  BY DEF BankVerified
<1>2. CreditsFor(s) = UtrCredits(s) /\ CreditsFor(s) # {}
  BY <1>1 DEF CreditsFor
<1>3. CreditsFor(s) = {CreditFor(s)}
  BY <1>1, <1>2 DEF BankContradictions
<1>4. CreditFor(s).currency = s.currency /\ CreditFor(s).amount = s.amount
  BY <1>1, <1>2 DEF BankContradictions
<1>5. {d \in batch.credits : d.utr = s.utr} = {CreditFor(s)} /\ CreditFor(s) \in batch.credits
  BY <1>2, <1>3 DEF UtrCredits
<1>. QED  BY <1>4, <1>5

LEMMA ReferencesAreResources ==
    ASSUME NEW p, NEW S
    PROVE  /\ <<"payment reference", p.providerId>> \in ResourcesOf(p, S)
           /\ \A r \in RefundsOf(p) : <<"refund reference", r.providerId>> \in ResourcesOf(p, S)
<1>1. <<"payment reference", p.providerId>> \in ResourcesOf(p, S)
  BY DEF ResourcesOf
<1>2. ASSUME NEW r \in RefundsOf(p)
      PROVE  <<"refund reference", r.providerId>> \in ResourcesOf(p, S)
  <2>1. {<<"refund", r.id>>, <<"refund reference", r.providerId>>} \in
            {{<<"refund", q.id>>, <<"refund reference", q.providerId>>} : q \in RefundsOf(p)}
    OBVIOUS
  <2>2. <<"refund reference", r.providerId>> \in
            UNION {{<<"refund", q.id>>, <<"refund reference", q.providerId>>} : q \in RefundsOf(p)}
    BY <2>1
  <2>. QED  BY <2>2, Zenon DEF ResourcesOf
<1>. QED  BY <1>1, <1>2

\* The case behind an outcome that was closed.
LEMMA ClosedCase ==
    ASSUME SettleInv, NEW i \in Closed
    PROVE  \E base \in batch.settlements :
               /\ Rests(settled[i].payment, base)
               /\ settled[i].status = "matched"
               /\ settled[i].resources = ResourcesOf(settled[i].payment, Related(base))
               /\ SelectedSettlements(i) = Related(base)
<1>1. Backed(settled[i])
  BY DEF SettleInv, ClosedAreBacked
<1>2. PICK base \in batch.settlements :
          /\ Rests(settled[i].payment, base)
          /\ settled[i].status = "matched"
          /\ settled[i].resources = ResourcesOf(settled[i].payment, Related(base))
          /\ settled[i].selected.settlements = {s.id : s \in Related(base)}
  BY <1>1 DEF Backed
<1>. QED  BY <1>2, SelectedAreRelated DEF SettleInv

-----------------------------------------------------------------------------
\* The engine's stage A is stage A alone.
THEOREM EngineMatches == EngineSpec => Spec
<1>1. EngineInit => Init
  BY DEF EngineInit
<1>2. [EngineNext]_<<vars, settleVars>> => [Next]_vars
  BY DEF EngineNext, StageANext, SettlePayment, vars
<1>. QED  BY <1>1, <1>2, PTL DEF EngineSpec, Spec

\* So no record closes two ledger entries in a run of both stages.
THEOREM EngineRecordsUsedOnce == EngineSpec => []NoRecordTwice
BY EngineMatches, RecordsUsedOnce, PTL

\* Stage B works on the rows of its batch.
THEOREM SettleTypeCorrect == EngineSpec => []SettleTypeOK
<1>1. SettleInv => SettleTypeOK
  BY DEF SettleInv
<1>. QED  BY <1>1, SettleInvariant, PTL

\* No money is closed twice, in any batch.
THEOREM MoneySettledOnce == EngineSpec => []SettledOnce
<1>1. SettleInv => SettledOnce
  <2>. SUFFICES ASSUME SettleInv, NEW i \in Closed, NEW j \in Closed, i # j
                PROVE  /\ settled[i].payment.providerId # settled[j].payment.providerId
                       /\ {r.providerId : r \in RefundsOf(settled[i].payment)}
                              \cap {r.providerId : r \in RefundsOf(settled[j].payment)} = {}
    BY DEF SettledOnce
  <2>1. settled[i].resources \cap settled[j].resources = {}
    BY DEF SettleInv, ResourcesAreDisjoint
  <2>2. ASSUME NEW k \in {i, j}, NEW p, p = settled[k].payment
        PROVE  /\ <<"payment reference", p.providerId>> \in settled[k].resources
               /\ \A r \in RefundsOf(p) :
                      <<"refund reference", r.providerId>> \in settled[k].resources
    <3>1. PICK base \in batch.settlements : settled[k].resources = ResourcesOf(p, Related(base))
      BY <2>2, ClosedCase
    <3>. QED  BY <3>1, ReferencesAreResources
  <2>3. settled[i].payment.providerId # settled[j].payment.providerId
    BY <2>1, <2>2
  <2>4. ASSUME NEW r \in RefundsOf(settled[i].payment), NEW q \in RefundsOf(settled[j].payment)
        PROVE  r.providerId # q.providerId
    BY <2>1, <2>2
  <2>. QED  BY <2>3, <2>4
<1>. QED  BY <1>1, SettleInvariant, PTL

\* Every payment closed alone is backed by balanced, credited settlements.
THEOREM SettledFunded == EngineSpec => []SettledIsFunded
<1>1. SettleInv => SettledIsFunded
  <2>. SUFFICES ASSUME SettleInv, NEW i \in Closed
                PROVE  /\ settled[i].status = "matched"
                       /\ SelectedSettlements(i) # {}
                       /\ \A s \in SelectedSettlements(i) :
                           /\ s.amount = Total({l \in LinesOf(s) : l.type # "transfer"})
                           /\ \E c \in batch.credits :
                               /\ {d \in batch.credits : d.utr = s.utr} = {c}
                               /\ c.amount = s.amount /\ c.currency = s.currency
                           /\ \A l \in LinesOf(s) :
                               l.type = "payment"
                               /\ l.reference = settled[i].payment.providerId
                                   => l.amount = settled[i].payment.amount
    BY DEF SettledIsFunded
  <2>. DEFINE p == settled[i].payment
  <2>1. PICK base \in batch.settlements :
            Rests(p, base) /\ settled[i].status = "matched"
            /\ SelectedSettlements(i) = Related(base)
    BY ClosedCase
  <2>2. base \in Related(base)
    BY DEF Related
  <2>3. p.providerId # NoReference
    BY <2>1 DEF Rests, BaseSettlements, Names
  <2>4. ASSUME NEW s \in Related(base), NEW l \in LinesOf(s), l.type = "payment",
               l.reference = p.providerId
        PROVE  l.amount = p.amount
    <3>1. l \in LinesNaming(p, Related(base), "payment")
      BY <2>3, <2>4 DEF LinesNaming, LinesIn, Names
    <3>. QED  BY <2>1, <3>1 DEF Rests, PaymentAgrees
  <2>5. \A s \in Related(base) : Balanced(s) /\ BankVerified(s)
    BY <2>1 DEF Rests
  <2>. QED  BY <2>1, <2>2, <2>4, <2>5, BalancedCounts, VerifiedCredit
<1>. QED  BY <1>1, SettleInvariant, PTL

\* Held value is released in full before a payment is closed alone.
THEOREM HoldsReleased == EngineSpec => []HoldsAreReleased
<1>1. SettleInv => HoldsAreReleased
  <2>. SUFFICES ASSUME SettleInv, NEW i \in Closed, NEW s \in SelectedSettlements(i),
                       -Total({l \in LinesOf(s) : l.type = "hold"}) > 0
                PROVE  Total({l \in LinesIn(SelectedSettlements(i) \ {s}) :
                               l.type = "release" /\ l.reference = s.providerId
                               /\ l.day > s.day})
                           = -Total({l \in LinesOf(s) : l.type = "hold"})
    BY DEF HoldsAreReleased
  <2>1. PICK base \in batch.settlements :
            Rests(settled[i].payment, base) /\ SelectedSettlements(i) = Related(base)
    BY ClosedCase
  <2>2. Held(s) = -Total({l \in LinesOf(s) : l.type = "hold"})
    BY <2>1, BalancedCounts DEF Rests
  <2>3. Released(s, Related(base))
    BY <2>1, <2>2 DEF Rests, Holding
  <2>. QED  BY <2>1, <2>2, <2>3 DEF Released, ReleaseLines
<1>. QED  BY <1>1, SettleInvariant, PTL

=============================================================================
