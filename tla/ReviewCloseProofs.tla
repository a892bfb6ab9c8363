------------------------- MODULE ReviewCloseProofs -------------------------
(***************************************************************************)
(* Theorems about ReviewClose, for any number of exceptions, reviews,      *)
(* assessments and evaluations.                                            *)
(***************************************************************************)
EXTENDS ReviewClose, FiniteSetTheorems, TLAPS

(***************************************************************************)
(* Type correctness.  A review that holds its lock, or has committed, is   *)
(* about an exception that exists.                                         *)
(***************************************************************************)
KnownRows ==
    \A r \in Reviews :
        review[r].pc \in {"locked", "answered"} => review[r].exc \in Exceptions

TypeInv == TypeOK /\ KnownRows

LEMMA OpenIsFinite == IsFiniteSet(Open) /\ Cardinality(Open) \in Nat
BY ExceptionsAssumption, FS_Subset, FS_CardinalityType DEF Open

LEMMA ExistingIsFinite == Cardinality({b \in Assessments : Exists(b)}) \in Nat
<1>1. IsFiniteSet({b \in Assessments : Exists(b)})
  BY RequestsAssumption, FS_Subset
<1>. QED  BY <1>1, FS_CardinalityType

LEMMA InitTypeInv == Init => TypeInv
<1>. SUFFICES ASSUME Init PROVE TypeInv
  OBVIOUS
<1>1. clock \in Nat \ {0}
  <2>1. clock = 1
    BY DEF Init
  <2>. QED  BY <2>1
<1>2. status \in [Exceptions -> {"open"} \cup Decided]
  <2>1. status = [e \in Exceptions |-> "open"]
    BY DEF Init
  <2>. QED  BY <2>1
<1>3. reviewedAt \in [Exceptions -> Nat]
  <2>1. reviewedAt = [e \in Exceptions |-> 0]
    BY DEF Init, NoTime
  <2>. QED  BY <2>1
<1>4. reviewedBy \in [Exceptions -> Reviews \cup {NoReview}]
  <2>1. reviewedBy = [e \in Exceptions |-> NoReview]
    BY DEF Init
  <2>. QED  BY <2>1
<1>5. /\ systemLinks \subseteq WithResult
      /\ humanLinks \subseteq Exceptions \X Reviews
      /\ noMatch \subseteq WithResult
  BY DEF Init
<1>6. metrics \in Nat \cup {NoMetrics}
  BY DEF Init
<1>7. brief \in [Assessments -> BriefRecord]
  <2>. DEFINE noBrief == [state |-> "absent", open |-> {}, posture |-> "review required",
                          created |-> 0, generatedAt |-> NoTime, staleAt |-> NoTime]
  <2>1. noBrief \in BriefRecord
    BY DEF BriefRecord, Postures, NoTime
  <2>2. brief = [a \in Assessments |-> noBrief]
    BY DEF Init
  <2>. HIDE DEF noBrief
  <2>. QED  BY <2>1, <2>2
<1>8. audit \in Seq(AuditEvent)
  <2>1. audit = <<>>
    BY DEF Init
  <2>. QED  BY <2>1
<1>9. review \in [Reviews -> ReviewRecord]
  <2>. DEFINE notSent == [pc |-> "idle", exc |-> UnknownId, action |-> "reject",
                          candidate |-> FALSE, at |-> NoTime]
  <2>1. notSent \in ReviewRecord
    BY DEF ReviewRecord, ReviewStates, Actions, NoTime
  <2>2. review = [r \in Reviews |-> notSent]
    BY DEF Init
  <2>. HIDE DEF notSent
  <2>. QED  BY <2>1, <2>2
<1>10. assess \in [Assessments -> AssessRecord]
  <2>. DEFINE notBegun == [pc |-> "idle", open |-> {}, unresolved |-> {},
                           capturedAt |-> NoTime, generatedAt |-> NoTime]
  <2>1. notBegun \in AssessRecord
    BY DEF AssessRecord, AssessStates, NoTime
  <2>2. assess = [a \in Assessments |-> notBegun]
    BY DEF Init
  <2>. HIDE DEF notBegun
  <2>. QED  BY <2>1, <2>2
<1>11. eval \in [Evaluations -> [pc: EvalStates, seen: Nat]]
  <2>1. eval = [v \in Evaluations |-> [pc |-> "idle", seen |-> 0]]
    BY DEF Init
  <2>. QED  BY <2>1 DEF EvalStates
<1>12. KnownRows
  BY DEF Init, KnownRows
<1>. QED
  BY <1>1, <1>2, <1>3, <1>4, <1>5, <1>6, <1>7, <1>8, <1>9, <1>10, <1>11, <1>12
  DEF TypeOK, TypeInv

\* An action that only answers a review keeps every row.
LEMMA ReviewAnswerTypeInv ==
  ASSUME TypeInv, NEW r \in Reviews, NEW answer \in ReviewStates,
         answer \notin {"locked", "answered"}, ReviewAnswer(r, answer)
  PROVE  TypeInv'
<1>1. TypeOK'
  BY DEF TypeInv, TypeOK, ReviewAnswer, ReviewRecord, reviewVars
<1>2. KnownRows'
  BY DEF TypeInv, TypeOK, KnownRows, ReviewAnswer, ReviewRecord
<1>. QED  BY <1>1, <1>2 DEF TypeInv

LEMMA MarkedStaleType ==
  ASSUME TypeOK, NEW at \in Nat
  PROVE  MarkedStale(at) \in [Assessments -> BriefRecord]
BY DEF TypeOK, MarkedStale, BriefRecord

LEMMA ReviewCommitTypeInv ==
  ASSUME TypeInv, NEW r \in Reviews, ReviewCommit(r)
  PROVE  TypeInv'
<1>. DEFINE e == review[r].exc
<1>1. /\ e \in Exceptions
      /\ review[r].action \in Actions
      /\ review[r].at \in Nat
  BY DEF TypeInv, TypeOK, KnownRows, ReviewCommit, ReviewRecord
<1>2. status' \in [Exceptions -> {"open"} \cup Decided]
  BY <1>1 DEF TypeInv, TypeOK, ReviewCommit, Decision, Decided
<1>3. /\ reviewedAt' \in [Exceptions -> Nat]
      /\ reviewedBy' \in [Exceptions -> Reviews \cup {NoReview}]
      /\ systemLinks' \subseteq WithResult
      /\ humanLinks' \subseteq Exceptions \X Reviews
      /\ noMatch' \subseteq WithResult
  BY <1>1 DEF TypeInv, TypeOK, ReviewCommit, KeptSystemLinks
<1>4. metrics' \in Nat \cup {NoMetrics}
  BY DEF TypeInv, TypeOK, ReviewCommit, AdjustedMetrics, NoMetrics
<1>5. brief' \in [Assessments -> BriefRecord]
  BY <1>1, MarkedStaleType DEF TypeInv, ReviewCommit
<1>6. audit' \in Seq(AuditEvent)
  <2>1. ReviewEvent(r) \in AuditEvent
    BY <1>1 DEF ReviewEvent, AuditEvent
  <2>. QED  BY <2>1 DEF TypeInv, TypeOK, ReviewCommit
<1>7. review' \in [Reviews -> ReviewRecord]
  BY DEF TypeInv, TypeOK, ReviewCommit, ReviewRecord, ReviewStates
<1>8. UNCHANGED <<clock, assess, eval>>
  BY DEF ReviewCommit
<1>9. KnownRows'
  BY <1>1 DEF TypeInv, TypeOK, KnownRows, ReviewCommit, ReviewRecord
<1>10. TypeOK'
  BY <1>2, <1>3, <1>4, <1>5, <1>6, <1>7, <1>8 DEF TypeInv, TypeOK
<1>. QED  BY <1>9, <1>10 DEF TypeInv

LEMMA ReviewStepTypeInv ==
  ASSUME TypeInv, NEW r \in Reviews, ReviewStep(r)
  PROVE  TypeInv'
<1>. USE DEF ReviewStates
<1>1. ASSUME NEW e \in Exceptions \cup {UnknownId}, NEW action \in Actions,
             NEW candidate \in BOOLEAN, ReviewReceive(r, e, action, candidate)
      PROVE  TypeInv'
  <2>1. TypeOK'
    BY <1>1 DEF TypeInv, TypeOK, ReviewReceive, ReviewRecord, reviewVars
  <2>2. KnownRows'
    BY <1>1 DEF TypeInv, TypeOK, KnownRows, ReviewReceive, ReviewRecord
  <2>. QED  BY <2>1, <2>2 DEF TypeInv
<1>2. CASE ReviewMissing(r)
  BY <1>2, ReviewAnswerTypeInv DEF ReviewMissing
<1>3. CASE ReviewTooLate(r)
  BY <1>3, ReviewAnswerTypeInv DEF ReviewTooLate
<1>4. CASE ReviewInvalid(r)
  BY <1>4, ReviewAnswerTypeInv DEF ReviewInvalid
<1>5. CASE ReviewLock(r)
  <2>1. TypeOK'
    BY <1>5 DEF TypeInv, TypeOK, ReviewLock, ReviewRecord, reviewVars
  <2>2. KnownRows'
    BY <1>5 DEF TypeInv, TypeOK, KnownRows, ReviewLock, ReviewSelected, ReviewRecord
  <2>. QED  BY <2>1, <2>2 DEF TypeInv
<1>6. CASE ReviewCommit(r)
  BY <1>6, ReviewCommitTypeInv
<1>7. CASE ReviewDeadlock(r)
  BY <1>7, ReviewAnswerTypeInv DEF ReviewDeadlock
<1>8. CASE ReviewCrash(r)
  BY <1>8, ReviewAnswerTypeInv DEF ReviewCrash
<1>. QED  BY <1>1, <1>2, <1>3, <1>4, <1>5, <1>6, <1>7, <1>8 DEF ReviewStep

\* Giving an assessment another state and generation time keeps its type.
LEMMA AssessRecordType ==
  ASSUME TypeOK, NEW a \in Assessments, NEW pc \in AssessStates, NEW at \in Nat
  PROVE  /\ [assess EXCEPT ![a].pc = pc] \in [Assessments -> AssessRecord]
         /\ [assess EXCEPT ![a].pc = pc, ![a].generatedAt = at]
              \in [Assessments -> AssessRecord]
<1>. DEFINE s == assess[a]
<1>1. assess \in [Assessments -> AssessRecord]
  BY DEF TypeOK
<1>2. /\ [s EXCEPT !.pc = pc] \in AssessRecord
      /\ [s EXCEPT !.pc = pc, !.generatedAt = at] \in AssessRecord
  <2>1. s \in AssessRecord
    BY <1>1
  <2>. HIDE DEF s
  <2>. QED  BY <2>1 DEF AssessRecord
<1>3. /\ [assess EXCEPT ![a].pc = pc] = [assess EXCEPT ![a] = [s EXCEPT !.pc = pc]]
      /\ [assess EXCEPT ![a].pc = pc, ![a].generatedAt = at]
           = [assess EXCEPT ![a] = [s EXCEPT !.pc = pc, !.generatedAt = at]]
  BY <1>1
<1>. QED  BY <1>1, <1>2, <1>3

LEMMA AssessStepTypeInv ==
  ASSUME TypeInv, NEW a \in Assessments, AssessStep(a)
  PROVE  TypeInv'
<1>. /\ Open \subseteq Exceptions
     /\ Unresolved \subseteq Exceptions
  BY ExceptionsAssumption DEF Open, Unresolved
<1>. USE DEF TypeInv, AssessStates, Postures
<1>1. CASE AssessStart(a)
  <2>1. brief' \in [Assessments -> BriefRecord]
    <3>. DEFINE placeholder ==
           [state |-> "generating", open |-> Open, posture |-> "review required",
            created |-> Cardinality({b \in Assessments : Exists(b)}) + 1,
            generatedAt |-> NoTime, staleAt |-> NoTime]
    <3>1. placeholder \in BriefRecord
      BY ExistingIsFinite DEF BriefRecord, NoTime
    <3>2. brief' = [brief EXCEPT ![a] = placeholder]
      BY <1>1 DEF AssessStart
    <3>. HIDE DEF placeholder
    <3>. QED  BY <3>1, <3>2 DEF TypeOK
  <2>2. assess' \in [Assessments -> AssessRecord]
    BY <1>1 DEF TypeOK, AssessStart, AssessRecord, NoTime
  <2>3. UNCHANGED <<clock, reviewVars, metrics, audit, review, eval>>
    BY <1>1 DEF AssessStart
  <2>. QED  BY <2>1, <2>2, <2>3 DEF TypeOK, KnownRows, reviewVars
<1>2. CASE AssessConflict(a)
  <2>1. assess' \in [Assessments -> AssessRecord]
    BY <1>2, AssessRecordType DEF AssessConflict, TypeOK
  <2>2. UNCHANGED <<clock, reviewVars, metrics, brief, audit, review, eval>>
    BY <1>2 DEF AssessConflict
  <2>. QED  BY <2>1, <2>2 DEF TypeOK, KnownRows, reviewVars
<1>3. CASE AssessGenerate(a)
  <2>1. assess' \in [Assessments -> AssessRecord]
    BY <1>3, AssessRecordType DEF AssessGenerate, TypeOK
  <2>2. UNCHANGED <<clock, reviewVars, metrics, brief, audit, review, eval>>
    BY <1>3 DEF AssessGenerate
  <2>. QED  BY <2>1, <2>2 DEF TypeOK, KnownRows, reviewVars
<1>4. CASE AssessComplete(a)
  <2>1. PICK last \in {NoTime} \cup {reviewedAt[e] : e \in Exceptions} :
          brief' = [brief EXCEPT ![a] =
                     [@ EXCEPT !.state = "completed", !.open = assess[a].open,
                               !.posture = Posture(a),
                               !.generatedAt = assess[a].generatedAt,
                               !.staleAt = StaleAtCompletion(a, last)]]
    BY <1>4 DEF AssessComplete
  <2>2. last \in Nat
    BY DEF TypeOK, NoTime
  <2>3. Posture(a) \in Postures
    BY DEF Posture
  <2>4. StaleAtCompletion(a, last) \in Nat
    BY <2>2 DEF TypeOK, StaleAtCompletion, BriefRecord
  <2>5. brief' \in [Assessments -> BriefRecord]
    <3>. DEFINE finished == [brief[a] EXCEPT !.state = "completed", !.open = assess[a].open,
                               !.posture = Posture(a),
                               !.generatedAt = assess[a].generatedAt,
                               !.staleAt = StaleAtCompletion(a, last)]
    <3>1. finished \in BriefRecord
      <4>1. /\ brief[a] \in BriefRecord
            /\ assess[a].open \in SUBSET Exceptions
            /\ assess[a].generatedAt \in Nat
        BY DEF TypeOK, AssessRecord
      <4>. QED  BY <2>3, <2>4, <4>1 DEF BriefRecord
    <3>2. brief' = [brief EXCEPT ![a] = finished]
      BY <2>1 DEF TypeOK
    <3>. HIDE DEF finished
    <3>. QED  BY <3>1, <3>2 DEF TypeOK
  <2>6. audit' \in Seq(AuditEvent)
    <3>1. [type |-> "batch.close_brief.generated", brief |-> a] \in AuditEvent
      BY DEF AuditEvent
    <3>. QED  BY <1>4, <3>1 DEF TypeOK, AssessComplete
  <2>7. assess' \in [Assessments -> AssessRecord]
    BY <1>4, AssessRecordType DEF AssessComplete, TypeOK
  <2>8. UNCHANGED <<clock, reviewVars, metrics, review, eval>>
    BY <1>4 DEF AssessComplete
  <2>. QED  BY <2>5, <2>6, <2>7, <2>8 DEF TypeOK, KnownRows, reviewVars
<1>5. CASE AssessCrash(a)
  <2>1. assess' \in [Assessments -> AssessRecord]
    BY <1>5, AssessRecordType DEF AssessCrash, TypeOK
  <2>2. UNCHANGED <<clock, reviewVars, metrics, brief, audit, review, eval>>
    BY <1>5 DEF AssessCrash
  <2>. QED  BY <2>1, <2>2 DEF TypeOK, KnownRows, reviewVars
<1>6. CASE AssessAdmit(a)
  <2>1. assess' \in [Assessments -> AssessRecord]
    BY <1>6, AssessRecordType DEF AssessAdmit, TypeOK
  <2>2. UNCHANGED <<clock, reviewVars, metrics, brief, audit, review, eval>>
    BY <1>6 DEF AssessAdmit
  <2>. QED  BY <2>1, <2>2 DEF TypeOK, KnownRows, reviewVars
<1>. QED  BY <1>1, <1>2, <1>3, <1>4, <1>5, <1>6 DEF AssessStep

LEMMA EvalStepTypeInv ==
  ASSUME TypeInv, NEW v \in Evaluations, EvalStep(v)
  PROVE  TypeInv'
<1>. USE DEF TypeInv, TypeOK, KnownRows, EvalStates, reviewVars
<1>1. CASE EvalStart(v)
  BY <1>1 DEF EvalStart
<1>2. CASE EvalRead(v)
  BY <1>2, OpenIsFinite DEF EvalRead
<1>3. CASE EvalWrite(v)
  BY <1>3 DEF EvalWrite
<1>. QED  BY <1>1, <1>2, <1>3 DEF EvalStep

LEMMA NextTypeInv == TypeInv /\ [Next]_vars => TypeInv'
<1>. SUFFICES ASSUME TypeInv, [Next]_vars PROVE TypeInv'
  OBVIOUS
<1>1. CASE Tick
  BY <1>1 DEF TypeInv, TypeOK, KnownRows, Tick, reviewVars
<1>2. CASE UNCHANGED vars
  BY <1>2 DEF TypeInv, TypeOK, KnownRows, vars, reviewVars
<1>. QED
  BY <1>1, <1>2, ReviewStepTypeInv, AssessStepTypeInv, EvalStepTypeInv DEF Next

\* Every reachable state of the review and close workflow is well-typed.
THEOREM TypeCorrect == Spec => []TypeOK
<1>1. Spec => []TypeInv
  BY InitTypeInv, NextTypeInv, PTL DEF Spec
<1>2. TypeInv => TypeOK
  BY DEF TypeInv
<1>. QED  BY <1>1, <1>2, PTL

(***************************************************************************)
(* Decisions.  AnsweredReviewStands is not inductive alone: a commit must  *)
(* not find its exception decided meanwhile, which is what the row lock    *)
(* buys between the status check and the commit.                           *)
(***************************************************************************)
Locked(r) == review[r].pc = "locked"

LockExclusive ==
    \A r, s \in Reviews : Locked(r) /\ Locked(s) /\ review[r].exc = review[s].exc => r = s

LockedStillOpen == \A r \in Reviews : Locked(r) => StillOpen(r)

OpenUndecided == \A e \in Exceptions : status[e] = "open" <=> reviewedBy[e] = NoReview

DecidersAnswered ==
    \A e \in Exceptions : reviewedBy[e] # NoReview => review[reviewedBy[e]].pc = "answered"

DecisionInv ==
    /\ LockExclusive
    /\ LockedStillOpen
    /\ OpenUndecided
    /\ DecidersAnswered
    /\ AnsweredReviewStands
    /\ LinksFollowDecision

\* A step moves one review, or leaves reviews and what they write alone.
LEMMA ReviewFrame ==
  ASSUME [Next]_vars
  PROVE  \/ \E r \in Reviews : ReviewStep(r)
         \/ UNCHANGED <<reviewVars, review>>
BY DEF Next, vars, Tick, AssessStep, AssessAdmit, AssessStart, AssessConflict,
       AssessGenerate, AssessComplete, AssessCrash, EvalStep, EvalStart, EvalRead, EvalWrite

\* A step of r that neither takes nor holds its lock when it ends.
Passes(r) ==
    /\ UNCHANGED reviewVars
    /\ \A s \in Reviews \ {r} : review'[s] = review[s]
    /\ review[r].pc # "answered"
    /\ review'[r].pc \notin {"locked", "answered"}

LEMMA AnswerPasses ==
  ASSUME TypeOK, NEW r \in Reviews, NEW answer, answer \notin {"locked", "answered"},
         review[r].pc # "answered", ReviewAnswer(r, answer)
  PROVE  Passes(r)
BY DEF TypeOK, ReviewRecord, ReviewAnswer, Passes

LEMMA ReviewStepKinds ==
  ASSUME TypeOK, NEW r \in Reviews, ReviewStep(r)
  PROVE  ReviewLock(r) \/ ReviewCommit(r) \/ Passes(r)
<1>1. ASSUME NEW e \in Exceptions \cup {UnknownId}, NEW action \in Actions,
             NEW candidate \in BOOLEAN, ReviewReceive(r, e, action, candidate)
      PROVE  Passes(r)
  BY <1>1 DEF TypeOK, ReviewRecord, ReviewReceive, Passes
<1>2. CASE ReviewMissing(r)
  BY <1>2, AnswerPasses DEF ReviewMissing
<1>3. CASE ReviewTooLate(r)
  BY <1>3, AnswerPasses DEF ReviewTooLate, ReviewSelected
<1>4. CASE ReviewInvalid(r)
  BY <1>4, AnswerPasses DEF ReviewInvalid, ReviewSelected
<1>5. CASE ReviewDeadlock(r)
  BY <1>5, AnswerPasses DEF ReviewDeadlock, SharesRun
<1>6. CASE ReviewCrash(r)
  BY <1>6, AnswerPasses DEF ReviewCrash
<1>. QED  BY <1>1, <1>2, <1>3, <1>4, <1>5, <1>6 DEF ReviewStep

LEMMA InitDecisionInv == Init => DecisionInv
<1>. SUFFICES ASSUME Init PROVE DecisionInv
  OBVIOUS
<1>1. \A r \in Reviews : review[r].pc = "idle"
  BY DEF Init
<1>2. /\ \A e \in Exceptions : status[e] = "open" /\ reviewedBy[e] = NoReview
      /\ systemLinks = WithResult
      /\ humanLinks = {}
      /\ noMatch = {}
  BY DEF Init
<1>3. LockExclusive /\ LockedStillOpen /\ AnsweredReviewStands
  BY <1>1 DEF LockExclusive, LockedStillOpen, AnsweredReviewStands, Locked
<1>4. OpenUndecided /\ DecidersAnswered
  BY <1>2 DEF OpenUndecided, DecidersAnswered
<1>5. LinksFollowDecision
  BY <1>2 DEF LinksFollowDecision
<1>. QED  BY <1>3, <1>4, <1>5 DEF DecisionInv

LEMMA PassesDecisionInv ==
  ASSUME TypeInv, DecisionInv, NEW r \in Reviews, Passes(r)
  PROVE  DecisionInv'
<1>1. LockExclusive'
  BY DEF DecisionInv, LockExclusive, Locked, Passes
<1>2. LockedStillOpen'
  BY DEF DecisionInv, LockedStillOpen, Locked, StillOpen, Passes, reviewVars
<1>3. OpenUndecided' /\ LinksFollowDecision'
  BY DEF DecisionInv, OpenUndecided, LinksFollowDecision, Passes, reviewVars
<1>4. DecidersAnswered'
  BY RequestsAssumption DEF DecisionInv, TypeInv, TypeOK, DecidersAnswered, Passes, reviewVars
<1>5. AnsweredReviewStands'
  BY DEF DecisionInv, AnsweredReviewStands, Passes, reviewVars
<1>. QED  BY <1>1, <1>2, <1>3, <1>4, <1>5 DEF DecisionInv

LEMMA LockDecisionInv ==
  ASSUME TypeInv, DecisionInv, NEW r \in Reviews, ReviewLock(r)
  PROVE  DecisionInv'
<1>1. /\ \A s \in Reviews \ {r} : review'[s] = review[s]
      /\ review'[r].pc = "locked"
      /\ review'[r].exc = review[r].exc
      /\ review[r].pc = "received"
      /\ UNCHANGED reviewVars
  BY DEF TypeInv, TypeOK, ReviewRecord, ReviewLock, ReviewSelected
<1>2. /\ ExceptionFree(review[r].exc)
      /\ StillOpen(r)
  BY DEF ReviewLock, ReviewSelected
<1>3. LockExclusive'
  BY <1>1, <1>2 DEF DecisionInv, LockExclusive, Locked, ExceptionFree
<1>4. LockedStillOpen'
  BY <1>1, <1>2 DEF DecisionInv, LockedStillOpen, Locked, StillOpen, reviewVars
<1>5. OpenUndecided' /\ LinksFollowDecision'
  BY <1>1 DEF DecisionInv, OpenUndecided, LinksFollowDecision, reviewVars
<1>6. DecidersAnswered'
  BY <1>1 DEF DecisionInv, TypeInv, TypeOK, DecidersAnswered, reviewVars
<1>7. AnsweredReviewStands'
  BY <1>1 DEF DecisionInv, AnsweredReviewStands, reviewVars
<1>. QED  BY <1>3, <1>4, <1>5, <1>6, <1>7 DEF DecisionInv

\* What a commit of r does to the decisions, without the bookkeeping.
LEMMA CommitEffect ==
  ASSUME TypeInv, NEW r \in Reviews, ReviewCommit(r)
  PROVE  LET e == review[r].exc IN
         /\ e \in Exceptions
         /\ \A s \in Reviews \ {r} : review'[s] = review[s]
         /\ review'[r] = [review[r] EXCEPT !.pc = "answered"]
         /\ review[r].pc = "locked"
         /\ status' = [status EXCEPT ![e] = Decision(review[r].action)]
         /\ reviewedBy' = [reviewedBy EXCEPT ![e] = r]
         /\ reviewedAt' = [reviewedAt EXCEPT ![e] = review[r].at]
         /\ review[r].action \in Actions
         /\ review[r] \in ReviewRecord
BY DEF TypeInv, TypeOK, KnownRows, ReviewRecord, ReviewCommit

LEMMA CommitDecisionInv ==
  ASSUME TypeInv, DecisionInv, NEW r \in Reviews, ReviewCommit(r)
  PROVE  DecisionInv'
<1>. DEFINE e == review[r].exc
<1>1. /\ e \in Exceptions
      /\ \A s \in Reviews \ {r} : review'[s] = review[s]
      /\ review[r].pc = "locked"
      /\ review[r].action \in Actions
  BY CommitEffect
<1>2. /\ review'[r].pc = "answered"
      /\ review'[r].exc = e
      /\ review'[r].action = review[r].action
      /\ review'[r].at = review[r].at
  BY CommitEffect DEF ReviewRecord
<1>3. /\ \A f \in Exceptions \ {e} : /\ status'[f] = status[f]
                                     /\ reviewedBy'[f] = reviewedBy[f]
                                     /\ reviewedAt'[f] = reviewedAt[f]
      /\ status'[e] = Decision(review[r].action)
      /\ reviewedBy'[e] = r
      /\ reviewedAt'[e] = review[r].at
  <2>1. /\ status' = [status EXCEPT ![e] = Decision(review[r].action)]
        /\ reviewedBy' = [reviewedBy EXCEPT ![e] = r]
        /\ reviewedAt' = [reviewedAt EXCEPT ![e] = review[r].at]
    BY CommitEffect
  <2>. QED  BY <1>1, <2>1 DEF TypeInv, TypeOK
<1>4. Decision(review[r].action) # "open"
  BY DEF Decision
<1>5. status[e] = "open" /\ reviewedBy[e] = NoReview
  BY <1>1 DEF DecisionInv, LockedStillOpen, Locked, StillOpen, OpenUndecided
<1>. HIDE DEF e
<1>6. LockExclusive'
  BY <1>1, <1>2 DEF DecisionInv, LockExclusive, Locked
<1>7. LockedStillOpen'
  <2>. SUFFICES ASSUME NEW s \in Reviews, Locked(s)' PROVE StillOpen(s)'
    BY DEF LockedStillOpen
  <2>1. s # r /\ review'[s] = review[s] /\ Locked(s)
    BY <1>1, <1>2 DEF Locked
  <2>2. review[s].exc # e
    BY <1>1, <2>1 DEF DecisionInv, LockExclusive, Locked, e
  <2>3. review[s].exc \in Exceptions
    BY <2>1 DEF TypeInv, KnownRows, Locked
  <2>. QED  BY <1>3, <2>1, <2>2, <2>3 DEF DecisionInv, LockedStillOpen, StillOpen
<1>8. OpenUndecided'
  BY <1>3, <1>4, RequestsAssumption DEF DecisionInv, OpenUndecided
<1>9. DecidersAnswered'
  <2>. SUFFICES ASSUME NEW f \in Exceptions, reviewedBy'[f] # NoReview
               PROVE  review'[reviewedBy'[f]].pc = "answered"
    BY DEF DecidersAnswered
  <2>1. CASE f = e
    BY <1>2, <1>3, <2>1
  <2>2. CASE f # e
    <3>1. reviewedBy'[f] = reviewedBy[f] /\ reviewedBy[f] \in Reviews
      BY <1>3, <2>2 DEF TypeInv, TypeOK
    <3>. QED  BY <1>1, <1>2, <3>1 DEF DecisionInv, DecidersAnswered
  <2>. QED  BY <2>1, <2>2
<1>10. AnsweredReviewStands'
  <2>. SUFFICES ASSUME NEW s \in Reviews, review'[s].pc = "answered"
               PROVE  LET f == review'[s].exc IN
                      /\ reviewedBy'[f] = s
                      /\ status'[f] = Decision(review'[s].action)
                      /\ reviewedAt'[f] = review'[s].at
    BY DEF AnsweredReviewStands
  <2>1. CASE s = r
    BY <1>2, <1>3, <2>1
  <2>2. CASE s # r
    <3>1. /\ review'[s] = review[s]
          /\ review[s].pc = "answered"
          /\ review[s].exc \in Exceptions
      BY <1>1, <2>2 DEF TypeInv, KnownRows
    <3>2. /\ reviewedBy[review[s].exc] = s
          /\ status[review[s].exc] = Decision(review[s].action)
          /\ reviewedAt[review[s].exc] = review[s].at
      BY <3>1 DEF DecisionInv, AnsweredReviewStands
    <3>3. review[s].exc # e
      BY <1>5, <3>2, RequestsAssumption
    <3>. QED  BY <1>3, <3>1, <3>2, <3>3
  <2>. QED  BY <2>1, <2>2
<1>11. LinksFollowDecision'
  <2>1. /\ systemLinks' = KeptSystemLinks(e, review[r].action)
        /\ humanLinks' = IF review[r].action = "approve"
                          THEN humanLinks \cup {<<e, r>>} ELSE humanLinks
        /\ noMatch' = IF review[r].action = "reject" THEN noMatch \cup ({e} \cap WithResult)
                       ELSE noMatch
    BY DEF ReviewCommit, e
  <2>. SUFFICES ASSUME NEW f \in Exceptions
               PROVE  /\ {s \in Reviews : <<f, s>> \in humanLinks'}
                           = IF status'[f] = "approved" THEN {reviewedBy'[f]} ELSE {}
                      /\ f \in noMatch' <=> f \in WithResult /\ status'[f] = "rejected"
                      /\ f \in systemLinks' <=> f \in WithResult /\ status'[f] # "rejected"
    BY DEF LinksFollowDecision
  <2>2. /\ {s \in Reviews : <<f, s>> \in humanLinks}
             = IF status[f] = "approved" THEN {reviewedBy[f]} ELSE {}
        /\ f \in noMatch <=> f \in WithResult /\ status[f] = "rejected"
        /\ f \in systemLinks <=> f \in WithResult /\ status[f] # "rejected"
    BY DEF DecisionInv, LinksFollowDecision
  <2>3. CASE f = e
    BY <1>1, <1>3, <1>5, <2>1, <2>2, <2>3 DEF Actions, Decision, KeptSystemLinks
  <2>4. CASE f # e
    BY <1>1, <1>3, <2>1, <2>2, <2>4 DEF Actions, KeptSystemLinks
  <2>. QED  BY <2>3, <2>4
<1>. QED  BY <1>6, <1>7, <1>8, <1>9, <1>10, <1>11 DEF DecisionInv

LEMMA NextDecisionInv == TypeInv /\ DecisionInv /\ [Next]_vars => DecisionInv'
<1>. SUFFICES ASSUME TypeInv, DecisionInv, [Next]_vars PROVE DecisionInv'
  OBVIOUS
<1>1. CASE UNCHANGED <<reviewVars, review>>
  BY <1>1 DEF DecisionInv, LockExclusive, LockedStillOpen, Locked, StillOpen,
              OpenUndecided, DecidersAnswered, AnsweredReviewStands,
              LinksFollowDecision, reviewVars
<1>2. ASSUME NEW r \in Reviews, ReviewStep(r) PROVE DecisionInv'
  <2>1. ReviewLock(r) \/ ReviewCommit(r) \/ Passes(r)
    BY <1>2, ReviewStepKinds DEF TypeInv
  <2>. QED  BY <2>1, LockDecisionInv, CommitDecisionInv, PassesDecisionInv
<1>. QED  BY <1>1, <1>2, ReviewFrame

LEMMA DecisionInvHolds == Spec => [](TypeInv /\ DecisionInv)
<1>1. Init => TypeInv /\ DecisionInv
  BY InitTypeInv, InitDecisionInv
<1>2. TypeInv /\ DecisionInv /\ [Next]_vars => (TypeInv /\ DecisionInv)'
  BY NextTypeInv, NextDecisionInv
<1>. QED  BY <1>1, <1>2, PTL DEF Spec

\* However reviews interleave, deadlock or die, an answered review is the
\* recorded decision of its exception.
THEOREM ReviewsStand == Spec => []AnsweredReviewStands
<1>1. DecisionInv => AnsweredReviewStands
  BY DEF DecisionInv
<1>. QED  BY <1>1, DecisionInvHolds, PTL

\* The match links and results of every exception agree with its decision.
THEOREM LinksAgree == Spec => []LinksFollowDecision
<1>1. DecisionInv => LinksFollowDecision
  BY DEF DecisionInv
<1>. QED  BY <1>1, DecisionInvHolds, PTL

\* Reviews implement Casework: one terminal decision per exception, each by a
\* review of its own; every step maps to one decision or to a stutter.
THEOREM ImplementsCasework == Spec => CaseworkSpec
<1>1. Init => CW!Init
  BY DEF Init, CW!Init, decisionOf
<1>2. TypeInv /\ DecisionInv /\ [Next]_vars => [CW!Next]_decisionOf
  <2>. SUFFICES ASSUME TypeInv, DecisionInv, [Next]_vars
               PROVE  CW!Next \/ UNCHANGED decisionOf
    OBVIOUS
  <2>1. CASE UNCHANGED reviewVars
    BY <2>1 DEF reviewVars, decisionOf
  <2>2. ASSUME NEW r \in Reviews, ReviewCommit(r) PROVE CW!Next
    <3>. DEFINE e == review[r].exc
                verdict == Decision(review[r].action)
    <3>1. /\ e \in Exceptions
          /\ status' = [status EXCEPT ![e] = verdict]
          /\ reviewedBy' = [reviewedBy EXCEPT ![e] = r]
          /\ review[r].pc = "locked"
      BY <2>2, CommitEffect
    <3>2. verdict \in {"approved", "rejected"}
      BY DEF Decision
    <3>3. status[e] = "open"
      BY <3>1 DEF DecisionInv, LockedStillOpen, Locked, StillOpen
    <3>4. \A f \in Exceptions : reviewedBy[f] # r
      BY <3>1, RequestsAssumption DEF DecisionInv, DecidersAnswered
    <3>. HIDE DEF e, verdict
    <3>5. decisionOf' = [decisionOf EXCEPT ![e] = [verdict |-> verdict, by |-> r]]
      BY <3>1 DEF decisionOf, TypeInv, TypeOK
    <3>6. CW!Decide(e, r, verdict)
      BY <3>1, <3>3, <3>4, <3>5 DEF CW!Decide, decisionOf
    <3>. QED  BY <3>1, <3>2, <3>6 DEF CW!Next
  <2>3. ASSUME NEW r \in Reviews, ReviewStep(r) PROVE ReviewCommit(r) \/ UNCHANGED reviewVars
    BY <2>3, ReviewStepKinds DEF TypeInv, ReviewLock, Passes
  <2>. QED  BY <2>1, <2>2, <2>3, ReviewFrame
<1>. QED  BY <1>1, <1>2, DecisionInvHolds, PTL DEF Spec, CaseworkSpec, CW!Spec

=============================================================================
