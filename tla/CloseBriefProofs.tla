-------------------------- MODULE CloseBriefProofs --------------------------
(***************************************************************************)
(* Theorems about the Batch Close Brief, in ReviewClose and in BriefDraft, *)
(* the audit trail and the run metrics.  They rest on DecisionInv: a       *)
(* commit decides an exception that was still open, so open exceptions and *)
(* unresolved money only ever shrink.                                      *)
(***************************************************************************)
EXTENDS BriefDraft, ReviewCloseProofs, SumTheorems, SequenceTheorems

(***************************************************************************)
(* Open work shrinks.                                                      *)
(***************************************************************************)
LEMMA CommitShrinksWork ==
  ASSUME TypeInv, DecisionInv, NEW r \in Reviews, ReviewCommit(r)
  PROVE  /\ review[r].exc \in Open
         /\ Open' = Open \ {review[r].exc}
         /\ Unresolved' \subseteq Unresolved
<1>. DEFINE e == review[r].exc
            verdict == Decision(review[r].action)
<1>1. /\ e \in Exceptions
      /\ status' = [status EXCEPT ![e] = verdict]
      /\ review[r].pc = "locked"
  BY CommitEffect
<1>2. verdict # "open"
  BY DEF Decision
<1>3. status[e] = "open"
  BY <1>1 DEF DecisionInv, LockedStillOpen, Locked, StillOpen
<1>. HIDE DEF e, verdict
<1>4. e \in Open /\ Open' = Open \ {e} /\ Unresolved' \subseteq Unresolved
  BY <1>1, <1>2, <1>3, ExceptionsAssumption DEF Open, Unresolved, TypeInv, TypeOK
<1>. QED  BY <1>4 DEF e

LEMMA UnchangedWork ==
  ASSUME UNCHANGED reviewVars
  PROVE  UNCHANGED <<Open, Unresolved>>
BY DEF Open, Unresolved, reviewVars

\* Every step but a commit leaves reviewVars alone.
LEMMA WorkShrinks ==
  ASSUME TypeInv, DecisionInv, [Next]_vars
  PROVE  /\ Open' \subseteq Open
         /\ Unresolved' \subseteq Unresolved
<1>1. CASE UNCHANGED reviewVars
  BY <1>1, UnchangedWork
<1>2. CASE \E r \in Reviews : ReviewCommit(r)
  BY <1>2, CommitShrinksWork
<1>3. ASSUME NEW r \in Reviews, ReviewStep(r) PROVE ReviewCommit(r) \/ UNCHANGED reviewVars
  BY <1>3, ReviewStepKinds DEF TypeInv, ReviewLock, Passes
<1>. QED  BY <1>1, <1>2, <1>3, ReviewFrame DEF reviewVars

(***************************************************************************)
(* Briefs.  An assessment in flight holds a snapshot that covers the open  *)
(* work.  One that was admitted has no row yet, and nobody else is past    *)
(* the look: the run is locked until its row is there to be seen.          *)
(***************************************************************************)
InFlight(a) == assess[a].pc \in {"generating", "generated"}

\* The row of an assessment is where its request is.
RowFollowsRequest ==
    \A a \in Assessments :
        /\ assess[a].pc \in {"idle", "conflict", "admitted"} => ~Exists(a)
        /\ InFlight(a) => Generating(a) /\ assess[a].capturedAt > 0
        /\ Completed(a) => assess[a].pc = "answered"

SnapshotCovers ==
    \A a \in Assessments : InFlight(a) =>
        /\ Open \subseteq assess[a].open
        /\ Unresolved \subseteq assess[a].unresolved

\* reviewed_at is a time, never null, from the moment a review arrives.
ReviewsTimed ==
    \A r \in Reviews : review[r].pc \in {"received", "locked"} => review[r].at > 0

BriefInv ==
    /\ RowFollowsRequest
    /\ SnapshotCovers
    /\ ReviewsTimed
    /\ OneGeneration
    /\ BriefsCoverOpenWork
    /\ StaleAfterLaterReview

\* Steps that touch no brief and no assessment.
LEMMA BriefFrame ==
  ASSUME [Next]_vars
  PROVE  \/ UNCHANGED <<brief, assess>>
         \/ \E r \in Reviews : ReviewCommit(r)
         \/ \E a \in Assessments : AssessStep(a) /\ UNCHANGED <<reviewVars, review, clock>>
BY DEF Next, vars, Tick, AssessStep, AssessAdmit, AssessStart, AssessConflict,
       AssessGenerate, AssessComplete, AssessCrash, EvalStep, EvalStart, EvalRead, EvalWrite,
       ReviewStep, ReviewReceive, ReviewMissing, ReviewTooLate, ReviewInvalid, ReviewLock,
       ReviewDeadlock, ReviewCrash, ReviewAnswer

LEMMA InitBriefInv == Init => BriefInv
<1>. SUFFICES ASSUME Init PROVE BriefInv
  OBVIOUS
<1>1. /\ \A a \in Assessments : /\ brief[a].state = "absent"
                                /\ brief[a].posture = "review required"
                                /\ assess[a].pc = "idle"
      /\ \A r \in Reviews : review[r].pc = "idle"
  BY DEF Init
<1>. QED
  BY <1>1 DEF BriefInv, RowFollowsRequest, SnapshotCovers, ReviewsTimed, OneGeneration,
     Assessing, BriefsCoverOpenWork, StaleAfterLaterReview, InFlight, Exists, Generating,
     Completed, IsLatest

\* Reviews take their time from the clock.
LEMMA NextReviewsTimed ==
  ASSUME TypeInv, ReviewsTimed, [Next]_vars
  PROVE  ReviewsTimed'
<1>1. CASE UNCHANGED review
  BY <1>1 DEF ReviewsTimed
<1>2. ASSUME NEW r \in Reviews, ReviewStep(r) PROVE ReviewsTimed'
  <2>1. ASSUME NEW e \in Exceptions \cup {UnknownId}, NEW action \in Actions,
               NEW candidate \in BOOLEAN, ReviewReceive(r, e, action, candidate)
        PROVE  ReviewsTimed'
    BY <2>1 DEF TypeInv, TypeOK, ReviewsTimed, ReviewReceive
  <2>2. CASE ReviewLock(r)
    BY <2>2 DEF TypeInv, TypeOK, ReviewRecord, ReviewsTimed, ReviewLock, ReviewSelected
  <2>3. CASE \E answer \in {"missing", "conflict", "invalid", "aborted"} : ReviewAnswer(r, answer)
    BY <2>3 DEF TypeInv, TypeOK, ReviewRecord, ReviewsTimed, ReviewAnswer
  <2>4. CASE ReviewCommit(r)
    BY <2>4, CommitEffect DEF ReviewsTimed, ReviewRecord
  <2>. QED
    BY <1>2, <2>1, <2>2, <2>3, <2>4 DEF ReviewStep, ReviewMissing, ReviewTooLate,
       ReviewInvalid, ReviewDeadlock, ReviewCrash
<1>. QED  BY <1>1, <1>2, ReviewFrame

\* The invariant without ReviewsTimed, which NextReviewsTimed keeps.
BriefRows ==
    /\ RowFollowsRequest
    /\ SnapshotCovers
    /\ OneGeneration
    /\ BriefsCoverOpenWork
    /\ StaleAfterLaterReview

LEMMA CommitBriefRows ==
  ASSUME TypeInv, DecisionInv, BriefInv, NEW r \in Reviews, ReviewCommit(r)
  PROVE  BriefRows'
<1>. DEFINE at == review[r].at
<1>1. /\ brief' = MarkedStale(at)
      /\ UNCHANGED assess
  BY DEF ReviewCommit
<1>2. at > 0 /\ at \in Nat
  BY DEF BriefInv, ReviewsTimed, ReviewCommit, TypeInv, TypeOK, ReviewRecord
<1>. HIDE DEF at
<1>3. \A a \in Assessments : /\ brief'[a].state = brief[a].state
                             /\ brief'[a].open = brief[a].open
                             /\ brief'[a].posture = brief[a].posture
                             /\ brief'[a].created = brief[a].created
                             /\ brief'[a].generatedAt = brief[a].generatedAt
  BY <1>1 DEF MarkedStale, TypeInv, TypeOK, BriefRecord
<1>4. \A a \in Assessments : IsLatest(a) => brief'[a].staleAt # NoTime
  BY <1>1, <1>2 DEF MarkedStale, TypeInv, TypeOK, BriefRecord, NoTime
<1>5. \A a \in Assessments : IsLatest(a)' => IsLatest(a)
  BY <1>3 DEF IsLatest, Completed, Newer
<1>6. Open' \subseteq Open /\ Unresolved' \subseteq Unresolved
  BY CommitShrinksWork
<1>7. RowFollowsRequest' /\ SnapshotCovers' /\ OneGeneration'
  BY <1>1, <1>3, <1>6 DEF BriefInv, RowFollowsRequest, SnapshotCovers, OneGeneration,
     Assessing, InFlight, Exists, Generating, Completed
<1>8. BriefsCoverOpenWork'
  BY <1>3, <1>6 DEF BriefInv, BriefsCoverOpenWork, Exists
<1>9. StaleAfterLaterReview'
  BY <1>4, <1>5 DEF StaleAfterLaterReview
<1>. QED  BY <1>7, <1>8, <1>9 DEF BriefRows

LEMMA StartBriefRows ==
  ASSUME TypeInv, BriefInv, NEW a \in Assessments, AssessStart(a)
  PROVE  BriefRows'
<1>1. /\ \A b \in Assessments \ {a} : brief'[b] = brief[b] /\ assess'[b] = assess[b]
      /\ brief'[a].state = "generating"
      /\ brief'[a].open = Open
      /\ brief'[a].posture = "review required"
      /\ assess'[a].pc = "generating"
      /\ assess'[a].open = Open
      /\ assess'[a].unresolved = Unresolved
      /\ assess'[a].capturedAt = clock
      /\ UNCHANGED <<reviewVars, clock>>
  BY DEF AssessStart, TypeInv, TypeOK
<1>2. assess[a].pc = "admitted" /\ ~Exists(a)
  BY DEF AssessStart, BriefInv, RowFollowsRequest
<1>3. UNCHANGED <<Open, Unresolved>> /\ UNCHANGED reviewedAt
  BY <1>1, UnchangedWork DEF reviewVars
<1>4. clock > 0
  BY DEF TypeInv, TypeOK
<1>5. RowFollowsRequest'
  BY <1>1, <1>4 DEF BriefInv, RowFollowsRequest, InFlight, Exists, Generating, Completed
<1>6. SnapshotCovers'
  BY <1>1, <1>3 DEF BriefInv, SnapshotCovers, InFlight
<1>7. OneGeneration'
  BY <1>1, <1>2 DEF BriefInv, OneGeneration, Assessing, Generating
<1>8. BriefsCoverOpenWork'
  BY <1>1, <1>3 DEF BriefInv, BriefsCoverOpenWork, Exists
<1>9. \A b \in Assessments : IsLatest(b)' => b # a /\ IsLatest(b)
  BY <1>1, <1>2 DEF IsLatest, Completed, Newer, Exists
<1>10. StaleAfterLaterReview'
  BY <1>1, <1>3, <1>9 DEF BriefInv, StaleAfterLaterReview
<1>. QED  BY <1>5, <1>6, <1>7, <1>8, <1>10 DEF BriefRows

LEMMA CompleteBriefRows ==
  ASSUME TypeInv, BriefInv, NEW a \in Assessments, AssessComplete(a)
  PROVE  BriefRows'
<1>1. PICK last \in {NoTime} \cup {reviewedAt[e] : e \in Exceptions} :
        /\ IsLatestReviewTime(last)
        /\ brief' = [brief EXCEPT ![a] =
                       [@ EXCEPT !.state = "completed", !.open = assess[a].open,
                                 !.posture = Posture(a),
                                 !.generatedAt = assess[a].generatedAt,
                                 !.staleAt = StaleAtCompletion(a, last)]]
  BY DEF AssessComplete
<1>2. /\ \A b \in Assessments \ {a} : brief'[b] = brief[b]
      /\ brief'[a].state = "completed"
      /\ brief'[a].open = assess[a].open
      /\ brief'[a].posture = Posture(a)
      /\ brief'[a].staleAt = StaleAtCompletion(a, last)
  BY <1>1 DEF TypeInv, TypeOK, BriefRecord
<1>3. /\ \A b \in Assessments \ {a} : assess'[b] = assess[b]
      /\ assess'[a].pc = "answered"
      /\ assess'[a].capturedAt = assess[a].capturedAt
      /\ UNCHANGED reviewVars
      /\ assess[a].pc = "generated"
  BY DEF AssessComplete, TypeInv, TypeOK, AssessRecord
<1>4. UNCHANGED <<Open, Unresolved>> /\ UNCHANGED reviewedAt
  BY <1>3, UnchangedWork DEF reviewVars
<1>5. /\ Open \subseteq assess[a].open
      /\ Unresolved \subseteq assess[a].unresolved
      /\ assess[a].capturedAt > 0
      /\ Generating(a)
  BY <1>3 DEF BriefInv, SnapshotCovers, RowFollowsRequest, InFlight
<1>6. RowFollowsRequest'
  BY <1>2, <1>3 DEF BriefInv, RowFollowsRequest, InFlight, Exists, Generating, Completed
<1>7. SnapshotCovers'
  BY <1>3, <1>4 DEF BriefInv, SnapshotCovers, InFlight
<1>8. OneGeneration'
  BY <1>2, <1>3, <1>5 DEF BriefInv, OneGeneration, Assessing, Generating
<1>9. BriefsCoverOpenWork'
  <2>1. Posture(a) = "ready" => Open = {} /\ Unresolved = {}
    BY <1>5 DEF Posture
  <2>. QED  BY <1>2, <1>4, <1>5, <2>1 DEF BriefInv, BriefsCoverOpenWork, Exists
<1>10. StaleAfterLaterReview'
  <2>. SUFFICES ASSUME NEW b \in Assessments, IsLatest(b)', brief'[b].staleAt = NoTime,
                       NEW e \in Exceptions
               PROVE  reviewedAt[e] < assess'[b].capturedAt
    BY <1>4 DEF StaleAfterLaterReview
  <2>1. CASE b = a
    <3>1. /\ reviewedAt[e] \in Nat
          /\ last \in Nat
          /\ reviewedAt[e] <= last
          /\ assess[a].capturedAt \in Nat
      BY <1>1 DEF IsLatestReviewTime, TypeInv, TypeOK, AssessRecord, NoTime
    <3>2. last < assess[a].capturedAt
      BY <1>2, <1>5, <2>1, <3>1 DEF StaleAtCompletion, NoTime
    <3>. QED  BY <1>3, <2>1, <3>1, <3>2
  <2>2. CASE b # a
    <3>1. Completed(b) /\ \A c \in Assessments \ {b} : Completed(c) => Newer(b, c)
      BY <1>2, <1>5, <2>2 DEF IsLatest, Completed, Generating, Newer
    <3>. QED  BY <1>2, <1>3, <2>2, <3>1 DEF BriefInv, StaleAfterLaterReview, IsLatest
  <2>. QED  BY <2>1, <2>2
<1>. QED  BY <1>6, <1>7, <1>8, <1>9, <1>10 DEF BriefRows

\* An assessment that only moves on leaves every brief as it is.
LEMMA MoveBriefRows ==
  ASSUME TypeInv, BriefInv, NEW a \in Assessments, UNCHANGED <<brief, reviewVars>>,
         \A b \in Assessments \ {a} : assess'[b] = assess[b],
         assess'[a].open = assess[a].open,
         assess'[a].unresolved = assess[a].unresolved,
         assess'[a].capturedAt = assess[a].capturedAt,
         \/ assess[a].pc = "idle" /\ assess'[a].pc = "conflict"
         \/ assess[a].pc = "idle" /\ assess'[a].pc = "admitted" /\ RunOpen /\ NoneGenerating
         \/ HoldsRun(a) /\ assess'[a].pc = "crashed"
         \/ InFlight(a) /\ assess'[a].pc \in {"generated", "crashed"}
  PROVE  BriefRows'
<1>1. UNCHANGED <<Open, Unresolved>> /\ UNCHANGED reviewedAt
  BY UnchangedWork DEF reviewVars
<1>2. RowFollowsRequest'
  BY DEF BriefInv, RowFollowsRequest, InFlight, Exists, Generating, Completed, HoldsRun
<1>3. SnapshotCovers'
  BY <1>1 DEF BriefInv, SnapshotCovers, InFlight, HoldsRun
<1>4. OneGeneration'
  BY DEF BriefInv, OneGeneration, Assessing, Generating, InFlight, HoldsRun, RunOpen,
     NoneGenerating
<1>5. BriefsCoverOpenWork'
  BY <1>1 DEF BriefInv, BriefsCoverOpenWork, Exists
<1>6. StaleAfterLaterReview'
  BY <1>1 DEF BriefInv, StaleAfterLaterReview, IsLatest, Completed, Newer
<1>. QED  BY <1>2, <1>3, <1>4, <1>5, <1>6 DEF BriefRows

LEMMA AssessBriefRows ==
  ASSUME TypeInv, BriefInv, NEW a \in Assessments, AssessStep(a)
  PROVE  BriefRows'
<1>1. CASE AssessConflict(a)
  BY <1>1, MoveBriefRows DEF AssessConflict, TypeInv, TypeOK, AssessRecord, reviewVars
<1>2. CASE AssessGenerate(a)
  BY <1>2, MoveBriefRows DEF AssessGenerate, InFlight, TypeInv, TypeOK, AssessRecord, reviewVars
<1>3. CASE AssessCrash(a)
  BY <1>3, MoveBriefRows DEF AssessCrash, InFlight, HoldsRun, TypeInv, TypeOK, AssessRecord,
     reviewVars
<1>4. CASE AssessAdmit(a)
  BY <1>4, MoveBriefRows DEF AssessAdmit, RunFree, TypeInv, TypeOK, AssessRecord, reviewVars
<1>. QED  BY <1>1, <1>2, <1>3, <1>4, StartBriefRows, CompleteBriefRows DEF AssessStep

LEMMA NextBriefInv == TypeInv /\ DecisionInv /\ BriefInv /\ [Next]_vars => BriefInv'
<1>. SUFFICES ASSUME TypeInv, DecisionInv, BriefInv, [Next]_vars PROVE BriefInv'
  OBVIOUS
<1>1. ReviewsTimed'
  BY NextReviewsTimed DEF BriefInv
<1>2. BriefRows'
  <2>1. CASE \E r \in Reviews : ReviewCommit(r)
    BY <2>1, CommitBriefRows
  <2>2. CASE \E a \in Assessments : AssessStep(a)
    BY <2>2, AssessBriefRows
  <2>3. CASE UNCHANGED <<brief, assess, reviewVars>>
    BY <2>3, UnchangedWork DEF BriefInv, BriefRows, RowFollowsRequest, SnapshotCovers,
       OneGeneration, Assessing, BriefsCoverOpenWork, StaleAfterLaterReview, InFlight, Exists,
       Generating, Completed, IsLatest, Newer, reviewVars
  <2>4. ASSUME NEW r \in Reviews, ReviewStep(r) PROVE ReviewCommit(r) \/ UNCHANGED reviewVars
    BY <2>4, ReviewStepKinds DEF TypeInv, ReviewLock, Passes
  <2>. QED  BY <2>1, <2>2, <2>3, <2>4, BriefFrame, ReviewFrame
<1>. QED  BY <1>1, <1>2 DEF BriefInv, BriefRows

LEMMA BriefInvHolds == Spec => [](TypeInv /\ DecisionInv /\ BriefInv)
<1>1. Init => BriefInv
  BY InitBriefInv
<1>. QED  BY <1>1, NextBriefInv, DecisionInvHolds, PTL DEF Spec

\* A latest brief that is not stale was captured after every recorded review
\* time: what the stale marking and the completion check buy together.
THEOREM StaleMarked == Spec => []StaleAfterLaterReview
<1>1. BriefInv => StaleAfterLaterReview
  BY DEF BriefInv
<1>. QED  BY <1>1, BriefInvHolds, PTL

\* No brief omits an exception that is still open, and a ready posture never
\* becomes wrong.
THEOREM BriefsCover == Spec => []BriefsCoverOpenWork
<1>1. BriefInv => BriefsCoverOpenWork
  BY DEF BriefInv
<1>. QED  BY <1>1, BriefInvHolds, PTL

\* Racing assessments never pass the look for a generating brief together, nor
\* does one pass it while a brief is generated: for any number of requests, and
\* whichever of them die between their steps.
THEOREM OneBriefGenerated == Spec => []OneGeneration
<1>1. BriefInv => OneGeneration
  BY DEF BriefInv
<1>. QED  BY <1>1, BriefInvHolds, PTL

(***************************************************************************)
(* The audit trail, as the set of its events.  A commit appends an event   *)
(* of an exception that had none, because it was still open; a completion  *)
(* one of a brief that was still generating.                               *)
(***************************************************************************)
Recorded == {audit[i] : i \in DOMAIN audit}

BriefEvent(a) == [type |-> "batch.close_brief.generated", brief |-> a]

EventsAbout(e) == {v \in Recorded : v.type # "batch.close_brief.generated" /\ v.exc = e}

\* What the decision of an exception leaves in the trail.
Verdicts(e) ==
    IF status[e] = "open" THEN {}
    ELSE {[type |-> IF status[e] = "approved" THEN "review.approved" ELSE "review.rejected",
           exc |-> e, actor |-> reviewedBy[e]]}

NoRepeats == \A i, j \in DOMAIN audit : audit[i] = audit[j] => i = j

AuditInv ==
    /\ \A e \in Exceptions : EventsAbout(e) = Verdicts(e)
    /\ \A a \in Assessments : Completed(a) <=> BriefEvent(a) \in Recorded
    /\ NoRepeats

LEMMA AuditInvIsComplete == AuditInv <=> AuditTrailComplete
<1>1. \A e \in Exceptions :
        EventsAbout(e) = {audit[i] : i \in {j \in DOMAIN audit :
                               audit[j].type # "batch.close_brief.generated"
                               /\ audit[j].exc = e}}
  BY DEF EventsAbout, Recorded
<1>. QED
  BY <1>1 DEF AuditInv, AuditTrailComplete, Verdicts, BriefEvent, Recorded, NoRepeats

\* One more event.
LEMMA AppendRecorded ==
  ASSUME TypeOK, NEW v \in AuditEvent, audit' = Append(audit, v)
  PROVE  /\ Recorded' = Recorded \cup {v}
         /\ NoRepeats /\ v \notin Recorded => NoRepeats'
<1>1. /\ DOMAIN audit = 1 .. Len(audit)
      /\ DOMAIN audit' = 1 .. (Len(audit) + 1)
      /\ Len(audit) \in Nat
      /\ \A i \in 1 .. Len(audit) : audit'[i] = audit[i]
      /\ audit'[Len(audit) + 1] = v
  BY DEF TypeOK
<1>2. DOMAIN audit' = DOMAIN audit \cup {Len(audit) + 1}
  BY <1>1
<1>3. Recorded' = Recorded \cup {v}
  BY <1>1, <1>2 DEF Recorded
<1>4. ASSUME NoRepeats, v \notin Recorded PROVE NoRepeats'
  BY <1>1, <1>2, <1>4 DEF NoRepeats, Recorded
<1>. QED  BY <1>3, <1>4

LEMMA CommitAuditInv ==
  ASSUME TypeInv, DecisionInv, AuditInv, NEW r \in Reviews, ReviewCommit(r)
  PROVE  AuditInv'
<1>1. PICK e \in Exceptions : e = review[r].exc
  BY CommitEffect
<1>2. /\ status[e] = "open"
      /\ \A f \in Exceptions \ {e} : status'[f] = status[f] /\ reviewedBy'[f] = reviewedBy[f]
      /\ status'[e] = Decision(review[r].action)
      /\ reviewedBy'[e] = r
      /\ review[r].action \in Actions
  <2>1. status[e] = "open"
    BY <1>1, CommitShrinksWork DEF Open
  <2>2. /\ status' = [status EXCEPT ![e] = Decision(review[r].action)]
        /\ reviewedBy' = [reviewedBy EXCEPT ![e] = r]
        /\ review[r].action \in Actions
    BY <1>1, CommitEffect
  <2>. QED  BY <2>1, <2>2 DEF TypeInv, TypeOK
<1>. DEFINE kind == IF review[r].action = "approve" THEN "review.approved" ELSE "review.rejected"
            v == [type |-> kind, exc |-> e, actor |-> r]
<1>3. /\ kind \in {"review.approved", "review.rejected"}
      /\ kind = IF status'[e] = "approved" THEN "review.approved" ELSE "review.rejected"
      /\ status'[e] # "open"
  BY <1>2 DEF Decision, Actions
<1>4. audit' = Append(audit, v)
  BY <1>1 DEF ReviewCommit, ReviewEvent
<1>5. Verdicts(e)' = {v} /\ v \in AuditEvent
  <2>. HIDE DEF kind
  <2>. QED  BY <1>2, <1>3 DEF Verdicts, AuditEvent
<1>6. v.type # "batch.close_brief.generated" /\ v.exc = e
  BY <1>3
<1>. HIDE DEF v, kind
<1>7. v \notin Recorded /\ EventsAbout(e) = {}
  BY <1>2, <1>6 DEF AuditInv, EventsAbout, Verdicts
<1>8. Recorded' = Recorded \cup {v} /\ NoRepeats'
  BY <1>4, <1>5, <1>7, AppendRecorded DEF TypeInv, AuditInv
<1>9. ASSUME NEW f \in Exceptions PROVE EventsAbout(f)' = Verdicts(f)'
  <2>1. CASE f = e
    BY <1>5, <1>6, <1>7, <1>8, <2>1 DEF EventsAbout
  <2>2. CASE f # e
    <3>1. Verdicts(f)' = Verdicts(f)
      BY <1>2, <2>2 DEF Verdicts
    <3>2. EventsAbout(f)' = EventsAbout(f)
      BY <1>6, <1>8, <2>2 DEF EventsAbout
    <3>. QED  BY <3>1, <3>2 DEF AuditInv
  <2>. QED  BY <2>1, <2>2
<1>10. ASSUME NEW a \in Assessments PROVE Completed(a)' <=> BriefEvent(a)' \in Recorded'
  <2>1. brief'[a].state = brief[a].state
    BY DEF ReviewCommit, MarkedStale, TypeInv, TypeOK, BriefRecord
  <2>2. BriefEvent(a)' = BriefEvent(a) /\ BriefEvent(a) # v
    BY <1>6 DEF BriefEvent
  <2>. QED  BY <1>8, <2>1, <2>2 DEF AuditInv, Completed
<1>. QED  BY <1>8, <1>9, <1>10 DEF AuditInv

LEMMA CompleteAuditInv ==
  ASSUME TypeInv, BriefInv, AuditInv, NEW a \in Assessments, AssessComplete(a)
  PROVE  AuditInv'
<1>. DEFINE v == BriefEvent(a)
<1>1. /\ audit' = Append(audit, v)
      /\ UNCHANGED <<status, reviewedBy>>
      /\ assess[a].pc = "generated"
  BY DEF AssessComplete, BriefEvent, reviewVars
<1>2. /\ v \in AuditEvent
      /\ v.type = "batch.close_brief.generated"
      /\ \A b \in Assessments : BriefEvent(b) = v => b = a
  <2>1. \A b \in Assessments : BriefEvent(b).brief = b
    BY DEF BriefEvent
  <2>. QED  BY <2>1 DEF AuditEvent, BriefEvent
<1>. HIDE DEF v
<1>3. ~Completed(a) /\ v \notin Recorded
  BY <1>1 DEF BriefInv, RowFollowsRequest, InFlight, Generating, Completed, AuditInv, v
<1>4. Recorded' = Recorded \cup {v} /\ NoRepeats'
  BY <1>1, <1>2, <1>3, AppendRecorded DEF TypeInv, AuditInv
<1>5. brief'[a].state = "completed" /\ \A b \in Assessments \ {a} : brief'[b] = brief[b]
  BY DEF AssessComplete, TypeInv, TypeOK, BriefRecord
<1>6. ASSUME NEW e \in Exceptions PROVE EventsAbout(e)' = Verdicts(e)'
  BY <1>1, <1>2, <1>4 DEF EventsAbout, Verdicts, AuditInv
<1>7. ASSUME NEW b \in Assessments PROVE Completed(b)' <=> BriefEvent(b)' \in Recorded'
  <2>1. BriefEvent(b)' = BriefEvent(b)
    BY DEF BriefEvent
  <2>. QED  BY <1>2, <1>4, <1>5, <2>1 DEF AuditInv, Completed, v
<1>. QED  BY <1>4, <1>6, <1>7 DEF AuditInv

LEMMA QuietAuditInv ==
  ASSUME AuditInv, UNCHANGED <<audit, status, reviewedBy>>,
         \A a \in Assessments : Completed(a)' <=> Completed(a)
  PROVE  AuditInv'
BY DEF AuditInv, EventsAbout, Verdicts, BriefEvent, Recorded, NoRepeats

\* Steps that journal nothing.
LEMMA AuditFrame ==
  ASSUME [Next]_vars
  PROVE  \/ UNCHANGED <<audit, status, reviewedBy, brief>>
         \/ \E r \in Reviews : ReviewCommit(r)
         \/ \E a \in Assessments : AssessComplete(a)
         \/ \E a \in Assessments : AssessStart(a)
BY DEF Next, vars, reviewVars, Tick, AssessStep, AssessAdmit, AssessConflict, AssessGenerate,
       AssessCrash, EvalStep, EvalStart, EvalRead, EvalWrite, ReviewStep, ReviewReceive, ReviewMissing,
       ReviewTooLate, ReviewInvalid, ReviewLock, ReviewDeadlock, ReviewCrash, ReviewAnswer

LEMMA NextAuditInv ==
  TypeInv /\ DecisionInv /\ BriefInv /\ AuditInv /\ [Next]_vars => AuditInv'
<1>. SUFFICES ASSUME TypeInv, DecisionInv, BriefInv, AuditInv, [Next]_vars PROVE AuditInv'
  OBVIOUS
<1>1. CASE UNCHANGED <<audit, status, reviewedBy, brief>>
  BY <1>1, QuietAuditInv DEF Completed
<1>2. ASSUME NEW a \in Assessments, AssessStart(a) PROVE AuditInv'
  <2>1. /\ UNCHANGED <<audit, status, reviewedBy>>
        /\ brief'[a].state = "generating"
        /\ \A b \in Assessments \ {a} : brief'[b] = brief[b]
        /\ ~Exists(a)
    BY <1>2 DEF AssessStart, reviewVars, TypeInv, TypeOK, BriefInv, RowFollowsRequest
  <2>. QED  BY <2>1, QuietAuditInv DEF Completed, Exists
<1>. QED  BY <1>1, <1>2, AuditFrame, CommitAuditInv, CompleteAuditInv

\* The audit trail tells every decision and every completed brief once, with
\* its actor, and nothing that was rolled back.
THEOREM AuditTellsDecisions == Spec => []AuditTrailComplete
<1>1. Init => AuditInv
  <2>. SUFFICES ASSUME Init PROVE AuditInv
    OBVIOUS
  <2>1. DOMAIN audit = {}
    <3>1. audit = <<>>
      BY DEF Init
    <3>. QED  BY <3>1
  <2>2. \A e \in Exceptions : status[e] = "open"
    BY DEF Init
  <2>3. \A a \in Assessments : brief[a].state = "absent"
    BY DEF Init
  <2>. QED
    BY <2>1, <2>2, <2>3 DEF AuditInv, EventsAbout, Verdicts, BriefEvent, Recorded, NoRepeats,
       Completed
<1>2. AuditInv => AuditTrailComplete
  BY AuditInvIsComplete
<1>. QED  BY <1>1, <1>2, NextAuditInv, BriefInvHolds, PTL DEF Spec

(***************************************************************************)
(* Metrics.  An evaluation that has read the exceptions holds a count that *)
(* later commits can only make too high.                                   *)
(***************************************************************************)
SeenNeverUndercounts ==
    \A v \in Evaluations : eval[v].pc = "read" => eval[v].seen >= Cardinality(Open)

MetricsInv == MetricsNeverUndercount /\ SeenNeverUndercounts

LEMMA CommitMetricsInv ==
  ASSUME TypeInv, DecisionInv, MetricsInv, NEW r \in Reviews, ReviewCommit(r)
  PROVE  MetricsInv'
<1>1. /\ Cardinality(Open') = Cardinality(Open) - 1
      /\ Cardinality(Open) \in Nat
  BY CommitShrinksWork, OpenIsFinite, FS_RemoveElement
<1>2. MetricsNeverUndercount'
  <2>1. /\ metrics' = AdjustedMetrics
        /\ metrics \in Nat \cup {NoMetrics}
    BY DEF ReviewCommit, TypeInv, TypeOK
  <2>. QED  BY <1>1, <2>1 DEF MetricsInv, MetricsNeverUndercount, AdjustedMetrics, NoMetrics
<1>3. SeenNeverUndercounts'
  BY <1>1 DEF MetricsInv, SeenNeverUndercounts, ReviewCommit, TypeInv, TypeOK
<1>. QED  BY <1>2, <1>3 DEF MetricsInv

LEMMA EvalMetricsInv ==
  ASSUME TypeInv, MetricsInv, NEW v \in Evaluations, EvalStep(v)
  PROVE  MetricsInv'
<1>1. UNCHANGED Open /\ Cardinality(Open) \in Nat
  BY UnchangedWork, OpenIsFinite DEF EvalStep, EvalStart, EvalRead, EvalWrite
<1>2. CASE EvalStart(v)
  BY <1>1, <1>2 DEF EvalStart, MetricsInv, MetricsNeverUndercount, SeenNeverUndercounts,
     TypeInv, TypeOK
<1>3. CASE EvalRead(v)
  BY <1>1, <1>3 DEF EvalRead, MetricsInv, MetricsNeverUndercount, SeenNeverUndercounts,
     TypeInv, TypeOK
<1>4. CASE EvalWrite(v)
  BY <1>1, <1>4 DEF EvalWrite, MetricsInv, MetricsNeverUndercount, SeenNeverUndercounts,
     TypeInv, TypeOK
<1>. QED  BY <1>2, <1>3, <1>4 DEF EvalStep

LEMMA NextMetricsInv == TypeInv /\ DecisionInv /\ MetricsInv /\ [Next]_vars => MetricsInv'
<1>. SUFFICES ASSUME TypeInv, DecisionInv, MetricsInv, [Next]_vars PROVE MetricsInv'
  OBVIOUS
<1>1. CASE UNCHANGED <<reviewVars, metrics, eval>>
  BY <1>1, UnchangedWork DEF MetricsInv, MetricsNeverUndercount, SeenNeverUndercounts
<1>2. ASSUME NEW r \in Reviews, ReviewStep(r)
      PROVE  ReviewCommit(r) \/ UNCHANGED <<reviewVars, metrics, eval>>
  BY <1>2 DEF ReviewStep, ReviewReceive, ReviewMissing, ReviewTooLate, ReviewInvalid,
     ReviewLock, ReviewDeadlock, ReviewCrash, ReviewAnswer
<1>3. \/ \E r \in Reviews : ReviewStep(r)
      \/ \E v \in Evaluations : EvalStep(v)
      \/ UNCHANGED <<reviewVars, metrics, eval>>
  BY DEF Next, vars, Tick, AssessStep, AssessAdmit, AssessStart, AssessConflict,
     AssessGenerate, AssessComplete, AssessCrash
<1>. QED  BY <1>1, <1>2, <1>3, CommitMetricsInv, EvalMetricsInv

\* The stored open-exception count never hides an open exception, although
\* evaluations and reviews overwrite each other's metrics without a lock.
THEOREM MetricsSafe == Spec => []MetricsNeverUndercount
<1>1. Init => MetricsInv
  <2>. SUFFICES ASSUME Init PROVE MetricsInv
    OBVIOUS
  <2>1. metrics = NoMetrics /\ \A v \in Evaluations : eval[v].pc = "idle"
    BY DEF Init
  <2>. QED  BY <2>1 DEF MetricsInv, MetricsNeverUndercount, SeenNeverUndercounts
<1>2. MetricsInv => MetricsNeverUndercount
  BY DEF MetricsInv
<1>. QED  BY <1>1, <1>2, NextMetricsInv, DecisionInvHolds, PTL DEF Spec

(***************************************************************************)
(* What a brief says.  Whatever a provider answers, the themes of a        *)
(* completed brief partition the exceptions it covers, and each is cited.  *)
(***************************************************************************)

(***************************************************************************)
(* The themes of a draft, before the server adds what it does not leave to *)
(* a provider.                                                             *)
(***************************************************************************)
Covers(open, themes) ==
    /\ \A e \in open : \E i \in DOMAIN themes :
        /\ e \in themes[i].exceptions
        /\ \A j \in DOMAIN themes : e \in themes[j].exceptions => j = i
    /\ \A i \in DOMAIN themes :
        /\ themes[i].exceptions # {} /\ themes[i].exceptions \subseteq open
        /\ \A c \in themes[i].citations :
            c.exception \in themes[i].exceptions /\ c.source \in {None, SourceOf[c.exception]}

\* An exception that two themes name is one that the later of them repeats.
LEMMA ValidNamesOnce ==
  ASSUME NEW themes \in Seq(Theme), NEW open, Valid(themes, open),
         NEW i \in DOMAIN themes, NEW j \in DOMAIN themes, NEW e,
         e \in Named(themes[i]), e \in Named(themes[j])
  PROVE  i = j
<1>1. DOMAIN themes = 1 .. Len(themes) /\ Len(themes) \in Nat
  OBVIOUS
<1>2. ASSUME NEW k \in DOMAIN themes, NEW l \in DOMAIN themes, k < l,
             e \in Named(themes[k]), e \in Named(themes[l])
      PROVE  FALSE
  <2>1. k \in 1 .. (l - 1)
    BY <1>1, <1>2
  <2>2. e \in NamedBefore(themes, l)
    BY <1>2, <2>1 DEF NamedBefore
  <2>3. Named(themes[l]) \cap NamedBefore(themes, l) = {}
    BY <1>2 DEF Valid, MisCovers
  <2>. QED  BY <1>2, <2>2, <2>3
<1>3. i \in Int /\ j \in Int
  BY <1>1
<1>. QED  BY <1>2, <1>3

LEMMA SuggestedCovers ==
  ASSUME NEW themes \in Seq(Theme), NEW open, Valid(themes, open)
  PROVE  Covers(open, Suggested(themes))
<1>. DEFINE draft == Suggested(themes)
<1>1. DOMAIN themes = 1 .. Len(themes) /\ Len(themes) \in Nat
  OBVIOUS
<1>2. DOMAIN draft = DOMAIN themes
  BY DEF Suggested
<1>3. \A i \in DOMAIN themes : /\ draft[i].exceptions = Named(themes[i])
                               /\ draft[i].citations = themes[i].citations
  BY DEF Suggested
<1>. HIDE DEF draft
<1>4. ASSUME NEW e \in open
      PROVE  \E i \in DOMAIN draft :
               /\ e \in draft[i].exceptions
               /\ \A j \in DOMAIN draft : e \in draft[j].exceptions => j = i
  <2>1. e \in NamedBefore(themes, Len(themes) + 1)
    BY DEF Valid
  <2>2. PICK i \in 1 .. (Len(themes) + 1 - 1) : e \in Named(themes[i])
    BY <2>1 DEF NamedBefore
  <2>3. i \in DOMAIN themes
    BY <1>1, <2>2
  <2>4. \A j \in DOMAIN themes : e \in Named(themes[j]) => j = i
    BY <2>2, <2>3, ValidNamesOnce
  <2>. QED  BY <1>2, <1>3, <2>2, <2>3, <2>4
<1>5. ASSUME NEW i \in DOMAIN draft
      PROVE  /\ draft[i].exceptions # {} /\ draft[i].exceptions \subseteq open
             /\ \A c \in draft[i].citations :
                  c.exception \in draft[i].exceptions /\ c.source \in {None, SourceOf[c.exception]}
  <2>1. i \in DOMAIN themes /\ themes[i] \in Theme
    BY <1>1, <1>2, <1>5
  <2>2. themes[i].exceptions # <<>> /\ themes[i].exceptions \in Seq(Exceptions \cup {UnknownId})
    BY <2>1 DEF Valid, WellShaped, Theme
  <2>3. 1 \in DOMAIN themes[i].exceptions
    BY <2>2
  <2>4. Named(themes[i]) # {}
    BY <2>3 DEF Named
  <2>5. Named(themes[i]) \subseteq open
    BY <2>1 DEF Valid, MisCovers
  <2>6. \A c \in themes[i].citations :
          c.exception \in Named(themes[i]) /\ c.source \in {None, SourceOf[c.exception]}
    BY <2>1 DEF Valid, MisCites
  <2>. QED  BY <1>3, <2>1, <2>4, <2>5, <2>6
<1>6. Covers(open, draft)
  BY <1>4, <1>5 DEF Covers
<1>. QED  BY <1>6 DEF draft

LEMMA GroupedCovers ==
  ASSUME NEW open \in SUBSET Exceptions
  PROVE  Covers(open, Grouped(open))
<1>. DEFINE draft == Grouped(open)
            kinds == {KindOf[e] : e \in open}
            group(k) == {e \in open : KindOf[e] = k}
<1>1. DOMAIN draft = kinds
  BY DEF Grouped
<1>2. \A k \in kinds : /\ draft[k].exceptions = group(k)
                       /\ draft[k].citations = {Own(e) : e \in group(k)}
  BY DEF Grouped
<1>. HIDE DEF draft
<1>3. ASSUME NEW e \in open
      PROVE  \E k \in kinds : /\ e \in group(k)
                              /\ \A j \in kinds : e \in group(j) => j = k
  <2>1. KindOf[e] \in kinds /\ e \in group(KindOf[e])
    OBVIOUS
  <2>. QED  BY <2>1
<1>4. ASSUME NEW k \in kinds
      PROVE  group(k) # {} /\ group(k) \subseteq open
  OBVIOUS
<1>5. ASSUME NEW k \in kinds, NEW c \in {Own(e) : e \in group(k)}
      PROVE  c.exception \in group(k) /\ c.source = SourceOf[c.exception]
  <2>1. PICK e \in group(k) : c = [exception |-> e, source |-> SourceOf[e]]
    BY <1>5 DEF Own
  <2>. QED  BY <2>1
<1>. HIDE DEF kinds, group
<1>6. Covers(open, draft)
  BY <1>1, <1>2, <1>3, <1>4, <1>5 DEF Covers
<1>. QED  BY <1>6 DEF draft

(***************************************************************************)
(* The server keeps the exceptions of a theme and adds what is not cited.  *)
(***************************************************************************)
LEMMA PlannedPartition ==
  ASSUME NEW open, NEW themes, Covers(open, themes)
  PROVE  ThemesPartition(open, Planned(themes))
<1>. DEFINE plan == Planned(themes)
<1>1. DOMAIN plan = DOMAIN themes
  BY DEF Planned
<1>2. \A i \in DOMAIN themes :
        /\ plan[i].exceptions = themes[i].exceptions
        /\ plan[i].citations = themes[i].citations \cup {Own(e) : e \in themes[i].exceptions}
  BY DEF Planned
<1>. HIDE DEF plan
<1>3. ASSUME NEW e \in open
      PROVE  \E i \in DOMAIN plan :
               /\ e \in plan[i].exceptions
               /\ Own(e) \in plan[i].citations
               /\ \A j \in DOMAIN plan : e \in plan[j].exceptions => j = i
  <2>1. PICK i \in DOMAIN themes : /\ e \in themes[i].exceptions
                                   /\ \A j \in DOMAIN themes : e \in themes[j].exceptions => j = i
    BY DEF Covers
  <2>2. Own(e) \in plan[i].citations
    BY <1>2, <2>1
  <2>. QED  BY <1>1, <1>2, <2>1, <2>2
<1>4. ASSUME NEW i \in DOMAIN plan, NEW c \in plan[i].citations
      PROVE  c.exception \in plan[i].exceptions /\ c.source \in {None, SourceOf[c.exception]}
  <2>1. CASE c \in themes[i].citations
    BY <1>1, <1>2, <2>1 DEF Covers
  <2>2. CASE c \in {Own(e) : e \in themes[i].exceptions}
    <3>1. PICK e \in themes[i].exceptions : c = [exception |-> e, source |-> SourceOf[e]]
      BY <2>2 DEF Own
    <3>. QED  BY <1>1, <1>2, <3>1
  <2>. QED  BY <1>1, <1>2, <2>1, <2>2
<1>5. \A i \in DOMAIN plan : plan[i].exceptions # {} /\ plan[i].exceptions \subseteq open
  BY <1>1, <1>2 DEF Covers
<1>6. ThemesPartition(open, plan)
  BY <1>3, <1>4, <1>5 DEF ThemesPartition
<1>. QED  BY <1>6 DEF plan

(***************************************************************************)
(* The plan: the keys of the themes are in a strict total order, and the   *)
(* priority of a theme counts what is ahead of it.                         *)
(***************************************************************************)
Keys == {k \in Seq(Int) : Len(k) = 5}

LEMMA KeyParts ==
  ASSUME NEW k \in Keys
  PROVE  DOMAIN k = 1 .. 5 /\ \A n \in 1 .. 5 : k[n] \in Int
<1>1. k \in Seq(Int) /\ Len(k) = 5
  BY DEF Keys
<1>2. k \in [1 .. Len(k) -> Int]
  BY <1>1, LenProperties
<1>. QED  BY <1>1, <1>2

LEMMA LessIrreflexive == ASSUME NEW k \in Keys PROVE ~Less(k, k)
BY KeyParts DEF Less

LEMMA LessTransitive ==
  ASSUME NEW a \in Keys, NEW b \in Keys, NEW c \in Keys, Less(a, b), Less(b, c)
  PROVE  Less(a, c)
<1>1. PICK n \in 1 .. 5 : a[n] < b[n] /\ \A m \in 1 .. (n - 1) : a[m] = b[m]
  BY KeyParts DEF Less
<1>2. PICK p \in 1 .. 5 : b[p] < c[p] /\ \A m \in 1 .. (p - 1) : b[m] = c[m]
  BY KeyParts DEF Less
<1>3. \A m \in 1 .. 5 : a[m] \in Int /\ b[m] \in Int /\ c[m] \in Int
  BY KeyParts
<1>. DEFINE q == IF n < p THEN n ELSE p
<1>4. q \in 1 .. 5 /\ q <= n /\ q <= p /\ (q = n \/ q = p)
  OBVIOUS
<1>. HIDE DEF q
<1>5. \A m \in 1 .. (q - 1) : m \in 1 .. (n - 1) /\ m \in 1 .. (p - 1)
  BY <1>4
<1>6. \A m \in 1 .. (q - 1) : a[m] = c[m]
  BY <1>1, <1>2, <1>5
<1>7. a[q] <= b[q] /\ b[q] <= c[q] /\ (a[q] < b[q] \/ b[q] < c[q])
  <2>1. q = n \/ q \in 1 .. (n - 1)
    BY <1>4
  <2>2. q = p \/ q \in 1 .. (p - 1)
    BY <1>4
  <2>3. a[q] \in Int /\ b[q] \in Int /\ c[q] \in Int
    BY <1>3, <1>4
  <2>4. a[q] < b[q] \/ a[q] = b[q]
    BY <1>1, <2>1
  <2>5. b[q] < c[q] \/ b[q] = c[q]
    BY <1>2, <2>2
  <2>. QED  BY <1>1, <1>2, <1>4, <2>3, <2>4, <2>5
<1>8. a[q] < c[q]
  BY <1>3, <1>4, <1>7
<1>. QED  BY <1>4, <1>6, <1>8, KeyParts DEF Less

LEMMA LessFirst ==
  ASSUME NEW a \in Keys, NEW b \in Keys, a[1] < b[1]
  PROVE  Less(a, b)
BY KeyParts DEF Less

LEMMA LessTotal ==
  ASSUME NEW a \in Keys, NEW b \in Keys, a[5] # b[5]
  PROVE  Less(a, b) \/ Less(b, a)
<1>1. \A n \in 1 .. 5 : a[n] \in Int /\ b[n] \in Int
  BY KeyParts
<1>2. \E n \in 1 .. 5 : a[n] # b[n] /\ \A m \in 1 .. (n - 1) : a[m] = b[m]
  <2>1. CASE a[1] # b[1]
    BY <2>1
  <2>2. CASE a[1] = b[1] /\ a[2] # b[2]
    <3>1. \A m \in 1 .. (2 - 1) : m = 1
      OBVIOUS
    <3>. QED  BY <2>2, <3>1
  <2>3. CASE a[1] = b[1] /\ a[2] = b[2] /\ a[3] # b[3]
    <3>1. \A m \in 1 .. (3 - 1) : m = 1 \/ m = 2
      OBVIOUS
    <3>. QED  BY <2>3, <3>1
  <2>4. CASE a[1] = b[1] /\ a[2] = b[2] /\ a[3] = b[3] /\ a[4] # b[4]
    <3>1. \A m \in 1 .. (4 - 1) : m = 1 \/ m = 2 \/ m = 3
      OBVIOUS
    <3>. QED  BY <2>4, <3>1
  <2>5. CASE a[1] = b[1] /\ a[2] = b[2] /\ a[3] = b[3] /\ a[4] = b[4]
    <3>1. \A m \in 1 .. (5 - 1) : m = 1 \/ m = 2 \/ m = 3 \/ m = 4
      OBVIOUS
    <3>. QED  BY <2>5, <3>1
  <2>. QED  BY <2>1, <2>2, <2>3, <2>4, <2>5
<1>3. PICK n \in 1 .. 5 : a[n] # b[n] /\ \A m \in 1 .. (n - 1) : a[m] = b[m]
  BY <1>2
<1>4. CASE a[n] < b[n]
  BY <1>3, <1>4, KeyParts DEF Less
<1>5. CASE b[n] < a[n]
  BY <1>3, <1>5, KeyParts DEF Less
<1>. QED  BY <1>1, <1>3, <1>4, <1>5

\* Themes as the server plans them.
Plannable(themes) ==
    /\ IsFiniteSet(DOMAIN themes) /\ DOMAIN themes \subseteq Nat
    /\ \A i \in DOMAIN themes :
        /\ themes[i].exceptions # {} /\ themes[i].exceptions \subseteq Exceptions
        /\ themes[i].title \in Nat

LEMMA MoneyIsNat == ASSUME NEW S \in SUBSET Exceptions PROVE IsFiniteSet(S) /\ MoneyOf(S) \in Nat
<1>1. IsFiniteSet(S) /\ \A e \in S : Amount[e] \in Nat
  BY ExceptionsAssumption, DraftAssumption, FS_Subset
<1>2. SumOver(Amount, S) \in Nat
  BY <1>1, SumIsNat
<1>. QED  BY <1>1, <1>2 DEF MoneyOf, SumOver

LEMMA RiskIsNat ==
  ASSUME NEW theme, theme.exceptions # {}, theme.exceptions \in SUBSET Exceptions
  PROVE  Risk(theme) \in Nat
<1>. DEFINE S == theme.exceptions
            risks == {RiskOf[e] : e \in S}
<1>1. IsFiniteSet(S) /\ \A e \in S : RiskOf[e] \in Nat
  BY ExceptionsAssumption, DraftAssumption, FS_Subset
<1>2. PICK m \in S : \A e \in S : RiskOf[e] <= RiskOf[m]
  BY <1>1, GreatestExists
<1>3. \E x \in risks : \A y \in risks : x >= y
  <2>1. RiskOf[m] \in risks
    OBVIOUS
  <2>2. ASSUME NEW y \in risks PROVE RiskOf[m] >= y
    <3>1. PICK e \in S : y = RiskOf[e]
      BY <2>2
    <3>. QED  BY <1>1, <1>2, <3>1
  <2>. QED  BY <2>1, <2>2
<1>4. \A x \in risks : x \in Nat
  BY <1>1
<1>5. Risk(theme) = CHOOSE x \in risks : \A y \in risks : x >= y
  BY DEF Risk, Max
<1>. HIDE DEF risks
<1>. QED  BY <1>3, <1>4, <1>5

LEMMA KeyOfTheme ==
  ASSUME NEW themes, Plannable(themes), NEW i \in DOMAIN themes
  PROVE  /\ SortKey(themes, i) \in Keys
         /\ SortKey(themes, i)[1] = -MoneyOf(themes[i].exceptions)
         /\ SortKey(themes, i)[5] = i
<1>1. themes[i].exceptions # {} /\ themes[i].exceptions \in SUBSET Exceptions
  BY DEF Plannable
<1>2. MoneyOf(themes[i].exceptions) \in Nat /\ Cardinality(themes[i].exceptions) \in Nat
  BY <1>1, MoneyIsNat, FS_CardinalityType
<1>3. Risk(themes[i]) \in Nat
  BY <1>1, RiskIsNat
<1>4. themes[i].title \in Nat /\ i \in Nat
  BY DEF Plannable
<1>. DEFINE money == MoneyOf(themes[i].exceptions)
            size == Cardinality(themes[i].exceptions)
            risk == Risk(themes[i])
            title == themes[i].title
<1>5. SortKey(themes, i) = <<-money, -size, -risk, title, i>>
  BY DEF SortKey
<1>6. money \in Nat /\ size \in Nat /\ risk \in Nat /\ title \in Nat /\ i \in Nat
  BY <1>2, <1>3, <1>4
<1>. HIDE DEF money, size, risk, title
<1>7. <<-money, -size, -risk, title, i>> \in Keys
  BY <1>6 DEF Keys
<1>8. SortKey(themes, i)[1] = -money /\ SortKey(themes, i)[5] = i
  BY <1>5
<1>. QED  BY <1>5, <1>7, <1>8 DEF money

LEMMA PlannedByExposure ==
  ASSUME NEW themes, Plannable(themes)
  PROVE  PlanByExposure(Planned(themes))
<1>. DEFINE plan == Planned(themes)
            key(i) == SortKey(themes, i)
            ahead(i) == {j \in DOMAIN themes : Less(key(j), key(i))}
<1>1. DOMAIN plan = DOMAIN themes
  BY DEF Planned
<1>2. \A i \in DOMAIN themes : /\ plan[i].exposure = MoneyOf(themes[i].exceptions)
                               /\ plan[i].priority = Cardinality(ahead(i)) + 1
  BY DEF Planned
<1>3. \A i \in DOMAIN themes : /\ key(i) \in Keys /\ key(i)[5] = i
                               /\ key(i)[1] = -MoneyOf(themes[i].exceptions)
                               /\ MoneyOf(themes[i].exceptions) \in Nat
  BY KeyOfTheme, MoneyIsNat DEF Plannable
<1>. HIDE DEF plan, key
<1>4. ASSUME NEW i \in DOMAIN themes
      PROVE  IsFiniteSet(ahead(i)) /\ Cardinality(ahead(i)) \in Nat
  <2>1. IsFiniteSet(DOMAIN themes) /\ ahead(i) \in SUBSET DOMAIN themes
    BY DEF Plannable
  <2>. HIDE DEF ahead
  <2>. QED  BY <2>1, FS_Subset, FS_CardinalityType
<1>5. ASSUME NEW i \in DOMAIN themes, NEW j \in DOMAIN themes, Less(key(i), key(j))
      PROVE  plan[i].priority < plan[j].priority
  <2>1. \A k \in ahead(i) : k \in ahead(j)
    BY <1>3, <1>5, LessTransitive
  <2>2. i \in ahead(j) /\ i \notin ahead(i)
    BY <1>3, <1>5, LessIrreflexive
  <2>3. ahead(i) \subseteq ahead(j) /\ ahead(i) # ahead(j)
    BY <2>1, <2>2
  <2>. HIDE DEF ahead
  <2>4. Cardinality(ahead(i)) <= Cardinality(ahead(j)) /\ Cardinality(ahead(i)) # Cardinality(ahead(j))
    BY <1>4, <2>3, FS_Subset
  <2>. QED  BY <1>2, <1>4, <2>4
<1>6. ASSUME NEW i \in DOMAIN themes, NEW j \in DOMAIN themes, plan[i].exposure > plan[j].exposure
      PROVE  plan[i].priority < plan[j].priority
  <2>. DEFINE worth(k) == MoneyOf(themes[k].exceptions)
  <2>1. worth(i) \in Nat /\ worth(j) \in Nat /\ worth(i) > worth(j)
    BY <1>2, <1>3, <1>6
  <2>2. key(i)[1] = -worth(i) /\ key(j)[1] = -worth(j)
    BY <1>3
  <2>. HIDE DEF worth
  <2>3. key(i)[1] < key(j)[1]
    BY <2>1, <2>2
  <2>. QED  BY <1>3, <1>5, <2>3, LessFirst
<1>7. ASSUME NEW i \in DOMAIN themes, NEW j \in DOMAIN themes, plan[i].priority = plan[j].priority
      PROVE  i = j
  <2>1. SUFFICES ASSUME i # j PROVE FALSE
    OBVIOUS
  <2>2. Less(key(i), key(j)) \/ Less(key(j), key(i))
    BY <1>3, <2>1, LessTotal
  <2>3. plan[i].priority \in Nat
    <3>1. plan[i].priority = Cardinality(ahead(i)) + 1 /\ Cardinality(ahead(i)) \in Nat
      BY <1>2, <1>4
    <3>. HIDE DEF ahead
    <3>. QED  BY <3>1
  <2>. QED  BY <1>5, <1>7, <2>2, <2>3
<1>. HIDE DEF ahead
<1>8. PlanByExposure(plan)
  BY <1>1, <1>6, <1>7 DEF PlanByExposure
<1>. QED  BY <1>8 DEF plan

LEMMA SuggestedPlannable ==
  ASSUME NEW themes \in Seq(Theme), NEW open \in SUBSET Exceptions, Valid(themes, open)
  PROVE  Plannable(Suggested(themes))
<1>. DEFINE draft == Suggested(themes)
<1>1. DOMAIN themes = 1 .. Len(themes) /\ Len(themes) \in Nat
  OBVIOUS
<1>2. DOMAIN draft = DOMAIN themes /\ \A i \in DOMAIN themes : draft[i].title = themes[i].title
  BY DEF Suggested
<1>3. \A i \in DOMAIN draft : /\ draft[i].exceptions # {}
                              /\ draft[i].exceptions \subseteq open
  BY SuggestedCovers DEF Covers
<1>4. ASSUME NEW i \in DOMAIN themes PROVE themes[i].title \in Nat
  <2>1. themes[i] \in Theme
    BY <1>1
  <2>. QED  BY <2>1 DEF Theme
<1>. HIDE DEF draft
<1>5. IsFiniteSet(DOMAIN draft) /\ DOMAIN draft \subseteq Nat
  <2>1. IsFiniteSet(1 .. Len(themes))
    BY <1>1, FS_Interval
  <2>. QED  BY <1>1, <1>2, <2>1
<1>6. Plannable(draft)
  BY <1>2, <1>3, <1>4, <1>5 DEF Plannable
<1>. QED  BY <1>6 DEF draft

LEMMA GroupedPlannable ==
  ASSUME NEW open \in SUBSET Exceptions
  PROVE  Plannable(Grouped(open))
<1>. DEFINE draft == Grouped(open)
            kinds == {KindOf[e] : e \in open}
<1>1. DOMAIN draft = kinds /\ \A k \in kinds : draft[k].title = TitleOf[k]
  BY DEF Grouped
<1>2. \A k \in DOMAIN draft : /\ draft[k].exceptions # {}
                              /\ draft[k].exceptions \subseteq open
  BY GroupedCovers DEF Covers
<1>3. IsFiniteSet(open)
  BY ExceptionsAssumption, FS_Subset
<1>4. IsFiniteSet(kinds)
  <2>1. [e \in open |-> KindOf[e]] \in Surjection(open, kinds)
    BY DEF Surjection
  <2>. HIDE DEF kinds
  <2>. QED  BY <1>3, <2>1, FS_Surjection
<1>5. kinds \subseteq Nat /\ \A k \in kinds : TitleOf[k] \in Nat
  BY DraftAssumption
<1>. HIDE DEF draft, kinds
<1>6. Plannable(draft)
  BY <1>1, <1>2, <1>4, <1>5 DEF Plannable
<1>. QED  BY <1>6 DEF draft

LEMMA NothingPlannable == Plannable(<<>>)
<1>1. DOMAIN <<>> = {}
  OBVIOUS
<1>. QED  BY <1>1, FS_EmptySet DEF Plannable

(***************************************************************************)
(* Money: the exposures of the themes add up to what is open, and what is  *)
(* open and has a price is unresolved.                                     *)
(***************************************************************************)
Exposed(themes) == MapThenSumSet(LAMBDA i : themes[i].exposure, DOMAIN themes)

LEMMA ExposedIsSum ==
  ASSUME NEW themes, NEW f, IsFiniteSet(DOMAIN themes),
         \A i \in DOMAIN themes : f[i] = themes[i].exposure
  PROVE  Exposed(themes) = SumOver(f, DOMAIN themes)
<1>. DEFINE S == DOMAIN themes
            Adds(iter) == iter = [s \in SUBSET S |->
                            IF s = {} THEN 0
                            ELSE themes[AnyOf(s)].exposure + iter[s \ {AnyOf(s)}]]
            total == CHOOSE iter : Adds(iter)
<1>1. Exposed(themes) = total[S]
  BY DEF Exposed, MapThenSumSet, MapThenFoldSet, AnyOf
<1>2. \A s \in SUBSET S : s # {} => AnyOf(s) \in S
  BY DEF AnyOf
<1>3. ASSUME NEW iter PROVE Adds(iter) <=> Sums(iter, f, S)
  BY <1>2 DEF Sums
<1>4. Sums(TotalOf(f, S), f, S)
  BY TotalSums
<1>. HIDE DEF Adds
<1>5. Adds(TotalOf(f, S))
  BY <1>3, <1>4
<1>6. Adds(total)
  BY <1>5
<1>. HIDE DEF total
<1>7. Sums(total, f, S)
  BY <1>3, <1>6
<1>8. total[S] = TotalOf(f, S)[S]
  BY <1>4, <1>7, SumsAgree
<1>. QED  BY <1>1, <1>8, SumIsTotal

LEMMA MoneyIsSum == ASSUME NEW S PROVE MoneyOf(S) = SumOver(Amount, S)
BY DEF MoneyOf, SumOver

LEMMA NoMoreMoney ==
  ASSUME NEW S \in SUBSET Exceptions, NEW T \in SUBSET S
  PROVE  MoneyOf(T) <= MoneyOf(S)
<1>1. IsFiniteSet(S) /\ \A e \in S : Amount[e] \in Nat
  BY ExceptionsAssumption, DraftAssumption, FS_Subset
<1>. QED  BY <1>1, SumOfPart, MoneyIsSum

\* What is not priced adds nothing.
LEMMA MoneyOfPriced ==
  ASSUME NEW S \in SUBSET Exceptions
  PROVE  MoneyOf(S) = MoneyOf(S \cap Priced)
<1>. DEFINE P == S \cap Priced
            N == S \ Priced
            zero == [e \in N |-> 0]
<1>1. IsFiniteSet(P) /\ IsFiniteSet(N) /\ P \cap N = {} /\ P \cup N = S
  BY ExceptionsAssumption, FS_Subset
<1>2. \A e \in S : Amount[e] \in Nat
  BY DraftAssumption
<1>3. \A e \in N : Amount[e] = 0
  BY DraftAssumption
<1>. HIDE DEF P, N
<1>4. SumOver(Amount, P \cup N) = SumOver(Amount, P) + SumOver(Amount, N)
  BY <1>1, <1>2, SumOfBoth
<1>5. SumOver(Amount, N) = 0
  BY <1>1, <1>3, SumOfZeros
<1>6. SumOver(Amount, P) \in Int
  BY <1>1, <1>2, SumIsInt
<1>7. SumOver(Amount, P \cup N) = SumOver(Amount, P)
  BY <1>4, <1>5, <1>6
<1>8. SumOver(Amount, S) = SumOver(Amount, P)
  BY <1>1, <1>7
<1>. QED  BY <1>8, MoneyIsSum DEF P

LEMMA ThemesAddUp ==
  ASSUME NEW open \in SUBSET Exceptions, NEW themes, Plannable(themes), Covers(open, themes)
  PROVE  Exposed(Planned(themes)) = MoneyOf(open)
<1>. DEFINE plan == Planned(themes)
            parts == [i \in DOMAIN themes |-> themes[i].exceptions]
            worth == [i \in DOMAIN themes |-> plan[i].exposure]
            I == DOMAIN themes
<1>1. DOMAIN plan = I /\ \A i \in I : plan[i].exposure = MoneyOf(themes[i].exceptions)
  BY DEF Planned
<1>. HIDE DEF plan
<1>2. IsFiniteSet(I)
  BY DEF Plannable
<1>3. Exposed(plan) = SumOver(worth, I)
  BY <1>1, <1>2, ExposedIsSum
<1>4. ASSUME NEW i \in I
      PROVE  /\ IsFiniteSet(parts[i]) /\ \A e \in parts[i] : Amount[e] \in Int
             /\ worth[i] = SumOver(Amount, parts[i])
  <2>1. parts[i] = themes[i].exceptions /\ parts[i] \subseteq Exceptions
    BY DEF Plannable
  <2>2. worth[i] = MoneyOf(parts[i])
    BY <1>1, <2>1
  <2>. HIDE DEF parts, worth
  <2>3. IsFiniteSet(parts[i]) /\ \A e \in parts[i] : Amount[e] \in Int
    BY <2>1, ExceptionsAssumption, DraftAssumption, FS_Subset
  <2>. QED  BY <2>2, <2>3, MoneyIsSum
<1>5. ASSUME NEW i \in I, NEW j \in I, i # j PROVE parts[i] \cap parts[j] = {}
  <2>1. SUFFICES ASSUME NEW e, e \in themes[i].exceptions, e \in themes[j].exceptions PROVE FALSE
    OBVIOUS
  <2>2. e \in open
    BY <2>1 DEF Covers
  <2>. QED  BY <1>5, <2>1, <2>2 DEF Covers
<1>6. UNION {parts[i] : i \in I} = open
  <2>1. ASSUME NEW e \in open PROVE \E i \in I : e \in parts[i]
    BY DEF Covers
  <2>2. \A i \in I : parts[i] \subseteq open
    BY DEF Covers
  <2>. HIDE DEF parts, I
  <2>. QED  BY <2>1, <2>2
<1>. HIDE DEF parts, worth, I
<1>7. AreParts(open, I, parts, Amount, worth)
  BY <1>4, <1>5, <1>6 DEF AreParts
<1>8. SumOver(worth, I) = SumOver(Amount, open)
  BY <1>2, <1>7, SumOfParts
<1>. QED  BY <1>3, <1>8, MoneyIsSum DEF plan

\* What a brief's contents say of the exceptions it covers.
Accounts(open, brf) ==
    /\ ThemesPartition(open, brf.themes)
    /\ PlanByExposure(brf.themes)
    /\ Exposed(brf.themes) = MoneyOf(open)
    /\ MoneyOf(open) <= brf.money_unresolved
    /\ brf.mode = "not_required" <=> open = {}

LEMMA DraftAccounts ==
  ASSUME NEW open \in SUBSET Exceptions, NEW answer \in Answer
  PROVE  /\ Covers(open, Draft(open, answer).themes)
         /\ Plannable(Draft(open, answer).themes)
         /\ Draft(open, answer).mode = "not_required" <=> open = {}
<1>1. answer.themes \in Seq(Theme)
  BY DEF Answer
<1>2. CASE open = {}
  <2>1. Draft(open, answer).themes = <<>> /\ Draft(open, answer).mode = "not_required"
    BY <1>2 DEF Draft
  <2>2. Covers(open, <<>>)
    BY <1>2 DEF Covers
  <2>. QED  BY <1>2, <2>1, <2>2, NothingPlannable
<1>3. CASE open # {} /\ open \notin Oversized /\ Configured /\ Valid(answer.themes, open)
  <2>1. /\ Draft(open, answer).themes = Suggested(answer.themes)
        /\ Draft(open, answer).mode = "provider"
    BY <1>3 DEF Draft
  <2>. QED  BY <1>1, <1>3, <2>1, SuggestedCovers, SuggestedPlannable
<1>4. CASE open # {} /\ ~(open \notin Oversized /\ Configured /\ Valid(answer.themes, open))
  <2>1. /\ Draft(open, answer).themes = Grouped(open)
        /\ Draft(open, answer).mode = "deterministic_fallback"
    BY <1>4 DEF Draft
  <2>. QED  BY <1>4, <2>1, GroupedCovers, GroupedPlannable
<1>. QED  BY <1>2, <1>3, <1>4

\* Whatever the provider answers, and whether it is asked at all, what an
\* assessment writes accounts for the open exceptions it was asked about: its
\* themes partition them, its plan goes by exposure, and the exposures add up
\* to their money, which is part of what it calls unresolved
\* (validate_provider_response, build_deterministic_fallback, _server_themes).
THEOREM AnyAnswerIsAccounted ==
  ASSUME NEW open \in SUBSET Exceptions, NEW unresolved \in SUBSET Exceptions,
         open \cap Priced \subseteq unresolved, NEW answer \in Answer
  PROVE  Accounts(open, Artifact(open, unresolved, answer))
<1>. DEFINE themes == Draft(open, answer).themes
            made == Artifact(open, unresolved, answer)
<1>1. /\ made.themes = Planned(themes)
      /\ made.mode = Draft(open, answer).mode
      /\ made.money_unresolved = MoneyOf(unresolved)
  BY DEF Artifact
<1>2. /\ Covers(open, themes) /\ Plannable(themes)
      /\ Draft(open, answer).mode = "not_required" <=> open = {}
  BY DraftAccounts
<1>. HIDE DEF themes, made
<1>3. ThemesPartition(open, Planned(themes)) /\ PlanByExposure(Planned(themes))
  BY <1>2, PlannedPartition, PlannedByExposure
<1>4. Exposed(Planned(themes)) = MoneyOf(open)
  BY <1>2, ThemesAddUp
<1>5. MoneyOf(open) <= MoneyOf(unresolved)
  BY MoneyOfPriced, NoMoreMoney
<1>6. Accounts(open, made)
  BY <1>1, <1>2, <1>3, <1>4, <1>5 DEF Accounts
<1>. QED  BY <1>6 DEF made

(***************************************************************************)
(* BriefDraft is ReviewClose with an additional variable.                  *)
(***************************************************************************)
LEMMA DraftStep == [DraftNext]_draftVars => [Next]_vars
BY DEF DraftNext, draftVars, Generate, OtherAssessStep, Next, AssessStep

\* What a brief says changes nothing of who decides, locks and marks what: all
\* that holds of ReviewClose holds with the contents of briefs.
THEOREM DraftImplementsReviewClose == DraftSpec => Spec
<1>1. DraftInit => Init
  BY DEF DraftInit
<1>. QED  BY <1>1, DraftStep, PTL DEF DraftSpec, Spec

(***************************************************************************)
(* What is generated is written into its own brief: the snapshot and the   *)
(* artifact of an assessment stay what they are until its second           *)
(* transaction copies both, and no brief is generated twice.               *)
(***************************************************************************)
\* The snapshot of an assessment: what is open and priced is unresolved.
SnapshotPriced ==
    \A a \in Assessments : InFlight(a) => assess[a].open \cap Priced \subseteq assess[a].unresolved

GeneratedAccounts ==
    \A a \in Assessments : assess[a].pc = "generated" => Accounts(assess[a].open, content[a])

BriefAccounts ==
    \A a \in Assessments : Completed(a) => Accounts(brief[a].open, content[a])

DraftInv ==
    /\ DOMAIN content = Assessments
    /\ SnapshotPriced
    /\ GeneratedAccounts
    /\ BriefAccounts

LEMMA InitDraftInv == DraftInit => DraftInv
<1>. SUFFICES ASSUME DraftInit PROVE DraftInv
  OBVIOUS
<1>1. DOMAIN content = Assessments
  BY DEF DraftInit
<1>2. \A a \in Assessments : assess[a].pc = "idle" /\ brief[a].state = "absent"
  BY DEF DraftInit, Init
<1>. QED  BY <1>1, <1>2 DEF DraftInv, SnapshotPriced, GeneratedAccounts, BriefAccounts, InFlight,
     Completed

LEMMA GenerateDraftInv ==
  ASSUME TypeInv, BriefInv, DraftInv, NEW a \in Assessments, Generate(a)
  PROVE  DraftInv'
<1>1. PICK answer \in Answers :
        content' = [content EXCEPT ![a] = Artifact(assess[a].open, assess[a].unresolved, answer)]
  BY DEF Generate
<1>. DEFINE new == Artifact(assess[a].open, assess[a].unresolved, answer)
            moved == [assess EXCEPT ![a].pc = "generated", ![a].generatedAt = clock]
<1>2. assess[a].pc = "generating" /\ assess' = moved /\ UNCHANGED brief
  BY DEF Generate, AssessGenerate
<1>3. answer \in Answer
  BY DraftAssumption
<1>4. /\ assess[a].open \in SUBSET Exceptions /\ assess[a].unresolved \in SUBSET Exceptions
      /\ assess[a].open \cap Priced \subseteq assess[a].unresolved
  <2>1. InFlight(a)
    BY <1>2 DEF InFlight
  <2>. QED  BY <2>1, ExceptionsAssumption DEF DraftInv, SnapshotPriced, TypeInv, TypeOK, AssessRecord
<1>5. Accounts(assess[a].open, new)
  BY <1>3, <1>4, AnyAnswerIsAccounted
<1>. HIDE DEF new
<1>6. /\ DOMAIN content' = Assessments
      /\ content'[a] = new
      /\ \A b \in Assessments \ {a} : content'[b] = content[b]
  BY <1>1 DEF DraftInv, new
<1>7. /\ \A b \in Assessments : /\ moved[b].open = assess[b].open
                                 /\ moved[b].unresolved = assess[b].unresolved
      /\ \A b \in Assessments \ {a} : moved[b].pc = assess[b].pc
  BY DEF TypeInv, TypeOK, AssessRecord
<1>8. GeneratedAccounts'
  BY <1>2, <1>5, <1>6, <1>7 DEF DraftInv, GeneratedAccounts
<1>11. SnapshotPriced'
  BY <1>2, <1>4, <1>7 DEF DraftInv, SnapshotPriced, InFlight
<1>9. ~Completed(a)
  BY <1>2 DEF BriefInv, RowFollowsRequest, InFlight, Generating, Completed
<1>10. BriefAccounts'
  BY <1>2, <1>6, <1>9 DEF DraftInv, BriefAccounts, Completed
<1>. QED  BY <1>6, <1>8, <1>10, <1>11 DEF DraftInv

LEMMA CompleteDraftInv ==
  ASSUME TypeInv, BriefInv, DraftInv, NEW a \in Assessments, AssessComplete(a), UNCHANGED content
  PROVE  DraftInv'
<1>1. PICK stale : brief' = [brief EXCEPT ![a] =
                       [@ EXCEPT !.state = "completed", !.open = assess[a].open,
                                 !.posture = Posture(a),
                                 !.generatedAt = assess[a].generatedAt,
                                 !.staleAt = stale]]
  BY DEF AssessComplete
<1>2. /\ assess[a].pc = "generated"
      /\ assess' = [assess EXCEPT ![a].pc = "answered"]
  BY DEF AssessComplete
<1>3. /\ brief'[a].open = assess[a].open
      /\ \A b \in Assessments \ {a} : brief'[b] = brief[b]
  BY <1>1 DEF TypeInv, TypeOK, BriefRecord
<1>4. /\ assess'[a].pc = "answered"
      /\ \A b \in Assessments \ {a} : assess'[b] = assess[b]
  BY <1>2 DEF TypeInv, TypeOK, AssessRecord
<1>5. GeneratedAccounts' /\ SnapshotPriced'
  BY <1>4 DEF DraftInv, GeneratedAccounts, SnapshotPriced, InFlight
<1>6. BriefAccounts'
  BY <1>2, <1>3 DEF DraftInv, GeneratedAccounts, BriefAccounts, Completed
<1>. QED  BY <1>5, <1>6 DEF DraftInv

\* Steps after which no request is at another snapshot or another generated
\* draft, and no brief is completed or says something else.
LEMMA QuietDraftInv ==
  ASSUME DraftInv, UNCHANGED content,
         \A a \in Assessments : assess'[a].pc = "generated" => assess'[a] = assess[a],
         \A a \in Assessments : assess'[a].pc = "generating" =>
            assess'[a] = assess[a] \/ assess'[a].open \cap Priced \subseteq assess'[a].unresolved,
         \A a \in Assessments :
            brief'[a].state = "completed" => Completed(a) /\ brief'[a].open = brief[a].open
  PROVE  DraftInv'
<1>1. SnapshotPriced'
  BY DEF DraftInv, SnapshotPriced, InFlight
<1>2. GeneratedAccounts' /\ BriefAccounts'
  BY DEF DraftInv, GeneratedAccounts, BriefAccounts, Completed
<1>. QED  BY <1>1, <1>2 DEF DraftInv

LEMMA CommitDraftInv ==
  ASSUME TypeInv, DraftInv, NEW r \in Reviews, ReviewCommit(r), UNCHANGED content
  PROVE  DraftInv'
<1>. DEFINE at == review[r].at
<1>1. brief' = MarkedStale(at) /\ UNCHANGED assess
  BY DEF ReviewCommit
<1>. HIDE DEF at
<1>2. \A a \in Assessments : /\ MarkedStale(at)[a].state = brief[a].state
                             /\ MarkedStale(at)[a].open = brief[a].open
  BY DEF MarkedStale, TypeInv, TypeOK, BriefRecord
<1>. QED  BY <1>1, <1>2, QuietDraftInv DEF Completed

LEMMA AssessDraftInv ==
  ASSUME TypeInv, BriefInv, DraftInv, NEW a \in Assessments, OtherAssessStep(a), UNCHANGED content
  PROVE  DraftInv'
<1>1. CASE AssessStart(a)
  <2>. DEFINE row == [state |-> "generating", open |-> Open, posture |-> "review required",
                      created |-> Cardinality({b \in Assessments : Exists(b)}) + 1,
                      generatedAt |-> NoTime, staleAt |-> NoTime]
              snapshot == [pc |-> "generating", open |-> Open, unresolved |-> Unresolved,
                           capturedAt |-> clock, generatedAt |-> NoTime]
  <2>1. brief' = [brief EXCEPT ![a] = row] /\ assess' = [assess EXCEPT ![a] = snapshot]
    BY <1>1 DEF AssessStart
  <2>2. /\ row.state = "generating" /\ snapshot.pc = "generating"
        /\ snapshot.open \cap Priced \subseteq snapshot.unresolved
    BY DEF Open, Unresolved
  <2>. HIDE DEF row, snapshot
  <2>3. \A b \in Assessments \ {a} : brief'[b] = brief[b] /\ assess'[b] = assess[b]
    BY <2>1 DEF TypeInv, TypeOK
  <2>4. /\ brief'[a].state = "generating" /\ assess'[a].pc = "generating"
        /\ assess'[a].open \cap Priced \subseteq assess'[a].unresolved
    BY <2>1, <2>2 DEF TypeInv, TypeOK
  <2>. QED  BY <2>3, <2>4, QuietDraftInv DEF Completed
<1>2. CASE AssessAdmit(a) \/ AssessConflict(a) \/ AssessCrash(a)
  <2>1. PICK pc \in {"admitted", "conflict", "crashed"} :
          assess' = [assess EXCEPT ![a].pc = pc] /\ UNCHANGED brief
    BY <1>2 DEF AssessAdmit, AssessConflict, AssessCrash
  <2>2. /\ assess'[a].pc \notin {"generating", "generated"}
        /\ \A b \in Assessments \ {a} : assess'[b] = assess[b]
    BY <2>1 DEF TypeInv, TypeOK, AssessRecord
  <2>. QED  BY <2>1, <2>2, QuietDraftInv DEF Completed
<1>3. CASE AssessComplete(a)
  BY <1>3, CompleteDraftInv
<1>. QED  BY <1>1, <1>2, <1>3 DEF OtherAssessStep

\* Steps that write into no brief and no assessment.
LEMMA DraftFrame ==
  ASSUME [DraftNext]_draftVars
  PROVE  \/ UNCHANGED <<brief, assess, content>>
         \/ \E a \in Assessments : Generate(a)
         \/ \E r \in Reviews : ReviewCommit(r) /\ UNCHANGED content
         \/ \E a \in Assessments : OtherAssessStep(a) /\ UNCHANGED content
BY DEF DraftNext, draftVars, vars, Tick, EvalStep, EvalStart, EvalRead, EvalWrite, ReviewStep,
       ReviewReceive, ReviewMissing, ReviewTooLate, ReviewInvalid, ReviewLock,
       ReviewDeadlock, ReviewCrash, ReviewAnswer

LEMMA NextDraftInv ==
  ASSUME TypeInv, BriefInv, DraftInv, [DraftNext]_draftVars
  PROVE  DraftInv'
<1>1. CASE UNCHANGED <<brief, assess, content>>
  BY <1>1, QuietDraftInv DEF Completed
<1>. QED
  BY <1>1, DraftFrame, GenerateDraftInv, CommitDraftInv, AssessDraftInv

LEMMA DraftInvHolds == DraftSpec => [](BriefInv /\ DraftInv)
<1>1. Spec => [](TypeInv /\ DecisionInv /\ BriefInv)
  BY BriefInvHolds
<1>2. TypeInv /\ BriefInv /\ DraftInv /\ [DraftNext]_draftVars => DraftInv'
  BY NextDraftInv
<1>. QED
  BY <1>1, <1>2, InitDraftInv, DraftImplementsReviewClose, PTL DEF DraftSpec

\* A completed brief accounts for the exceptions that are open now, too: it
\* covers them, and decisions only close more of them.
LEMMA DraftAccountsForOpenWork == BriefInv /\ DraftInv /\ TypeInv => BriefAccountsForOpenWork
<1>. SUFFICES ASSUME BriefInv, DraftInv, TypeInv, NEW a \in Assessments, Completed(a)
              PROVE  /\ ThemesPartition(brief[a].open, content[a].themes)
                     /\ PlanByExposure(content[a].themes)
                     /\ Exposed(content[a].themes) = MoneyOf(brief[a].open)
                     /\ MoneyOf(Open) <= Exposed(content[a].themes)
                     /\ Exposed(content[a].themes) <= content[a].money_unresolved
                     /\ content[a].mode = "not_required" <=> brief[a].open = {}
  BY DEF BriefAccountsForOpenWork, Exposed
<1>1. Accounts(brief[a].open, content[a])
  BY DEF DraftInv, BriefAccounts
<1>2. Open \subseteq brief[a].open /\ brief[a].open \in SUBSET Exceptions
  BY DEF BriefInv, BriefsCoverOpenWork, Exists, Completed, TypeInv, TypeOK, BriefRecord
<1>3. MoneyOf(Open) <= MoneyOf(brief[a].open)
  BY <1>2, NoMoreMoney
<1>. QED  BY <1>1, <1>3 DEF Accounts

\* Whatever the providers answer and whichever reviews commit meanwhile, the
\* themes of every completed brief partition the exceptions it covers, each
\* cited by its own row; their exposures add up to the money of these, which is
\* no less than what is open now and no more than what the brief calls
\* unresolved; and its plan goes by exposure (assess_batch_close).
THEOREM BriefsAccountForOpenWork == DraftSpec => []BriefAccountsForOpenWork
<1>1. Spec => []TypeInv
  BY BriefInvHolds, PTL
<1>. QED
  BY <1>1, DraftInvHolds, DraftAccountsForOpenWork, DraftImplementsReviewClose, PTL

=============================================================================
