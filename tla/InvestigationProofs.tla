------------------------- MODULE InvestigationProofs -------------------------
(***************************************************************************)
(* Proofs about Investigation: what a saved recommendation rests on, for   *)
(* any providers, tools, exceptions, requests and reviews.                 *)
(***************************************************************************)
EXTENDS Investigation, SumTheorems, SequenceTheorems

HasFields(s) ==
    s = [pc |-> s.pc, queue |-> s.queue, provider |-> s.provider, round |-> s.round,
         results |-> s.results, trace |-> s.trace, cited |-> s.cited, code |-> s.code]

\* c is of the exception's own rows or was read by a call of the trace.
Backed(c, e, trace) == c \in References[e] \/ \E t \in OwnCalls(trace) : c \in Reads(t)

Sound(e, provider, cited, trace, code) ==
    /\ provider <= Providers =>
        cited # {} /\ \A c \in cited : Backed(c, e, trace)
    /\ provider > Providers => code # None

AskOK(s) ==
    /\ HasFields(s)
    /\ \E S : s.trace \in Seq(S)
    /\ s.provider \in Nat
    /\ s.pc = "asking" => s.provider <= Providers
    /\ \A c \in s.results : \E t \in OwnCalls(s.trace) : c \in Reads(t)
    /\ s.pc = "persisting" =>
        Sound(Head(s.queue), s.provider, s.cited, s.trace, s.code)

Grounded(i) ==
    /\ i.mode = "provider" =>
        i.cited # {} /\ \A c \in i.cited : Backed(c, i.exception, i.trace)
    /\ i.mode = "deterministicFallback" => i.code # None

TxOK(t) ==
    /\ t = [records |-> t.records, events |-> t.events, aborted |-> t.aborted]
    /\ \A i \in t.records : Grounded(i)

GroundInv ==
    /\ ask = [r \in Requests |-> ask[r]]
    /\ tx = [r \in Requests |-> tx[r]]
    /\ \A r \in Requests : AskOK(ask[r]) /\ TxOK(tx[r])
    /\ \A i \in saved : Grounded(i)

-----------------------------------------------------------------------------
(***************************************************************************)
(* The trace.                                                              *)
(***************************************************************************)
LEMMA AppendCalls ==
    ASSUME NEW S, NEW trace \in Seq(S), NEW i, i.status # "failed"
    PROVE  /\ OwnCalls(trace) \subseteq OwnCalls(Append(trace, i))
           /\ i.status = "completed" => i \in OwnCalls(Append(trace, i))
  <1> DEFINE more == Append(trace, i)
  <1>1. /\ trace \in Seq(S \cup {i}) /\ Len(trace) \in Nat
        /\ DOMAIN trace = 1 .. Len(trace)
    OBVIOUS
  <1>2. /\ DOMAIN more = 1 .. Len(trace) + 1
        /\ more[Len(trace) + 1] = i
        /\ \A j \in DOMAIN trace : more[j] = trace[j]
    BY <1>1
  <1> HIDE DEF more
  <1>3. ASSUME NEW t \in OwnCalls(trace) PROVE t \in OwnCalls(more)
    <2>1. PICK j \in DOMAIN trace :
            /\ t = trace[j] /\ trace[j].status = "completed"
            /\ \A k \in DOMAIN trace : trace[k].status = "failed" => k < j
      BY DEF OwnCalls
    <2>2. j \in DOMAIN more /\ more[j] = trace[j]
      BY <1>1, <1>2
    <2>3. ASSUME NEW k \in DOMAIN more, more[k].status = "failed" PROVE k < j
      <3>1. k \in DOMAIN trace
        BY <1>1, <1>2, <2>3
      <3> QED BY <1>2, <2>1, <2>3, <3>1
    <2> QED BY <2>1, <2>2, <2>3 DEF OwnCalls
  <1>4. ASSUME i.status = "completed" PROVE i \in OwnCalls(more)
    <2>1. Len(trace) + 1 \in DOMAIN more
      BY <1>1, <1>2
    <2>2. ASSUME NEW k \in DOMAIN more, more[k].status = "failed" PROVE k < Len(trace) + 1
      BY <1>1, <1>2, <1>4, <2>2
    <2> QED BY <1>2, <1>4, <2>1, <2>2 DEF OwnCalls
  <1> QED BY <1>3, <1>4 DEF more

LEMMA AppendIsSeq ==
    ASSUME NEW trace, \E S : trace \in Seq(S), NEW i
    PROVE  \E S : Append(trace, i) \in Seq(S)
  <1>1. PICK S : trace \in Seq(S)
    OBVIOUS
  <1>2. trace \in Seq(S \cup {i}) /\ i \in S \cup {i}
    BY <1>1
  <1>3. Append(trace, i) \in Seq(S \cup {i})
    BY <1>2
  <1> QED BY <1>3

\* What a call reads depends on its tool and its ids.
LEMMA ItemReads ==
    ASSUME NEW a, NEW status, NEW code
    PROVE  Reads(Item(a.tool, a.ids, status, code)) = Reads(a)
  BY DEF Reads, Item, Settlements, Breakdown

-----------------------------------------------------------------------------
(***************************************************************************)
(* The rounds.                                                             *)
(***************************************************************************)
LEMMA CodesDiffer ==
    /\ "provider_unavailable" # None /\ "invalid_citation" # None
    /\ "tool_round_limit" # None /\ "malformed_response" # None
  BY InvestigationAssumption DEF ErrorCodes

LEMMA BeginOK == ASSUME NEW queue PROVE AskOK(Begin(queue))
  <1> DEFINE s == Begin(queue)
  <1>1. s = [pc |-> IF Providers = 0 THEN "persisting" ELSE "asking", queue |-> queue,
             provider |-> 1, round |-> 1, results |-> {}, trace |-> <<>>, cited |-> {},
             code |-> IF Providers = 0 THEN "provider_unavailable" ELSE None]
    BY DEF Begin
  <1>2. HasFields(s)
    BY <1>1 DEF HasFields
  <1>3. s.provider = 1 /\ s.results = {} /\ s.trace = <<>>
    BY <1>1
  <1>4. /\ s.pc = "persisting" => Providers = 0 /\ s.code = "provider_unavailable"
        /\ s.pc = "asking" => 1 <= Providers
    BY <1>1, InvestigationAssumption
  <1>5. s.trace \in Seq({})
    BY <1>3
  <1> HIDE DEF s
  <1>6. s.pc = "persisting" => Sound(Head(s.queue), s.provider, s.cited, s.trace, s.code)
    BY <1>3, <1>4, CodesDiffer DEF Sound
  <1>7. AskOK(s)
    BY <1>2, <1>3, <1>4, <1>5, <1>6 DEF AskOK
  <1> QED BY <1>7 DEF s

LEMMA FailedOK == ASSUME NEW s, AskOK(s), NEW code, code # None PROVE AskOK(Failed(s, code))
  <1> DEFINE t == Failed(s, code)
             item == Item(None, {}, "failed", code)
  <1>1. t = [pc |-> IF s.provider >= Providers THEN "persisting" ELSE "asking",
             queue |-> s.queue, provider |-> s.provider + 1, round |-> 1, results |-> {},
             trace |-> Append(s.trace, item), cited |-> {}, code |-> code]
    <2> DEFINE pc == IF s.provider >= Providers THEN "persisting" ELSE "asking"
    <2>1. s = [pc |-> s.pc, queue |-> s.queue, provider |-> s.provider, round |-> s.round,
               results |-> s.results, trace |-> s.trace, cited |-> s.cited, code |-> s.code]
      BY DEF AskOK, HasFields
    <2>2. t = [s EXCEPT !.pc = pc, !.provider = @ + 1, !.round = 1, !.results = {},
                        !.cited = {}, !.code = code, !.trace = Append(@, item)]
      BY DEF Failed
    <2> HIDE DEF pc, item, t
    <2>3. t = [pc |-> pc, queue |-> s.queue, provider |-> s.provider + 1, round |-> 1,
               results |-> {}, trace |-> Append(s.trace, item), cited |-> {}, code |-> code]
      BY <2>1, <2>2
    <2> QED BY <2>3 DEF pc
  <1>2. /\ t.provider = s.provider + 1 /\ t.results = {} /\ t.code = code
        /\ t.trace = Append(s.trace, item)
        /\ t.pc = IF s.provider >= Providers THEN "persisting" ELSE "asking"
    BY <1>1
  <1>3. HasFields(t)
    BY <1>1 DEF HasFields
  <1> HIDE DEF t, item
  <1>4. s.provider \in Nat /\ Providers \in Nat
    BY InvestigationAssumption DEF AskOK
  <1>5. t.pc = "persisting" => Sound(Head(t.queue), t.provider, t.cited, t.trace, t.code)
    BY <1>2, <1>4 DEF Sound
  <1>6. \E S : t.trace \in Seq(S)
    <2>1. \E S : s.trace \in Seq(S)
      BY DEF AskOK
    <2>2. \E S : Append(s.trace, item) \in Seq(S)
      BY <2>1, AppendIsSeq
    <2> QED BY <1>2, <2>2
  <1>7. AskOK(t)
    BY <1>2, <1>3, <1>4, <1>5, <1>6 DEF AskOK
  <1> QED BY <1>7 DEF t

LEMMA RecommendedOK ==
    ASSUME NEW s, AskOK(s), s.pc = "asking", NEW cited
    PROVE  AskOK(Recommended(s, Head(s.queue), cited))
  <1>1. CASE ~(cited # {} /\ cited \subseteq References[Head(s.queue)] \cup s.results)
    <2>1. AskOK(Failed(s, "invalid_citation"))
      BY FailedOK, CodesDiffer
    <2> QED BY <1>1, <2>1 DEF Recommended
  <1>2. CASE cited # {} /\ cited \subseteq References[Head(s.queue)] \cup s.results
    <2> DEFINE item == Item(None, {}, "recommendation", None)
               t == [pc |-> "persisting", queue |-> s.queue, provider |-> s.provider,
                     round |-> s.round, results |-> s.results,
                     trace |-> Append(s.trace, item), cited |-> cited, code |-> None]
    <2>1. Recommended(s, Head(s.queue), cited) = t
      BY <1>2 DEF Recommended, AskOK, HasFields
    <2>2. item.status # "failed"
      BY DEF Item
    <2>3. OwnCalls(s.trace) \subseteq OwnCalls(t.trace)
      <3>1. PICK S : s.trace \in Seq(S)
        BY DEF AskOK
      <3> HIDE DEF item
      <3> QED BY <2>2, <3>1, AppendCalls
    <2>4. \A c \in s.results : \E x \in OwnCalls(t.trace) : c \in Reads(x)
      <3> HIDE DEF t
      <3> QED BY <2>3 DEF AskOK
    <2>5. /\ t.queue = s.queue /\ t.cited = cited /\ t.results = s.results
          /\ t.provider = s.provider /\ t.trace = Append(s.trace, item) /\ HasFields(t)
          /\ t.pc = "persisting"
      BY DEF HasFields
    <2> HIDE DEF t, item
    <2>6. \A c \in t.cited : Backed(c, Head(t.queue), t.trace)
      BY <1>2, <2>4, <2>5 DEF Backed
    <2>7. Sound(Head(t.queue), t.provider, t.cited, t.trace, t.code)
      <3>1. t.provider \in Nat /\ Providers \in Nat
        BY <2>5, InvestigationAssumption DEF AskOK
      <3>2. ~(t.provider > Providers) /\ t.cited # {}
        <4>1. s.provider <= Providers
          BY DEF AskOK
        <4> QED BY <1>2, <2>5, <3>1, <4>1
      <3> QED BY <2>6, <3>2 DEF Sound
    <2>8. \E S : t.trace \in Seq(S)
      BY <2>5, AppendIsSeq DEF AskOK
    <2>9. AskOK(t)
      BY <2>4, <2>5, <2>7, <2>8 DEF AskOK
    <2> QED BY <2>1, <2>9
  <1> QED BY <1>1, <1>2

LEMMA SomeFields ==
    ASSUME NEW s, HasFields(s), NEW x, NEW y
    PROVE  [s EXCEPT !.results = x, !.round = y] =
             [pc |-> s.pc, queue |-> s.queue, provider |-> s.provider, round |-> y,
              results |-> x, trace |-> s.trace, cited |-> s.cited, code |-> s.code]
  <1> DEFINE t == [s EXCEPT !.results = x]
  <1>1. t = [pc |-> s.pc, queue |-> s.queue, provider |-> s.provider, round |-> s.round,
             results |-> x, trace |-> s.trace, cited |-> s.cited, code |-> s.code]
    BY DEF HasFields
  <1>2. [t EXCEPT !.round = y] =
          [pc |-> t.pc, queue |-> t.queue, provider |-> t.provider, round |-> y,
           results |-> t.results, trace |-> t.trace, cited |-> t.cited, code |-> t.code]
    <2> HIDE DEF t
    <2> QED BY <1>1
  <1> QED BY <1>1, <1>2

LEMMA CalledOK ==
    ASSUME NEW s, AskOK(s), s.pc = "asking", NEW a, NEW refusal
    PROVE  AskOK(Called(s, a, refusal))
  <1> DEFINE item == Item(a.tool, a.ids,
                          IF refusal = None THEN "completed" ELSE "rejected", refusal)
             t == [pc |-> s.pc, queue |-> s.queue, provider |-> s.provider,
                   round |-> s.round, results |-> s.results,
                   trace |-> Append(s.trace, item), cited |-> s.cited, code |-> s.code]
             next == [pc |-> s.pc, queue |-> s.queue, provider |-> s.provider,
                      round |-> s.round + 1, results |-> s.results \cup Reads(a),
                      trace |-> Append(s.trace, item), cited |-> s.cited, code |-> s.code]
  <1>1. /\ item.status # "failed"
        /\ refusal = None => item.status = "completed" /\ Reads(item) = Reads(a)
    <2>1. Reads(item) = Reads(a)
      BY ItemReads
    <2> QED BY <2>1 DEF Item
  <1>2. s = [pc |-> s.pc, queue |-> s.queue, provider |-> s.provider, round |-> s.round,
             results |-> s.results, trace |-> s.trace, cited |-> s.cited, code |-> s.code]
    BY DEF AskOK, HasFields
  <1>3. Called(s, a, refusal) = IF refusal # None THEN Failed(t, refusal)
                                ELSE IF OutOfRounds(s) THEN Failed(t, "tool_round_limit")
                                ELSE next
    <2>1. [s EXCEPT !.trace = Append(@, item)] = t
      BY <1>2
    <2>2. [t EXCEPT !.results = @ \cup Reads(a), !.round = @ + 1] =
            [pc |-> t.pc, queue |-> t.queue, provider |-> t.provider,
             round |-> t.round + 1, results |-> t.results \cup Reads(a),
             trace |-> t.trace, cited |-> t.cited, code |-> t.code]
      <3>1. HasFields(t)
        BY DEF HasFields
      <3> HIDE DEF t
      <3> DEFINE x == t.results \cup Reads(a)
                 y == t.round + 1
      <3>2. [t EXCEPT !.results = x, !.round = y] =
              [pc |-> t.pc, queue |-> t.queue, provider |-> t.provider, round |-> y,
               results |-> x, trace |-> t.trace, cited |-> t.cited, code |-> t.code]
        BY <3>1, SomeFields
      <3> QED BY <3>2
    <2>3. t.round = s.round
      OBVIOUS
    <2> QED BY <2>1, <2>2, <2>3 DEF Called
  <1>4. \A c \in s.results : \E x \in OwnCalls(Append(s.trace, item)) : c \in Reads(x)
    <2>1. PICK S : s.trace \in Seq(S)
      BY DEF AskOK
    <2> HIDE DEF item
    <2>2. OwnCalls(s.trace) \subseteq OwnCalls(Append(s.trace, item))
      BY <1>1, <2>1, AppendCalls
    <2> QED BY <2>2 DEF AskOK
  <1>5. \E S : Append(s.trace, item) \in Seq(S)
    <2> HIDE DEF item
    <2> QED BY AppendIsSeq DEF AskOK
  <1>6. AskOK(t)
    <2>1. /\ HasFields(t) /\ t.trace = Append(s.trace, item) /\ t.provider = s.provider
          /\ t.results = s.results /\ t.pc = "asking"
      BY DEF HasFields
    <2> HIDE DEF t, item
    <2> QED BY <1>4, <1>5, <2>1 DEF AskOK
  <1>7. ASSUME refusal = None PROVE AskOK(next)
    <2>1. /\ HasFields(next) /\ next.trace = Append(s.trace, item) /\ next.provider = s.provider
          /\ next.results = s.results \cup Reads(a) /\ next.pc = "asking"
      BY DEF HasFields
    <2>2. item \in OwnCalls(Append(s.trace, item))
      <3>1. PICK S : s.trace \in Seq(S)
        BY DEF AskOK
      <3> HIDE DEF item
      <3> QED BY <1>1, <1>7, <3>1, AppendCalls
    <2> HIDE DEF next, item
    <2>3. \A c \in next.results : \E x \in OwnCalls(next.trace) : c \in Reads(x)
      BY <1>1, <1>4, <1>7, <2>1, <2>2
    <2> QED BY <1>5, <2>1, <2>3 DEF AskOK
  <1> HIDE DEF t, next
  <1>8. refusal # None => AskOK(Failed(t, refusal))
    BY <1>6, FailedOK
  <1>9. AskOK(Failed(t, "tool_round_limit"))
    BY <1>6, FailedOK, CodesDiffer
  <1> QED BY <1>3, <1>7, <1>8, <1>9

LEMMA PcOK ==
    ASSUME NEW s, AskOK(s), NEW pc, pc # "persisting", pc # "asking"
    PROVE  AskOK([s EXCEPT !.pc = pc])
  <1> DEFINE t == [s EXCEPT !.pc = pc]
  <1>1. t = [pc |-> pc, queue |-> s.queue, provider |-> s.provider, round |-> s.round,
             results |-> s.results, trace |-> s.trace, cited |-> s.cited, code |-> s.code]
    BY DEF AskOK, HasFields
  <1>2. /\ HasFields(t) /\ t.pc = pc /\ t.provider = s.provider
        /\ t.results = s.results /\ t.trace = s.trace
    BY <1>1 DEF HasFields
  <1> HIDE DEF t
  <1>3. AskOK(t)
    BY <1>2 DEF AskOK
  <1> QED BY <1>3 DEF t

LEMMA ProceedOK == ASSUME NEW s, AskOK(s) PROVE AskOK(Proceed(s))
  BY PcOK, BeginOK DEF Proceed

-----------------------------------------------------------------------------
(***************************************************************************)
(* The steps.                                                              *)
(***************************************************************************)
AskFn == ask = [r \in Requests |-> ask[r]] /\ \A r \in Requests : AskOK(ask[r])
TxFn == tx = [r \in Requests |-> tx[r]] /\ \A r \in Requests : TxOK(tx[r])
SavedOK == \A i \in saved : Grounded(i)

LEMMA GroundParts == GroundInv <=> AskFn /\ TxFn /\ SavedOK
  BY DEF GroundInv, AskFn, TxFn, SavedOK

LEMMA AskStep ==
    ASSUME AskFn, NEW r \in Requests, NEW s, AskOK(s), ask' = [ask EXCEPT ![r] = s]
    PROVE  AskFn'
  <1>1. \A q \in Requests : ask'[q] = IF q = r THEN s ELSE ask[q]
    BY DEF AskFn
  <1>2. ask' = [q \in Requests |-> ask'[q]]
    BY DEF AskFn
  <1> QED BY <1>1, <1>2 DEF AskFn

LEMMA TxStep ==
    ASSUME TxFn, NEW r \in Requests, NEW t, TxOK(t), tx' = [tx EXCEPT ![r] = t]
    PROVE  TxFn'
  <1>1. \A q \in Requests : tx'[q] = IF q = r THEN t ELSE tx[q]
    BY DEF TxFn
  <1>2. tx' = [q \in Requests |-> tx'[q]]
    BY DEF TxFn
  <1> QED BY <1>1, <1>2 DEF TxFn

LEMMA FreshOK == TxOK(NewTx) /\ TxOK(Aborted)
  BY DEF TxOK, NewTx, Aborted

LEMMA InitGround == Init => GroundInv
  <1> SUFFICES ASSUME Init PROVE AskFn /\ TxFn /\ SavedOK
    BY GroundParts
  <1>1. AskOK(Idle)
    BY BeginOK, PcOK DEF Idle
  <1> QED BY <1>1, FreshOK DEF Init, AskFn, TxFn, SavedOK

LEMMA AskGround == ASSUME GroundInv, NEW r \in Requests, Ask(r) PROVE GroundInv'
  <1>1. AskFn /\ TxFn /\ SavedOK
    BY GroundParts
  <1> DEFINE s == ask[r]
  <1>2. AskOK(s) /\ s.pc = "asking" /\ Subject(r) = Head(s.queue)
    BY <1>1 DEF AskFn, Ask, Subject
  <1>3. PICK a \in Answers[r] :
          \/ a.kind = "failure" /\ ask' = [ask EXCEPT ![r] = Failed(@, a.code)]
          \/ /\ a.kind = "recommendation"
             /\ ask' = [ask EXCEPT ![r] = Recommended(@, Subject(r), a.cited)]
          \/ /\ a.kind = "tool"
             /\ \E refusal \in Refusals(Subject(r), a, tx[r].aborted) :
                  ask' = [ask EXCEPT ![r] = Called(@, a, refusal)]
    BY DEF Ask
  <1>4. \E t : AskOK(t) /\ ask' = [ask EXCEPT ![r] = t]
    <2>1. CASE a.kind = "failure" /\ ask' = [ask EXCEPT ![r] = Failed(s, a.code)]
      <3>1. a \in Answer
        BY InvestigationAssumption
      <3>2. a.code \in ErrorCodes
        BY <2>1, <3>1 DEF Answer
      <3>3. a.code # None
        BY <3>2, InvestigationAssumption
      <3>4. AskOK(Failed(s, a.code))
        BY <1>2, <3>3, FailedOK
      <3> QED BY <2>1, <3>4
    <2>2. CASE ask' = [ask EXCEPT ![r] = Recommended(s, Subject(r), a.cited)]
      <3>1. AskOK(Recommended(s, Head(s.queue), a.cited))
        BY <1>2, RecommendedOK
      <3> QED BY <1>2, <2>2, <3>1
    <2>3. CASE \E refusal : ask' = [ask EXCEPT ![r] = Called(s, a, refusal)]
      <3>1. PICK refusal : ask' = [ask EXCEPT ![r] = Called(s, a, refusal)]
        BY <2>3
      <3>2. AskOK(Called(s, a, refusal))
        BY <1>2, CalledOK
      <3> QED BY <3>1, <3>2
    <2> QED BY <1>3, <2>1, <2>2, <2>3
  <1>5. AskFn'
    BY <1>1, <1>4, AskStep
  <1>6. TxFn' /\ SavedOK'
    BY <1>1 DEF Ask, TxFn, SavedOK
  <1> QED BY <1>5, <1>6, GroundParts, PTL

\* A request that stops, or is done, with a transaction that holds nothing.
LEMMA RestGround ==
    ASSUME GroundInv, NEW r \in Requests, NEW s, AskOK(s), NEW t, TxOK(t),
           ask' = [ask EXCEPT ![r] = s], tx' = [tx EXCEPT ![r] = t], saved' = saved
    PROVE  GroundInv'
  <1>1. AskFn /\ TxFn /\ SavedOK
    BY GroundParts
  <1>2. AskFn' /\ TxFn'
    BY <1>1, AskStep, TxStep
  <1>3. SavedOK'
    BY <1>1 DEF SavedOK
  <1> QED BY <1>2, <1>3, GroundParts, PTL

LEMMA StartGround ==
    ASSUME GroundInv, NEW r \in Requests, StartOne(r) \/ StartPortfolio(r)
    PROVE  GroundInv'
  <1>1. AskFn /\ TxFn /\ SavedOK
    BY GroundParts
  <1>2. \E s : AskOK(s) /\ ask' = [ask EXCEPT ![r] = s]
    <2>1. CASE StartOne(r)
      BY <2>1, BeginOK DEF StartOne
    <2>2. CASE StartPortfolio(r)
      <3> DEFINE queue == Portfolio(Exceptions \ decided)
      <3>1. ask' = [ask EXCEPT ![r] = IF queue = <<>> THEN [@ EXCEPT !.pc = "done"]
                                      ELSE Begin(queue)]
        BY <2>2 DEF StartPortfolio
      <3> HIDE DEF queue
      <3>2. AskOK([ask[r] EXCEPT !.pc = "done"]) /\ AskOK(Begin(queue))
        BY <1>1, PcOK, BeginOK DEF AskFn
      <3> QED BY <3>1, <3>2
    <2> QED BY <2>1, <2>2
  <1>3. AskFn'
    BY <1>1, <1>2, AskStep
  <1>4. TxFn' /\ SavedOK'
    BY <1>1 DEF StartOne, StartPortfolio, TxFn, SavedOK
  <1> QED BY <1>3, <1>4, GroundParts, PTL

\* The record is as sound as what the provider recommended.
LEMMA PersistGround == ASSUME GroundInv, NEW r \in Requests, Persist(r) PROVE GroundInv'
  <1>1. AskFn /\ TxFn /\ SavedOK
    BY GroundParts
  <1> DEFINE s == ask[r]
             i == Record(r)
             t == [records |-> tx[r].records \cup {i}, events |-> tx[r].events,
                   aborted |-> tx[r].aborted]
  <1>2. /\ s.pc = "persisting" /\ AskOK(s) /\ TxOK(tx[r])
    BY <1>1 DEF Persist, AskFn, TxFn
  <1>3. Sound(Head(s.queue), s.provider, s.cited, s.trace, s.code)
    BY <1>2 DEF AskOK
  <1>4. Grounded(i)
    <2>1. s.provider \in Nat /\ Providers \in Nat
      BY <1>2, InvestigationAssumption DEF AskOK
    <2>2. /\ i.exception = Head(s.queue) /\ i.trace = s.trace /\ i.code = s.code
          /\ i.mode = IF s.provider > Providers THEN "deterministicFallback" ELSE "provider"
          /\ ~(s.provider > Providers) => i.cited = s.cited
      BY DEF Record, Subject
    <2> HIDE DEF i, s
    <2>3. i.mode = "provider" => ~(s.provider > Providers)
      BY <2>2
    <2>4. i.mode = "deterministicFallback" => s.provider > Providers
      BY <2>2
    <2>5. ASSUME i.mode = "provider"
          PROVE  i.cited # {} /\ \A c \in i.cited : Backed(c, i.exception, i.trace)
      <3>1. s.provider <= Providers /\ i.cited = s.cited
        BY <2>1, <2>2, <2>3, <2>5
      <3> QED BY <1>3, <2>2, <3>1 DEF Sound
    <2>6. i.mode = "deterministicFallback" => i.code # None
      BY <1>3, <2>2, <2>4 DEF Sound
    <2> QED BY <2>5, <2>6 DEF Grounded
  <1>5. TxOK(t)
    <2>1. t.records = tx[r].records \cup {i}
      OBVIOUS
    <2>2. t = [records |-> t.records, events |-> t.events, aborted |-> t.aborted]
      OBVIOUS
    <2> HIDE DEF t, i
    <2> QED BY <1>2, <1>4, <2>1, <2>2 DEF TxOK
  <1>6. tx' = [tx EXCEPT ![r] = t]
    <2>1. tx' = [tx EXCEPT ![r].records = @ \cup {i}]
      BY DEF Persist
    <2>2. tx[r] = [records |-> tx[r].records, events |-> tx[r].events,
                   aborted |-> tx[r].aborted]
      BY <1>2 DEF TxOK
    <2> HIDE DEF i
    <2>3. [tx[r] EXCEPT !.records = @ \cup {i}] = t
      BY <2>2
    <2>4. tx' = [tx EXCEPT ![r] = [tx[r] EXCEPT !.records = @ \cup {i}]]
      BY <2>1
    <2> HIDE DEF t
    <2> QED BY <2>3, <2>4
  <1>7. AskOK([s EXCEPT !.pc = "auditing"])
    BY <1>2, PcOK
  <1>8. ask' = [ask EXCEPT ![r] = [s EXCEPT !.pc = "auditing"]] /\ saved' = saved
    BY DEF Persist
  <1> HIDE DEF t, s
  <1> QED BY <1>5, <1>6, <1>7, <1>8, RestGround

LEMMA PersistFailsGround ==
    ASSUME GroundInv, NEW r \in Requests, PersistFails(r) PROVE GroundInv'
  <1>1. AskFn /\ TxFn /\ SavedOK
    BY GroundParts
  <1> DEFINE s == IF ask[r].provider > Providers THEN [ask[r] EXCEPT !.pc = "failed"]
                  ELSE Failed(ask[r], "malformed_response")
  <1>2. AskOK([ask[r] EXCEPT !.pc = "failed"]) /\ AskOK(Failed(ask[r], "malformed_response"))
    BY <1>1, PcOK, FailedOK, CodesDiffer DEF AskFn
  <1>3. AskOK(s)
    BY <1>2
  <1>4. /\ ask' = [ask EXCEPT ![r] = s] /\ tx' = [tx EXCEPT ![r] = Aborted]
        /\ saved' = saved
    BY DEF PersistFails
  <1> HIDE DEF s
  <1> QED BY <1>3, <1>4, FreshOK, RestGround

LEMMA AuditGround ==
    ASSUME GroundInv, NEW r \in Requests, Audit(r) \/ AuditFails(r) PROVE GroundInv'
  <1>1. AskFn /\ TxFn /\ SavedOK
    BY GroundParts
  <1> DEFINE s == Proceed(ask[r])
             t == [records |-> tx[r].records, events |-> tx[r].events \o EventsOf(r),
                   aborted |-> tx[r].aborted]
  <1>2. AskOK(s) /\ TxOK(tx[r])
    BY <1>1, ProceedOK DEF AskFn, TxFn
  <1>3. ask' = [ask EXCEPT ![r] = s] /\ saved' = saved
    BY DEF Audit, AuditFails
  <1>4. TxOK(t)
    <2>1. /\ t.records = tx[r].records
          /\ t = [records |-> t.records, events |-> t.events, aborted |-> t.aborted]
      OBVIOUS
    <2> HIDE DEF t
    <2> QED BY <1>2, <2>1 DEF TxOK
  <1>5. tx' = [tx EXCEPT ![r] = t] \/ tx' = [tx EXCEPT ![r] = Aborted]
    <2>1. CASE Audit(r)
      <3> DEFINE both == tx[r].events \o EventsOf(r)
      <3>1. tx' = [tx EXCEPT ![r] = [tx[r] EXCEPT !.events = both]]
        BY <2>1 DEF Audit
      <3>2. tx[r] = [records |-> tx[r].records, events |-> tx[r].events,
                     aborted |-> tx[r].aborted]
        BY <1>2 DEF TxOK
      <3>3. t = [records |-> tx[r].records, events |-> both, aborted |-> tx[r].aborted]
        OBVIOUS
      <3> HIDE DEF both, t
      <3>4. [tx[r] EXCEPT !.events = both] = t
        BY <3>2, <3>3
      <3> QED BY <3>1, <3>4
    <2>2. CASE AuditFails(r)
      BY <2>2 DEF AuditFails, AuditLost
    <2> QED BY <2>1, <2>2
  <1> HIDE DEF s, t
  <1> QED BY <1>2, <1>3, <1>4, <1>5, FreshOK, RestGround

LEMMA CommitGround == ASSUME GroundInv, NEW r \in Requests, Commit(r) PROVE GroundInv'
  <1>1. AskFn /\ TxFn /\ SavedOK
    BY GroundParts
  <1>2. AskOK([ask[r] EXCEPT !.pc = "done"]) /\ TxOK(tx[r])
    BY <1>1, PcOK DEF AskFn, TxFn
  <1>3. /\ ask' = [ask EXCEPT ![r] = [ask[r] EXCEPT !.pc = "done"]]
        /\ tx' = [tx EXCEPT ![r] = NewTx] /\ saved' = saved \cup tx[r].records
    BY DEF Commit
  <1>4. AskFn'
    BY <1>1, <1>2, <1>3, AskStep
  <1>5. TxFn'
    BY <1>1, <1>3, FreshOK, TxStep
  <1>6. SavedOK'
    BY <1>1, <1>2, <1>3 DEF SavedOK, TxOK
  <1> QED BY <1>4, <1>5, <1>6, GroundParts, PTL

LEMMA StopGround ==
    ASSUME GroundInv, NEW r \in Requests, NEW pc \in {"failed", "died"}, Stop(r, pc)
    PROVE  GroundInv'
  <1>1. AskOK([ask[r] EXCEPT !.pc = pc])
    BY GroundParts, PcOK DEF AskFn
  <1>2. /\ ask' = [ask EXCEPT ![r] = [ask[r] EXCEPT !.pc = pc]]
        /\ tx' = [tx EXCEPT ![r] = NewTx] /\ saved' = saved
    BY DEF Stop
  <1> QED BY <1>1, <1>2, FreshOK, RestGround

LEMMA SameGround == ASSUME GroundInv, UNCHANGED <<ask, tx, saved>> PROVE GroundInv'
  <1>1. AskFn /\ TxFn /\ SavedOK
    BY GroundParts
  <1>2. AskFn' /\ TxFn' /\ SavedOK'
    BY <1>1 DEF AskFn, TxFn, SavedOK
  <1> QED BY <1>2, GroundParts, PTL

LEMMA StepGround == GroundInv /\ [Next]_vars => GroundInv'
  <1> SUFFICES ASSUME GroundInv, [Next]_vars PROVE GroundInv'
    OBVIOUS
  <1>1. CASE Deadlock
    <2>1. \/ \E r \in Requests : PersistFails(r) \/ AuditFails(r)
          \/ UNCHANGED <<ask, tx, saved>>
      BY <1>1 DEF Deadlock
    <2> QED BY <2>1, PersistFailsGround, AuditGround, SameGround
  <1>2. ASSUME NEW r \in Requests, StartOne(r) \/ StartPortfolio(r) PROVE GroundInv'
    BY <1>2, StartGround
  <1>3. ASSUME NEW r \in Requests, Progress(r) PROVE GroundInv'
    BY <1>3, AskGround, PersistGround, AuditGround, CommitGround, PersistFailsGround
    DEF Progress
  <1>4. ASSUME NEW r \in Requests, Fault(r) PROVE GroundInv'
    BY <1>4, PersistFailsGround, AuditGround, StopGround DEF Fault, CommitFails
  <1>5. ASSUME NEW v \in Reviews, ReviewLocks(v) \/ ReviewCommits(v) PROVE GroundInv'
    BY <1>5, SameGround DEF ReviewLocks, ReviewCommits
  <1>6. CASE UNCHANGED vars
    BY <1>6, SameGround DEF vars
  <1> QED BY <1>1, <1>2, <1>3, <1>4, <1>5, <1>6 DEF Next

\* What a provider was told is backed by the calls after the last failure of the
\* trace, what it recommended by what it was told, and what is written and saved
\* by the same: for any number of providers, rounds, requests and reviews.
THEOREM GroundInvariant == Spec => []GroundInv
  <1>1. Init => GroundInv
    BY InitGround
  <1>2. GroundInv /\ [Next]_vars => GroundInv'
    BY StepGround
  <1> QED BY <1>1, <1>2, PTL DEF Spec

\* A saved recommendation of a provider cites something, and nothing but rows of
\* its exception and rows its own provider read with a tool; a saved fallback
\* has the reason no provider was heard.
THEOREM RecommendationsAreGrounded == Spec => []RecommendationsGrounded
  <1>1. GroundInv => RecommendationsGrounded
    BY DEF GroundInv, Grounded, Backed, RecommendationsGrounded
  <1> QED BY <1>1, GroundInvariant, PTL

-----------------------------------------------------------------------------
(***************************************************************************)
(* What the journal tells.                                                 *)
(***************************************************************************)
AboutIn(J, i) == {k \in DOMAIN J : J[k].by = i.request /\ J[k].exception = i.exception}

TellsOf(J, i) ==
    \E first \in DOMAIN J :
        /\ AboutIn(J, i) = first .. first + Calls(i.trace)
        /\ \A k \in AboutIn(J, i) :
            J[k].type = IF k = first + Calls(i.trace) THEN "ai_recommendation"
                        ELSE "ai_tool_called"

\* J tells of the investigations in I and of no other request's.
Tells(J, I) ==
    /\ \A k \in DOMAIN J : J[k].by \in Requests => \E i \in I : k \in AboutIn(J, i)
    /\ \A i \in I : TellsOf(J, i)

LEMMA CallsAreNat == ASSUME NEW trace, \E S : trace \in Seq(S) PROVE Calls(trace) \in Nat
  <1>1. PICK S : trace \in Seq(S)
    OBVIOUS
  <1>2. Len(trace) \in Nat /\ DOMAIN trace = 1 .. Len(trace)
    BY <1>1, LenProperties
  <1>3. IsFiniteSet(1 .. Len(trace))
    BY <1>2, FS_Interval
  <1>4. {j \in DOMAIN trace : trace[j].tool # None} \in SUBSET (1 .. Len(trace))
    BY <1>2
  <1>5. IsFiniteSet({j \in DOMAIN trace : trace[j].tool # None})
    BY <1>3, <1>4, FS_Subset
  <1> QED BY <1>5, FS_CardinalityType DEF Calls

LEMMA ConcatParts ==
    ASSUME NEW S, NEW J \in Seq(S), NEW T, NEW K \in Seq(T)
    PROVE  /\ Len(J) \in Nat /\ Len(K) \in Nat
           /\ DOMAIN J = 1 .. Len(J) /\ DOMAIN K = 1 .. Len(K)
           /\ J \o K \in Seq(S \cup T)
           /\ DOMAIN (J \o K) = 1 .. (Len(J) + Len(K))
           /\ \A k \in 1 .. Len(J) : (J \o K)[k] = J[k]
           /\ \A k \in 1 .. Len(K) : (J \o K)[Len(J) + k] = K[k]
  <1>1. J \in Seq(S \cup T) /\ K \in Seq(S \cup T)
    BY SeqDef
  <1>2. Len(J) \in Nat /\ Len(K) \in Nat /\ DOMAIN J = 1 .. Len(J) /\ DOMAIN K = 1 .. Len(K)
    BY LenProperties
  <1>3. /\ J \o K \in Seq(S \cup T) /\ Len(J \o K) = Len(J) + Len(K)
        /\ \A i \in 1 .. Len(J) + Len(K) :
              (J \o K)[i] = IF i <= Len(J) THEN J[i] ELSE K[i - Len(J)]
    BY <1>1, ConcatProperties
  <1>4. DOMAIN (J \o K) = 1 .. Len(J) + Len(K)
    BY <1>3, LenProperties
  <1>5. ASSUME NEW k \in 1 .. Len(J) PROVE (J \o K)[k] = J[k]
    <2>1. k \in 1 .. Len(J) + Len(K) /\ k <= Len(J)
      BY <1>2
    <2> QED BY <1>3, <2>1
  <1>6. ASSUME NEW k \in 1 .. Len(K) PROVE (J \o K)[Len(J) + k] = K[k]
    <2>1. /\ Len(J) + k \in 1 .. Len(J) + Len(K) /\ ~(Len(J) + k <= Len(J))
          /\ (Len(J) + k) - Len(J) = k
      BY <1>2
    <2> QED BY <1>3, <2>1
  <1> QED BY <1>2, <1>3, <1>4, <1>5, <1>6

\* What comes after does not touch the story of an investigation it is not about.
LEMMA TellsBefore ==
    ASSUME NEW S, NEW J \in Seq(S), NEW T, NEW K \in Seq(T),
           NEW i, TellsOf(J, i), AboutIn(K, i) = {}
    PROVE  AboutIn(J \o K, i) = AboutIn(J, i) /\ TellsOf(J \o K, i)
  <1> DEFINE L == J \o K
             n == Len(J)
  <1>1. /\ n \in Nat /\ Len(K) \in Nat /\ DOMAIN J = 1 .. n /\ DOMAIN K = 1 .. Len(K)
        /\ DOMAIN L = 1 .. (n + Len(K))
        /\ \A k \in 1 .. n : L[k] = J[k]
        /\ \A k \in 1 .. Len(K) : L[n + k] = K[k]
    BY ConcatParts
  <1> HIDE DEF L, n
  <1>2. ASSUME NEW k \in AboutIn(L, i) PROVE k \in AboutIn(J, i)
    <2>1. k \in DOMAIN L /\ L[k].by = i.request /\ L[k].exception = i.exception
      BY DEF AboutIn
    <2>2. CASE k \in 1 .. n
      BY <1>1, <2>1, <2>2 DEF AboutIn
    <2>3. CASE k \notin 1 .. n
      <3>1. k - n \in 1 .. Len(K) /\ n + (k - n) = k
        BY <1>1, <2>1, <2>3
      <3>2. L[k] = K[k - n]
        BY <1>1, <3>1
      <3>3. k - n \in AboutIn(K, i)
        BY <1>1, <2>1, <3>1, <3>2 DEF AboutIn
      <3> QED BY <3>3
    <2> QED BY <2>2, <2>3
  <1>3. ASSUME NEW k \in AboutIn(J, i) PROVE k \in AboutIn(L, i)
    <2>1. k \in 1 .. n /\ J[k].by = i.request /\ J[k].exception = i.exception
      BY <1>1 DEF AboutIn
    <2>2. k \in DOMAIN L /\ L[k] = J[k]
      BY <1>1, <2>1
    <2> QED BY <2>1, <2>2 DEF AboutIn
  <1>4. AboutIn(L, i) = AboutIn(J, i)
    BY <1>2, <1>3
  <1>5. PICK first \in DOMAIN J :
          /\ AboutIn(J, i) = first .. first + Calls(i.trace)
          /\ \A k \in AboutIn(J, i) :
              J[k].type = IF k = first + Calls(i.trace) THEN "ai_recommendation"
                          ELSE "ai_tool_called"
    BY DEF TellsOf
  <1>6. first \in DOMAIN L
    BY <1>1
  <1>7. \A k \in AboutIn(J, i) : L[k] = J[k]
    BY <1>1 DEF AboutIn
  <1>8. TellsOf(L, i)
    BY <1>4, <1>5, <1>6, <1>7 DEF TellsOf
  <1> QED BY <1>4, <1>8 DEF L

\* A story keeps its order behind events that are not about it.
LEMMA TellsAfter ==
    ASSUME NEW S, NEW J \in Seq(S), NEW T, NEW K \in Seq(T),
           NEW i, Calls(i.trace) \in Nat, TellsOf(K, i), AboutIn(J, i) = {}
    PROVE  /\ \A k \in 1 .. Len(K) : k \in AboutIn(K, i) => Len(J) + k \in AboutIn(J \o K, i)
           /\ TellsOf(J \o K, i)
  <1> DEFINE L == J \o K
             n == Len(J)
             c == Calls(i.trace)
  <1>1. /\ n \in Nat /\ Len(K) \in Nat /\ DOMAIN J = 1 .. n /\ DOMAIN K = 1 .. Len(K)
        /\ DOMAIN L = 1 .. (n + Len(K))
        /\ \A k \in 1 .. n : L[k] = J[k]
        /\ \A k \in 1 .. Len(K) : L[n + k] = K[k]
    BY ConcatParts
  <1>2. PICK first \in DOMAIN K :
          /\ AboutIn(K, i) = first .. first + c
          /\ \A k \in AboutIn(K, i) :
              K[k].type = IF k = first + c THEN "ai_recommendation" ELSE "ai_tool_called"
    BY DEF TellsOf
  <1>3. c \in Nat
    OBVIOUS
  <1> HIDE DEF L, n, c
  <1>4. ASSUME NEW k \in 1 .. Len(K), k \in AboutIn(K, i) PROVE n + k \in AboutIn(L, i)
    <2>1. K[k].by = i.request /\ K[k].exception = i.exception
      BY <1>4 DEF AboutIn
    <2>2. n + k \in DOMAIN L /\ L[n + k] = K[k]
      BY <1>1
    <2> QED BY <2>1, <2>2 DEF AboutIn
  <1>5. ASSUME NEW k \in AboutIn(L, i)
        PROVE  /\ k \in Nat /\ k - n \in AboutIn(K, i) /\ L[k] = K[k - n]
    <2>1. k \in DOMAIN L /\ L[k].by = i.request /\ L[k].exception = i.exception
      BY DEF AboutIn
    <2>2. k \notin 1 .. n
      <3>1. SUFFICES ASSUME k \in 1 .. n PROVE FALSE
        OBVIOUS
      <3>2. k \in AboutIn(J, i)
        BY <1>1, <2>1, <3>1 DEF AboutIn
      <3> QED BY <3>2
    <2>3. k - n \in 1 .. Len(K) /\ n + (k - n) = k /\ k \in Nat
      BY <1>1, <2>1, <2>2
    <2>4. L[k] = K[k - n]
      BY <1>1, <2>3
    <2> QED BY <1>1, <2>1, <2>3, <2>4 DEF AboutIn
  <1>6. AboutIn(K, i) \subseteq 1 .. Len(K) /\ first \in 1 .. Len(K)
    BY <1>1 DEF AboutIn
  <1>7. AboutIn(L, i) = n + first .. n + first + c
    <2>1. ASSUME NEW k \in AboutIn(L, i) PROVE k \in n + first .. n + first + c
      <3>1. k \in Nat /\ k - n \in first .. first + c
        BY <1>2, <1>5
      <3> QED BY <1>1, <1>3, <1>6, <3>1
    <2>2. ASSUME NEW k \in n + first .. n + first + c PROVE k \in AboutIn(L, i)
      <3>1. k - n \in first .. first + c /\ n + (k - n) = k
        BY <1>1, <1>3, <1>6
      <3>2. k - n \in AboutIn(K, i)
        BY <1>2, <3>1
      <3> QED BY <1>4, <1>6, <3>1, <3>2
    <2> QED BY <2>1, <2>2
  <1>8. n + first \in DOMAIN L
    BY <1>1, <1>6
  <1>9. ASSUME NEW k \in AboutIn(L, i)
        PROVE  L[k].type = IF k = n + first + c THEN "ai_recommendation" ELSE "ai_tool_called"
    <2>1. k \in Nat /\ k - n \in AboutIn(K, i) /\ L[k] = K[k - n]
      BY <1>5
    <2>2. k \in Nat /\ n \in Nat /\ first \in Nat /\ c \in Nat
      BY <1>1, <1>3, <1>6, <2>1
    <2>3. CASE k = n + first + c
      <3>1. k - n = first + c
        BY <2>2, <2>3
      <3> QED BY <1>2, <2>1, <2>3, <3>1
    <2>4. CASE k # n + first + c
      <3>1. k - n # first + c
        BY <2>2, <2>4
      <3> QED BY <1>2, <2>1, <2>4, <3>1
    <2> QED BY <2>3, <2>4
  <1>10. TellsOf(L, i)
    BY <1>7, <1>8, <1>9 DEF TellsOf, c
  <1> QED BY <1>4, <1>10 DEF L, n

LEMMA TellsConcat ==
    ASSUME NEW S, NEW J \in Seq(S), NEW T, NEW K \in Seq(T), NEW I, NEW M,
           Tells(J, I), Tells(K, M),
           \A i \in M : Calls(i.trace) \in Nat,
           \A i \in I : AboutIn(K, i) = {}, \A i \in M : AboutIn(J, i) = {}
    PROVE  Tells(J \o K, I \cup M)
  <1> DEFINE L == J \o K
             n == Len(J)
  <1>1. /\ n \in Nat /\ Len(K) \in Nat /\ DOMAIN J = 1 .. n /\ DOMAIN K = 1 .. Len(K)
        /\ DOMAIN L = 1 .. (n + Len(K))
        /\ \A k \in 1 .. n : L[k] = J[k]
        /\ \A k \in 1 .. Len(K) : L[n + k] = K[k]
    BY ConcatParts
  <1>2. \A i \in I : AboutIn(L, i) = AboutIn(J, i) /\ TellsOf(L, i)
    BY TellsBefore DEF Tells
  <1>3. \A i \in M : /\ \A k \in 1 .. Len(K) : k \in AboutIn(K, i) => n + k \in AboutIn(L, i)
                     /\ TellsOf(L, i)
    BY TellsAfter DEF Tells
  <1> HIDE DEF L, n
  <1>4. ASSUME NEW k \in DOMAIN L, L[k].by \in Requests
        PROVE  \E i \in I \cup M : k \in AboutIn(L, i)
    <2>1. CASE k \in 1 .. n
      <3>1. J[k].by \in Requests
        BY <1>1, <1>4, <2>1
      <3>2. PICK i \in I : k \in AboutIn(J, i)
        BY <1>1, <2>1, <3>1 DEF Tells
      <3> QED BY <1>2, <3>2
    <2>2. CASE k \notin 1 .. n
      <3>1. k - n \in 1 .. Len(K) /\ n + (k - n) = k
        BY <1>1, <2>2
      <3>2. K[k - n].by \in Requests
        BY <1>1, <1>4, <3>1
      <3>3. PICK i \in M : k - n \in AboutIn(K, i)
        BY <1>1, <3>1, <3>2 DEF Tells
      <3>4. n + (k - n) \in AboutIn(L, i)
        BY <1>3, <3>1, <3>3
      <3> QED BY <3>1, <3>3, <3>4
    <2> QED BY <2>1, <2>2
  <1>5. Tells(L, I \cup M)
    BY <1>2, <1>3, <1>4 DEF Tells
  <1> QED BY <1>5 DEF L

LEMMA NothingTells == Tells(<<>>, {})
  BY DEF Tells

\* The events of one investigation tell it.
LEMMA EventsTell ==
    ASSUME NEW r \in Requests, \E S : ask[r].trace \in Seq(S),
           NEW i, i.request = r, i.exception = Subject(r), i.trace = ask[r].trace
    PROVE  /\ \E T : EventsOf(r) \in Seq(T)
           /\ Tells(EventsOf(r), {i})
           /\ \A k \in DOMAIN EventsOf(r) :
                 EventsOf(r)[k].by = r /\ EventsOf(r)[k].exception = Subject(r)
  <1> DEFINE c == Calls(ask[r].trace)
             e == Subject(r)
             type(k) == IF k > c THEN "ai_recommendation" ELSE "ai_tool_called"
             K == [k \in 1 .. c + 1 |-> [type |-> type(k), by |-> r, exception |-> e]]
             T == {K[k] : k \in 1 .. c + 1}
  <1>1. c \in Nat
    BY CallsAreNat
  <1>2. EventsOf(r) = K
    BY DEF EventsOf
  <1>3. DOMAIN K = 1 .. c + 1 /\ \A k \in 1 .. c + 1 : K[k].by = r /\ K[k].exception = e
    OBVIOUS
  <1>4. \A k \in 1 .. c + 1 :
          K[k].type = IF k = 1 + Calls(i.trace) THEN "ai_recommendation" ELSE "ai_tool_called"
    BY <1>1
  <1> HIDE DEF c, e
  <1>5. K \in Seq(T)
    <2> HIDE DEF type
    <2>1. K \in [1 .. c + 1 -> T] /\ c + 1 \in Nat
      BY <1>1
    <2> QED BY <2>1, SeqDef
  <1> HIDE DEF K, T
  <1>6. AboutIn(K, i) = 1 .. c + 1
    BY <1>3 DEF AboutIn, e
  <1>7. 1 \in DOMAIN K /\ 1 .. c + 1 = 1 .. 1 + c
    BY <1>1, <1>3
  <1>8. TellsOf(K, i)
    BY <1>4, <1>6, <1>7 DEF TellsOf, c
  <1>9. Tells(K, {i})
    BY <1>3, <1>6, <1>8 DEF Tells
  <1> QED BY <1>2, <1>3, <1>5, <1>9 DEF e

-----------------------------------------------------------------------------
(***************************************************************************)
(* Queues: an exception is in a portfolio once.                            *)
(***************************************************************************)
Distinct(queue) == \A m, n \in DOMAIN queue : queue[m] = queue[n] => m = n

LEMMA DistinctConcat ==
    ASSUME NEW S, NEW A \in Seq(S), Distinct(A), NEW T, NEW B \in Seq(T), Distinct(B),
           S \cap T = {}
    PROVE  A \o B \in Seq(S \cup T) /\ Distinct(A \o B)
  <1> DEFINE L == A \o B
             a == Len(A)
             b == Len(B)
  <1>1. /\ a \in Nat /\ b \in Nat /\ DOMAIN A = 1 .. a /\ DOMAIN B = 1 .. b
        /\ L \in Seq(S \cup T) /\ DOMAIN L = 1 .. (a + b)
        /\ \A k \in 1 .. a : L[k] = A[k]
        /\ \A k \in 1 .. b : L[a + k] = B[k]
    BY ConcatParts
  <1>2. (\A k \in 1 .. a : A[k] \in S) /\ (\A k \in 1 .. b : B[k] \in T)
    BY <1>1, ElementOfSeq
  <1> HIDE DEF L, a, b
  <1>3. ASSUME NEW k \in DOMAIN L, k \notin 1 .. a
        PROVE  k - a \in 1 .. b /\ a + (k - a) = k /\ L[k] = B[k - a] /\ L[k] \in T
    <2>1. k - a \in 1 .. b /\ a + (k - a) = k
      BY <1>1, <1>3
    <2> QED BY <1>1, <1>2, <2>1
  <1>4. ASSUME NEW m \in DOMAIN L, NEW n \in DOMAIN L, L[m] = L[n] PROVE m = n
    <2>1. CASE m \in 1 .. a /\ n \in 1 .. a
      BY <1>1, <1>4, <2>1 DEF Distinct
    <2>2. CASE m \notin 1 .. a /\ n \notin 1 .. a
      <3>1. m - a \in 1 .. b /\ n - a \in 1 .. b /\ B[m - a] = B[n - a]
        BY <1>3, <1>4, <2>2
      <3>2. m - a = n - a
        BY <1>1, <3>1 DEF Distinct
      <3>3. a + (m - a) = m /\ a + (n - a) = n
        BY <1>3, <2>2
      <3> QED BY <3>2, <3>3
    <2>3. CASE m \in 1 .. a /\ n \notin 1 .. a
      BY <1>1, <1>2, <1>3, <1>4, <2>3
    <2>4. CASE m \notin 1 .. a /\ n \in 1 .. a
      BY <1>1, <1>2, <1>3, <1>4, <2>4
    <2> QED BY <2>1, <2>2, <2>3, <2>4
  <1>5. Distinct(L)
    BY <1>4 DEF Distinct
  <1> QED BY <1>1, <1>5 DEF L

LEMMA WorthMostOfClass ==
    ASSUME NEW of \in SUBSET Exceptions
    PROVE  WorthMost(of) \in Seq(of) /\ Distinct(WorthMost(of))
  <1>1. CASE of = {}
    BY <1>1 DEF WorthMost, Distinct
  <1>2. CASE of # {}
    <2>1. IsFiniteSet(of) /\ \A e \in of : Amount[e] \in Nat
      BY FS_Subset, InvestigationAssumption
    <2>2. \E e \in of : \A d \in of : Amount[d] <= Amount[e]
      BY <1>2, <2>1, GreatestExists
    <2> DEFINE most == CHOOSE e \in of : \A d \in of : Amount[d] <= Amount[e]
    <2>3. most \in of
      BY <2>2
    <2>4. WorthMost(of) = <<most>>
      BY <1>2 DEF WorthMost
    <2> HIDE DEF most
    <2>5. <<most>> \in Seq(of) /\ DOMAIN <<most>> = {1}
      BY <2>3
    <2> QED BY <2>4, <2>5 DEF Distinct
  <1> QED BY <1>1, <1>2

LEMMA PortfolioDistinct ==
    ASSUME NEW open \in SUBSET Exceptions
    PROVE  Portfolio(open) \in Seq(Exceptions) /\ Distinct(Portfolio(open))
  <1> DEFINE of(k) == {e \in open : RiskOf(e) = k}
             A == of("fuzzy_reference")
             B == of("duplicate")
             C == of("refund")
             D == of("held_released_settlement")
             E == of("net_discrepancy")
             a == WorthMost(A)
             b == WorthMost(B)
             c == WorthMost(C)
             d == WorthMost(D)
             e1 == WorthMost(E)
  <1>1. Portfolio(open) = a \o b \o c \o d \o e1
    BY DEF Portfolio
  <1>2. /\ A \in SUBSET Exceptions /\ B \in SUBSET Exceptions /\ C \in SUBSET Exceptions
        /\ D \in SUBSET Exceptions /\ E \in SUBSET Exceptions
    OBVIOUS
  <1>3. /\ A \cap B = {} /\ (A \cup B) \cap C = {} /\ (A \cup B \cup C) \cap D = {}
        /\ (A \cup B \cup C \cup D) \cap E = {}
    OBVIOUS
  <1> HIDE DEF A, B, C, D, E
  <1>4. /\ a \in Seq(A) /\ b \in Seq(B) /\ c \in Seq(C) /\ d \in Seq(D) /\ e1 \in Seq(E)
        /\ Distinct(a) /\ Distinct(b) /\ Distinct(c) /\ Distinct(d) /\ Distinct(e1)
    BY <1>2, WorthMostOfClass
  <1> HIDE DEF a, b, c, d, e1
  <1>5. a \o b \in Seq(A \cup B) /\ Distinct(a \o b)
    BY <1>3, <1>4, DistinctConcat
  <1>6. a \o b \o c \in Seq(A \cup B \cup C) /\ Distinct(a \o b \o c)
    BY <1>3, <1>4, <1>5, DistinctConcat
  <1>7. a \o b \o c \o d \in Seq(A \cup B \cup C \cup D) /\ Distinct(a \o b \o c \o d)
    BY <1>3, <1>4, <1>6, DistinctConcat
  <1>8. /\ a \o b \o c \o d \o e1 \in Seq(A \cup B \cup C \cup D \cup E)
        /\ Distinct(a \o b \o c \o d \o e1)
    BY <1>3, <1>4, <1>7, DistinctConcat
  <1>9. A \cup B \cup C \cup D \cup E \subseteq Exceptions
    BY <1>2
  <1>10. Seq(A \cup B \cup C \cup D \cup E) \subseteq Seq(Exceptions)
    BY <1>9, SeqDef
  <1> QED BY <1>1, <1>8, <1>10

\* The rounds of an exception leave the queue to the request.
LEMMA FailedQueue ==
    ASSUME NEW s, HasFields(s), NEW code
    PROVE  Failed(s, code).queue = s.queue /\ Failed(s, code).pc \in {"asking", "persisting"}
  <1> DEFINE t == Failed(s, code)
             pc == IF s.provider >= Providers THEN "persisting" ELSE "asking"
             provider == s.provider + 1
             trace == Append(s.trace, Item(None, {}, "failed", code))
  <1>1. s = [pc |-> s.pc, queue |-> s.queue, provider |-> s.provider, round |-> s.round,
             results |-> s.results, trace |-> s.trace, cited |-> s.cited, code |-> s.code]
    BY DEF HasFields
  <1>2. t = [s EXCEPT !.pc = pc, !.provider = provider, !.round = 1, !.results = {},
                      !.cited = {}, !.code = code, !.trace = trace]
    BY DEF Failed
  <1>3. pc \in {"asking", "persisting"}
    OBVIOUS
  <1> HIDE DEF pc, provider, trace, t
  <1>4. t.queue = s.queue /\ t.pc = pc
    BY <1>1, <1>2
  <1> QED BY <1>3, <1>4 DEF t

LEMMA RecommendedQueue ==
    ASSUME NEW s, HasFields(s), NEW e, NEW cited
    PROVE  /\ Recommended(s, e, cited).queue = s.queue
           /\ Recommended(s, e, cited).pc \in {"asking", "persisting"}
  <1>1. CASE ~(cited # {} /\ cited \subseteq References[e] \cup s.results)
    BY <1>1, FailedQueue DEF Recommended
  <1>2. CASE cited # {} /\ cited \subseteq References[e] \cup s.results
    <2> DEFINE t == Recommended(s, e, cited)
               trace == Append(s.trace, Item(None, {}, "recommendation", None))
    <2>1. s = [pc |-> s.pc, queue |-> s.queue, provider |-> s.provider, round |-> s.round,
               results |-> s.results, trace |-> s.trace, cited |-> s.cited, code |-> s.code]
      BY DEF HasFields
    <2>2. t = [s EXCEPT !.pc = "persisting", !.cited = cited, !.code = None, !.trace = trace]
      BY <1>2 DEF Recommended
    <2> HIDE DEF t, trace
    <2>3. t.queue = s.queue /\ t.pc = "persisting"
      BY <2>1, <2>2
    <2> QED BY <2>3 DEF t
  <1> QED BY <1>1, <1>2

LEMMA CalledQueue ==
    ASSUME NEW s, HasFields(s), s.pc = "asking", NEW a, NEW refusal
    PROVE  /\ Called(s, a, refusal).queue = s.queue
           /\ Called(s, a, refusal).pc \in {"asking", "persisting"}
  <1> DEFINE item == Item(a.tool, a.ids,
                          IF refusal = None THEN "completed" ELSE "rejected", refusal)
             trace == Append(s.trace, item)
             t == [s EXCEPT !.trace = trace]
             results == t.results \cup Reads(a)
             round == t.round + 1
  <1>1. s = [pc |-> s.pc, queue |-> s.queue, provider |-> s.provider, round |-> s.round,
             results |-> s.results, trace |-> s.trace, cited |-> s.cited, code |-> s.code]
    BY DEF HasFields
  <1>2. Called(s, a, refusal) =
          IF refusal # None THEN Failed(t, refusal)
          ELSE IF OutOfRounds(s) THEN Failed(t, "tool_round_limit")
          ELSE [t EXCEPT !.results = results, !.round = round]
    BY DEF Called
  <1> HIDE DEF trace
  <1>3. t = [pc |-> s.pc, queue |-> s.queue, provider |-> s.provider, round |-> s.round,
             results |-> s.results, trace |-> trace, cited |-> s.cited, code |-> s.code]
    BY <1>1
  <1>4. HasFields(t) /\ t.queue = s.queue /\ t.pc = "asking"
    BY <1>3 DEF HasFields
  <1> HIDE DEF t, results, round
  <1>5. ([t EXCEPT !.results = results, !.round = round]).queue = t.queue
        /\ ([t EXCEPT !.results = results, !.round = round]).pc = t.pc
    BY <1>3
  <1> QED BY <1>2, <1>4, <1>5, FailedQueue

-----------------------------------------------------------------------------
(***************************************************************************)
(* The story of a request: what it has written of the exceptions it has    *)
(* done with, told by its events before anybody can read either.           *)
(***************************************************************************)
Told(s, t) == {i \in t.records : s.pc = "auditing" => i.exception # Head(s.queue)}

\* What is in the queue has not been written about, but for the exception whose
\* record waits for its events.
QueueOK(s, t) ==
    /\ s.queue \in Seq(Exceptions) /\ s.queue # <<>> /\ Distinct(s.queue)
    /\ \A i \in t.records, n \in DOMAIN s.queue :
        i.exception = s.queue[n] => n = 1 /\ s.pc = "auditing"

Waiting(s, t) ==
    \E i \in t.records :
        /\ i.exception = Head(s.queue) /\ i.trace = s.trace
        /\ \A j \in t.records : j.exception = Head(s.queue) => j = i

IsSeq(J) == \E S : J \in Seq(S)

TxTells(r, s, t) ==
    /\ IsSeq(t.events)
    /\ t.aborted => t.records = {} /\ t.events = <<>> /\ s.pc # "auditing"
    /\ s.pc \in Ended \cup {"idle"} => t.records = {} /\ t.events = <<>>
    /\ \A i \in t.records : i.request = r /\ Calls(i.trace) \in Nat
    /\ \A k \in DOMAIN t.events : t.events[k].by = r
    /\ Tells(t.events, Told(s, t))
    /\ s.pc \in {"asking", "persisting", "auditing"} => QueueOK(s, t)
    /\ s.pc = "auditing" => Waiting(s, t)

StoryInv ==
    /\ GroundInv
    /\ IsSeq(journal)
    /\ Tells(journal, saved)
    /\ \A i \in saved : i.request \in Requests /\ ask[i.request].pc = "done"
    /\ \A r \in Requests : TxTells(r, ask[r], tx[r])

\* Nothing written: nothing to tell.
LEMMA EmptyTells ==
    ASSUME NEW r, NEW s, NEW t, t.records = {}, t.events = <<>>, s.pc # "auditing",
           s.pc \in {"asking", "persisting"} =>
              s.queue \in Seq(Exceptions) /\ s.queue # <<>> /\ Distinct(s.queue)
    PROVE  TxTells(r, s, t)
  <1>1. t.events \in Seq({}) /\ DOMAIN t.events = {}
    OBVIOUS
  <1>2. IsSeq(t.events)
    BY <1>1 DEF IsSeq
  <1>3. Told(s, t) = {}
    BY DEF Told
  <1>4. Tells(t.events, Told(s, t))
    BY <1>3, NothingTells
  <1>5. s.pc \in {"asking", "persisting"} => QueueOK(s, t)
    BY DEF QueueOK
  <1> QED BY <1>1, <1>2, <1>4, <1>5 DEF TxTells

\* A step of one request that keeps to its own transaction.
LEMMA RequestStory ==
    ASSUME StoryInv, GroundInv', NEW r \in Requests, NEW s, NEW t,
           ask' = [ask EXCEPT ![r] = s], tx' = [tx EXCEPT ![r] = t],
           UNCHANGED <<saved, journal>>, ask[r].pc # "done", TxTells(r, s, t)
    PROVE  StoryInv'
  <1>1. \A q \in Requests : /\ ask'[q] = IF q = r THEN s ELSE ask[q]
                            /\ tx'[q] = IF q = r THEN t ELSE tx[q]
    BY DEF StoryInv, GroundInv
  <1>2. ASSUME NEW q \in Requests PROVE TxTells(q, ask'[q], tx'[q])
    <2>1. CASE q = r
      BY <1>1, <2>1
    <2>2. CASE q # r
      <3>1. ask'[q] = ask[q] /\ tx'[q] = tx[q]
        BY <1>1, <2>2
      <3>2. TxTells(q, ask[q], tx[q])
        BY DEF StoryInv
      <3> QED BY <3>1, <3>2
    <2> QED BY <2>1, <2>2
  <1>3. ASSUME NEW i \in saved PROVE i.request \in Requests /\ ask'[i.request].pc = "done"
    BY <1>1 DEF StoryInv
  <1>4. IsSeq(journal)' /\ Tells(journal, saved)'
    BY DEF StoryInv
  <1> QED BY <1>2, <1>3, <1>4 DEF StoryInv

\* Another round, or another provider.
LEMMA RoundStory ==
    ASSUME NEW r, NEW s, NEW t, NEW u, TxTells(r, s, t), s.pc \in {"asking", "persisting"},
           u.queue = s.queue, u.pc \in {"asking", "persisting"}
    PROVE  TxTells(r, u, t)
  <1>1. Told(u, t) = Told(s, t)
    BY DEF Told
  <1>2. QueueOK(u, t)
    BY DEF TxTells, QueueOK
  <1> QED BY <1>1, <1>2 DEF TxTells, Ended

LEMMA StoryParts ==
    ASSUME StoryInv, NEW r \in Requests
    PROVE  /\ AskOK(ask[r]) /\ HasFields(ask[r]) /\ TxTells(r, ask[r], tx[r])
           /\ tx[r] = [records |-> tx[r].records, events |-> tx[r].events,
                       aborted |-> tx[r].aborted]
           /\ ask = [q \in Requests |-> ask[q]] /\ tx = [q \in Requests |-> tx[q]]
  BY DEF StoryInv, GroundInv, AskOK, TxOK

LEMMA AskStory == ASSUME StoryInv, NEW r \in Requests, Ask(r) PROVE StoryInv'
  <1>1. GroundInv'
    BY AskGround DEF StoryInv
  <1>2. /\ ask[r].pc = "asking" /\ HasFields(ask[r]) /\ TxTells(r, ask[r], tx[r])
        /\ UNCHANGED <<tx, saved, journal>>
    BY StoryParts DEF Ask
  <1>3. \E u : /\ ask' = [ask EXCEPT ![r] = u]
               /\ u.queue = ask[r].queue /\ u.pc \in {"asking", "persisting"}
    <2> DEFINE s == ask[r]
               e == Subject(r)
    <2>1. PICK a \in Answers[r] :
            \/ ask' = [ask EXCEPT ![r] = Failed(s, a.code)]
            \/ ask' = [ask EXCEPT ![r] = Recommended(s, e, a.cited)]
            \/ \E refusal \in Refusals(e, a, tx[r].aborted) :
                  ask' = [ask EXCEPT ![r] = Called(s, a, refusal)]
      BY DEF Ask
    <2> HIDE DEF s, e
    <2>2. HasFields(s) /\ s.pc = "asking" /\ s.queue = ask[r].queue
      BY <1>2 DEF s
    <2>3. CASE ask' = [ask EXCEPT ![r] = Failed(s, a.code)]
      BY <2>2, <2>3, FailedQueue
    <2>4. CASE ask' = [ask EXCEPT ![r] = Recommended(s, e, a.cited)]
      BY <2>2, <2>4, RecommendedQueue
    <2>5. ASSUME NEW refusal, ask' = [ask EXCEPT ![r] = Called(s, a, refusal)]
          PROVE  \E u : /\ ask' = [ask EXCEPT ![r] = u]
                        /\ u.queue = ask[r].queue /\ u.pc \in {"asking", "persisting"}
      BY <2>2, <2>5, CalledQueue
    <2> QED BY <2>1, <2>3, <2>4, <2>5
  <1>4. PICK u : /\ ask' = [ask EXCEPT ![r] = u]
                 /\ u.queue = ask[r].queue /\ u.pc \in {"asking", "persisting"}
    BY <1>3
  <1>5. TxTells(r, u, tx[r])
    BY <1>2, <1>4, RoundStory
  <1>6. tx' = [tx EXCEPT ![r] = tx[r]]
    BY <1>2, StoryParts
  <1> QED BY <1>1, <1>2, <1>4, <1>5, <1>6, RequestStory

\* Begin on a queue.
LEMMA BeginFields ==
    ASSUME NEW queue
    PROVE  Begin(queue).queue = queue /\ Begin(queue).pc \in {"asking", "persisting"}
  BY DEF Begin

LEMMA PcFields ==
    ASSUME NEW s, HasFields(s), NEW pc
    PROVE  /\ ([s EXCEPT !.pc = pc]).pc = pc
           /\ ([s EXCEPT !.pc = pc]).queue = s.queue
           /\ ([s EXCEPT !.pc = pc]).trace = s.trace
  BY DEF HasFields

LEMMA StartStory ==
    ASSUME StoryInv, NEW r \in Requests, StartOne(r) \/ StartPortfolio(r) PROVE StoryInv'
  <1>1. GroundInv'
    BY StartGround DEF StoryInv
  <1>2. /\ ask[r].pc = "idle" /\ UNCHANGED <<tx, saved, journal>>
        /\ HasFields(ask[r]) /\ TxTells(r, ask[r], tx[r])
    BY StoryParts DEF StartOne, StartPortfolio
  <1>3. tx[r].records = {} /\ tx[r].events = <<>>
    BY <1>2 DEF TxTells
  <1>4. \E u : /\ ask' = [ask EXCEPT ![r] = u]
               /\ \/ u.pc = "done"
                  \/ /\ u.pc \in {"asking", "persisting"}
                     /\ u.queue \in Seq(Exceptions) /\ u.queue # <<>> /\ Distinct(u.queue)
    <2>1. CASE StartOne(r)
      <3>1. PICK e \in Exceptions : ask' = [ask EXCEPT ![r] = Begin(<<e>>)]
        BY <2>1 DEF StartOne
      <3>2. <<e>> \in Seq(Exceptions) /\ <<e>> # <<>> /\ Distinct(<<e>>)
        BY DEF Distinct
      <3> QED BY <3>1, <3>2, BeginFields
    <2>2. CASE StartPortfolio(r)
      <3> DEFINE open == Exceptions \ decided
                 queue == Portfolio(open)
      <3>1. ask' = [ask EXCEPT ![r] = IF queue = <<>> THEN [ask[r] EXCEPT !.pc = "done"]
                                      ELSE Begin(queue)]
        BY <2>2 DEF StartPortfolio
      <3>2. open \in SUBSET Exceptions
        OBVIOUS
      <3> HIDE DEF open
      <3>3. queue \in Seq(Exceptions) /\ Distinct(queue)
        BY <3>2, PortfolioDistinct
      <3> HIDE DEF queue
      <3>4. CASE queue = <<>>
        <4> DEFINE u == [ask[r] EXCEPT !.pc = "done"]
        <4>1. u.pc = "done"
          BY <1>2, PcFields
        <4>2. ask' = [ask EXCEPT ![r] = u]
          BY <3>1, <3>4
        <4> HIDE DEF u
        <4> QED BY <4>1, <4>2
      <3>5. CASE queue # <<>>
        BY <3>1, <3>3, <3>5, BeginFields
      <3> QED BY <3>4, <3>5
    <2> QED BY <2>1, <2>2
  <1>5. PICK u : /\ ask' = [ask EXCEPT ![r] = u]
                 /\ \/ u.pc = "done"
                    \/ /\ u.pc \in {"asking", "persisting"}
                       /\ u.queue \in Seq(Exceptions) /\ u.queue # <<>> /\ Distinct(u.queue)
    BY <1>4
  <1>6. TxTells(r, u, tx[r])
    BY <1>3, <1>5, EmptyTells
  <1>7. tx' = [tx EXCEPT ![r] = tx[r]]
    BY <1>2, StoryParts
  <1> QED BY <1>1, <1>2, <1>5, <1>6, <1>7, RequestStory

LEMMA PersistStory == ASSUME StoryInv, NEW r \in Requests, Persist(r) PROVE StoryInv'
  <1> DEFINE s == ask[r]
             i == Record(r)
             u == [s EXCEPT !.pc = "auditing"]
             t == [records |-> tx[r].records \cup {i}, events |-> tx[r].events,
                   aborted |-> tx[r].aborted]
  <1>1. GroundInv'
    BY PersistGround DEF StoryInv
  <1>2. /\ s.pc = "persisting" /\ ~tx[r].aborted /\ UNCHANGED <<saved, journal>>
        /\ HasFields(s) /\ AskOK(s) /\ TxTells(r, s, tx[r])
    BY StoryParts DEF Persist
  <1>3. /\ ask' = [ask EXCEPT ![r] = u]
        /\ tx' = [tx EXCEPT ![r] = t]
    <2>1. tx' = [tx EXCEPT ![r].records = tx[r].records \cup {i}] /\ ask' = [ask EXCEPT ![r] = u]
      BY DEF Persist
    <2>2. [tx[r] EXCEPT !.records = tx[r].records \cup {i}] = t
      <3> DEFINE more == tx[r].records \cup {i}
      <3>1. tx[r] = [records |-> tx[r].records, events |-> tx[r].events,
                     aborted |-> tx[r].aborted]
        BY StoryParts
      <3>2. t = [records |-> more, events |-> tx[r].events, aborted |-> tx[r].aborted]
        OBVIOUS
      <3> HIDE DEF t, more
      <3>3. [tx[r] EXCEPT !.records = more] = t
        BY <3>1, <3>2
      <3> QED BY <3>3 DEF more
    <2>3. tx' = [tx EXCEPT ![r] = [tx[r] EXCEPT !.records = tx[r].records \cup {i}]]
      BY <2>1
    <2> QED BY <2>1, <2>2, <2>3
  <1>4. u.pc = "auditing" /\ u.queue = s.queue /\ u.trace = s.trace
    BY <1>2, PcFields
  <1>5. i.request = r /\ i.exception = Head(s.queue) /\ i.trace = s.trace
    BY DEF Record, Subject
  <1>6. Calls(s.trace) \in Nat
    BY <1>2, CallsAreNat DEF AskOK
  <1>7. /\ s.queue \in Seq(Exceptions) /\ s.queue # <<>> /\ Distinct(s.queue)
        /\ 1 \in DOMAIN s.queue /\ Head(s.queue) = s.queue[1]
        /\ \A j \in tx[r].records : \A n \in DOMAIN s.queue : j.exception # s.queue[n]
    <2>1. QueueOK(s, tx[r])
      BY <1>2 DEF TxTells
    <2> QED BY <1>2, <2>1 DEF QueueOK
  <1> HIDE DEF s, i, u
  <1>8. Told(u, t) = Told(s, tx[r])
    BY <1>2, <1>4, <1>5, <1>7 DEF Told
  <1>9. QueueOK(u, t)
    <2>1. ASSUME NEW j \in t.records, NEW n \in DOMAIN u.queue, j.exception = u.queue[n]
          PROVE  n = 1
      BY <1>4, <1>5, <1>7, <2>1 DEF Distinct
    <2> QED BY <1>4, <1>7, <2>1 DEF QueueOK
  <1>10. Waiting(u, t)
    <2>1. \A j \in t.records : j.exception = Head(u.queue) => j = i
      BY <1>4, <1>7
    <2> QED BY <1>4, <1>5, <2>1 DEF Waiting
  <1>11. \A j \in t.records : j.request = r /\ Calls(j.trace) \in Nat
    BY <1>2, <1>5, <1>6 DEF TxTells
  <1>12. TxTells(r, u, t)
    BY <1>2, <1>4, <1>8, <1>9, <1>10, <1>11 DEF TxTells, Ended
  <1>13. ask[r].pc # "done"
    BY <1>2 DEF s
  <1> HIDE DEF t
  <1> QED BY <1>1, <1>2, <1>3, <1>12, <1>13, RequestStory

LEMMA AbortedFields ==
    /\ Aborted.records = {} /\ Aborted.events = <<>>
    /\ NewTx.records = {} /\ NewTx.events = <<>>
  BY DEF Aborted, NewTx

LEMMA PersistFailsStory ==
    ASSUME StoryInv, NEW r \in Requests, PersistFails(r) PROVE StoryInv'
  <1> DEFINE s == ask[r]
             u == IF s.provider > Providers THEN [s EXCEPT !.pc = "failed"]
                  ELSE Failed(s, "malformed_response")
  <1>1. GroundInv'
    BY PersistFailsGround DEF StoryInv
  <1>2. /\ s.pc = "persisting" /\ UNCHANGED <<saved, journal>>
        /\ HasFields(s) /\ TxTells(r, s, tx[r])
        /\ ask' = [ask EXCEPT ![r] = u] /\ tx' = [tx EXCEPT ![r] = Aborted]
    BY StoryParts DEF PersistFails
  <1>3. u.pc = "failed" \/ (u.pc \in {"asking", "persisting"} /\ u.queue = s.queue)
    BY <1>2, PcFields, FailedQueue
  <1>4. s.queue \in Seq(Exceptions) /\ s.queue # <<>> /\ Distinct(s.queue)
    BY <1>2 DEF TxTells, QueueOK
  <1>5. ask[r].pc # "done"
    BY <1>2
  <1> HIDE DEF u
  <1>6. TxTells(r, u, Aborted)
    BY <1>3, <1>4, AbortedFields, EmptyTells
  <1> QED BY <1>1, <1>2, <1>5, <1>6, RequestStory

\* What is left of a queue.
LEMMA RestOfQueue ==
    ASSUME NEW S, NEW q \in Seq(S), q # <<>>, Len(q) # 1, Distinct(q)
    PROVE  /\ Tail(q) \in Seq(S) /\ Tail(q) # <<>> /\ Distinct(Tail(q))
           /\ \A n \in DOMAIN Tail(q) :
                 /\ Tail(q)[n] # Head(q) /\ n \in Nat
                 /\ n + 1 \in DOMAIN q /\ Tail(q)[n] = q[n + 1]
  <1> DEFINE rest == Tail(q)
  <1>1. Len(q) \in Nat /\ Len(q) > 1 /\ DOMAIN q = 1 .. Len(q)
    <2>1. Len(q) \in Nat /\ DOMAIN q = 1 .. Len(q)
      BY LenProperties
    <2>2. Len(q) # 0
      BY EmptySeq
    <2> QED BY <2>1, <2>2
  <1>2. /\ rest \in Seq(S) /\ Len(rest) = Len(q) - 1
        /\ \A n \in 1 .. Len(rest) : rest[n] = q[n + 1]
    BY HeadTailProperties
  <1>3. Head(q) = q[1]
    BY <1>1
  <1> HIDE DEF rest
  <1>4. DOMAIN rest = 1 .. Len(q) - 1 /\ rest # <<>>
    BY <1>1, <1>2, LenProperties
  <1>5. ASSUME NEW n \in DOMAIN rest
        PROVE  n + 1 \in DOMAIN q /\ rest[n] = q[n + 1] /\ n + 1 # 1 /\ 1 \in DOMAIN q /\ n \in Nat
    BY <1>1, <1>2, <1>4
  <1>6. ASSUME NEW n \in DOMAIN rest PROVE rest[n] # Head(q)
    BY <1>3, <1>5 DEF Distinct
  <1>7. ASSUME NEW m \in DOMAIN rest, NEW n \in DOMAIN rest, rest[m] = rest[n] PROVE m = n
    <2>1. m + 1 = n + 1
      BY <1>5, <1>7 DEF Distinct
    <2>2. m \in Nat /\ n \in Nat
      BY <1>5
    <2> QED BY <2>1, <2>2
  <1>8. Distinct(rest)
    BY <1>7 DEF Distinct
  <1> QED BY <1>2, <1>4, <1>5, <1>6, <1>8 DEF rest

\* After its events a request goes on with the rest of its queue, or commits.
LEMMA ProceedFields ==
    ASSUME NEW s, HasFields(s), s.queue \in Seq(Exceptions), s.queue # <<>>, Distinct(s.queue)
    PROVE  \/ Proceed(s).pc = "committing"
           \/ /\ Proceed(s).pc \in {"asking", "persisting"}
              /\ Proceed(s).queue \in Seq(Exceptions) /\ Proceed(s).queue # <<>>
              /\ Distinct(Proceed(s).queue)
              /\ \A n \in DOMAIN Proceed(s).queue :
                    /\ Proceed(s).queue[n] # Head(s.queue) /\ n \in Nat
                    /\ n + 1 \in DOMAIN s.queue /\ Proceed(s).queue[n] = s.queue[n + 1]
  <1>1. CASE Len(s.queue) = 1
    <2>1. Proceed(s).pc = "committing"
      BY <1>1, PcFields DEF Proceed
    <2> QED BY <2>1
  <1>2. CASE Len(s.queue) # 1
    <2> DEFINE p == Proceed(s)
    <2>1. p = Begin(Tail(s.queue))
      BY <1>2 DEF Proceed
    <2>2. p.queue = Tail(s.queue) /\ p.pc \in {"asking", "persisting"}
      BY <2>1, BeginFields
    <2> HIDE DEF p
    <2>3. /\ Tail(s.queue) \in Seq(Exceptions) /\ Tail(s.queue) # <<>>
          /\ Distinct(Tail(s.queue))
          /\ \A n \in DOMAIN Tail(s.queue) :
                /\ Tail(s.queue)[n] # Head(s.queue) /\ n \in Nat
                /\ n + 1 \in DOMAIN s.queue /\ Tail(s.queue)[n] = s.queue[n + 1]
      BY <1>2, RestOfQueue
    <2> QED BY <2>2, <2>3 DEF p
  <1> QED BY <1>1, <1>2

LEMMA SeqJoined ==
    ASSUME NEW J, NEW K, IsSeq(J), IsSeq(K) PROVE IsSeq(J \o K)
  <1>1. PICK S : J \in Seq(S)
    BY DEF IsSeq
  <1>2. PICK T : K \in Seq(T)
    BY DEF IsSeq
  <1>3. J \o K \in Seq(S \cup T)
    BY <1>1, <1>2, ConcatParts
  <1> QED BY <1>3 DEF IsSeq

LEMMA TellsJoined ==
    ASSUME NEW J, NEW K, IsSeq(J), IsSeq(K), NEW I, NEW M, Tells(J, I), Tells(K, M),
           \A i \in M : Calls(i.trace) \in Nat,
           \A i \in I : AboutIn(K, i) = {}, \A i \in M : AboutIn(J, i) = {}
    PROVE  Tells(J \o K, I \cup M)
  <1>1. PICK S : J \in Seq(S)
    BY DEF IsSeq
  <1>2. PICK T : K \in Seq(T)
    BY DEF IsSeq
  <1> QED BY <1>1, <1>2, TellsConcat

\* The events of the investigation a transaction waits with complete its story.
LEMMA AuditStory == ASSUME StoryInv, NEW r \in Requests, Audit(r) PROVE StoryInv'
  <1> DEFINE s == ask[r]
             u == Proceed(s)
             old == tx[r].events
             new == EventsOf(r)
             t == [records |-> tx[r].records, events |-> old \o new, aborted |-> tx[r].aborted]
  <1>1. GroundInv'
    BY AuditGround DEF StoryInv
  <1>2. /\ s.pc = "auditing" /\ UNCHANGED <<saved, journal>>
        /\ HasFields(s) /\ AskOK(s) /\ TxTells(r, s, tx[r])
        /\ ask' = [ask EXCEPT ![r] = u]
    BY StoryParts DEF Audit
  <1>3. tx' = [tx EXCEPT ![r] = t]
    <2>1. tx' = [tx EXCEPT ![r].events = old \o new]
      BY DEF Audit
    <2>2. tx[r] = [records |-> tx[r].records, events |-> tx[r].events, aborted |-> tx[r].aborted]
      BY StoryParts
    <2> DEFINE both == old \o new
    <2>3. t = [records |-> tx[r].records, events |-> both, aborted |-> tx[r].aborted]
      OBVIOUS
    <2>4. tx' = [tx EXCEPT ![r] = [tx[r] EXCEPT !.events = both]]
      BY <2>1
    <2> HIDE DEF t, both
    <2>5. [tx[r] EXCEPT !.events = both] = t
      BY <2>2, <2>3
    <2> QED BY <2>4, <2>5
  <1>4. t.records = tx[r].records /\ t.events = old \o new /\ t.aborted = tx[r].aborted
    OBVIOUS
  <1>5. Subject(r) = Head(s.queue)
    BY DEF Subject
  <1>6. /\ QueueOK(s, tx[r]) /\ Waiting(s, tx[r]) /\ ~tx[r].aborted /\ IsSeq(old)
        /\ \A i \in tx[r].records : i.request = r /\ Calls(i.trace) \in Nat
        /\ \A k \in DOMAIN old : old[k].by = r
        /\ Tells(old, Told(s, tx[r]))
    BY <1>2 DEF TxTells
  <1>7. PICK i \in tx[r].records :
          /\ i.exception = Head(s.queue) /\ i.trace = s.trace
          /\ \A j \in tx[r].records : j.exception = Head(s.queue) => j = i
    BY <1>6 DEF Waiting
  <1>8. i.request = r /\ Calls(i.trace) \in Nat
    BY <1>6
  <1>9. \E S : ask[r].trace \in Seq(S)
    BY <1>2 DEF AskOK
  <1>10. /\ \E T : new \in Seq(T)
         /\ Tells(new, {i})
         /\ \A k \in DOMAIN new : new[k].by = r /\ new[k].exception = Head(s.queue)
    BY <1>5, <1>7, <1>8, <1>9, EventsTell
  <1> HIDE DEF s, u, old, new, t
  <1>11. IsSeq(new)
    BY <1>10 DEF IsSeq
  <1>12. Told(s, tx[r]) = tx[r].records \ {i} /\ Told(s, tx[r]) \cup {i} = tx[r].records
    BY <1>2, <1>7 DEF Told
  <1>13. \A j \in Told(s, tx[r]) : AboutIn(new, j) = {}
    BY <1>2, <1>10 DEF Told, AboutIn
  <1>14. AboutIn(old, i) = {}
    <2> SUFFICES ASSUME NEW k \in AboutIn(old, i) PROVE FALSE
      OBVIOUS
    <2>1. k \in DOMAIN old /\ old[k].by = r /\ old[k].exception = i.exception
      BY <1>8 DEF AboutIn
    <2>2. PICK j \in Told(s, tx[r]) : k \in AboutIn(old, j)
      BY <1>6, <2>1 DEF Tells
    <2>3. old[k].exception = j.exception /\ j.exception # Head(s.queue)
      BY <1>2, <2>2 DEF AboutIn, Told
    <2> QED BY <1>7, <2>1, <2>3
  <1>15. Tells(old \o new, tx[r].records)
    <2>1. \A j \in {i} : Calls(j.trace) \in Nat /\ AboutIn(old, j) = {}
      BY <1>8, <1>14
    <2>2. Tells(old \o new, Told(s, tx[r]) \cup {i})
      BY <1>6, <1>10, <1>11, <1>13, <2>1, TellsJoined
    <2> QED BY <1>12, <2>2
  <1>16. \/ u.pc = "committing"
         \/ /\ u.pc \in {"asking", "persisting"}
            /\ u.queue \in Seq(Exceptions) /\ u.queue # <<>> /\ Distinct(u.queue)
            /\ \A n \in DOMAIN u.queue :
                  /\ u.queue[n] # Head(s.queue) /\ n \in Nat
                  /\ n + 1 \in DOMAIN s.queue /\ u.queue[n] = s.queue[n + 1]
    BY <1>2, <1>6, ProceedFields DEF QueueOK, u
  <1>17. u.pc \in {"asking", "persisting"} => QueueOK(u, t)
    <2> SUFFICES ASSUME u.pc \in {"asking", "persisting"} PROVE QueueOK(u, t)
      OBVIOUS
    <2>1. ASSUME NEW j \in t.records, NEW n \in DOMAIN u.queue, j.exception = u.queue[n]
          PROVE  FALSE
      <3>1. n \in Nat /\ n + 1 \in DOMAIN s.queue /\ j.exception = s.queue[n + 1]
        BY <1>16, <2>1
      <3>2. n + 1 = 1
        BY <1>4, <1>6, <3>1 DEF QueueOK
      <3>3. n = 0
        BY <3>1, <3>2
      <3>4. n \in 1 .. Len(u.queue)
        BY <1>16, LenProperties
      <3> QED BY <3>3, <3>4
    <2> QED BY <1>16, <2>1 DEF QueueOK
  <1>18. Told(u, t) = tx[r].records
    BY <1>4, <1>16 DEF Told
  <1>19. IsSeq(t.events)
    BY <1>4, <1>6, <1>11, SeqJoined
  <1>20. \A k \in DOMAIN t.events : t.events[k].by = r
    <2>1. PICK S : old \in Seq(S)
      BY <1>6 DEF IsSeq
    <2>2. PICK T : new \in Seq(T)
      BY <1>10
    <2>3. /\ Len(old) \in Nat /\ Len(new) \in Nat
          /\ DOMAIN old = 1 .. Len(old) /\ DOMAIN new = 1 .. Len(new)
          /\ DOMAIN (old \o new) = 1 .. (Len(old) + Len(new))
          /\ \A k \in 1 .. Len(old) : (old \o new)[k] = old[k]
          /\ \A k \in 1 .. Len(new) : (old \o new)[Len(old) + k] = new[k]
      BY <2>1, <2>2, ConcatParts
    <2>4. ASSUME NEW k \in DOMAIN (old \o new) PROVE (old \o new)[k].by = r
      <3>1. CASE k \in 1 .. Len(old)
        BY <1>6, <2>3, <3>1
      <3>2. CASE k \notin 1 .. Len(old)
        <4>1. k - Len(old) \in 1 .. Len(new) /\ Len(old) + (k - Len(old)) = k
          BY <2>3, <3>2
        <4> QED BY <1>10, <2>3, <4>1
      <3> QED BY <3>1, <3>2
    <2> QED BY <1>4, <2>4
  <1>21. TxTells(r, u, t)
    BY <1>4, <1>6, <1>15, <1>16, <1>17, <1>18, <1>19, <1>20 DEF TxTells, Ended
  <1>22. ask[r].pc # "done"
    BY <1>2 DEF s
  <1> QED BY <1>1, <1>2, <1>3, <1>21, <1>22, RequestStory

LEMMA AuditFailsStory ==
    ASSUME StoryInv, NEW r \in Requests, AuditFails(r) PROVE StoryInv'
  <1> DEFINE s == ask[r]
             u == Proceed(s)
  <1>1. GroundInv'
    BY AuditGround DEF StoryInv
  <1>2. /\ s.pc = "auditing" /\ UNCHANGED <<saved, journal>>
        /\ HasFields(s) /\ TxTells(r, s, tx[r])
        /\ ask' = [ask EXCEPT ![r] = u] /\ tx' = [tx EXCEPT ![r] = Aborted]
    BY StoryParts DEF AuditFails, AuditLost
  <1>3. QueueOK(s, tx[r])
    BY <1>2 DEF TxTells
  <1> HIDE DEF s, u
  <1>4. \/ u.pc = "committing"
        \/ /\ u.pc \in {"asking", "persisting"}
           /\ u.queue \in Seq(Exceptions) /\ u.queue # <<>> /\ Distinct(u.queue)
    BY <1>2, <1>3, ProceedFields DEF QueueOK, u
  <1>5. TxTells(r, u, Aborted)
    BY <1>4, AbortedFields, EmptyTells
  <1>6. ask[r].pc # "done"
    BY <1>2 DEF s
  <1> QED BY <1>1, <1>2, <1>5, <1>6, RequestStory

LEMMA StopStory ==
    ASSUME StoryInv, NEW r \in Requests, NEW pc \in {"failed", "died"}, Stop(r, pc)
    PROVE  StoryInv'
  <1> DEFINE u == [ask[r] EXCEPT !.pc = pc]
  <1>1. GroundInv'
    BY StopGround DEF StoryInv
  <1>2. /\ ask[r].pc # "done" /\ UNCHANGED <<saved, journal>> /\ HasFields(ask[r])
        /\ ask' = [ask EXCEPT ![r] = u] /\ tx' = [tx EXCEPT ![r] = NewTx]
    BY StoryParts DEF Stop, Ended
  <1>3. u.pc = pc
    BY <1>2, PcFields
  <1> HIDE DEF u
  <1>4. TxTells(r, u, NewTx)
    BY <1>3, AbortedFields, EmptyTells
  <1> QED BY <1>1, <1>2, <1>4, RequestStory

\* A commit appends the story of a transaction to the journal in one piece.
LEMMA CommitStory == ASSUME StoryInv, NEW r \in Requests, Commit(r) PROVE StoryInv'
  <1> DEFINE s == ask[r]
             u == [s EXCEPT !.pc = "done"]
             more == tx[r].records
             events == tx[r].events
  <1>1. GroundInv'
    BY CommitGround DEF StoryInv
  <1>2. /\ s.pc = "committing" /\ HasFields(s) /\ TxTells(r, s, tx[r])
        /\ ask' = [ask EXCEPT ![r] = u] /\ tx' = [tx EXCEPT ![r] = NewTx]
        /\ saved' = saved \cup more /\ journal' = journal \o events
    BY StoryParts DEF Commit
  <1>3. u.pc = "done"
    BY <1>2, PcFields
  <1>4. Told(s, tx[r]) = more
    BY <1>2 DEF Told
  <1>5. /\ IsSeq(events) /\ Tells(events, more)
        /\ \A i \in more : i.request = r /\ Calls(i.trace) \in Nat
        /\ \A k \in DOMAIN events : events[k].by = r
    BY <1>2, <1>4 DEF TxTells
  <1> HIDE DEF u, more, events
  <1>6. /\ IsSeq(journal) /\ Tells(journal, saved)
        /\ \A i \in saved : i.request \in Requests /\ ask[i.request].pc = "done"
    BY DEF StoryInv
  <1>7. \A i \in saved : AboutIn(events, i) = {}
    <2>1. \A i \in saved : i.request # r
      BY <1>2, <1>6
    <2> QED BY <1>5, <2>1 DEF AboutIn
  <1>8. \A i \in more : AboutIn(journal, i) = {}
    <2> SUFFICES ASSUME NEW i \in more, NEW k \in AboutIn(journal, i) PROVE FALSE
      OBVIOUS
    <2>1. k \in DOMAIN journal /\ journal[k].by = r
      BY <1>5 DEF AboutIn
    <2>2. PICK j \in saved : k \in AboutIn(journal, j)
      BY <1>6, <2>1 DEF Tells
    <2>3. j.request = r
      BY <2>1, <2>2 DEF AboutIn
    <2> QED BY <1>2, <1>6, <2>2, <2>3
  <1>9. IsSeq(journal)' /\ Tells(journal, saved)'
    <2>1. IsSeq(journal \o events) /\ Tells(journal \o events, saved \cup more)
      BY <1>5, <1>6, <1>7, <1>8, SeqJoined, TellsJoined
    <2> QED BY <1>2, <2>1
  <1>10. \A q \in Requests : /\ ask'[q] = IF q = r THEN u ELSE ask[q]
                             /\ tx'[q] = IF q = r THEN NewTx ELSE tx[q]
    BY <1>2, StoryParts
  <1>11. TxTells(r, u, NewTx)
    BY <1>3, AbortedFields, EmptyTells
  <1>12. ASSUME NEW q \in Requests PROVE TxTells(q, ask'[q], tx'[q])
    <2>1. CASE q = r
      BY <1>10, <1>11, <2>1
    <2>2. CASE q # r
      <3>1. ask'[q] = ask[q] /\ tx'[q] = tx[q]
        BY <1>10, <2>2
      <3>2. TxTells(q, ask[q], tx[q])
        BY DEF StoryInv
      <3> QED BY <3>1, <3>2
    <2> QED BY <2>1, <2>2
  <1>13. ASSUME NEW i \in saved' PROVE i.request \in Requests /\ ask'[i.request].pc = "done"
    <2>1. CASE i \in saved
      BY <1>3, <1>6, <1>10, <2>1
    <2>2. CASE i \in more
      BY <1>3, <1>5, <1>10, <2>2
    <2> QED BY <1>2, <2>1, <2>2
  <1> QED BY <1>1, <1>9, <1>12, <1>13 DEF StoryInv

\* Nothing a request wrote or committed changes.
LEMMA OthersStory ==
    ASSUME StoryInv, UNCHANGED <<ask, tx, saved>>, IsSeq(journal)', Tells(journal, saved)'
    PROVE  StoryInv'
  <1>1. GroundInv'
    BY SameGround DEF StoryInv
  <1>2. \A r \in Requests : TxTells(r, ask'[r], tx'[r])
    BY DEF StoryInv
  <1>3. \A i \in saved' : i.request \in Requests /\ ask'[i.request].pc = "done"
    BY DEF StoryInv
  <1> QED BY <1>1, <1>2, <1>3 DEF StoryInv

LEMMA SameStory == ASSUME StoryInv, UNCHANGED <<ask, tx, saved, journal>> PROVE StoryInv'
  <1>1. IsSeq(journal)' /\ Tells(journal, saved)'
    BY DEF StoryInv
  <1> QED BY <1>1, OthersStory

\* The event of a review is nobody's investigation.
LEMMA ReviewStory == ASSUME StoryInv, NEW v \in Reviews, ReviewCommits(v) PROVE StoryInv'
  <1> DEFINE e == [type |-> "review", by |-> v, exception |-> rev[v].exception]
             one == <<e>>
  <1>1. journal' = Append(journal, e) /\ UNCHANGED <<ask, tx, saved>>
    BY DEF ReviewCommits
  <1>2. one \in Seq({e}) /\ DOMAIN one = {1} /\ one[1].by = v
    OBVIOUS
  <1>3. IsSeq(journal) /\ Tells(journal, saved)
        /\ \A i \in saved : i.request \in Requests
    BY DEF StoryInv
  <1>4. Append(journal, e) = journal \o one
    <2>1. PICK S : journal \in Seq(S)
      BY <1>3 DEF IsSeq
    <2> HIDE DEF e
    <2>2. journal \in Seq(S \cup {e}) /\ e \in S \cup {e}
      BY <2>1
    <2> QED BY <2>2, AppendIsConcat
  <1>5. v \notin Requests
    BY InvestigationAssumption
  <1> HIDE DEF e, one
  <1>6. IsSeq(one)
    BY <1>2 DEF IsSeq
  <1>7. Tells(one, {})
    BY <1>2, <1>5 DEF Tells
  <1>8. \A i \in saved : AboutIn(one, i) = {}
    BY <1>2, <1>3, <1>5 DEF AboutIn
  <1>9. Tells(journal \o one, saved \cup {}) /\ IsSeq(journal \o one)
    BY <1>3, <1>6, <1>7, <1>8, SeqJoined, TellsJoined
  <1>10. saved \cup {} = saved
    OBVIOUS
  <1>11. IsSeq(journal)' /\ Tells(journal, saved)'
    BY <1>1, <1>4, <1>9, <1>10
  <1> QED BY <1>1, <1>11, OthersStory

LEMMA InitStory == Init => StoryInv
  <1> SUFFICES ASSUME Init PROVE StoryInv
    OBVIOUS
  <1>1. GroundInv
    BY InitGround
  <1>2. journal = <<>> /\ saved = {}
    BY DEF Init
  <1>3. IsSeq(journal)
    <2>1. journal \in Seq({})
      BY <1>2
    <2> QED BY <2>1 DEF IsSeq
  <1>4. ASSUME NEW r \in Requests PROVE TxTells(r, ask[r], tx[r])
    <2>1. ask[r] = Idle /\ tx[r] = NewTx
      BY DEF Init
    <2>2. Idle.pc = "idle"
      BY DEF Idle, Begin
    <2> QED BY <2>1, <2>2, AbortedFields, EmptyTells
  <1> QED BY <1>1, <1>2, <1>3, <1>4, NothingTells DEF StoryInv

LEMMA StepStory == StoryInv /\ [Next]_vars => StoryInv'
  <1> SUFFICES ASSUME StoryInv, [Next]_vars PROVE StoryInv'
    OBVIOUS
  <1>1. CASE Deadlock
    <2>1. \/ \E r \in Requests : PersistFails(r) \/ AuditFails(r)
          \/ UNCHANGED <<ask, tx, saved, journal>>
      BY <1>1 DEF Deadlock
    <2> QED BY <2>1, PersistFailsStory, AuditFailsStory, SameStory
  <1>2. ASSUME NEW r \in Requests, StartOne(r) \/ StartPortfolio(r) PROVE StoryInv'
    BY <1>2, StartStory
  <1>3. ASSUME NEW r \in Requests, Progress(r) PROVE StoryInv'
    BY <1>3, AskStory, PersistStory, AuditStory, CommitStory, PersistFailsStory
    DEF Progress
  <1>4. ASSUME NEW r \in Requests, Fault(r) PROVE StoryInv'
    BY <1>4, PersistFailsStory, AuditFailsStory, StopStory DEF Fault, CommitFails
  <1>5. ASSUME NEW v \in Reviews, ReviewLocks(v) PROVE StoryInv'
    BY <1>5, SameStory DEF ReviewLocks
  <1>6. ASSUME NEW v \in Reviews, ReviewCommits(v) PROVE StoryInv'
    BY <1>6, ReviewStory
  <1>7. CASE UNCHANGED vars
    BY <1>7, SameStory DEF vars
  <1> QED BY <1>1, <1>2, <1>3, <1>4, <1>5, <1>6, <1>7 DEF Next

\* What a transaction has written of the exceptions it is done with, its events
\* tell; nothing in the rest of its queue has a record yet; and the journal tells
\* of what is saved: for any portfolios, failures, deadlocks and crashes.
THEOREM StoryInvariant == Spec => []StoryInv
  <1> QED BY InitStory, StepStory, PTL DEF Spec

\* Whoever reads the journal finds of each saved investigation one event for each
\* call of a tool and then its recommendation, side by side, and of no other
\* investigation anything, however requests, portfolios and the database ended.
THEOREM JournalTellsOfInvestigations == Spec => []JournalTellsInvestigations
  <1>1. StoryInv => JournalTellsInvestigations
    <2> SUFFICES ASSUME StoryInv PROVE JournalTellsInvestigations
      OBVIOUS
    <2>1. Tells(journal, saved)
      BY DEF StoryInv
    <2>2. \A i : About(i) = AboutIn(journal, i)
      BY DEF About, AboutIn
    <2> QED BY <2>1, <2>2 DEF Tells, TellsOf, JournalTellsInvestigations
  <1> QED BY <1>1, StoryInvariant, PTL
=============================================================================
