---------------------------- MODULE Investigation ----------------------------
(***************************************************************************)
(* AI investigations of the exceptions of one completed run: the rounds of *)
(* a provider and its read-only tools, the next provider and the fallback  *)
(* after it, and the transaction that keeps the record and its events.  A  *)
(* request investigates one exception (the endpoint), or the portfolio of  *)
(* the run, all of it in one transaction.  Reviews decide exceptions       *)
(* meanwhile; of them, only their locks are here (ReviewClose has the      *)
(* rest).                                                                  *)
(***************************************************************************)
EXTENDS Naturals, Sequences, FiniteSets

CONSTANTS
    Requests, Reviews,
    Exceptions,   \* exceptions of the run
    Amount,       \* their amounts
    Mentions,     \* the risk classes their type, message and evidence have words for
    References,   \* source_references: citations of their source, selected and candidate rows
    Records,      \* citations of the source rows of the batch
    LinesOf,      \* lines and bank credits of a settlement
    Ids, NotAnId, \* what a provider may name as a source id; one that is no UUID
    Answers,      \* what the providers may answer each request in a round
    Providers,    \* number of configured providers
    MaxRounds, MaxIds, MaxRows,
    Fallible,     \* whether the database and the process may fail
    None

AllowedTools ==
    {"get_run_metrics", "get_exception_evidence", "get_settlement_breakdown",
     "get_source_records"}
LookupTools == {"get_settlement_breakdown", "get_source_records"}

\* The order _risk_class tries the classes in.
RiskPriority ==
    <<"duplicate", "refund", "held_released_settlement", "fuzzy_reference", "net_discrepancy">>
RiskClasses == {RiskPriority[i] : i \in DOMAIN RiskPriority}

\* Codes of failures; an HTTP status has one of its own.
ErrorCodes ==
    {"provider_unavailable", "timeout", "rate_limited", "malformed_response", "unknown_tool",
     "cross_batch_source", "source_id_limit", "tool_round_limit", "tool_output_limit",
     "invalid_citation", "tool_error", "request_error", "http_status"}

Citation == [type: STRING, id: Ids]
Answer ==
    [kind: {"failure"}, code: ErrorCodes]
    \cup [kind: {"recommendation"}, cited: SUBSET Citation]
    \cup [kind: {"tool"}, tool: STRING, ids: SUBSET Ids]

ASSUME InvestigationAssumption ==
    /\ IsFiniteSet(Exceptions) /\ Requests \cap Reviews = {}
    /\ Amount \in [Exceptions -> Nat]
    /\ Mentions \in [Exceptions -> SUBSET RiskClasses]
    /\ References \in [Exceptions -> SUBSET Citation]
    /\ Records \subseteq Citation
    /\ LinesOf \in [Ids -> SUBSET Records]
    /\ Answers \in [Requests -> SUBSET Answer]
    /\ Providers \in Nat /\ MaxRounds \in Nat \ {0}
    /\ MaxIds \in Nat /\ MaxRows \in Nat
    /\ Fallible \in BOOLEAN
    /\ None \notin STRING \cup ErrorCodes

VARIABLES
    ask,      \* progress of each request
    tx,       \* what its transaction has written
    rev,      \* progress of each review
    decided,  \* exceptions with a committed decision
    saved,    \* committed investigations
    journal   \* committed events of the batch

vars == <<ask, tx, rev, decided, saved, journal>>

Ended == {"done", "failed", "died"}

-----------------------------------------------------------------------------
(***************************************************************************)
(* The portfolio: of every risk class the open exception that is worth     *)
(* most.                                                                   *)
(***************************************************************************)
RiskOf(e) ==
    LET spoken == SelectSeq(RiskPriority, LAMBDA k : k \in Mentions[e])
    IN IF spoken = <<>> THEN None ELSE Head(spoken)

WorthMost(of) ==
    IF of = {} THEN <<>> ELSE <<CHOOSE e \in of : \A d \in of : Amount[d] <= Amount[e]>>

Portfolio(open) ==
    LET of(k) == {e \in open : RiskOf(e) = k}
    IN WorthMost(of("fuzzy_reference")) \o WorthMost(of("duplicate")) \o WorthMost(of("refund"))
       \o WorthMost(of("held_released_settlement")) \o WorthMost(of("net_discrepancy"))

-----------------------------------------------------------------------------
(***************************************************************************)
(* The tools.                                                              *)
(***************************************************************************)
AllowedIds(e) == {c.id : c \in References[e]}
Settlements(ids) == {c \in Records : c.type = "settlement" /\ c.id \in ids}
Breakdown(ids) == UNION {LinesOf[c.id] : c \in Settlements(ids)}

\* Why a call is refused, or None.
Refusal(e, a) ==
    IF a.tool \notin AllowedTools THEN "unknown_tool"
    ELSE IF Cardinality(a.ids) > MaxIds THEN "source_id_limit"
    ELSE IF a.tool \notin LookupTools THEN None
    ELSE IF NotAnId \in a.ids THEN "tool_error"
    ELSE IF ~(a.ids \subseteq AllowedIds(e)) THEN "cross_batch_source"
    ELSE IF a.tool = "get_source_records"
    THEN IF a.ids \subseteq {c.id : c \in Records} THEN None ELSE "tool_error"
    ELSE IF Settlements(a.ids) = {} THEN "tool_error"
    ELSE IF \/ Cardinality(Settlements(a.ids)) > MaxRows
            \/ Cardinality(Breakdown(a.ids)) > MaxRows
    THEN "tool_output_limit"
    ELSE None

\* The citations of a tool's result.
Reads(a) ==
    CASE a.tool = "get_source_records" -> {c \in Records : c.id \in a.ids}
      [] a.tool = "get_settlement_breakdown" -> Settlements(a.ids) \cup Breakdown(a.ids)
      [] OTHER -> {}

\* In an aborted transaction only what the session has in memory can be read.
Refusals(e, a, aborted) ==
    IF Refusal(e, a) # None \/ ~aborted THEN {Refusal(e, a)}
    ELSE {"malformed_response"} \cup (IF a.tool \in LookupTools THEN {} ELSE {None})

-----------------------------------------------------------------------------
(***************************************************************************)
(* One round of a provider.  An item of the trace names a tool or is None, *)
(* and does not say whose call it was.                                     *)
(***************************************************************************)
Item(tool, ids, status, code) == [tool |-> tool, ids |-> ids, status |-> status, code |-> code]

\* The provider after the last is the fallback.
Begin(queue) ==
    [pc |-> IF Providers = 0 THEN "persisting" ELSE "asking", queue |-> queue,
     provider |-> 1, round |-> 1, results |-> {}, trace |-> <<>>, cited |-> {},
     code |-> IF Providers = 0 THEN "provider_unavailable" ELSE None]

\* Mutant: the next provider goes on with what the tools told the last.
FailedInContext(s, code) ==
    [s EXCEPT !.pc = IF s.provider >= Providers THEN "persisting" ELSE "asking",
              !.provider = @ + 1, !.round = 1, !.cited = {}, !.code = code,
              !.trace = Append(@, Item(None, {}, "failed", code))]

\* Every provider starts from the context of the exception; the trace goes on.
Failed(s, code) ==
    [s EXCEPT !.pc = IF s.provider >= Providers THEN "persisting" ELSE "asking",
              !.provider = @ + 1, !.round = 1, !.results = {}, !.cited = {}, !.code = code,
              !.trace = Append(@, Item(None, {}, "failed", code))]

Recommended(s, e, cited) ==
    IF cited # {} /\ cited \subseteq References[e] \cup s.results
    THEN [s EXCEPT !.pc = "persisting", !.cited = cited, !.code = None,
                   !.trace = Append(@, Item(None, {}, "recommendation", None))]
    ELSE Failed(s, "invalid_citation")

\* The last round's call is still executed.
OutOfRounds(s) == s.round = MaxRounds

Called(s, a, refusal) ==
    LET status == IF refusal = None THEN "completed" ELSE "rejected"
        t == [s EXCEPT !.trace = Append(@, Item(a.tool, a.ids, status, refusal))]
    IN  IF refusal # None THEN Failed(t, refusal)
        ELSE IF OutOfRounds(s) THEN Failed(t, "tool_round_limit")
        ELSE [t EXCEPT !.results = @ \cup Reads(a), !.round = @ + 1]

Subject(r) == Head(ask[r].queue)

\* The provider answers in time, or its client gives up with a code.
Ask(r) ==
    /\ ask[r].pc = "asking"
    /\ \E a \in Answers[r] :
        \/ a.kind = "failure" /\ ask' = [ask EXCEPT ![r] = Failed(@, a.code)]
        \/ /\ a.kind = "recommendation"
           /\ ask' = [ask EXCEPT ![r] = Recommended(@, Subject(r), a.cited)]
        \/ /\ a.kind = "tool"
           /\ \E refusal \in Refusals(Subject(r), a, tx[r].aborted) :
                ask' = [ask EXCEPT ![r] = Called(@, a, refusal)]
    /\ UNCHANGED <<tx, rev, decided, saved, journal>>

-----------------------------------------------------------------------------
(***************************************************************************)
(* Locks.  A flushed record shares the rows of its exception, the run and  *)
(* the batch; the first event takes the batch FOR UPDATE.  A review takes  *)
(* its exception FOR UPDATE, then the run and the batch.                   *)
(***************************************************************************)
NewTx == [records |-> {}, events |-> <<>>, aborted |-> FALSE]
Aborted == [records |-> {}, events |-> <<>>, aborted |-> TRUE]

Shares(r) == tx[r].records # {}
SharesException(r, e) == \E i \in tx[r].records : i.exception = e
HoldsBatch(r) == tx[r].events # <<>>

LockedBy(v, e) == rev[v].pc = "locked" /\ rev[v].exception = e
ReviewsHold(e) == \E v \in Reviews : LockedBy(v, e)

\* Mutant: the database does not see the cycle.
Undetected(r, v) == FALSE

\* A request waits for a review of its next exception, which waits for the run.
DeadlockedWith(r, v) == ask[r].pc = "persisting" /\ Shares(r) /\ LockedBy(v, Subject(r))

\* Two requests share the batch, and both want it FOR UPDATE.
BothAudit(r, q) == q # r /\ ask[r].pc = "auditing" /\ ask[q].pc = "auditing"

-----------------------------------------------------------------------------
(***************************************************************************)
(* The transaction of a request.                                           *)
(***************************************************************************)
Idle == [Begin(<<>>) EXCEPT !.pc = "idle"]

Init ==
    /\ ask = [r \in Requests |-> Idle]
    /\ tx = [r \in Requests |-> NewTx]
    /\ rev = [v \in Reviews |-> [pc |-> "idle", exception |-> None]]
    /\ decided = {}
    /\ saved = {}
    /\ journal = <<>>

\* An exception may be investigated whatever its status.
StartOne(r) ==
    /\ ask[r].pc = "idle"
    /\ \E e \in Exceptions : ask' = [ask EXCEPT ![r] = Begin(<<e>>)]
    /\ UNCHANGED <<tx, rev, decided, saved, journal>>

\* The open exceptions are read once, before the first provider is asked.
StartPortfolio(r) ==
    /\ ask[r].pc = "idle"
    /\ LET queue == Portfolio(Exceptions \ decided)
       IN ask' = [ask EXCEPT ![r] = IF queue = <<>> THEN [@ EXCEPT !.pc = "done"]
                                    ELSE Begin(queue)]
    /\ UNCHANGED <<tx, rev, decided, saved, journal>>

Record(r) ==
    LET s == ask[r]
        fallback == s.provider > Providers
    IN [request |-> r, exception |-> Subject(r),
        mode |-> IF fallback THEN "deterministicFallback" ELSE "provider",
        cited |-> IF fallback THEN References[Subject(r)] ELSE s.cited,
        trace |-> s.trace, code |-> s.code]

Persist(r) ==
    /\ ask[r].pc = "persisting"
    /\ ~tx[r].aborted
    /\ ~ReviewsHold(Subject(r))
    /\ \A q \in Requests \ {r} : ~HoldsBatch(q)
    /\ ask' = [ask EXCEPT ![r].pc = "auditing"]
    /\ tx' = [tx EXCEPT ![r].records = @ \cup {Record(r)}]
    /\ UNCHANGED <<rev, decided, saved, journal>>

\* The insert is inside the loop over the providers: the error of the database
\* is taken for the provider's, and the next one is asked.
PersistFails(r) ==
    /\ ask[r].pc = "persisting"
    /\ tx' = [tx EXCEPT ![r] = Aborted]
    /\ ask' = [ask EXCEPT ![r] = IF @.provider > Providers THEN [@ EXCEPT !.pc = "failed"]
                                 ELSE Failed(@, "malformed_response")]
    /\ UNCHANGED <<rev, decided, saved, journal>>

Calls(trace) == Cardinality({j \in DOMAIN trace : trace[j].tool # None})

\* An event for each call of a tool, then one for the recommendation.
EventsOf(r) ==
    LET calls == Calls(ask[r].trace)
    IN [k \in 1 .. calls + 1 |->
            [type |-> IF k > calls THEN "ai_recommendation" ELSE "ai_tool_called",
             by |-> r, exception |-> Subject(r)]]

Proceed(s) ==
    IF Len(s.queue) = 1 THEN [s EXCEPT !.pc = "committing"] ELSE Begin(Tail(s.queue))

Audit(r) ==
    /\ ask[r].pc = "auditing"
    /\ \A q \in Requests \ {r} : ~Shares(q)
    /\ tx' = [tx EXCEPT ![r].events = @ \o EventsOf(r)]
    /\ ask' = [ask EXCEPT ![r] = Proceed(@)]
    /\ UNCHANGED <<rev, decided, saved, journal>>

\* Mutant: the events have a savepoint of their own.
Unaudited(t) == t

\* Any error of an event is swallowed, one of the database takes the transaction along.
AuditLost(t) == Aborted

AuditFails(r) ==
    /\ ask[r].pc = "auditing"
    /\ tx' = [tx EXCEPT ![r] = AuditLost(@)]
    /\ ask' = [ask EXCEPT ![r] = Proceed(@)]
    /\ UNCHANGED <<rev, decided, saved, journal>>

\* The COMMIT of an aborted transaction is a rollback, and no error.
Commit(r) ==
    /\ ask[r].pc = "committing"
    /\ saved' = saved \cup tx[r].records
    /\ journal' = journal \o tx[r].events
    /\ tx' = [tx EXCEPT ![r] = NewTx]
    /\ ask' = [ask EXCEPT ![r].pc = "done"]
    /\ UNCHANGED <<rev, decided>>

Stop(r, pc) ==
    /\ ask[r].pc \notin Ended \cup {"idle"}
    /\ ask' = [ask EXCEPT ![r].pc = pc]
    /\ tx' = [tx EXCEPT ![r] = NewTx]
    /\ UNCHANGED <<rev, decided, saved, journal>>

CommitFails(r) == ask[r].pc = "committing" /\ Stop(r, "failed")

-----------------------------------------------------------------------------
(***************************************************************************)
(* Reviews.                                                                *)
(***************************************************************************)
ReviewLocks(v) ==
    /\ rev[v].pc = "idle"
    /\ \E e \in Exceptions \ decided :
        /\ ~ReviewsHold(e)
        /\ \A r \in Requests : ~SharesException(r, e)
        /\ rev' = [rev EXCEPT ![v] = [pc |-> "locked", exception |-> e]]
    /\ UNCHANGED <<ask, tx, decided, saved, journal>>

ReviewEnds(v, pc) == rev' = [rev EXCEPT ![v].pc = pc]

\* Who shares the batch shares the run too: with the run a review has both.
ReviewCommits(v) ==
    /\ rev[v].pc = "locked"
    /\ \A r \in Requests : ~Shares(r)
    /\ ReviewEnds(v, "ok")
    /\ decided' = decided \cup {rev[v].exception}
    /\ journal' = Append(journal, [type |-> "review", by |-> v, exception |-> rev[v].exception])
    /\ UNCHANGED <<ask, tx, saved>>

Deadlock ==
    \/ \E r \in Requests, v \in Reviews :
        /\ DeadlockedWith(r, v)
        /\ \/ PersistFails(r)
           \/ ReviewEnds(v, "error") /\ UNCHANGED <<ask, tx, decided, saved, journal>>
    \/ \E r, q \in Requests : BothAudit(r, q) /\ AuditFails(r)

-----------------------------------------------------------------------------
Progress(r) ==
    \/ Ask(r) \/ Persist(r) \/ Audit(r) \/ Commit(r)
    \/ tx[r].aborted /\ PersistFails(r)

Fault(r) ==
    /\ Fallible
    /\ PersistFails(r) \/ AuditFails(r) \/ CommitFails(r) \/ Stop(r, "died")

Next ==
    \/ Deadlock
    \/ \E r \in Requests : StartOne(r) \/ StartPortfolio(r) \/ Progress(r) \/ Fault(r)
    \/ \E v \in Reviews : ReviewLocks(v) \/ ReviewCommits(v)

Spec == Init /\ [][Next]_vars

\* A provider answers within its client's timeout, a lock is granted once it is
\* free, a deadlock is broken.
FairSpec ==
    /\ Spec
    /\ WF_vars(Deadlock)
    /\ \A r \in Requests : WF_vars(Progress(r))
    /\ \A v \in Reviews : WF_vars(ReviewCommits(v))

-----------------------------------------------------------------------------
(***************************************************************************)
(* Properties.                                                             *)
(***************************************************************************)
\* The calls of the last provider: those after the last failure.
OwnCalls(trace) ==
    {trace[i] : i \in {j \in DOMAIN trace :
        /\ trace[j].status = "completed"
        /\ \A k \in DOMAIN trace : trace[k].status = "failed" => k < j}}

\* A recommendation of a provider cites something, and each citation is of the
\* exception's own rows, under the type the context gives them, or was read by
\* this provider with a tool of the trace; what another provider read before it
\* failed, and what no tool returned, grounds nothing.  A fallback says why no
\* provider was heard.
RecommendationsGrounded ==
    \A i \in saved :
        /\ i.mode = "provider" =>
            /\ i.cited # {}
            /\ \A c \in i.cited :
                \/ c \in References[i.exception]
                \/ \E t \in OwnCalls(i.trace) : c \in Reads(t)
        /\ i.mode = "deterministicFallback" => i.code # None

About(i) == {k \in DOMAIN journal :
    journal[k].by = i.request /\ journal[k].exception = i.exception}

\* The journal tells of a saved investigation and of no other: one event for
\* each call of a tool, of whichever provider, refused or not, then one for the
\* recommendation, with nothing of anybody else between them; however the
\* request, its portfolio or its database ended.
JournalTellsInvestigations ==
    /\ \A k \in DOMAIN journal : journal[k].by \in Requests =>
        \E i \in saved : k \in About(i)
    /\ \A i \in saved :
        \E first \in DOMAIN journal :
            /\ About(i) = first .. first + Calls(i.trace)
            /\ \A k \in About(i) :
                journal[k].type = IF k = first + Calls(i.trace) THEN "ai_recommendation"
                                  ELSE "ai_tool_called"

\* Whatever the providers answer, a request ends, and a review that has its lock
\* is answered though a portfolio may hold the run and the batch all the while.
InvestigationsEnd ==
    /\ \A r \in Requests : ask[r].pc = "asking" ~> ask[r].pc \in Ended
    /\ \A v \in Reviews : rev[v].pc = "locked" ~> rev[v].pc \in {"ok", "error"}
=============================================================================
