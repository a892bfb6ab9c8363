------------------------------ MODULE AuditLog ------------------------------
(***************************************************************************)
(* What the audit journal of a batch promises its readers: an append-only  *)
(* log in which every number has one entry, and to which each request      *)
(* contributes at most one block of consecutive entries, its whole story.  *)
(***************************************************************************)
EXTENDS Naturals, Sequences

CONSTANTS Runs, Investigations, Writers, Nobody

VARIABLE entries  \* entries[k]: the events with sequence number k

Entry(type, by) == {[type |-> type, by |-> by]}

Init == entries = <<Entry("opened", Nobody)>>

RunStory(r) ==
    {<<Entry("run_started", r), Entry("result_persisted", r), Entry("run_completed", r)>>,
     <<Entry("run_failed", r)>>}

Silent(p) == \A k \in DOMAIN entries : \A e \in entries[k] : e.by # p

Tell(p, stories) == (\E story \in stories : entries' = entries \o story) /\ Silent(p)

Next ==
    \/ \E r \in Runs : Tell(r, RunStory(r))
    \/ \E i \in Investigations : Tell(i, {<<Entry("ai_recommendation", i)>>})
    \/ \E w \in Writers : Tell(w, {<<Entry("other", w)>>})

Spec == Init /\ [][Next]_entries

=============================================================================
