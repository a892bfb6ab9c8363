------------------------------ MODULE Casework ------------------------------
(***************************************************************************)
(* What exception review promises, whatever else touches the run: every    *)
(* exception of a completed run receives at most one terminal Review       *)
(* Decision, an approval or a rejection by one named review, and no        *)
(* review decides two exceptions.  ReviewClose is shown to implement it.   *)
(***************************************************************************)
CONSTANTS Exceptions, Reviews, Nobody

VARIABLE decision  \* decision[e]: how e stands and which review decided it

Init == decision = [e \in Exceptions |-> [verdict |-> "open", by |-> Nobody]]

Decide(e, r, verdict) ==
    /\ decision[e].verdict = "open"
    /\ \A f \in Exceptions : decision[f].by # r
    /\ decision' = [decision EXCEPT ![e] = [verdict |-> verdict, by |-> r]]

Next == \E e \in Exceptions, r \in Reviews, verdict \in {"approved", "rejected"} :
            Decide(e, r, verdict)

Spec == Init /\ [][Next]_decision

=============================================================================
