------------------------------ MODULE LedgerView ------------------------------
(***************************************************************************)
(* The transactions view of a batch: for every source row the one          *)
(* relationship that ranks first over all runs, and the state it gives the *)
(* row.  One statement reads it from the rows of RunRows.  Rows a run      *)
(* inserts have one created_at, so that relationships of one run and       *)
(* priority are ordered by their random ids: any of them may be shown.     *)
(***************************************************************************)
EXTENDS RunRows

ResultIds == UNION {{<<k, i>> : i \in Results(k)} : k \in Runs}
RowOf(id) == rows[id[1]][id[2]]

MatchedState(status, autonomous) ==
    IF status # "matched" THEN "unreconciled"
    ELSE IF autonomous THEN "autonomous" ELSE "matched"

Relation(id, priority, late, state) ==
    [run |-> id[1], priority |-> priority, late |-> late, state |-> state]

ResultRelations(x) ==
    {Relation(id, 1, FALSE, MatchedState(RowOf(id).status, RowOf(id).autonomous)) :
        id \in {r \in ResultIds : RowOf(r).primary = x}}

LinksTo(id, x, human) ==
    {l \in RowOf(id).links : l.source = x /\ (l.role = "human_approved") = human}

\* A human's link is inserted after the run's, and is never autonomous.
LinkRelations(x) ==
    {Relation(id, 2, FALSE, MatchedState(RowOf(id).status, RowOf(id).autonomous)) :
        id \in {r \in ResultIds : LinksTo(r, x, FALSE) # {}}}
    \cup {Relation(id, 2, TRUE, MatchedState(RowOf(id).status, FALSE)) :
        id \in {r \in ResultIds : LinksTo(r, x, TRUE) # {}}}

\* An exception is about the primary source of its result.  One of a quarantined
\* record has no source id, and joins nothing; none is without a source type,
\* which is what the two selects of inherited exceptions ask for.
ExceptionRelations(x) ==
    {Relation(id, 3, FALSE, RowOf(id).review) :
        id \in {r \in ResultIds : RowOf(r).primary = x /\ RowOf(r).review # None}}

Relations(x) == ResultRelations(x) \cup LinkRelations(x) \cup ExceptionRelations(x)

\* Mutant: the newest row wins, whatever it is.
NewestFirst(a, b) ==
    \/ a.run > b.run
    \/ a.run = b.run /\ a.late /\ ~b.late

\* The later run, then exceptions before links before results, then the later row.
Before(a, b) ==
    \/ a.run > b.run
    \/ /\ a.run = b.run
       /\ \/ a.priority > b.priority
          \/ a.priority = b.priority /\ a.late /\ ~b.late

Latest(x) == {a \in Relations(x) : \A b \in Relations(x) : ~Before(b, a)}

ShownStates(x) == IF Relations(x) = {} THEN {"unreconciled"} ELSE {a.state : a \in Latest(x)}

-----------------------------------------------------------------------------
TouchedBy(x) == {a.run : a \in Relations(x)}
LatestRun(x) == CHOOSE k \in TouchedBy(x) : \A j \in TouchedBy(x) : j <= k

ReviewsOn(x) ==
    {RowOf(id).review : id \in {r \in ResultIds : r[1] = LatestRun(x) /\ RowOf(r).primary = x}} \ {None}

\* The view hides no open work and invents no success.  A row with exceptions
\* in the last run that knows it shows the status of one of them, never that of
\* a link, however late, nor of an older run; a row that shows as reconciled has
\* an autonomous, matched result of that run behind it.
ViewShowsOpenWork ==
    \A x \in Source :
        /\ TouchedBy(x) # {} /\ ReviewsOn(x) # {} => ShownStates(x) = ReviewsOn(x)
        /\ "autonomous" \in ShownStates(x) =>
            \E id \in ResultIds :
                /\ id[1] = LatestRun(x)
                /\ RowOf(id).autonomous /\ RowOf(id).status = "matched"
                /\ x \in {RowOf(id).primary} \cup {l.source : l \in RowOf(id).links}
=============================================================================
