----------------------------- MODULE BriefDraft -----------------------------
(***************************************************************************)
(* What a Batch Close Brief says.  ReviewClose has the two transactions of *)
(* an assessment; between them, outside both, the provider is asked to     *)
(* sort the open exceptions of the snapshot into themes.  Its answer is    *)
(* taken as a whole or not at all, the fallback groups the exceptions      *)
(* instead, and the server adds to either what it does not leave to a      *)
(* provider: exposure, priority and missing citations.                     *)
(***************************************************************************)
EXTENDS ReviewClose, FiniteSetsExt

CONSTANTS
    Amount,      \* absolute amounts of the exceptions
    SourceOf,    \* the source row of an exception, None of a quarantined record
    KindOf,      \* type, stage and first code of an exception, in their order
    RiskOf,      \* _theme_risk of its type
    TitleOf,     \* the title of a kind, in the order of titles
    Oversized,   \* sets of exceptions whose prompt is longer than the limit
    Configured,  \* whether a provider is configured
    Answers,     \* what the provider may answer
    None

Citation == [exception: Exceptions \cup {UnknownId},
             source: {SourceOf[e] : e \in Exceptions} \cup {UnknownId, None}]
Theme == [title: Nat, exceptions: Seq(Exceptions \cup {UnknownId}), citations: SUBSET Citation]
\* An answer without themes: an error of the provider, or of its client.
Answer == [themes: Seq(Theme)]

ASSUME DraftAssumption ==
    /\ Amount \in [Exceptions -> Nat]
    /\ \A e \in Exceptions : Amount[e] # 0 <=> e \in Priced
    /\ KindOf \in [Exceptions -> Nat] /\ RiskOf \in [Exceptions -> Nat]
    /\ TitleOf \in [{KindOf[e] : e \in Exceptions} -> Nat]
    /\ Configured \in BOOLEAN
    /\ Answers \subseteq Answer
    /\ None \notin Exceptions \cup {UnknownId}

VARIABLE content  \* what each assessment writes into its brief

draftVars == <<vars, content>>

Own(e) == [exception |-> e, source |-> SourceOf[e]]
MoneyOf(S) == MapThenSumSet(LAMBDA e : Amount[e], S)

-----------------------------------------------------------------------------
(***************************************************************************)
(* validate_provider_response.                                             *)
(***************************************************************************)
Named(theme) == {theme.exceptions[i] : i \in DOMAIN theme.exceptions}
NamedBefore(themes, i) == UNION {Named(themes[j]) : j \in 1 .. (i - 1)}

WellShaped(themes) ==
    /\ themes # <<>>
    /\ \A i \in DOMAIN themes : themes[i].exceptions # <<>> /\ themes[i].citations # {}

\* An exception twice, of another run, no longer open, or of an earlier theme.
MisCovers(themes, i, open) ==
    \/ Cardinality(Named(themes[i])) # Len(themes[i].exceptions)
    \/ ~(Named(themes[i]) \subseteq open)
    \/ Named(themes[i]) \cap NamedBefore(themes, i) # {}

\* A citation without a source only has to be of the theme.
MisCites(theme) ==
    \E c \in theme.citations :
        \/ c.exception \notin Named(theme)
        \/ c.source \notin {None, SourceOf[c.exception]}

\* Mutant: what the provider leaves out is not missed.
ValidIfPartial(themes, open) ==
    /\ WellShaped(themes)
    /\ \A i \in DOMAIN themes : ~MisCovers(themes, i, open) /\ ~MisCites(themes[i])

\* Which of the faults is met first only decides on the code of the error.
Valid(themes, open) ==
    /\ WellShaped(themes)
    /\ \A i \in DOMAIN themes : ~MisCovers(themes, i, open) /\ ~MisCites(themes[i])
    /\ NamedBefore(themes, Len(themes) + 1) = open

-----------------------------------------------------------------------------
(***************************************************************************)
(* _generate_draft: themes are a function of their place.                  *)
(***************************************************************************)
Suggested(themes) ==
    [i \in DOMAIN themes |->
        [title |-> themes[i].title, exceptions |-> Named(themes[i]),
         citations |-> themes[i].citations]]

\* build_deterministic_fallback
Grouped(open) ==
    [k \in {KindOf[e] : e \in open} |->
        LET of == {e \in open : KindOf[e] = k}
        IN [title |-> TitleOf[k], exceptions |-> of, citations |-> {Own(e) : e \in of}]]

Draft(open, answer) ==
    IF open = {} THEN [mode |-> "not_required", themes |-> <<>>]
    ELSE IF open \notin Oversized /\ Configured /\ Valid(answer.themes, open)
    THEN [mode |-> "provider", themes |-> Suggested(answer.themes)]
    ELSE [mode |-> "deterministic_fallback", themes |-> Grouped(open)]

-----------------------------------------------------------------------------
(***************************************************************************)
(* _server_themes and _artifact.                                           *)
(***************************************************************************)
Risk(theme) == Max({RiskOf[e] : e \in theme.exceptions})

\* What the themes are sorted by; the sort is stable.
SortKey(themes, i) ==
    <<-MoneyOf(themes[i].exceptions), -Cardinality(themes[i].exceptions),
      -Risk(themes[i]), themes[i].title, i>>

Less(a, b) ==
    \E n \in DOMAIN a : a[n] < b[n] /\ \A m \in 1 .. (n - 1) : a[m] = b[m]

Planned(themes) ==
    LET ahead(i) == {j \in DOMAIN themes : Less(SortKey(themes, j), SortKey(themes, i))}
    IN [i \in DOMAIN themes |->
            [exceptions |-> themes[i].exceptions,
             exposure |-> MoneyOf(themes[i].exceptions),
             priority |-> Cardinality(ahead(i)) + 1,
             citations |-> themes[i].citations \cup {Own(e) : e \in themes[i].exceptions}]]

Artifact(open, unresolved, answer) ==
    LET draft == Draft(open, answer)
    IN [mode |-> draft.mode, themes |-> Planned(draft.themes),
        money_unresolved |-> MoneyOf(unresolved)]

-----------------------------------------------------------------------------
DraftInit ==
    /\ Init
    /\ content = [a \in Assessments |->
                    [mode |-> "pending", themes |-> <<>>, money_unresolved |-> 0]]

Generate(a) ==
    /\ AssessGenerate(a)
    /\ \E answer \in Answers :
        content' = [content EXCEPT ![a] =
                      Artifact(assess[a].open, assess[a].unresolved, answer)]

OtherAssessStep(a) ==
    \/ AssessAdmit(a) \/ AssessStart(a) \/ AssessConflict(a)
    \/ AssessComplete(a) \/ AssessCrash(a)

DraftNext ==
    \/ \E a \in Assessments : Generate(a)
    \/ /\ \/ Tick
          \/ \E r \in Reviews : ReviewStep(r)
          \/ \E a \in Assessments : OtherAssessStep(a)
          \/ \E v \in Evaluations : EvalStep(v)
       /\ UNCHANGED content

DraftSpec == DraftInit /\ [][DraftNext]_draftVars

DraftFairSpec == DraftSpec /\ Fairness

-----------------------------------------------------------------------------
(***************************************************************************)
(* Properties.                                                             *)
(***************************************************************************)
\* Every exception that was open at the snapshot is in one theme, and nothing
\* else is in any; each is cited by its own row, and no theme cites another row.
ThemesPartition(open, themes) ==
    /\ \A e \in open : \E i \in DOMAIN themes :
        /\ e \in themes[i].exceptions
        /\ Own(e) \in themes[i].citations
        /\ \A j \in DOMAIN themes : e \in themes[j].exceptions => j = i
    /\ \A i \in DOMAIN themes :
        /\ themes[i].exceptions # {} /\ themes[i].exceptions \subseteq open
        /\ \A c \in themes[i].citations :
            c.exception \in themes[i].exceptions /\ c.source \in {None, SourceOf[c.exception]}

\* The plan goes by exposure: what is worth more is never reviewed after what
\* is worth less, and no two themes have one priority.
PlanByExposure(themes) ==
    \A i, j \in DOMAIN themes :
        /\ themes[i].exposure > themes[j].exposure => themes[i].priority < themes[j].priority
        /\ themes[i].priority = themes[j].priority => i = j

\* Whatever the provider answers, and whichever reviews commit meanwhile: the
\* themes of a completed brief partition the exceptions it covers, hence what
\* is still open; their exposures add up to the money of these exceptions, which
\* is part of the money the brief calls unresolved and no less than what is open
\* now; and the plan goes by exposure.
BriefAccountsForOpenWork ==
    \A a \in Assessments : Completed(a) =>
        LET themes == content[a].themes
            exposed == MapThenSumSet(LAMBDA i : themes[i].exposure, DOMAIN themes)
        IN  /\ ThemesPartition(brief[a].open, themes)
            /\ PlanByExposure(themes)
            /\ exposed = MoneyOf(brief[a].open)
            /\ MoneyOf(Open) <= exposed /\ exposed <= content[a].money_unresolved
            /\ content[a].mode = "not_required" <=> brief[a].open = {}
=============================================================================
