---------------------------- MODULE MCBriefDraft ----------------------------
(***************************************************************************)
(* Two exceptions for TLC, and a provider that sorts both, or only one, or *)
(* one of them twice, cites a row of the other, or does not answer.        *)
(***************************************************************************)
EXTENDS BriefDraft

CONSTANTS e1, e2, x1, x2

MCAmount == [e \in Exceptions |-> IF e = e1 THEN 3 ELSE 0]
MCSourceOf == [e \in Exceptions |-> IF e = e1 THEN x1 ELSE x2]
MCKindOf == [e \in Exceptions |-> IF e = e1 THEN 2 ELSE 1]
MCRiskOf == [e \in Exceptions |-> 3]
MCTitleOf == [k \in 1 .. 2 |-> k]

ThemeOf(ids, cited) == [title |-> 1, exceptions |-> ids, citations |-> cited]
Unsourced(e) == [exception |-> e, source |-> None]

MCAnswers ==
    {[themes |-> <<>>],
     [themes |-> <<ThemeOf(<<e2>>, {Unsourced(e2)}), ThemeOf(<<e1>>, {Own(e1)})>>],
     [themes |-> <<ThemeOf(<<e1>>, {Own(e1)})>>],
     [themes |-> <<ThemeOf(<<e1>>, {Own(e1)}), ThemeOf(<<e1, e2>>, {Own(e2)})>>],
     [themes |-> <<ThemeOf(<<e1, e2>>, {[exception |-> e1, source |-> x2]})>>]}
=============================================================================
