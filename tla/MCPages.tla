------------------------------ MODULE MCPages ------------------------------
(* An instance of Pages for TLC: the last week of 2026 and the first of 2027, *)
(* with a window of one week.                                                 *)
EXTENDS Pages, TLC

CONSTANTS ann, bob, none, noText

Team == <<ann, bob>>

\* The Mondays 2026-12-28, which is today, and 2027-01-04.
LastOf2026  == 1092
FirstOf2027 == 1099
TwoWeeks == {LastOf2026, FirstOf2027}

\* Ann is on call in both weeks.
AnnOnCall == {[w \in TwoWeeks |-> ann :> noText @@ bob :> none]}
OthersChange == {<<LastOf2026, ann>>, <<FirstOf2027, bob>>}
OneOfThePages == {{"team", "oncall"}, {"team", "activity"}}
=============================================================================
