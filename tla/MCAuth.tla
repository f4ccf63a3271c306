------------------------------- MODULE MCAuth -------------------------------
(* Instances of Auth for TLC: one person with two tabs, who joins, leaves    *)
(* and changes groups while requests are under way.                          *)
EXTENDS Auth, TLC

CONSTANTS u1, r1, r2, w1

OneUser     == {u1}
TwoRequests == {r1, r2}
OneWorker   == {w1}

\* No group at all, one of them, two of which the higher one counts.
SomeGroups  == {{}, {"readonly", "other"}, {"admin", "normal"}}

Symmetry == Permutations(TwoRequests)
=============================================================================
