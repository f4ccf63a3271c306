------------------------------- MODULE MCSpa -------------------------------
(* Instances of Spa for TLC: two half-days; two browsers, or one.           *)
EXTENDS Spa, TLC

CONSTANTS b1, b2, s1, s2, x, y, none

OneBrowser  == {b1}
TwoBrowsers == {b1, b2}
OneSlot     == {s1}
TwoSlots    == {s1, s2}
OneKind     == {x}
TwoKinds    == {x, y}

\* All half-days are always visible, or one week at a time is.
WholeWindow == {TwoSlots}
OneWindow   == {OneSlot}
Weeks       == {{s1}, {s2}}
FirstWeek   == {s1}

\* Browsers and half-days are interchangeable.
Symmetry == Permutations(Browser) \cup Permutations(Slot)
=============================================================================
