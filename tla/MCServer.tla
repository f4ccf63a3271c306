------------------------------ MODULE MCServer ------------------------------
(* Instances of Server for TLC: two people, two weeks of two working        *)
(* half-days, two requests at a time.                                       *)
EXTENDS Server

CONSTANTS ann, bob, am, pm, project, run, away, none, r1, r2, nobody

TwoPeople    == {ann, bob}
TwoRequests  == {r1, r2}
AmPm         == {am, pm}
WorkDays     == <<am, pm>>
Kinds        == {project, run, away}
Absences     == {away}
Weeks        == {1, 2}

\* Ann is there with a filled week 1; Bob is not in the team yet.
JustAnn == {ann}
AnnsWeek ==
  [k \in TwoPeople \X Weeks \X AmPm |->
     IF k = <<ann, 1, am>> THEN project ELSE
     IF k = <<ann, 1, pm>> THEN away ELSE none]

(* Operations as the handlers receive them. *)
Slot(k, e)          == [type |-> "slot", refs |-> <<k>>, entry |-> e]
SlotRange(ks, e)    == [type |-> "range", refs |-> ks, entry |-> e]
Copy(p, from, to)   == [type |-> "copy", person |-> p, from |-> from, week |-> to]
Assign(p, w)        == [type |-> "assign", person |-> p, week |-> w]
Rotation(p, w, on)  == [type |-> "rotation", person |-> p, week |-> w, on |-> on]
OnCall(p, w, on)    == [type |-> "oncall", person |-> p, week |-> w, on |-> on]
AddPerson(p)        == [type |-> "add", person |-> p]
UpdatePerson(p)     == [type |-> "update", person |-> p]
ArchivePerson(p)    == [type |-> "archive", person |-> p]
DeletePerson(p)     == [type |-> "delete", person |-> p]
Prune(w)            == [type |-> "prune", week |-> w]
Reset               == [type |-> "reset"]
Import(rep, ps, ks, e) ==
  [type |-> "import", replace |-> rep, people |-> ps, refs |-> ks, entry |-> e]

Anns(week) == <<<<ann, week, am>>, <<ann, week, pm>>>>

\* A range over two people fails halfway while Bob is not there.  Ranges are
\* saved as absences, which a copy never writes, so that half a range cannot
\* pass for a copied half-day; the entry a copy writes is never
\* saved in its half-day, so that a copy cannot pass for a save.
Requests == {
  Slot(<<ann, 2, am>>, run), Slot(<<ann, 2, pm>>, none),
  SlotRange(Anns(2), away), SlotRange(<<<<ann, 2, am>>, <<bob, 2, am>>>>, away),
  SlotRange(Anns(2), none),
  Copy(ann, 1, 2), Assign(ann, 2), Assign(bob, 1),
  Rotation(ann, 2, FALSE), Rotation(bob, 1, TRUE),
  OnCall(ann, 1, TRUE), OnCall(bob, 2, FALSE),
  AddPerson(bob), UpdatePerson(ann), ArchivePerson(bob), DeletePerson(ann), Prune(2), Reset,
  Import(TRUE, <<bob>>, <<<<bob, 1, am>>, <<ann, 2, pm>>>>, project),
  Import(FALSE, <<ann, bob>>, <<<<bob, 1, pm>>>>, run)}

\* A whole week to copy, a run week, and a save of one of the half-days they fill.
AnnsFullWeek ==
  [k \in TwoPeople \X Weeks \X AmPm |-> IF <<k[1], k[2]>> = <<ann, 1>> THEN project ELSE none]
FillOrSave == {Copy(ann, 1, 2), Assign(ann, 2), Slot(<<ann, 2, pm>>, run)}
=============================================================================
