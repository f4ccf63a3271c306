------------------------------ MODULE MCEditor ------------------------------
(* An instance of Editor for TLC: two people, a Friday, a weekend, a Monday. *)
EXTENDS Editor, TLC

CONSTANTS ann, bob, apollo, none, noText, aNote, ticket

Team == <<ann, bob>>

\* The afternoon of Friday 2024-01-05 to the morning of Monday 2024-01-08.
FridayPm == 9
MondayAm == 14

Blank == [state |-> "filled", away |-> none, incident |-> none, projects |-> <<>>,
          run |-> FALSE, note |-> noText, remote |-> FALSE, offsite |-> FALSE]
Part(pct)  == <<[name |-> apollo, pct |-> pct]>>
Vacation    == [type |-> "vacation", note |-> aNote, tentative |-> TRUE]
OnProject   == [Blank EXCEPT !.projects = Part(60), !.run = TRUE, !.note = aNote]
OnRun       == [Blank EXCEPT !.run = TRUE]
RemoteOnly  == [Blank EXCEPT !.remote = TRUE]
OnIncident  == [Blank EXCEPT !.incident = ticket]
OnVacation  == [Blank EXCEPT !.away = Vacation, !.remote = TRUE, !.note = aNote]

Plan(f) == [c \in Cell |-> IF c \in DOMAIN f THEN f[c] ELSE none]
Plannings ==
  { Plan(<<ann, FridayPm>> :> OnProject @@ <<ann, MondayAm>> :> OnVacation
         @@ <<bob, FridayPm>> :> [OnProject EXCEPT !.run = FALSE, !.offsite = TRUE]
         @@ <<bob, MondayAm>> :> OnIncident),
    Plan(<<ann, FridayPm>> :> OnProject @@ <<ann, FridayPm + 1>> :> OnRun
         @@ <<bob, MondayAm>> :> [RemoteOnly EXCEPT !.state = "undetermined"] @@ <<ann, MondayAm>> :> RemoteOnly) }

TakenByOthers  == {OnRun}
OthersHalfDays == {<<ann, FridayPm>>, <<bob, MondayAm>>}
NewProjects    == {Part(100), Part(60) \o Part(60)}
NewAway        == {[Vacation EXCEPT !.type = "training"]}
NewIncident    == {ticket}
NewNote        == {noText}
ProjectFilter  == {apollo}
NewRange       == {<<FridayPm, MondayAm>>}
=============================================================================
