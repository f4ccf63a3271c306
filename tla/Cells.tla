------------------------------- MODULE Cells -------------------------------
(***************************************************************************)
(* How web/assets/app.js reads a half-day.  What one holds is decided anew *)
(* in each of a dozen places - the grid's classes, labels and merged       *)
(* cells, the tooltips, the overwrite warning, the availability page, the  *)
(* run coverage, the workload - by chains of conditions in different       *)
(* orders.  An operator below is one of these chains; a wording is the set *)
(* of the things it mentions.                                              *)
(***************************************************************************)
EXTENDS Integers, Sequences, FiniteSets, Functions

CONSTANTS
  None,    \* null, or no entry at all
  NoText   \* the empty string

\* The data of a half-day, None when there is no row.
IsEmpty(sd)     == IF sd = None THEN TRUE ELSE sd.state = "not_filled"
HasProjects(sd) == sd.projects # <<>>
Names(sd)       == {sd.projects[i].name : i \in DOMAIN sd.projects}
sumPct(projects) == SumFunction([i \in DOMAIN projects |-> projects[i].pct])

\* Wherever a remote or off-site mark is shown, remote wins.
FlagOf(sd) == IF sd = None THEN {}
              ELSE IF sd.remote THEN {"remote"}
              ELSE IF sd.offsite THEN {"offsite"} ELSE {}

----------------------------------------------------------------------------
(* The team grid. *)

getSlotClass(sd) ==
  LET note == IF sd.run /\ sd.note # NoText THEN {"has-run-note"} ELSE {}
  IN IF IsEmpty(sd) THEN {"not-filled"} \cup FlagOf(sd)
     ELSE IF sd.state = "undetermined" THEN {"undetermined"} \cup FlagOf(sd)
     ELSE IF sd.away # None
       THEN {"away"} \cup (IF sd.away.tentative THEN {"tentative"} ELSE {}) \cup FlagOf(sd)
     ELSE IF sd.incident # None THEN {"incident"} \cup FlagOf(sd)
     ELSE IF sd.run /\ HasProjects(sd) THEN {"project", "run"} \cup note \cup FlagOf(sd)
     ELSE IF sd.run THEN {"run"} \cup note \cup FlagOf(sd)
     ELSE IF HasProjects(sd) THEN {"project"} \cup FlagOf(sd)
     ELSE {"not-filled"} \cup FlagOf(sd)

getCellLabel(sd) ==
  IF IsEmpty(sd) THEN <<"?">>
  ELSE IF sd.state = "undetermined" THEN <<"?">>
  ELSE IF sd.away # None THEN <<"away", sd.away.type, sd.away.tentative>>
  ELSE IF sd.incident # None THEN <<"incident">>
  ELSE <<"work", [i \in DOMAIN sd.projects |-> sd.projects[i].name],
         IF sd.run THEN IF sd.note # NoText THEN "R*" ELSE "R" ELSE "">>

\* Mutant of getMergeKey: a single project is one key, with or without run duty.
getMergeKeyNoRun(sd, week) ==
  IF IsEmpty(sd) THEN <<week, "nf">>
  ELSE IF sd.state = "undetermined" THEN <<week, "und">>
  ELSE IF sd.away # None THEN <<week, "away", sd.away.type, sd.away.tentative>>
  ELSE IF sd.incident # None THEN <<week, "incident", sd.incident>>
  ELSE IF Len(sd.projects) = 1 THEN <<week, "proj", sd.projects[1].name>>
  ELSE <<week, "complex", sd.projects, sd.run, sd.note>>

\* Neighbours with equal keys are drawn as one cell.
getMergeKey(sd, week) ==
  IF IsEmpty(sd) THEN <<week, "nf">>
  ELSE IF sd.state = "undetermined" THEN <<week, "und">>
  ELSE IF sd.away # None THEN <<week, "away", sd.away.type, sd.away.tentative>>
  ELSE IF sd.incident # None THEN <<week, "incident", sd.incident>>
  ELSE IF Len(sd.projects) = 1 /\ ~sd.run THEN <<week, "proj", sd.projects[1].name>>
  ELSE IF Len(sd.projects) = 1 THEN <<week, "projrun", sd.projects[1].name, sd.note>>
  ELSE IF sd.run /\ ~HasProjects(sd) THEN <<week, "run", sd.note>>
  ELSE <<week, "complex", sd.projects, sd.run, sd.note>>

\* The background: the colours of the first two projects, none without a project.
projectColorBg(sd) ==
  IF sd = None THEN <<>>
  ELSE SubSeq([i \in DOMAIN sd.projects |-> sd.projects[i].name], 1,
              IF Len(sd.projects) >= 2 THEN 2 ELSE Len(sd.projects))

\* The tooltip (getSlotTitle and getSlotTitleHtml), and the label of My Week.
getSlotTitle(sd) ==
  FlagOf(sd) \cup
  IF IsEmpty(sd) THEN {"Not filled"}
  ELSE IF sd.state = "undetermined" THEN {"Undetermined project"}
  ELSE IF sd.away # None THEN {"Away"}
  ELSE IF sd.incident # None THEN {"Incident"}
  ELSE (IF HasProjects(sd) THEN {"Projects"} ELSE {}) \cup (IF sd.run THEN {"Run duty"} ELSE {})

getSlotLabel(sd) ==
  IF IsEmpty(sd) THEN {}
  ELSE FlagOf(sd) \cup
       IF sd.state = "undetermined" THEN {"Undetermined project"}
       ELSE IF sd.away # None THEN {"Away"}
       ELSE IF sd.incident # None THEN {"Incident"}
       ELSE (IF HasProjects(sd) THEN {"Projects"} ELSE {}) \cup (IF sd.run THEN {"Run duty"} ELSE {})

----------------------------------------------------------------------------
(* The overwrite warning of the editor and the availability page. *)

Category == {"flag only", "undetermined", "away", "incident", "project+run", "run", "project", "other"}
uniCategorise(sd) ==
  IF IsEmpty(sd) THEN IF FlagOf(sd) = {} THEN None ELSE "flag only"
  ELSE IF sd.state = "undetermined" THEN "undetermined"
  ELSE IF sd.away # None THEN "away"
  ELSE IF sd.incident # None THEN "incident"
  ELSE IF sd.run /\ HasProjects(sd) THEN "project+run"
  ELSE IF sd.run THEN "run"
  ELSE IF HasProjects(sd) THEN "project"
  ELSE "other"

availabilityDetail(sd) ==
  IF IsEmpty(sd) THEN {"Available"}
  ELSE IF sd.state = "undetermined" THEN FlagOf(sd) \cup {"Project (TBD)"}
  ELSE IF sd.away # None THEN {"Away"}
  ELSE IF sd.incident # None THEN {"Incident"}
  ELSE FlagOf(sd) \cup Names(sd) \cup (IF sd.run THEN {"Run"} ELSE {})

\* The line of the day summary a half-day is counted in.
daySummaryOf(sd) ==
  IF IsEmpty(sd) THEN "unassigned"
  ELSE IF sd.state = "undetermined" THEN "undetermined"
  ELSE IF sd.away # None THEN "away"
  ELSE IF sd.incident # None THEN "incident"
  ELSE IF sd.run THEN "run" ELSE "project"

\* The events of the calendar file: duty is only one when there is no project.
icsEvents(sd) ==
  IF IsEmpty(sd) THEN {}
  ELSE IF sd.state = "undetermined" THEN {"undetermined"}
  ELSE IF sd.away # None THEN {"away"}
  ELSE IF sd.incident # None THEN {"incident"}
  ELSE IF HasProjects(sd) THEN {"project"} \X Names(sd)
  ELSE IF sd.run THEN {"run"} ELSE {}

----------------------------------------------------------------------------
(* Counters over the half-days of a person or the people of a half-day:    *)
(* `data` is a function to what each holds.                                *)

IsAway(sd) == IF sd = None THEN FALSE ELSE sd.away # None
IsRun(sd)  == IF sd = None THEN FALSE ELSE sd.run
Count(data, Test(_)) == Cardinality({x \in DOMAIN data : Test(data[x])})

\* The summary row of the grid looks at nothing but `away` and `run`.
summaryRow(data) == [away |-> Count(data, IsAway), run |-> Count(data, IsRun)]

daySummary(data, line) == Count(data, LAMBDA sd : daySummaryOf(sd) = line)

\* The run coverage of a half-day, and a person's share of run in a week.
Undecided(sd) == IF IsEmpty(sd) THEN TRUE ELSE sd.state = "undetermined"
calcRunCoveragePerSlot(data) ==
  [away  |-> Count(data, LAMBDA sd : ~Undecided(sd) /\ IsAway(sd)),
   avail |-> Count(data, LAMBDA sd : Undecided(sd) \/ ~IsAway(sd)),
   onRun |-> Count(data, LAMBDA sd : ~Undecided(sd) /\ ~IsAway(sd) /\ IsRun(sd))]
calcRunRatio(data) ==
  [working |-> Count(data, LAMBDA sd : Undecided(sd) \/ ~IsAway(sd)),
   run     |-> Count(data, LAMBDA sd : ~Undecided(sd) /\ ~IsAway(sd) /\ IsRun(sd))]

\* The half-days whose run note the coverage page lists.
collectRunNotes(data) == {x \in DOMAIN data : IsRun(data[x]) /\ data[x].note # NoText}

\* The workload page: a half-day's load and presence, and the people of a day
\* who are marked in the morning or in the afternoon.
halfDayValue(sd) ==
  IF IsEmpty(sd) THEN 0
  ELSE IF sd.away # None THEN 0
  ELSE IF sd.state = "undetermined" THEN 100
  ELSE IF HasProjects(sd) THEN sumPct(sd.projects)
  ELSE IF sd.run THEN 100 ELSE 0
halfDayPresence(sd) == IF IsAway(sd) THEN 0 ELSE 100

\* Away while on call or on run duty in that week: a warning at the name.
conflictWarn(data, onDuty) == onDuty /\ \E x \in DOMAIN data : IsAway(data[x])
=============================================================================
