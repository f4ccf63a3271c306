------------------------------- MODULE Editor -------------------------------
(***************************************************************************)
(* The team grid and its slot editor (web/assets/app.js): a drag selects   *)
(* half-days, the editor opens on them pre-filled from the first that      *)
(* holds something, its toggles are three-valued ("grey" means: leave each *)
(* half-day's value alone), and Apply writes every half-day of the range   *)
(* its date fields name, each from the form and from what it holds by then.*)
(*                                                                         *)
(* Other users write to the same half-days meanwhile, and each of their    *)
(* writes makes the grid render anew: with a filter, rows come and go      *)
(* under a drag.  What the server stores and what the browser shows are    *)
(* one here; their differences are the subject of Spa.                     *)
(***************************************************************************)
EXTENDS Calendar, Cells

CONSTANTS
  People,          \* the rows of the unfiltered grid, in order
  Project, AwayType, Text,  \* names of projects, kinds of absences, what users type otherwise
  Opening, Closing,  \* the first and the last half-day of a slice of the visible weeks
  Seeds,           \* the plannings to start from
  Other,           \* what other users may store in a half-day
  Contested,       \* the half-days other users may write
  TypedProjects, TypedAway, TypedIncident, TypedNote, TypedFilter,  \* what users type
  TypedRange,      \* the ranges they type into the date fields
  MaxInputs,       \* bound on the inputs given to one editor
  MaxApplies, MaxDisturbances   \* bounds on Apply, and on others' writes and failing ones

Person == {People[i] : i \in DOMAIN People}
Slot   == generateSlotsInRange(Opening, Closing)
Flag   == {"run", "remote", "offsite"}
Tab    == {"project", "away", "incident", "undetermined", "clear"}
\* Mutant: the run toggle also counts on the undetermined tab.
WorkOrUndetermined == {"project", "clear", "undetermined"}
Work == {"project", "clear"}   \* the tabs on which the run toggle counts

Cell == Person \X Slot

\* The rows of the planning.
Share   == [name : Project, pct : Nat]
Absence == [type : AwayType, note : Text, tentative : BOOLEAN]
Entry ==
  [state : {"filled", "undetermined"}, away : Absence \cup {None}, incident : Text \cup {None},
   projects : Seq(Share), run : BOOLEAN, note : Text, remote : BOOLEAN, offsite : BOOLEAN]

\* What a half-day may hold: one of an absence, an incident, work and the mark
\* "undetermined" (README: an incident is "mutually exclusive with project/run/away"),
\* at most all of somebody's time, and something at all.
WellFormed(d) ==
  /\ d.state = "undetermined" => d.away = None /\ d.incident = None
  /\ d.away # None => d.incident = None
  /\ (d.state = "undetermined" \/ d.away # None \/ d.incident # None)
       => ~HasProjects(d) /\ ~d.run
  /\ HasProjects(d) => ~(sumPct(d.projects) > 100)
  /\ \/ d.state = "undetermined" \/ d.away # None \/ d.incident # None
     \/ HasProjects(d) \/ d.run \/ d.remote \/ d.offsite

\* A drag, and an open editor.
Dragging ==
  [startRow : DOMAIN People, startCol : Slot, endRow : DOMAIN People, endCol : Slot,
   isDragging : BOOLEAN, rows : Seq(Person)]
Form == [projects : Seq(Share), away : Absence, incident : Text, note : Text]
Editing ==
  [pids : SUBSET Person, from : Slot, to : Slot, tab : Tab,
   tri : [Flag -> {"grey", "tick", "empty"}], grey : [Flag -> BOOLEAN], form : Form,
   touched : SUBSET Flag, moved : BOOLEAN, disturbed : BOOLEAN, inputs : 0..MaxInputs]

DefaultAway == [type |-> "vacation", note |-> NoText, tentative |-> FALSE]

ASSUME EditorAssumption ==
  /\ People \in Seq(Person)
  /\ \A i, j \in DOMAIN People : People[i] = People[j] => i = j
  /\ Opening \in Int /\ Closing \in Int
  /\ NoText \in Text /\ "vacation" \in AwayType
  /\ "Run" \notin Project   \* the availability page lists it with the projects
  /\ None \notin Entry \cup Absence \cup Text \cup TypedFilter \cup Category \cup Dragging \cup Editing
  /\ \A s \in Seeds : s \in [Cell -> Entry \cup {None}]
  /\ \A s \in Seeds, c \in Cell : s[c] # None => WellFormed(s[c])
  /\ Contested \subseteq Cell
  /\ \A d \in Other : d \in Entry /\ WellFormed(d)
  /\ \A ps \in TypedProjects : ps \in Seq(Share)
  /\ TypedAway \subseteq Absence /\ TypedIncident \cup TypedNote \subseteq Text
  /\ TypedRange \subseteq Slot \X Slot
  /\ {MaxInputs, MaxApplies, MaxDisturbances} \subseteq Nat

VARIABLES
  planning,     \* what each half-day of each person holds
  showWeekend,  \* _showWeekend
  filter,       \* teamFilter, None when empty
  drag,         \* dragState, None when no button is down
  editor,       \* the open editor, None without one
  count         \* how often the bounded things happened

vars == <<planning, showWeekend, filter, drag, editor, count>>

----------------------------------------------------------------------------
(* The grid. *)

At(p, k) == planning[<<p, k>>]
FlagAt(sd, f) == IF sd = None THEN FALSE ELSE sd[f]

\* A filter keeps the people with a matching project on any day, hidden or not.
Matches(p) ==
  filter # None => \E k \in Slot : ~IsEmpty(At(p, k)) /\ filter \in Names(At(p, k))
RowsOfFirst[i \in 0..Len(People)] ==
  IF i = 0 THEN <<>>
  ELSE IF Matches(People[i]) THEN Append(RowsOfFirst[i - 1], People[i]) ELSE RowsOfFirst[i - 1]
Rows == RowsOfFirst[Len(People)]

\* The cells drawn in some rows and columns: the row's number and the half-day.
Rectangle(r1, r2, k1, k2) ==
  {c \in (DOMAIN Rows) \X Columns(Slot, showWeekend) :
     c[1] \in r1..r2 /\ c[2] \in k1..k2}

\* The left neighbour's key hides a label, unless the cell reads as not filled.
Merged(p, k, l) == getMergeKey(At(p, k), getWeekStart(DayOf(k)))
                     = getMergeKey(At(p, l), getWeekStart(DayOf(l)))
LabelShown(p, k, l) == ~Merged(p, k, l) \/ "not-filled" \in getSlotClass(At(p, l))
Neighbours ==
  {c \in Columns(Slot, showWeekend) \X Columns(Slot, showWeekend) :
     /\ c[1] < c[2]
     /\ \A k \in Columns(Slot, showWeekend) : k <= c[1] \/ c[2] <= k}

Init ==
  /\ planning \in Seeds
  /\ showWeekend = FALSE
  /\ filter = None
  /\ drag = None
  /\ editor = None
  /\ count = [applies |-> 0, others |-> 0, failures |-> 0]

----------------------------------------------------------------------------
(* Selecting. *)

\* The controls of the grid: the editor covers them and a drag keeps the pointer busy.
\* (A bound: the editor whose Apply failed is the last one.)
Idle == drag = None /\ editor = None /\ count.applies < MaxApplies /\ count.failures = 0

StartDrag(r, k) ==
  /\ Idle
  /\ <<r, k>> \in Rectangle(r, r, k, k)
  /\ drag' = [startRow |-> r, startCol |-> k, endRow |-> r, endCol |-> k,
              isDragging |-> FALSE,
              rows |-> Rows]   \* history: the rows at this time
  /\ UNCHANGED <<planning, showWeekend, filter, editor, count>>

ExtendDrag(r, k) ==
  /\ drag # None
  /\ <<r, k>> \in Rectangle(r, r, k, k)
  /\ <<r, k>> # <<drag.endRow, drag.endCol>>
  /\ drag' = [drag EXCEPT !.endRow = r, !.endCol = k, !.isDragging = TRUE]
  /\ UNCHANGED <<planning, showWeekend, filter, editor, count>>

Least(i, j) == IF i < j THEN i ELSE j
Most(i, j)  == IF i < j THEN j ELSE i

\* The cells under a drag as the grid is now.
Selected(d) ==
  IF d.isDragging
  THEN Rectangle(Least(d.startRow, d.endRow), Most(d.startRow, d.endRow),
                 Least(d.startCol, d.endCol), Most(d.startCol, d.endCol))
  ELSE Rectangle(d.startRow, d.startRow, d.startCol, d.startCol)

----------------------------------------------------------------------------
(* The editor. *)

\* Row by row, and from left to right in each.
Before(c, d) == c[1] < d[1] \/ (c[1] = d[1] /\ c[2] < d[2])
First(cells) == CHOOSE c \in cells : \A d \in cells : c = d \/ Before(c, d)
Last(cells)  == CHOOSE c \in cells : \A d \in cells : c = d \/ Before(d, c)

\* What the form is filled with from a half-day.
TabOf(src) ==
  IF src = None THEN "project"
  ELSE IF src.state = "undetermined" THEN "undetermined"
  ELSE IF src.away # None THEN "away"
  ELSE IF src.incident # None THEN "incident" ELSE "project"
\* Mutant of FormOf: the note of an absence is not filled in.
FormOfNoNote(src) ==
  [projects |-> IF src = None THEN <<>> ELSE src.projects,
   away     |-> IF IsAway(src) THEN [src.away EXCEPT !.note = NoText] ELSE DefaultAway,
   incident |-> IF src = None THEN NoText ELSE IF src.incident = None THEN NoText ELSE src.incident,
   note     |-> IF src = None THEN NoText ELSE src.note]
FormOf(src) ==
  [projects |-> IF src = None THEN <<>> ELSE src.projects,
   away     |-> IF IsAway(src) THEN src.away ELSE DefaultAway,
   incident |-> IF src = None THEN NoText ELSE IF src.incident = None THEN NoText ELSE src.incident,
   note     |-> IF src = None THEN NoText ELSE src.note]

\* Mutant: a range shows grey only where the half-day it is filled from has the flag.
triInitOfFirst(isRange, has, src, f) ==
  IF isRange THEN IF FlagAt(src, f) THEN "grey" ELSE "empty"
  ELSE IF FlagAt(src, f) THEN "tick" ELSE "empty"

\* A range shows grey where some half-day has the flag; one cell, its value.
triInit(isRange, has, src, f) ==
  IF isRange THEN IF has THEN "grey" ELSE "empty"
  ELSE IF FlagAt(src, f) THEN "tick" ELSE "empty"

openUnifiedEditor(cells) ==
  LET Data(c) == At(Rows[c[1]], c[2])
      filled  == {c \in cells : ~IsEmpty(Data(c))}
      src     == IF filled = {} THEN None ELSE Data(First(filled))
      isRange == Cardinality(cells) > 1
      has     == [f \in Flag |-> \E c \in cells : FlagAt(Data(c), f)]
  IN [pids  |-> {Rows[c[1]] : c \in cells},
      from  |-> First(cells)[2],
      to    |-> Last(cells)[2],
      tab   |-> TabOf(src),
      tri   |-> [f \in Flag |-> triInit(isRange, has[f], src, f)],
      grey  |-> [f \in Flag |-> isRange /\ has[f]],
      form  |-> FormOf(src),
      \* history: the toggles clicked, whether the range was changed, whether another
      \* user or a failed Apply wrote since, and the number of inputs
      touched |-> {}, moved |-> FALSE, disturbed |-> FALSE, inputs |-> 0]

EndDrag ==
  /\ drag # None
  /\ drag' = None
  /\ editor' = IF Selected(drag) = {} THEN None ELSE openUnifiedEditor(Selected(drag))
  /\ UNCHANGED <<planning, showWeekend, filter, count>>

Input(e) ==
  /\ editor # None
  /\ editor.inputs < MaxInputs
  /\ editor' = [e EXCEPT !.inputs = @ + 1]
  /\ UNCHANGED <<planning, showWeekend, filter, drag, count>>

uniSwitchTab(t) == editor.tab # t /\ Input([editor EXCEPT !.tab = t])

\* Mutant: every toggle has three values.
NextTriAlwaysGrey(grey, cur) ==
  CASE cur = "grey" -> "tick" [] cur = "tick" -> "empty" [] cur = "empty" -> "grey"

\* grey, tick, empty, grey ... where grey is allowed, else tick and empty.
NextTri(grey, cur) ==
  CASE cur = "grey"  -> "tick"
    [] cur = "tick"  -> "empty"
    [] cur = "empty" -> IF grey THEN "grey" ELSE "tick"

cycleTri(f) ==
  Input([editor EXCEPT !.tri[f] = NextTri(editor.grey[f], @), !.touched = @ \cup {f}])

TypeProjects(ps) == editor.tab = "project" /\ Input([editor EXCEPT !.form.projects = ps])
TypeAway(a)      == editor.tab = "away" /\ Input([editor EXCEPT !.form.away = a])
TypeIncident(t)  == editor.tab = "incident" /\ Input([editor EXCEPT !.form.incident = t])
TypeNote(n)      == /\ editor.tab = "project" /\ editor.tri["run"] = "tick"
                    /\ Input([editor EXCEPT !.form.note = n])
TypeRange(r)     == Input([editor EXCEPT !.from = r[1], !.to = r[2], !.moved = TRUE])

closeModal ==
  /\ editor # None
  /\ editor' = None
  /\ UNCHANGED <<planning, showWeekend, filter, drag, count>>

----------------------------------------------------------------------------
(* Apply. *)

\* Mutant: the hidden days of the range are edited too.
getRangeEditorCellsHidden(e) == e.pids \X generateSlotsInRange(e.from, e.to)

getRangeEditorCells(e) ==
  e.pids \X Columns(generateSlotsInRange(e.from, e.to), showWeekend)

resolveTri(tri, existing) == IF tri = "grey" THEN existing ELSE tri = "tick"

\* What Apply stores in a half-day that holds sd; None deletes its row, for a
\* cleared one as for one whose state is not_filled.
Written(e, sd) ==
  LET run     == e.tab \in Work /\ resolveTri(e.tri["run"], FlagAt(sd, "run"))
      remote  == resolveTri(e.tri["remote"], FlagAt(sd, "remote"))
      offsite == resolveTri(e.tri["offsite"], FlagAt(sd, "offsite"))
      projects == IF e.tab = "project" THEN e.form.projects ELSE <<>>
  IN IF e.tab \in Work /\ projects = <<>> /\ ~run /\ ~remote /\ ~offsite
     THEN None
     ELSE [state    |-> IF e.tab = "undetermined" THEN "undetermined" ELSE "filled",
           away     |-> IF e.tab = "away" THEN e.form.away ELSE None,
           incident |-> IF e.tab = "incident" THEN e.form.incident ELSE None,
           projects |-> projects,
           run      |-> run,
           note     |-> IF e.tab \in Work /\ e.tri["run"] = "tick" THEN e.form.note
                        ELSE IF sd = None THEN NoText ELSE sd.note,
           remote   |-> remote,
           offsite  |-> offsite]

\* Mutant: no project alone may exceed 100 %, all together may.
RefusedOneByOne(e) == e.tab = "project" /\ \E i \in DOMAIN e.form.projects : e.form.projects[i].pct > 100

Refused(e) == e.tab = "project" /\ sumPct(e.form.projects) > 100

\* The writes all succeed and the editor closes, or one of them fails (a bound:
\* any may) and it stays open, with the others done.
applyUnifiedEditor(failing) ==
  LET cells == getRangeEditorCells(editor) IN
  /\ editor # None
  /\ ~Refused(editor)
  /\ count.applies < MaxApplies
  /\ failing \subseteq cells
  /\ planning' = [c \in Cell |-> IF c \in cells \ failing THEN Written(editor, planning[c])
                                 ELSE planning[c]]
  /\ editor' = IF failing = {} THEN None ELSE [editor EXCEPT !.disturbed = TRUE]
  /\ count' = IF failing = {} THEN [count EXCEPT !.applies = @ + 1]
              ELSE [count EXCEPT !.failures = @ + 1]
  /\ UNCHANGED <<showWeekend, filter, drag>>

----------------------------------------------------------------------------
(* The rest of the page, and the others. *)

OtherWrites(c, d) ==
  /\ count.others + count.failures < MaxDisturbances
  /\ drag # None \/ editor # None
  /\ planning[c] # d
  /\ planning' = [planning EXCEPT ![c] = d]
  /\ editor' = IF editor = None THEN None ELSE [editor EXCEPT !.disturbed = TRUE]
  /\ count' = [count EXCEPT !.others = @ + 1]
  /\ UNCHANGED <<showWeekend, filter, drag>>

ToggleWeekend ==
  /\ Idle
  /\ showWeekend' = ~showWeekend
  /\ UNCHANGED <<planning, filter, drag, editor, count>>

TypeFilter(f) ==
  /\ Idle
  /\ filter' = f
  /\ UNCHANGED <<planning, showWeekend, drag, editor, count>>

Select ==
  \/ \E r \in DOMAIN Rows, k \in Slot : StartDrag(r, k) \/ ExtendDrag(r, k)
  \/ EndDrag

Edit ==
  /\ editor # None
  /\ \/ \E t \in Tab : uniSwitchTab(t)
     \/ \E f \in Flag : cycleTri(f)
     \/ \E ps \in TypedProjects : TypeProjects(ps)
     \/ \E a \in TypedAway : TypeAway(a)
     \/ \E t \in TypedIncident : TypeIncident(t)
     \/ \E n \in TypedNote : TypeNote(n)
     \/ \E r \in TypedRange : TypeRange(r)
     \/ applyUnifiedEditor({})
     \/ /\ count.others + count.failures < MaxDisturbances
        /\ \E c \in getRangeEditorCells(editor) : applyUnifiedEditor({c})
     \/ closeModal

Next ==
  \/ Select
  \/ Edit
  \/ \E c \in Contested, d \in Other \cup {None} : OtherWrites(c, d)
  \/ ToggleWeekend
  \/ \E f \in TypedFilter \cup {None} : TypeFilter(f)

Spec == Init /\ [][Next]_vars

----------------------------------------------------------------------------
(* Correctness. *)

\* Every variable keeps its type, a drag stays on cells that are drawn, and an open editor
\* is about somebody and shows no grey toggle where grey means nothing (cycleTri's
\* two-valued toggles).
TypeOK ==
  /\ planning \in [Cell -> Entry \cup {None}]
  /\ showWeekend \in BOOLEAN
  /\ filter \in TypedFilter \cup {None}
  /\ drag # None =>
       /\ drag \in Dragging /\ editor = None
       /\ {drag.startCol, drag.endCol} \subseteq Columns(Slot, showWeekend)
  /\ editor # None =>
       /\ editor \in Editing /\ editor.pids # {}
       /\ \A f \in Flag : editor.tri[f] = "grey" => editor.grey[f]
  /\ count \in [applies : 0..MaxApplies, others : 0..MaxDisturbances,
                failures : 0..MaxDisturbances]

\* Whatever users select, type and toggle, on whichever tab they end up, no half-day ever
\* holds two things that exclude each other, or nothing but a row (applyUnifiedEditor).
EntriesAreWellFormed == \A c \in Cell : planning[c] # None => WellFormed(planning[c])

\* Everywhere a half-day is shown it reads the same: each chain of conditions finds the
\* same first, whatever its order (getSlotClass, getSlotTitle, getSlotLabel, uniCategorise,
\* the availability page, halfDayValue, the summary row, projectColorBg, downloadICS).
CellViewsAgree(d) ==
  LET class == getSlotClass(d)
      title == getSlotTitle(d)
  IN /\ "away" \in class <=> IsAway(d)
     /\ "run" \in class <=> IsRun(d)
     /\ "project" \in class <=> projectColorBg(d) # <<>>
     /\ "Away" \in title <=> "away" \in class
     /\ "Incident" \in title <=> "incident" \in class
     /\ "Projects" \in title <=> "project" \in class
     /\ "Run duty" \in title <=> "run" \in class
     /\ title \cap {"remote", "offsite"} = class \cap {"remote", "offsite"}
     /\ getSlotLabel(d) = title \ {"Not filled"}
     /\ uniCategorise(d) = None <=> d = None
     /\ uniCategorise(d) = "project+run" <=> {"project", "run"} \subseteq class
     /\ uniCategorise(d) = "other" <=> d # None /\ "not-filled" \in class
     /\ "Run" \in availabilityDetail(d) <=> "run" \in class
     /\ icsEvents(d) = {} <=> "not-filled" \in class
     /\ ~(halfDayValue(d) > 100)
     /\ halfDayValue(d) > 0 => class \cap {"project", "run", "undetermined"} # {}

\* ... and counts the same: the summary row of the grid, the run coverage, the day summary
\* and the workload's presence over the people of a half-day, and a person's run ratio
\* over their half-days (renderTeamGrid, calcRunCoveragePerSlot, renderAvailability,
\* renderWorkload, calcRunRatio).
ViewsAgree ==
  /\ \A c \in Cell : CellViewsAgree(planning[c])
  /\ \A k \in Slot :
       LET column   == [p \in Person |-> At(p, k)]
           summary  == summaryRow(column)
           coverage == calcRunCoveragePerSlot(column)
       IN /\ summary.away = coverage.away /\ summary.away = daySummary(column, "away")
          /\ summary.run = coverage.onRun /\ summary.run = daySummary(column, "run")
          /\ coverage.away + coverage.avail = Cardinality(Person)
          /\ coverage.avail = Count(column, LAMBDA sd : halfDayPresence(sd) = 100)
  /\ \A p \in Person :
       LET row == [k \in Slot |-> At(p, k)]
       IN /\ calcRunRatio(row).run = summaryRow(row).run
          /\ calcRunRatio(row).run <= calcRunRatio(row).working
          /\ collectRunNotes(row) \subseteq {k \in Slot : "run" \in getSlotClass(row[k])}
          /\ conflictWarn(row, TRUE) <=> summaryRow(row).away > 0

\* A label is left out only where the cell to the left, drawn as one with it, reads the
\* same (getMergeKey and getCellLabel in renderTeamGrid).
MergedCellsReadAlike ==
  \A p \in Person, c \in Neighbours :
    ~LabelShown(p, c[1], c[2]) => getCellLabel(At(p, c[1])) = getCellLabel(At(p, c[2]))

\* A step in which Apply writes.
Applies == count'.applies # count.applies \/ count'.failures # count.failures

\* Apply changes a mark only if the user clicked its toggle, or run on a tab that excludes
\* it: "existing per-slot values are preserved unless explicitly set" (the comment above
\* openUnifiedEditor).  A toggle that is not grey speaks for the half-days the editor was
\* opened on and as they were then: it may clear a mark in a half-day the range was moved
\* to, or that another user set meanwhile.
UntouchedFlagsStay ==
  [][Applies =>
       \A f \in Flag \ editor.touched :
         /\ f = "run" => editor.tab \in Work
         /\ editor.tri[f] = "grey" \/ ~(editor.moved \/ editor.disturbed)
         => \A c \in Cell : FlagAt(planning'[c], f) = FlagAt(planning[c], f)]_vars

\* Opening the editor on one half-day and applying it as it is changes nothing, unless
\* somebody else wrote in between: the form holds all there is (openUnifiedEditor,
\* applyUnifiedEditor).
UnchangedFormIsHarmless ==
  [][Applies /\ editor.inputs = 0 /\ ~editor.disturbed
       /\ Cardinality(getRangeEditorCells(editor)) = 1
     => planning' = planning]_vars

\* The editor is about the cells that were dragged over: the people of the rows and the
\* days of its date fields are the rectangle, hidden days left out, if no row came or went
\* under the drag (endDrag gathers by row numbers, getRangeEditorCells by dates).
DragSelects ==
  [][drag # None /\ drag' = None /\ Rows = drag.rows
     => /\ editor' # None
        /\ getRangeEditorCells(editor)' =
             {<<drag.rows[c[1]], c[2]>> : c \in Selected(drag)}]_vars
=============================================================================
