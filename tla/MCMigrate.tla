----------------------------- MODULE MCMigrate -----------------------------
(* Instances of Migrate for TLC: one half-day, one event of every kind that *)
(* the texts tell apart.                                                    *)
EXTENDS Migrate

CONSTANT s1

OneSlot == {s1}
Digits  == {"2", "3", "4"}
Tokens  == Words \cup Digits \cup
             {"2026", "01", "05", "09", "am", "pm", "p1", "sick", "INC-2", "A", "B", "filled"}

Monday == <<"2026", "-", "01", "-", "05">>
Friday == <<"2026", "-", "01", "-", "09">>

OnSlot(d) == [action |-> "planning_set", person |-> <<"p1">>, date |-> Monday,
              slot |-> <<"am">>, data |-> d]
SetAway     == OnSlot([kind |-> "away", type |-> <<"sick">>])
SetIncident == OnSlot([kind |-> "incident", text |-> <<"INC-2">>])
SetTextless == OnSlot([kind |-> "incident", text |-> <<>>])
SetProjects == OnSlot([kind |-> "project", names |-> << <<"A">>, <<"B">> >>, run |-> TRUE])
SetProject  == OnSlot([kind |-> "project", names |-> << <<"A">> >>, run |-> FALSE])
SetComma    == OnSlot([kind |-> "project", names |-> << <<"A", ",", "B">> >>, run |-> FALSE])
SetAlone    == OnSlot([kind |-> "project", names |-> << <<>>, <<"A">> >>, run |-> TRUE])
SetRun      == OnSlot([kind |-> "run"])
SetBare     == OnSlot([kind |-> "bare", state |-> "filled"])
Clear       == [action |-> "planning_clear", person |-> <<"p1">>, date |-> Monday, slot |-> <<"pm">>]
SetRange    == [action |-> "planning_range", start |-> Monday, startSlot |-> <<"am">>,
                end |-> Friday, endSlot |-> <<"pm">>, count |-> "2"]
Copy        == [action |-> "planning_copy", person |-> <<"p1">>, from |-> Monday, to |-> Friday]
OnCall      == [action |-> "oncall_set", person |-> <<"p1">>, week |-> Monday]
Delete      == [action |-> "person_delete", person |-> <<"p1">>]
Rename      == [action |-> "project_update", name |-> <<"A">>]
Prune       == [action |-> "prune", weeks |-> "3", deleted |-> "4"]
Csv         == [action |-> "project_import_csv", created |-> "2", updated |-> "3"]
Reset       == [action |-> "reset"]

OldEvents == {SetAway, SetIncident, SetTextless, SetProjects, SetProject, SetComma, SetAlone,
              SetRun, SetBare, Clear, SetRange, Copy, OnCall, Delete, Rename, Prune, Csv, Reset}
NewEvents == {SetIncident, SetRange, Reset}
RangeOnly == {SetRange}
=============================================================================
