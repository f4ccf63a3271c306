---------------------------- MODULE ScheduleData ----------------------------
(***************************************************************************)
(* The vocabulary of a team's schedule (tables people, planning, rotation  *)
(* and oncall): shared by what the store promises (Schedule) and by what   *)
(* the server does (Server).                                               *)
(***************************************************************************)
EXTENDS Naturals

CONSTANTS
  Person,     \* every id a person can have
  Week,       \* the weeks, as numbers in order
  HalfDay,    \* the half-days of a week: a date of it and am or pm
  Kind,       \* what a half-day can be filled with
  NoEntry,    \* an empty half-day: no row, or the state not_filled
  Unplanned   \* the kinds that a copy of a week never carries over

ASSUME ScheduleAssumption ==
  /\ Week \subseteq Nat
  /\ NoEntry \notin Kind
  /\ Unplanned \subseteq Kind

\* A half-day of somebody's week, and what it holds.
Key == Person \X Week \X HalfDay
Entry == Kind \cup {NoEntry}

\* The planning `plan` with `e` in every half-day of `keys`.
With(plan, keys, e) == [k \in Key |-> IF k \in keys THEN e ELSE plan[k]]

PersonsOf(keys) == {k[1] : k \in keys}
KeysOf(p)       == {k \in Key : k[1] = p}
KeysBefore(w)   == {k \in Key : k[2] < w}
DutiesOf(p)     == {p} \X Week
=============================================================================
