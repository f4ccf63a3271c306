------------------------------ MODULE Calendar ------------------------------
(***************************************************************************)
(* The date arithmetic of web/assets/app.js.  A day is an integer, day 0   *)
(* the Monday 2024-01-01; a half-day is 2 * day for am and 2 * day + 1 for *)
(* pm, so that the order of half-days is that of the integers; a week is   *)
(* named by the day of its Monday.                                         *)
(***************************************************************************)
EXTENDS Integers

----------------------------------------------------------------------------
(* What the code takes from JavaScript's Date, for the years 2024 to 2099. *)

\* Date.getDay: 0 for Sunday to 6 for Saturday.
GetDay(d) == (d + 1) % 7

\* The first of January of year y, and of its month m (0 to 12) the first day.
YearStart(y) == 365 * (y - 2024) + ((y - 2021) \div 4)
MonthStart(y, m) ==
  YearStart(y) + <<0, 31, 59, 90, 120, 151, 181, 212, 243, 273, 304, 334, 365>>[m + 1]
               + (IF y % 4 = 0 /\ m >= 2 THEN 1 ELSE 0)

YearOf(d) == CHOOSE y \in 2024..2099 : YearStart(y) <= d /\ d < YearStart(y + 1)

----------------------------------------------------------------------------
getWeekStart(d) == d + (IF GetDay(d) = 0 THEN -6 ELSE 1 - GetDay(d))
addWeeks(d, n)  == d + 7 * n
getWeekDays(w)  == w..w + 6

\* The n weeks the grid shows, `offset` weeks from today's; the days that are
\* fetched for them, from the first Monday to windowEndDate, the last Sunday;
\* and the offset at which the week of day d comes first.
getVisibleWeeks(today, n, offset) == {addWeeks(getWeekStart(today), i + offset) : i \in 0..n - 1}
Fetched(today, n, offset) ==
  LET first == addWeeks(getWeekStart(today), offset) IN first..first + 7 * (n - 1) + 6
jumpToDate(today, d) == (getWeekStart(d) - getWeekStart(today)) \div 7

----------------------------------------------------------------------------
(* Half-days. *)

DayOf(k)     == k \div 2
isWeekend(k) == (GetDay(DayOf(k)) + 6) % 7 >= 5

\* Every half-day from one to another, none when they are the wrong way round.
generateSlotsInRange(from, to) == from..to

\* The columns of the grid among some half-days.
Columns(slots, showWeekend) == {k \in slots : showWeekend \/ ~isWeekend(k)}

----------------------------------------------------------------------------
\* Mutant: a trimester begins with the week its first day is in.
trimesterWeeksEarly(year, tri, before, after) ==
  LET triStart == MonthStart(year, 3 * tri)
      triEnd   == MonthStart(year, 3 * tri + 3) - 1
      first    == getWeekStart(triStart)
  IN {addWeeks(first, i) : i \in (-before)..((triEnd - first) \div 7) + after}

\* The weeks of a trimester, 0 to 3: those whose Monday falls in it, and as many
\* more before and after it as were asked for.
trimesterWeeks(year, tri, before, after) ==
  LET triStart == MonthStart(year, 3 * tri)
      triEnd   == MonthStart(year, 3 * tri + 3) - 1
      monday   == getWeekStart(triStart)
      first    == IF monday < triStart THEN addWeeks(monday, 1) ELSE monday
  IN {addWeeks(first, i) : i \in (-before)..((triEnd - first) \div 7) + after}
=============================================================================
