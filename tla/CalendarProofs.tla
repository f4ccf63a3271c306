--------------------------- MODULE CalendarProofs ---------------------------
(***************************************************************************)
(* For any day and any year of the calendar: a week starts on the Monday   *)
(* of its days, the days that are fetched are those that are shown, a jump *)
(* shows its day, and the weeks of a trimester are the Mondays in it.      *)
(***************************************************************************)
EXTENDS Calendar, WellFoundedInduction, TLAPS

\* A non-empty set of numbers has a least one.
LEMMA LeastNumber ==
  ASSUME NEW T \in SUBSET Nat, T # {}
  PROVE  \E x \in T : \A y \in T : x <= y
<1>1. \E x \in T : \A y \in T : ~(<<y, x>> \in OpToRel(<, Nat))
  BY NatLessThanWellFounded, WFMin, Zenon
<1>2. \E x \in T : \A y \in T : ~(y < x)
  BY <1>1, Zenon DEF OpToRel
<1>3. QED
  BY <1>2

\* A week starts on the Monday at or before the day (getWeekStart).
LEMMA WeekStart ==
  ASSUME NEW d \in Int
  PROVE  /\ getWeekStart(d) \in Int
         /\ getWeekStart(d) % 7 = 0
         /\ getWeekStart(d) <= d /\ d <= getWeekStart(d) + 6
BY DEF getWeekStart, GetDay

\* What is fetched for the grid is what it shows (windowEndDate, getVisibleWeeks).
THEOREM WindowIsShown ==
  ASSUME NEW today \in Int, NEW n \in Nat \ {0}, NEW offset \in Int
  PROVE  Fetched(today, n, offset) = UNION {getWeekDays(w) : w \in getVisibleWeeks(today, n, offset)}
<1> DEFINE monday == getWeekStart(today)
           first == addWeeks(monday, offset)
<1>1. monday \in Int
  BY WeekStart
<1> HIDE DEF monday
<1>2. first \in Int /\ first = monday + 7 * offset
  BY <1>1 DEF addWeeks
<1>3. Fetched(today, n, offset) = first..first + 7 * (n - 1) + 6
  BY DEF Fetched, monday
<1>4. getVisibleWeeks(today, n, offset) = {first + 7 * i : i \in 0..n - 1}
  <2>1. \A i \in 0..n - 1 : addWeeks(monday, i + offset) = first + 7 * i
    BY <1>1, <1>2 DEF addWeeks
  <2>2. QED
    BY <2>1 DEF getVisibleWeeks, monday
<1> HIDE DEF first
<1>5. ASSUME NEW d \in first..first + 7 * (n - 1) + 6
      PROVE  \E i \in 0..n - 1 : d \in getWeekDays(first + 7 * i)
  <2> DEFINE i == (d - first) \div 7
  <2>1. i \in 0..n - 1
    BY <1>2
  <2>2. d \in getWeekDays(first + 7 * i)
    BY <1>2 DEF getWeekDays
  <2>3. QED
    BY <2>1, <2>2
<1>6. ASSUME NEW i \in 0..n - 1, NEW d \in getWeekDays(first + 7 * i)
      PROVE  d \in first..first + 7 * (n - 1) + 6
  BY <1>2 DEF getWeekDays
<1>7. QED
  BY <1>3, <1>4, <1>5, <1>6

\* A jump shows its day in the first week (jumpToDate).
THEOREM JumpShowsTheDay ==
  ASSUME NEW today \in Int, NEW d \in Int
  PROVE  /\ jumpToDate(today, d) \in Int
         /\ d \in getWeekDays(addWeeks(getWeekStart(today), jumpToDate(today, d)))
<1> DEFINE a == getWeekStart(today)
           b == getWeekStart(d)
<1>1. a \in Int /\ a % 7 = 0 /\ b \in Int /\ b % 7 = 0 /\ b <= d /\ d <= b + 6
  BY WeekStart
<1> HIDE DEF a, b
<1>2. (b - a) \div 7 \in Int /\ a + 7 * ((b - a) \div 7) = b
  BY <1>1
<1>3. QED
  BY <1>1, <1>2 DEF jumpToDate, addWeeks, getWeekDays, a, b

\* The trimesters of a year follow each other from its first day to its last.
LEMMA Trimesters ==
  ASSUME NEW y \in 2024..2099
  PROVE  /\ YearStart(y) \in Int /\ YearStart(y + 1) \in Int
         /\ \A t \in 0..4 : MonthStart(y, 3 * t) \in Int
         /\ MonthStart(y, 0) = YearStart(y)
         /\ MonthStart(y, 0) + 7 < MonthStart(y, 3)
         /\ MonthStart(y, 3) + 7 < MonthStart(y, 6)
         /\ MonthStart(y, 6) + 7 < MonthStart(y, 9)
         /\ MonthStart(y, 9) + 7 < MonthStart(y, 12)
         /\ MonthStart(y, 12) = YearStart(y + 1)
<1> DEFINE s == YearStart(y)
           leap == IF y % 4 = 0 THEN 1 ELSE 0
<1>1. s \in Int /\ YearStart(y + 1) \in Int /\ YearStart(y + 1) = s + 365 + leap
  BY DEF YearStart
<1>2. leap \in {0, 1}
  OBVIOUS
<1> HIDE DEF s, leap
<1>3. /\ MonthStart(y, 0) = s
      /\ MonthStart(y, 3) = s + 90 + leap
      /\ MonthStart(y, 6) = s + 181 + leap
      /\ MonthStart(y, 9) = s + 273 + leap
      /\ MonthStart(y, 12) = s + 365 + leap
  BY <1>1, <1>2 DEF MonthStart, s, leap
<1>4. \A t \in 0..4 : MonthStart(y, 3 * t) \in Int
  <2>1. \A t \in 0..4 : t = 0 \/ t = 1 \/ t = 2 \/ t = 3 \/ t = 4
    OBVIOUS
  <2>2. MonthStart(y, 3 * 0) \in Int /\ MonthStart(y, 3 * 1) \in Int /\ MonthStart(y, 3 * 2) \in Int
        /\ MonthStart(y, 3 * 3) \in Int /\ MonthStart(y, 3 * 4) \in Int
    BY <1>1, <1>2, <1>3
  <2>3. QED
    BY <2>1, <2>2
<1>5. QED
  BY <1>1, <1>2, <1>3, <1>4 DEF s

\* Every day of the calendar is in its year.
LEMMA DayInYear ==
  ASSUME NEW d \in Int, YearStart(2024) <= d, d < YearStart(2100)
  PROVE  /\ YearOf(d) \in 2024..2099
         /\ YearStart(YearOf(d)) <= d /\ d < YearStart(YearOf(d) + 1)
<1> DEFINE Later == {y \in 2025..2100 : d < YearStart(y)}
<1>1. Later \in SUBSET Nat /\ 2100 \in Later
  OBVIOUS
<1>2. Later # {}
  BY <1>1
<1> HIDE DEF Later
<1>3. PICK m \in Later : \A y \in Later : m <= y
  BY <1>1, <1>2, LeastNumber
<1>4. m \in 2025..2100 /\ d < YearStart(m)
  BY DEF Later
<1>5. YearStart(m - 1) <= d
  <2>1. CASE m = 2025
    BY <2>1
  <2>2. CASE m # 2025
    <3>1. m - 1 \in 2025..2100 /\ ~(m <= m - 1)
      BY <1>4, <2>2
    <3>2. m - 1 \notin Later
      BY <1>3, <3>1
    <3>3. YearStart(m - 1) \in Int
      BY <1>4 DEF YearStart
    <3>4. QED
      BY <3>1, <3>2, <3>3 DEF Later
  <2>3. QED
    BY <2>1, <2>2
<1>6. m - 1 \in 2024..2099 /\ m - 1 + 1 = m
  BY <1>4
<1>7. \E y \in 2024..2099 : YearStart(y) <= d /\ d < YearStart(y + 1)
  BY <1>4, <1>5, <1>6
<1>8. QED
  BY <1>7 DEF YearOf

\* A day is in one year only.
LEMMA OneYear ==
  ASSUME NEW d \in Int, NEW y \in 2024..2099, NEW z \in 2024..2099,
         YearStart(y) <= d, d < YearStart(y + 1), YearStart(z) <= d, d < YearStart(z + 1)
  PROVE  y = z
BY DEF YearStart

\* The weeks of a trimester are the Mondays in it (trimesterWeeks).
LEMMA MondaysOfTrimester ==
  ASSUME NEW y \in 2024..2099, NEW t \in 0..3, NEW w \in Int
  PROVE  w \in trimesterWeeks(y, t, 0, 0)
           <=> w % 7 = 0 /\ MonthStart(y, 3 * t) <= w /\ w < MonthStart(y, 3 * t + 3)
<1> DEFINE s == MonthStart(y, 3 * t)
           e == MonthStart(y, 3 * t + 3) - 1
           monday == getWeekStart(s)
           first == IF monday < s THEN addWeeks(monday, 1) ELSE monday
<1>1. 3 * t + 3 = 3 * (t + 1) /\ t \in 0..4 /\ t + 1 \in 0..4
  OBVIOUS
<1>2. s \in Int /\ e \in Int /\ MonthStart(y, 3 * t + 3) \in Int
  BY <1>1, Trimesters
<1>3. s + 6 < e
  <2>1. t = 0 \/ t = 1 \/ t = 2 \/ t = 3
    OBVIOUS
  <2>2. MonthStart(y, 3 * 0) + 7 < MonthStart(y, 3 * 0 + 3)
        /\ MonthStart(y, 3 * 1) + 7 < MonthStart(y, 3 * 1 + 3)
        /\ MonthStart(y, 3 * 2) + 7 < MonthStart(y, 3 * 2 + 3)
        /\ MonthStart(y, 3 * 3) + 7 < MonthStart(y, 3 * 3 + 3)
    BY Trimesters
  <2>3. s + 7 < MonthStart(y, 3 * t + 3)
    BY <2>1, <2>2
  <2>4. QED
    BY <1>2, <2>3
<1>4. trimesterWeeks(y, t, 0, 0) = {addWeeks(first, i) : i \in (-0)..((e - first) \div 7) + 0}
  BY DEF trimesterWeeks
<1>5. MonthStart(y, 3 * t + 3) = e + 1
  BY <1>2
<1> HIDE DEF s, e
<1>6. monday \in Int /\ monday % 7 = 0 /\ monday <= s /\ s <= monday + 6
  BY <1>2, WeekStart
<1> HIDE DEF monday
<1>7. first \in Int /\ first % 7 = 0 /\ s <= first /\ first <= s + 6
  BY <1>2, <1>6 DEF addWeeks
<1> HIDE DEF first
<1>8. w \in {addWeeks(first, i) : i \in (-0)..((e - first) \div 7) + 0}
        <=> \E i \in 0..((e - first) \div 7) : w = first + 7 * i
  BY <1>2, <1>7 DEF addWeeks
<1>9. ASSUME NEW i \in 0..((e - first) \div 7), w = first + 7 * i
      PROVE  w % 7 = 0 /\ s <= w /\ w <= e
  BY <1>2, <1>7, <1>9
<1>10. ASSUME w % 7 = 0, s <= w, w <= e
       PROVE  \E i \in 0..((e - first) \div 7) : w = first + 7 * i
  <2> DEFINE i == (w - first) \div 7
  <2>1. w = first + 7 * i /\ i \in Int
    BY <1>7, <1>10
  <2>2. i \in 0..((e - first) \div 7)
    BY <1>2, <1>7, <1>10
  <2>3. QED
    BY <2>1, <2>2
<1>11. w <= e <=> w < e + 1
  BY <1>2
<1>12. QED
  BY <1>4, <1>5, <1>8, <1>9, <1>10, <1>11 DEF s
=============================================================================
