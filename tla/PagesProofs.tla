----------------------------- MODULE PagesProofs -----------------------------
(***************************************************************************)
(* For any weeks of the calendar, people, events, and moves and changes of *)
(* anybody: the four trimester tables share out the weeks of a year; every *)
(* variable keeps its type; and once nothing is under way, the activity    *)
(* tab shows the newest events and the on-call tab the year as stored.     *)
(***************************************************************************)
EXTENDS Pages, CalendarProofs, FiniteSetTheorems

\* A week is in one trimester of its year, and in none of another (trimesterWeeks).
LEMMA WeeksAreShared ==
  ASSUME NEW w \in Week, NEW y \in 2024..2099
  PROVE  Cardinality({t \in 0..3 : w \in trimesterWeeks(y, t, 0, 0)})
           = (IF YearOf(w) = y THEN 1 ELSE 0)
<1> DEFINE In(t) == MonthStart(y, 3 * t) <= w /\ w < MonthStart(y, 3 * t + 3)
           ts == {t \in 0..3 : w \in trimesterWeeks(y, t, 0, 0)}
<1>1. w \in Int /\ w % 7 = 0 /\ YearStart(2024) <= w /\ w < YearStart(2100)
  <2>1. YearStart(2024) \in Int /\ YearStart(2100) \in Int
    BY DEF YearStart
  <2>2. w \in YearStart(2024)..YearStart(2100) - 1 /\ GetDay(w) = 1
    BY PagesAssumption
  <2>3. w \in Int /\ (w + 1) % 7 = 1
    BY <2>1, <2>2 DEF GetDay
  <2>4. QED
    BY <2>1, <2>2, <2>3
<1>2. \A t \in 0..3 : t \in ts <=> In(t)
  BY <1>1, MondaysOfTrimester
<1>3. /\ MonthStart(y, 0) = YearStart(y) /\ MonthStart(y, 12) = YearStart(y + 1)
      /\ MonthStart(y, 0) < MonthStart(y, 3) /\ MonthStart(y, 3) < MonthStart(y, 6)
      /\ MonthStart(y, 6) < MonthStart(y, 9) /\ MonthStart(y, 9) < MonthStart(y, 12)
      /\ MonthStart(y, 0) \in Int /\ MonthStart(y, 3) \in Int /\ MonthStart(y, 6) \in Int
      /\ MonthStart(y, 9) \in Int /\ MonthStart(y, 12) \in Int
  <2>1. \A t \in 0..4 : MonthStart(y, 3 * t) \in Int
    BY Trimesters
  <2>2. /\ MonthStart(y, 3 * 0) \in Int /\ MonthStart(y, 3 * 1) \in Int /\ MonthStart(y, 3 * 2) \in Int
        /\ MonthStart(y, 3 * 3) \in Int /\ MonthStart(y, 3 * 4) \in Int
    BY <2>1
  <2>3. QED
    BY <2>2, Trimesters
<1>4. /\ In(0) <=> MonthStart(y, 0) <= w /\ w < MonthStart(y, 3)
      /\ In(1) <=> MonthStart(y, 3) <= w /\ w < MonthStart(y, 6)
      /\ In(2) <=> MonthStart(y, 6) <= w /\ w < MonthStart(y, 9)
      /\ In(3) <=> MonthStart(y, 9) <= w /\ w < MonthStart(y, 12)
  OBVIOUS
<1>5. \A t \in 0..3 : t = 0 \/ t = 1 \/ t = 2 \/ t = 3
  OBVIOUS
<1>6. ts \subseteq 0..3
  OBVIOUS
<1> HIDE DEF ts, In
<1>7. YearOf(w) = y <=> YearStart(y) <= w /\ w < YearStart(y + 1)
  <2>1. /\ YearOf(w) \in 2024..2099
        /\ YearStart(YearOf(w)) <= w /\ w < YearStart(YearOf(w) + 1)
    BY <1>1, DayInYear
  <2>2. ASSUME YearStart(y) <= w, w < YearStart(y + 1) PROVE YearOf(w) = y
    <3> DEFINE z == YearOf(w)
    <3>1. z \in 2024..2099 /\ YearStart(z) <= w /\ w < YearStart(z + 1)
      BY <2>1
    <3> HIDE DEF z
    <3>2. z = y
      BY <1>1, <2>2, <3>1 DEF YearStart
    <3>3. QED
      BY <3>2 DEF z
  <2>3. QED
    BY <2>1, <2>2
<1>8. CASE YearOf(w) = y
  <2>1. MonthStart(y, 0) <= w /\ w < MonthStart(y, 12)
    BY <1>3, <1>7, <1>8
  <2>2. \E t \in 0..3 : In(t) /\ \A u \in 0..3 : In(u) => u = t
    BY <1>1, <1>3, <1>4, <1>5, <2>1
  <2>3. PICK t \in 0..3 : In(t) /\ \A u \in 0..3 : In(u) => u = t
    BY <2>2
  <2>4. Cardinality(ts) = 1
    <3>1. \A u : u \in ts => u = t
      BY <1>2, <1>6, <2>3
    <3>2. t \in ts
      BY <1>2, <2>3
    <3>3. ts = {t}
      BY <3>1, <3>2
    <3>4. Cardinality({t}) = 1
      BY FS_Singleton
    <3>5. QED
      BY <3>3, <3>4
  <2>5. QED
    BY <1>8, <2>4 DEF ts
<1>9. CASE YearOf(w) # y
  <2>1. ~(MonthStart(y, 0) <= w /\ w < MonthStart(y, 12))
    BY <1>3, <1>7, <1>9
  <2>2. \A t \in 0..3 : ~In(t)
    BY <1>1, <1>3, <1>4, <1>5, <2>1
  <2>3. ts = {}
    BY <1>2, <1>6, <2>2
  <2>4. Cardinality(ts) = 0
    BY <2>3, FS_EmptySet
  <2>5. QED
    BY <1>9, <2>4 DEF ts
<1>10. QED
  BY <1>8, <1>9

\* The assignments from one day to another are those up to a day between and those after
\* it (oncallCounts).
LEMMA CountsSplit ==
  ASSUME NEW oc, NEW p \in Person, NEW from \in Int, NEW mid \in Int, NEW to \in Int,
         from <= mid, mid <= to
  PROVE  /\ oncallCounts(oc, from, to - 1)[p]
              = oncallCounts(oc, from, mid - 1)[p] + oncallCounts(oc, mid, to - 1)[p]
         /\ oncallCounts(oc, from, to - 1)[p] \in Nat
<1> DEFINE D == 1..Len(People) + MaxOwn
           T(a, b) == {c \in Week \X D :
                         /\ a <= c[1] /\ c[1] <= b
                         /\ c[2] \in DOMAIN oc[c[1]] /\ oc[c[1]][c[2]].person = p}
<1>1. \A a, b : oncallCounts(oc, a, b)[p] = Cardinality(T(a, b))
  BY DEF oncallCounts
<1>2. IsFiniteSet(Week \X D)
  <2>1. Len(People) \in Nat /\ MaxOwn \in Nat
    BY PagesAssumption
  <2>2. Len(People) + MaxOwn \in Nat
    BY <2>1
  <2>3. IsFiniteSet(D)
    BY <2>2, FS_Interval
  <2>4. QED
    <3>1. IsFiniteSet(Week)
      BY PagesAssumption
    <3>2. QED
      BY <2>3, <3>1, FS_Product, Zenon
<1>3. Week \subseteq Int
  <2>1. YearStart(2024) \in Int /\ YearStart(2100) \in Int
    BY DEF YearStart
  <2>2. \A w \in Week : w \in YearStart(2024)..YearStart(2100) - 1
    BY PagesAssumption
  <2>3. QED
    BY <2>1, <2>2
<1> HIDE DEF D
<1>4. \A a, b : T(a, b) \subseteq Week \X D
  OBVIOUS
<1>5. ASSUME NEW c \in Week \X D
      PROVE  /\ from <= c[1] /\ c[1] <= to - 1
                  <=> (from <= c[1] /\ c[1] <= mid - 1) \/ (mid <= c[1] /\ c[1] <= to - 1)
             /\ ~((from <= c[1] /\ c[1] <= mid - 1) /\ mid <= c[1])
  <2>1. c[1] \in Int
    BY <1>3
  <2>2. QED
    BY <2>1
<1>6. /\ T(from, to - 1) = T(from, mid - 1) \cup T(mid, to - 1)
      /\ T(from, mid - 1) \cap T(mid, to - 1) = {}
  BY <1>5, Zenon
<1> HIDE DEF T
<1>7. IsFiniteSet(T(from, mid - 1)) /\ IsFiniteSet(T(mid, to - 1)) /\ IsFiniteSet(T(from, to - 1))
  BY <1>2, <1>4, FS_Subset
<1>8. Cardinality(T(from, to - 1))
        = Cardinality(T(from, mid - 1)) + Cardinality(T(mid, to - 1)) - Cardinality({})
  BY <1>6, <1>7, FS_Union, Zenon
<1>9. /\ Cardinality(T(from, to - 1)) \in Nat /\ Cardinality(T(from, mid - 1)) \in Nat
      /\ Cardinality(T(mid, to - 1)) \in Nat
  BY <1>7, FS_CardinalityType
<1>10. QED
  BY <1>1, <1>8, <1>9, FS_EmptySet

\* ... and so are those of four stretches of days.
LEMMA CountsSum ==
  ASSUME NEW oc, NEW p \in Person, NEW a \in Int, NEW b \in Int, NEW c \in Int, NEW d \in Int,
         NEW e \in Int, a <= b, b <= c, c <= d, d <= e
  PROVE  oncallCounts(oc, a, e - 1)[p]
           = oncallCounts(oc, a, b - 1)[p] + oncallCounts(oc, b, c - 1)[p]
             + oncallCounts(oc, c, d - 1)[p] + oncallCounts(oc, d, e - 1)[p]
<1>1. oncallCounts(oc, a, e - 1)[p] = oncallCounts(oc, a, d - 1)[p] + oncallCounts(oc, d, e - 1)[p]
  <2>1. a <= d
    OBVIOUS
  <2>2. QED
    BY <2>1, CountsSplit
<1>2. oncallCounts(oc, a, d - 1)[p] = oncallCounts(oc, a, c - 1)[p] + oncallCounts(oc, c, d - 1)[p]
  <2>1. a <= c
    OBVIOUS
  <2>2. QED
    BY <2>1, CountsSplit
<1>3. oncallCounts(oc, a, c - 1)[p] = oncallCounts(oc, a, b - 1)[p] + oncallCounts(oc, b, c - 1)[p]
  BY CountsSplit
<1>4. QED
  BY <1>1, <1>2, <1>3

\* Somebody's share in a year is the sum of those in its trimesters.
LEMMA SharesOfYear ==
  ASSUME NEW p \in Person, NEW y \in 2024..2099
  PROVE  YearCounts(y)[p] = TrimesterCounts(y, 0)[p] + TrimesterCounts(y, 1)[p]
                            + TrimesterCounts(y, 2)[p] + TrimesterCounts(y, 3)[p]
<1> DEFINE b == MonthStart(y, 3)
           c == MonthStart(y, 6)
           d == MonthStart(y, 9)
           s == YearStart(y)
           e == YearStart(y + 1)
<1>1. /\ MonthStart(y, 3 * 0) \in Int /\ MonthStart(y, 3 * 1) \in Int
      /\ MonthStart(y, 3 * 2) \in Int /\ MonthStart(y, 3 * 3) \in Int
      /\ s \in Int /\ e \in Int
  BY Trimesters
<1>2. b \in Int /\ c \in Int /\ d \in Int
  BY <1>1
<1>3. /\ MonthStart(y, 0) = s /\ MonthStart(y, 12) = e
      /\ MonthStart(y, 0) + 7 < b /\ b + 7 < c /\ c + 7 < d /\ d + 7 < MonthStart(y, 12)
  BY Trimesters
<1>4. /\ TrimesterCounts(y, 0) = oncallCounts(oncall, s, b - 1)
      /\ TrimesterCounts(y, 1) = oncallCounts(oncall, b, c - 1)
      /\ TrimesterCounts(y, 2) = oncallCounts(oncall, c, d - 1)
      /\ TrimesterCounts(y, 3) = oncallCounts(oncall, d, e - 1)
      /\ YearCounts(y) = oncallCounts(oncall, s, e - 1)
  <2>1. /\ TrimesterCounts(y, 0) = oncallCounts(oncall, MonthStart(y, 3 * 0), MonthStart(y, 3 * 0 + 3) - 1)
        /\ TrimesterCounts(y, 1) = oncallCounts(oncall, MonthStart(y, 3 * 1), MonthStart(y, 3 * 1 + 3) - 1)
        /\ TrimesterCounts(y, 2) = oncallCounts(oncall, MonthStart(y, 3 * 2), MonthStart(y, 3 * 2 + 3) - 1)
        /\ TrimesterCounts(y, 3) = oncallCounts(oncall, MonthStart(y, 3 * 3), MonthStart(y, 3 * 3 + 3) - 1)
        /\ YearCounts(y) = oncallCounts(oncall, s, e - 1)
    BY DEF TrimesterCounts, YearCounts
  <2>2. 3 * 0 = 0 /\ 3 * 0 + 3 = 3 /\ 3 * 1 = 3 /\ 3 * 1 + 3 = 6 /\ 3 * 2 = 6 /\ 3 * 2 + 3 = 9
        /\ 3 * 3 = 9 /\ 3 * 3 + 3 = 12
    OBVIOUS
  <2>3. QED
    BY <1>3, <2>1, <2>2
<1> HIDE DEF b, c, d, s, e
<1>5. s <= b /\ b <= c /\ c <= d /\ d <= e
  BY <1>1, <1>2, <1>3
<1>6. oncallCounts(oncall, s, e - 1)[p]
        = oncallCounts(oncall, s, b - 1)[p] + oncallCounts(oncall, b, c - 1)[p]
          + oncallCounts(oncall, c, d - 1)[p] + oncallCounts(oncall, d, e - 1)[p]
  BY <1>1, <1>2, <1>5, CountsSum
<1>7. QED
  BY <1>4, <1>6

\* The shares of on-call add up, whatever was assigned.
THEOREM Shares == Spec => []SharesAddUp
<1>1. ASSUME NEW v \in Week PROVE YearOf(v) \in 2024..2099
  <2>1. YearStart(2024) \in Int /\ YearStart(2100) \in Int
    BY DEF YearStart
  <2>2. v \in YearStart(2024)..YearStart(2100) - 1
    BY PagesAssumption
  <2>3. v \in Int /\ YearStart(2024) <= v /\ v < YearStart(2100)
    BY <2>1, <2>2
  <2>4. QED
    BY <2>3, DayInYear
<1> DEFINE Years == 2024..2099
<1>2. \A w \in Week, y \in Years :
        Cardinality({t \in 0..3 : w \in trimesterWeeks(y, t, 0, 0)})
          = (IF YearOf(w) = y THEN 1 ELSE 0)
  BY WeeksAreShared
<1>3. \A p \in Person, y \in Years :
        YearCounts(y)[p] = TrimesterCounts(y, 0)[p] + TrimesterCounts(y, 1)[p]
                           + TrimesterCounts(y, 2)[p] + TrimesterCounts(y, 3)[p]
  BY SharesOfYear
<1>4. \A y \in {YearOf(v) : v \in Week} : y \in Years
  BY <1>1
<1> HIDE DEF Years
<1>5. SharesAddUp
  BY <1>2, <1>3, <1>4, Zenon DEF SharesAddUp
<1>6. QED
  BY <1>5, PTL
-----------------------------------------------------------------------------
(* Sequences.                                                               *)

\* The elements of a finite set, in some order, each once.
LEMMA Enumerated ==
  ASSUME NEW S, IsFiniteSet(S)
  PROVE  /\ Cardinality(S) \in Nat
         /\ SetToSeq(S) \in [1..Cardinality(S) -> S]
         /\ \A i, j \in 1..Cardinality(S) : SetToSeq(S)[i] = SetToSeq(S)[j] => i = j
<1> DEFINE n == Cardinality(S)
<1>1. n \in Nat /\ ExistsBijection(1..n, S)
  BY FS_CardinalityType
<1>2. \E f \in [1..n -> S] : IsInjective(f)
  <2>1. PICK f \in Bijection(1..n, S) : TRUE
    BY <1>1 DEF ExistsBijection
  <2>2. f \in [1..n -> S] /\ \A i, j \in 1..n : f[i] = f[j] => i = j
    BY DEF Bijection, Injection, IsInjective
  <2>3. QED
    BY <2>2 DEF IsInjective
<1>3. SetToSeq(S) \in [1..n -> S] /\ IsInjective(SetToSeq(S))
  BY <1>2 DEF SetToSeq
<1>4. QED
  BY <1>1, <1>3 DEF IsInjective

\* The greatest of some numbers.
LEMMA GreatestNumber ==
  ASSUME NEW n \in Nat, NEW S \in SUBSET (1..n), S # {}
  PROVE  \E m \in S : \A k \in S : k <= m
<1> DEFINE T == {n - x : x \in S}
<1>1. T \in SUBSET Nat /\ T # {}
  <2>1. \A x \in S : n - x \in Nat
    OBVIOUS
  <2>2. QED
    BY <2>1
<1>2. \E x \in T : \A y \in T : x <= y
  BY <1>1, LeastNumber
<1>3. QED
  BY <1>2

\* Some numbers, in their order: otherwise there are fewest numbers without one, and the
\* others in their order with the greatest after them are in order (removeOnCallAssignment,
\* filter).
LEMMA Ordered ==
  ASSUME NEW n \in Nat, NEW S \in SUBSET (1..n)
  PROVE  /\ Cardinality(S) \in Nat
         /\ InOrder(S) \in [1..Cardinality(S) -> S]
         /\ \A i, j \in 1..Cardinality(S) : i < j => InOrder(S)[i] < InOrder(S)[j]
<1> DEFINE Order(f, R) == /\ f \in [1..Cardinality(R) -> R]
                          /\ \A i, j \in 1..Cardinality(R) : i < j => f[i] < f[j]
           Bad == {R \in SUBSET (1..n) : \A f : ~Order(f, R)}
           Sizes == {Cardinality(R) : R \in Bad}
<1>1. \A R \in SUBSET (1..n) : IsFiniteSet(R) /\ Cardinality(R) \in Nat
  <2>1. IsFiniteSet(1..n)
    BY FS_Interval
  <2>2. SUFFICES ASSUME NEW R \in SUBSET (1..n) PROVE IsFiniteSet(R) /\ Cardinality(R) \in Nat
    OBVIOUS
  <2>3. IsFiniteSet(R)
    BY <2>1, FS_Subset
  <2>4. QED
    BY <2>3, FS_CardinalityType
<1>2. Bad = {}
  <2>1. SUFFICES ASSUME Bad # {} PROVE FALSE
    OBVIOUS
  <2>2. Sizes \in SUBSET Nat /\ Sizes # {}
    BY <1>1, <2>1
  <2>3. PICK size \in Sizes : \A m \in Sizes : size <= m
    BY <2>2, LeastNumber
  <2>4. PICK R \in Bad : size = Cardinality(R)
    BY <2>3
  <2>5. R # {}
    <3>1. SUFFICES ASSUME R = {} PROVE FALSE
      OBVIOUS
    <3>2. Cardinality(R) = 0
      BY <3>1, FS_EmptySet
    <3>3. Order(<<>>, R)
      BY <3>2
    <3>4. QED
      BY <3>3
  <2>6. PICK m \in R : \A k \in R : k <= m
    BY <2>5, GreatestNumber
  <2>7. /\ R \ {m} \in SUBSET (1..n) /\ size \in Nat \ {0}
        /\ Cardinality(R \ {m}) = size - 1
    <3>1. Cardinality(R \ {m}) = Cardinality(R) - 1 /\ Cardinality(R) # 0
      BY <1>1, <2>5, FS_RemoveElement, FS_EmptySet
    <3>2. QED
      BY <1>1, <2>4, <3>1
  <2>8. R \ {m} \notin Bad
    <3>1. ~(size <= Cardinality(R \ {m}))
      BY <2>7
    <3>2. QED
      BY <2>3, <3>1
  <2>9. PICK f : Order(f, R \ {m})
    BY <2>7, <2>8
  <2>10. PICK r : r = Cardinality(R \ {m})
    OBVIOUS
  <2>11. /\ r \in Nat /\ size = r + 1 /\ f \in [1..r -> R \ {m}]
         /\ \A i, j \in 1..r : i < j => f[i] < f[j]
    <3>1. f \in [1..r -> R \ {m}] /\ \A i, j \in 1..r : i < j => f[i] < f[j]
      BY <2>9, <2>10
    <3>2. r = size - 1
      BY <2>7, <2>10
    <3>3. QED
      BY <2>7, <3>1, <3>2
  <2> DEFINE g == [i \in 1..(r + 1) |-> IF i = r + 1 THEN m ELSE f[i]]
  <2>12. g \in [1..(r + 1) -> R]
    BY <2>11
  <2>13. ASSUME NEW i \in 1..(r + 1), NEW j \in 1..(r + 1), i < j PROVE g[i] < g[j]
    <3>1. i \in 1..r /\ f[i] \in R \ {m}
      BY <2>11, <2>13
    <3>2. f[i] < m
      <4>1. PICK k : k = f[i]
        OBVIOUS
      <4>2. k \in R /\ k # m /\ k <= m
        BY <2>6, <3>1, <4>1
      <4>3. R \subseteq Int
        OBVIOUS
      <4>4. k < m
        BY <4>2, <4>3
      <4>5. QED
        BY <4>1, <4>4
    <3>3. QED
      BY <2>11, <2>13, <3>1, <3>2
  <2>14. Order(g, R)
    BY <2>4, <2>11, <2>12, <2>13
  <2>15. QED
    BY <2>4, <2>14
<1>3. \E f : Order(f, S)
  BY <1>2
<1>4. \E f \in [1..Cardinality(S) -> S] : \A i, j \in DOMAIN f : i < j => f[i] < f[j]
  BY <1>3
<1>5. /\ InOrder(S) \in [1..Cardinality(S) -> S]
      /\ \A i, j \in DOMAIN InOrder(S) : i < j => InOrder(S)[i] < InOrder(S)[j]
  BY <1>4 DEF InOrder
<1>6. QED
  BY <1>1, <1>5

\* Two sequences one after the other.
LEMMA Joined ==
  ASSUME NEW T, NEW a \in Seq(T), NEW b \in Seq(T)
  PROVE  /\ a \o b \in Seq(T) /\ Len(a \o b) = Len(a) + Len(b)
         /\ \A j \in 1..Len(a) : (a \o b)[j] = a[j]
         /\ \A j \in 1..Len(b) : (a \o b)[j + Len(a)] = b[j]
OBVIOUS

\* A sequence without one of its elements.
LEMMA Removed ==
  ASSUME NEW T, NEW s \in Seq(T), NEW i \in DOMAIN s
  PROVE  /\ RemoveAt(s, i) \in Seq(T) /\ Len(RemoveAt(s, i)) = Len(s) - 1
         /\ DOMAIN RemoveAt(s, i) = 1..(Len(s) - 1)
         /\ \A j \in 1..(Len(s) - 1) : RemoveAt(s, i)[j] = s[IF j < i THEN j ELSE j + 1]
<1>1. PICK n \in Nat : n = Len(s)
  OBVIOUS
<1>2. i \in 1..n /\ DOMAIN s = 1..n
  BY <1>1
<1> DEFINE a == SubSeq(s, 1, i - 1)
           b == SubSeq(s, i + 1, Len(s))
<1>3. a \in Seq(T) /\ Len(a) = i - 1 /\ \A j \in 1..(i - 1) : a[j] = s[j]
  BY <1>1, <1>2
<1>4. b \in Seq(T) /\ Len(b) = n - i /\ \A j \in 1..(n - i) : b[j] = s[j + i]
  BY <1>1, <1>2
<1>5. RemoveAt(s, i) = a \o b
  BY DEF RemoveAt
<1> HIDE DEF a, b
<1>6. PICK r : r = a \o b
  OBVIOUS
<1>7. /\ r \in Seq(T) /\ Len(r) = (i - 1) + (n - i)
      /\ \A j \in 1..(i - 1) : r[j] = a[j]
      /\ \A j \in 1..(n - i) : r[j + (i - 1)] = b[j]
  <2>1. a \in Seq(T) /\ b \in Seq(T)
    BY <1>3, <1>4
  <2>2. /\ r \in Seq(T) /\ Len(r) = Len(a) + Len(b)
        /\ \A j \in 1..Len(a) : r[j] = a[j]
        /\ \A j \in 1..Len(b) : r[j + Len(a)] = b[j]
    BY <1>6, <2>1, Joined
  <2>3. Len(a) = i - 1 /\ Len(b) = n - i
    BY <1>3, <1>4
  <2>4. QED
    BY <2>2, <2>3, Zenon
<1>8. Len(r) = n - 1
  BY <1>2, <1>7
<1>9. ASSUME NEW j \in 1..(n - 1) PROVE r[j] = s[IF j < i THEN j ELSE j + 1]
  <2>1. CASE j < i
    <3>1. j \in 1..(i - 1)
      BY <1>2, <2>1
    <3>2. QED
      BY <1>3, <1>7, <2>1, <3>1
  <2>2. CASE ~(j < i)
    <3>1. PICK k : k = j - (i - 1)
      OBVIOUS
    <3>2. k \in 1..(n - i) /\ j = k + (i - 1) /\ k + i = j + 1
      BY <1>2, <2>2, <3>1
    <3>3. QED
      BY <1>4, <1>7, <2>2, <3>2
  <2>3. QED
    BY <2>1, <2>2
<1>10. DOMAIN r = 1..(n - 1)
  BY <1>1, <1>7, <1>8
<1>11. QED
  BY <1>1, <1>5, <1>6, <1>7, <1>8, <1>9, <1>10

\* Numbers up to a bound are numbers up to a greater one.
LEMMA Longer ==
  ASSUME NEW m \in Nat, NEW n \in Nat, m <= n, NEW s \in Seq(1..m)
  PROVE  s \in Seq(1..n)
OBVIOUS

\* There are finitely many people.
LEMMA FinitelyMany ==
  IsFiniteSet(Person)
<1>1. IsFiniteSet(DOMAIN People)
  <2>1. DOMAIN People = 1..Len(People) /\ Len(People) \in Nat
    BY PagesAssumption
  <2>2. QED
    BY <2>1, FS_Interval
<1>2. People \in Surjection(DOMAIN People, Person)
  <2>1. People \in [DOMAIN People -> Person]
    BY PagesAssumption
  <2>2. \A p \in Person : \E i \in DOMAIN People : People[i] = p
    BY DEF Person
  <2>3. QED
    BY <2>1, <2>2 DEF Surjection
<1>3. QED
  BY <1>1, <1>2, FS_Surjection
-----------------------------------------------------------------------------
(* The inductive invariants.                                                *)

\* A read with its answer, of events up to the n-th; a message of such an event; what the
\* main container shows.
Requests == [kind : {"year", "window", "reload", "feed"}, arg : Int, served : BOOLEAN,
             read : [Week -> Seq(Assignment)] \cup Seq(Nat)]
Messages == [type : {"oncall_changed", "planning_range", "planning_updated", "activity_new"},
             event : Nat]
ReadTyped(f, n) ==
  f.served => IF f.kind = "feed" THEN f.read \in Seq(1..n) /\ Len(f.read) <= Limit
              ELSE f.read \in [Week -> Seq(Assignment)]
ReadsTyped(fs, n) == fs \in Seq(Requests) /\ \A i \in DOMAIN fs : ReadTyped(fs[i], n)
MessagesTyped(ms, n) ==
  /\ ms \in Seq(Messages)
  /\ \A i \in DOMAIN ms : ms[i].type = "activity_new" => ms[i].event \in 1..n
ScreenTyped(s) ==
  /\ s.tab \in Tabs /\ s.loading \in BOOLEAN
  /\ s.tab = "oncall" =>
       \A w \in DOMAIN s.shown \cap Week :
         \A i \in DOMAIN s.shown[w] : s.shown[w][i].person \in Person

StoreTyped == db \in [Week -> [Person -> Comment \cup {None}]] /\ log \in Nat /\ habit \in Habits
TaskTyped  == task \in Tasks \cup {None} /\ (task # None => task.leaves # None \/ task.joins # None)
PageTyped ==
  /\ tab \in habit /\ scroll \in Int /\ year \in Int /\ tri \in 0..3 /\ loadedYear \in {None, year}
  /\ spoiled \in BOOLEAN /\ late \in BOOLEAN
StateTyped ==
  /\ oncall \in [Week -> Seq(Assignment)]
  /\ feed \in Seq(1..log) /\ Len(feed) <= Cap

\* The types, with those of the reads, and that the on-call page lists people.
Typed == /\ StoreTyped /\ TaskTyped /\ PageTyped /\ StateTyped
         /\ MessagesTyped(inbox, log) /\ ReadsTyped(fetches, log) /\ ScreenTyped(screen)

\* A page is painted on its own tab, unless an answer painted over another.
PaintsItsTab == ~late => screen.tab = tab

\* What is under way: messages of a type, reads of some kinds and the last of them.
Told(type) == \E i \in DOMAIN inbox : inbox[i].type = type
Reading(fs, kinds) == \E i \in DOMAIN fs : fs[i].kind \in kinds
IsLast(fs, i, kinds) ==
  /\ fs[i].kind \in kinds
  /\ \A j \in DOMAIN fs : j > i => fs[j].kind \notin kinds

OncallReads == {"year", "window", "reload"}

\* The last read of the feed has read r.
FeedIsLast(fs, r) ==
  \A i \in DOMAIN fs : IsLast(fs, i, {"feed"}) /\ fs[i].served => fs[i].read = r

\* On the activity tab, once every event's message has come, the last fetch reads the whole
\* feed, and the page shows it when no fetch is under way.
FeedComes ==
  tab = "activity" /\ ~late /\ ~Told("activity_new") =>
    /\ FeedIsLast(fetches, ReadFeed)
    /\ ~Reading(fetches, {"feed"}) => screen = ActivityPage(ReadFeed)

\* If the last read of on-call is one of a year, it is of year y, and has read r unless a
\* message of a change is still to come.
YearIsLast(fs, y, told, r) ==
  \A i \in DOMAIN fs :
    IsLast(fs, i, OncallReads) /\ fs[i].kind = "year" =>
      fs[i].arg = y /\ (fs[i].served /\ ~told => fs[i].read = r)

\* Once no read of on-call and no message of a change is under way, a year that is loaded
\* is what is stored, and the on-call tab shows it.
Settled == ~Reading(fetches, OncallReads) /\ ~Told("oncall_changed")
YearIsStored == Settled /\ loadedYear # None /\ ~spoiled => oncall = ReadOncall(WeeksOf(year))
YearIsShown ==
  Settled /\ tab = "oncall" => loadedYear = year /\ screen = OncallPage(oncall, year)

\* A change of the user's own that is stored and not answered will be read again.
OwnComesBack ==
  task # None /\ task.stored => Told("oncall_changed") \/ Reading(fetches, {"window"})

\* On the on-call tab a year that is not loaded is being read.
YearComes == tab = "oncall" /\ loadedYear = None => Reading(fetches, {"year"})

OncallSound ==
  ~late =>
    /\ YearIsLast(fetches, year, Told("oncall_changed"), ReadOncall(WeeksOf(year)))
    /\ YearIsStored /\ YearIsShown /\ OwnComesBack /\ YearComes
-----------------------------------------------------------------------------
(* What the reads and the user's own updates return.                        *)

\* GET /api/oncall returns assignments, and of each week it was asked for what is stored.
LEMMA Reads ==
  ASSUME NEW weeks, db \in [Week -> [Person -> Comment \cup {None}]]
  PROVE  /\ ReadOncall(weeks) \in [Week -> Seq(Assignment)]
         /\ \A w \in Week : w \in weeks => Agrees(ReadOncall(weeks)[w], w)
<1>1. ASSUME NEW w \in Week, w \in weeks
      PROVE  ReadOncall(weeks)[w] \in Seq(Assignment) /\ Agrees(ReadOncall(weeks)[w], w)
  <2> DEFINE S  == {p \in Person : db[w][p] # None}
             on == SetToSeq(S)
             es == [i \in DOMAIN on |-> [person |-> on[i], comment |-> db[w][on[i]]]]
  <2>1. IsFiniteSet(S)
    BY FinitelyMany, FS_Subset
  <2>2. PICK n : n = Cardinality(S)
    OBVIOUS
  <2>3. n \in Nat /\ on \in [1..n -> S] /\ \A i, j \in 1..n : on[i] = on[j] => i = j
    BY <2>1, <2>2, Enumerated
  <2>4. \A p \in S : p \in Person /\ db[w][p] \in Comment
    BY <1>1
  <2>5. DOMAIN on = 1..n
    BY <2>3
  <2>6. ReadOncall(weeks)[w] = es
    BY <1>1 DEF ReadOncall
  <2>7. es \in [1..n -> Assignment] /\ \A i \in 1..n : es[i].person = on[i] /\ es[i].comment = db[w][on[i]]
    <3> HIDE DEF S, on
    <3>1. \A i \in 1..n : on[i] \in S
      BY <2>3
    <3>2. QED
      BY <2>4, <2>5, <3>1 DEF Assignment
  <2>8. es \in Seq(Assignment) /\ Len(es) = n /\ DOMAIN es = 1..n
    <3> HIDE DEF es
    <3>1. QED
      BY <2>3, <2>7
  <2>9. Agrees(es, w)
    <3> HIDE DEF es, on
    <3>1. Len(es) = Cardinality({p \in Person : db[w][p] # None})
      BY <2>2, <2>8
    <3>2. QED
      BY <2>3, <2>7, <2>8, <3>1 DEF Agrees
  <2>10. QED
    BY <2>6, <2>8, <2>9
<1>2. ASSUME NEW w \in Week, w \notin weeks PROVE ReadOncall(weeks)[w] \in Seq(Assignment)
  BY <1>2 DEF ReadOncall
<1>3. ReadOncall(weeks) = [w \in Week |-> ReadOncall(weeks)[w]]
  BY DEF ReadOncall
<1>4. QED
  BY <1>1, <1>2, <1>3

\* GET /api/activity returns events there are, no more than the limit.
LEMMA FeedRead ==
  ASSUME log \in Nat
  PROVE  ReadFeed \in Seq(1..log) /\ Len(ReadFeed) <= Limit
<1>1. Limit \in Nat
  BY PagesAssumption
<1>2. PICK n \in Nat : n = (IF log < Limit THEN log ELSE Limit)
  BY <1>1
<1>3. n <= log /\ n <= Limit
  BY <1>1, <1>2
<1>4. \A i \in 1..n : log - i + 1 \in 1..log
  BY <1>3
<1>5. [i \in 1..n |-> log - i + 1] \in [1..n -> 1..log]
  BY <1>4
<1>6. QED
  BY <1>2, <1>3, <1>5 DEF ReadFeed

\* The feed with an event more.
LEMMA FeedGrows ==
  ASSUME NEW n \in Nat, NEW f \in Seq(1..n), Len(f) <= Cap, NEW e \in 1..n
  PROVE  Capped(<<e>> \o f) \in Seq(1..n) /\ Len(Capped(<<e>> \o f)) <= Cap
<1>1. Cap \in Nat
  BY PagesAssumption
<1>2. PICK g \in Seq(1..n) : g = <<e>> \o f /\ Len(g) = Len(f) + 1
  <2>1. <<e>> \in Seq(1..n) /\ Len(<<e>>) = 1
    OBVIOUS
  <2>2. PICK s \in Seq(1..n) : s = <<e>> /\ Len(s) = 1
    BY <2>1
  <2>3. s \o f \in Seq(1..n) /\ Len(s \o f) = Len(f) + 1
    BY <2>2
  <2>4. QED
    BY <2>2, <2>3
<1>3. PICK k \in Nat : k = (IF Len(g) > Cap THEN Len(g) - 1 ELSE Len(g)) /\ k <= Len(g) /\ k <= Cap
  BY <1>1, <1>2
<1>4. SubSeq(g, 1, k) \in Seq(1..n) /\ Len(SubSeq(g, 1, k)) = k
  BY <1>3
<1>5. QED
  BY <1>2, <1>3, <1>4 DEF Capped

\* The first assignment of somebody.
LEMMA FirstOf ==
  ASSUME NEW es \in Seq(Assignment), NEW p, IsOn(es, p)
  PROVE  Position(es, p) \in DOMAIN es
<1> DEFINE P == {i \in DOMAIN es : es[i].person = p}
<1>1. P \in SUBSET Nat /\ P # {}
  BY DEF IsOn
<1>2. PICK i \in P : \A j \in P : i <= j
  BY <1>1, LeastNumber
<1>3. \A j \in 1..i - 1 : j \in DOMAIN es /\ ~(i <= j)
  OBVIOUS
<1>4. \A j \in 1..i - 1 : es[j].person # p
  BY <1>2, <1>3
<1>5. \E k \in DOMAIN es : es[k].person = p /\ \A j \in 1..k - 1 : es[j].person # p
  BY <1>2, <1>4
<1>6. QED
  BY <1>5 DEF Position

\* The user's own updates of a week: somebody leaves it, or joins it.
LEMMA Leaves ==
  ASSUME NEW es \in Seq(Assignment), NEW p
  PROVE  Without(es, p) \in Seq(Assignment)
<1> DEFINE kept == {i \in DOMAIN es : es[i].person # p}
<1>1. PICK n \in Nat : n = Len(es)
  OBVIOUS
<1>2. kept \in SUBSET (1..n)
  BY <1>1
<1>3. PICK k : k = Cardinality(kept)
  OBVIOUS
<1>4. k \in Nat /\ InOrder(kept) \in [1..k -> kept]
  BY <1>2, <1>3, Ordered
<1>5. \A j \in 1..k : InOrder(kept)[j] \in DOMAIN es
  BY <1>4
<1>6. \A i \in DOMAIN es : es[i] \in Assignment
  OBVIOUS
<1> HIDE DEF kept
<1>7. [j \in 1..k |-> es[InOrder(kept)[j]]] \in [1..k -> Assignment]
  BY <1>5, <1>6
<1>8. Without(es, p) = [j \in 1..k |-> es[InOrder(kept)[j]]]
  BY <1>3 DEF Without, kept
<1>9. QED
  BY <1>4, <1>7, <1>8

LEMMA Joins ==
  ASSUME NEW es \in Seq(Assignment), NEW p \in Person, NEW c \in Comment, NEW looks
  PROVE  PutLocally(es, p, c, looks) \in Seq(Assignment)
<1>1. CASE looks /\ IsOn(es, p)
  <2>1. PICK k \in DOMAIN es : k = Position(es, p)
    BY <1>1, FirstOf
  <2>2. es[k] \in Assignment
    OBVIOUS
  <2>3. [es[k] EXCEPT !.comment = c] \in Assignment
    BY <2>2 DEF Assignment
  <2>4. [es EXCEPT ![k].comment = c] \in Seq(Assignment)
    BY <2>3
  <2>5. QED
    BY <1>1, <2>1, <2>4 DEF PutLocally
<1>2. CASE ~(looks /\ IsOn(es, p))
  <2>1. [person |-> p, comment |-> c] \in Assignment
    BY DEF Assignment
  <2>2. PutLocally(es, p, c, looks) = Append(es, [person |-> p, comment |-> c])
    BY <1>2 DEF PutLocally
  <2>3. QED
    BY <2>1, <2>2
<1>3. QED
  BY <1>1, <1>2
-----------------------------------------------------------------------------
(* The reads under way, when one is added or answered.                      *)

\* Every read that is asked for is one.
LEMMA Asked ==
  ASSUME NEW fs, NEW n, ReadsTyped(fs, n), NEW kind \in {"year", "window", "reload", "feed"},
         NEW arg \in Int
  PROVE  ReadsTyped(Append(fs, Fetch(kind, arg)), n)
<1> DEFINE f == Fetch(kind, arg)
<1>1. f \in Requests /\ ~f.served
  BY DEF Fetch, Requests
<1> HIDE DEF f
<1>2. ReadTyped(f, n)
  BY <1>1 DEF ReadTyped
<1>3. fs \in Seq(Requests) /\ \A i \in DOMAIN fs : ReadTyped(fs[i], n)
  BY DEF ReadsTyped
<1>4. Append(fs, f) \in Seq(Requests)
  BY <1>1, <1>3
<1>5. \A i \in DOMAIN Append(fs, f) : (i \in DOMAIN fs /\ Append(fs, f)[i] = fs[i]) \/ Append(fs, f)[i] = f
  BY <1>1, <1>3
<1>6. \A i \in DOMAIN Append(fs, f) : ReadTyped(Append(fs, f)[i], n)
  BY <1>2, <1>3, <1>5
<1>7. QED
  BY <1>4, <1>6 DEF ReadsTyped, f

\* An answered read leaves the others.
LEMMA Answered ==
  ASSUME NEW fs, NEW n, ReadsTyped(fs, n), NEW k \in DOMAIN fs
  PROVE  ReadsTyped(RemoveAt(fs, k), n)
<1>1. fs \in Seq(Requests) /\ \A i \in DOMAIN fs : ReadTyped(fs[i], n)
  BY DEF ReadsTyped
<1>2. PICK m \in Nat : m = Len(fs)
  BY <1>1
<1>3. PICK rest : rest = RemoveAt(fs, k)
  OBVIOUS
<1>4. /\ rest \in Seq(Requests) /\ DOMAIN rest = 1..(m - 1)
      /\ \A j \in 1..(m - 1) : rest[j] = fs[IF j < k THEN j ELSE j + 1]
  BY <1>1, <1>2, <1>3, Removed
<1>5. \A j \in 1..(m - 1) : (IF j < k THEN j ELSE j + 1) \in DOMAIN fs
  BY <1>1, <1>2
<1>6. QED
  BY <1>1, <1>3, <1>4, <1>5 DEF ReadsTyped

\* Whether there are more events makes no difference to what was read.
LEMMA EventsAdded ==
  ASSUME NEW n \in Nat, NEW m \in Nat, n <= m
  PROVE  /\ \A fs : ReadsTyped(fs, n) => ReadsTyped(fs, m)
         /\ \A ms : MessagesTyped(ms, n) => MessagesTyped(ms, m)
         /\ \A f : f \in Seq(1..n) => f \in Seq(1..m)
<1>1. \A f : f \in Seq(1..n) => f \in Seq(1..m)
  BY Longer
<1>2. ASSUME NEW fs, ReadsTyped(fs, n) PROVE ReadsTyped(fs, m)
  <2>1. \A i \in DOMAIN fs : ReadTyped(fs[i], n) => ReadTyped(fs[i], m)
    BY <1>1 DEF ReadTyped
  <2>2. QED
    BY <1>2, <2>1 DEF ReadsTyped
<1>3. ASSUME NEW ms, MessagesTyped(ms, n) PROVE MessagesTyped(ms, m)
  <2>1. 1..n \subseteq 1..m
    OBVIOUS
  <2>2. QED
    BY <1>3, <2>1 DEF MessagesTyped
<1>4. QED
  BY <1>1, <1>2, <1>3

\* A read that is asked for is the last of its kinds, and another one last.
LEMMA LastAsked ==
  ASSUME NEW fs \in Seq(Requests), NEW f \in Requests, NEW kinds
  PROVE  /\ Reading(Append(fs, f), kinds) <=> f.kind \in kinds \/ Reading(fs, kinds)
         /\ \A i \in DOMAIN Append(fs, f) : IsLast(Append(fs, f), i, kinds) =>
              IF f.kind \in kinds THEN Append(fs, f)[i] = f
              ELSE i \in DOMAIN fs /\ IsLast(fs, i, kinds) /\ Append(fs, f)[i] = fs[i]
<1>1. PICK n \in Nat : n = Len(fs)
  OBVIOUS
<1>2. PICK gs : gs = Append(fs, f)
  OBVIOUS
<1>3. /\ DOMAIN fs = 1..n /\ DOMAIN gs = 1..(n + 1) /\ gs[n + 1] = f
      /\ \A i \in 1..n : gs[i] = fs[i]
  BY <1>1, <1>2
<1>4. \A i \in 1..(n + 1) : i = n + 1 \/ i \in 1..n
  OBVIOUS
<1>5. n + 1 \in 1..(n + 1) /\ \A i \in 1..n : i \in 1..(n + 1) /\ n + 1 > i
  OBVIOUS
<1>6. Reading(gs, kinds) <=> f.kind \in kinds \/ Reading(fs, kinds)
  BY <1>3, <1>4, <1>5, Zenon DEF Reading
<1>7. ASSUME NEW i \in DOMAIN gs, IsLast(gs, i, kinds)
      PROVE  IF f.kind \in kinds THEN gs[i] = f
             ELSE i \in DOMAIN fs /\ IsLast(fs, i, kinds) /\ gs[i] = fs[i]
  <2>1. gs[i].kind \in kinds /\ \A j \in DOMAIN gs : j > i => gs[j].kind \notin kinds
    BY <1>7 DEF IsLast
  <2>2. CASE i = n + 1
    BY <1>3, <2>1, <2>2
  <2>3. CASE i # n + 1
    <3>1. i \in 1..n /\ gs[i] = fs[i] /\ f.kind \notin kinds
      BY <1>3, <1>4, <1>5, <2>1, <2>3
    <3>2. \A j \in 1..n : j \in DOMAIN gs /\ gs[j] = fs[j]
      BY <1>3, <1>5
    <3>3. IsLast(fs, i, kinds)
      BY <1>3, <2>1, <3>1, <3>2 DEF IsLast
    <3>4. QED
      BY <1>3, <3>1, <3>3
  <2>4. QED
    BY <2>2, <2>3
<1>8. QED
  BY <1>2, <1>6, <1>7

\* The last read that is left was the last, unless the one answered had overtaken it.
LEMMA LastLeft ==
  ASSUME NEW fs \in Seq(Requests), NEW k \in DOMAIN fs, NEW kinds,
         fs[k].kind \in kinds => \A j \in 1..k - 1 : fs[j].kind \notin kinds
  PROVE  /\ \A i \in DOMAIN RemoveAt(fs, k) : IsLast(RemoveAt(fs, k), i, kinds) =>
              \E j \in DOMAIN fs : IsLast(fs, j, kinds) /\ RemoveAt(fs, k)[i] = fs[j]
         /\ ~Reading(RemoveAt(fs, k), kinds) =>
              IF fs[k].kind \in kinds THEN IsLast(fs, k, kinds) ELSE ~Reading(fs, kinds)
         /\ fs[k].kind \notin kinds /\ Reading(fs, kinds) => Reading(RemoveAt(fs, k), kinds)
<1>1. PICK n \in Nat : n = Len(fs) /\ DOMAIN fs = 1..n
  OBVIOUS
<1>2. PICK gs : gs = RemoveAt(fs, k)
  OBVIOUS
<1>3. DOMAIN gs = 1..(n - 1) /\ \A j \in 1..(n - 1) : gs[j] = fs[IF j < k THEN j ELSE j + 1]
  BY <1>1, <1>2, Removed
<1>4. k \in 1..n
  BY <1>1
<1>5. ASSUME NEW j \in 1..n, j # k
      PROVE  \E i \in 1..(n - 1) : gs[i] = fs[j] /\ i = (IF j < k THEN j ELSE j - 1)
  <2>1. PICK i : i = (IF j < k THEN j ELSE j - 1)
    OBVIOUS
  <2>2. i \in 1..(n - 1) /\ (IF i < k THEN i ELSE i + 1) = j
    BY <1>4, <1>5, <2>1
  <2>3. QED
    BY <1>3, <2>1, <2>2
<1>6. ASSUME NEW i \in DOMAIN gs, IsLast(gs, i, kinds)
      PROVE  \E j \in DOMAIN fs : IsLast(fs, j, kinds) /\ gs[i] = fs[j]
  <2>1. gs[i].kind \in kinds /\ \A l \in 1..(n - 1) : l > i => gs[l].kind \notin kinds
    BY <1>3, <1>6 DEF IsLast
  <2>2. PICK j : j = (IF i < k THEN i ELSE i + 1)
    OBVIOUS
  <2>3. j \in 1..n /\ j # k /\ gs[i] = fs[j] /\ (k > j <=> i < k)
    BY <1>3, <1>4, <2>2
  <2>4. ASSUME NEW l \in 1..n, l > j PROVE fs[l].kind \notin kinds
    <3>1. CASE l = k
      <4>1. j \in 1..k - 1 /\ fs[j].kind \in kinds
        BY <1>4, <2>1, <2>3, <2>4, <3>1
      <4>2. QED
        BY <3>1, <4>1
    <3>2. CASE l # k
      <4>1. PICK m \in 1..(n - 1) : gs[m] = fs[l] /\ m = (IF l < k THEN l ELSE l - 1)
        BY <1>5, <3>2
      <4>2. m > i
        BY <1>3, <1>4, <2>2, <2>4, <3>2, <4>1
      <4>3. QED
        BY <2>1, <4>1, <4>2
    <3>3. QED
      BY <3>1, <3>2
  <2>5. IsLast(fs, j, kinds)
    BY <1>1, <2>1, <2>3, <2>4 DEF IsLast
  <2>6. QED
    BY <1>1, <2>3, <2>5
<1>7. ASSUME ~Reading(gs, kinds)
      PROVE  \A j \in DOMAIN fs : j # k => fs[j].kind \notin kinds
  BY <1>1, <1>3, <1>5, <1>7 DEF Reading
<1>8. ~Reading(gs, kinds) => IF fs[k].kind \in kinds THEN IsLast(fs, k, kinds) ELSE ~Reading(fs, kinds)
  <2>1. SUFFICES ASSUME ~Reading(gs, kinds)
                 PROVE  IF fs[k].kind \in kinds THEN IsLast(fs, k, kinds) ELSE ~Reading(fs, kinds)
    OBVIOUS
  <2>2. \A j \in DOMAIN fs : j # k => fs[j].kind \notin kinds
    BY <1>7, <2>1
  <2>3. \A j \in DOMAIN fs : j > k => j # k
    BY <1>1
  <2>4. QED
    BY <2>2, <2>3 DEF IsLast, Reading
<1>9. fs[k].kind \notin kinds /\ Reading(fs, kinds) => Reading(gs, kinds)
  BY <1>7 DEF Reading
<1>10. QED
  BY <1>2, <1>6, <1>8, <1>9
-----------------------------------------------------------------------------
(* Every variable keeps its type.                                           *)

\* What the pages paint.
LEMMA Pages ==
  /\ ScreenTyped(TeamPage)
  /\ \A t \in Tabs : ScreenTyped(Loading(t))
  /\ \A f : ScreenTyped(ActivityPage(f))
  /\ \A oc \in [Week -> Seq(Assignment)], y \in Int : ScreenTyped(OncallPage(oc, y))
<1>1. ASSUME NEW oc \in [Week -> Seq(Assignment)], NEW y \in Int
      PROVE  ScreenTyped(OncallPage(oc, y))
  <2>1. ASSUME NEW w \in WeeksOf(y), NEW i \in DOMAIN oc[w] PROVE oc[w][i].person \in Person
    <3>1. oc[w] \in Seq(Assignment)
      BY DEF WeeksOf
    <3>2. oc[w][i] \in Assignment
      BY <3>1
    <3>3. QED
      BY <3>2 DEF Assignment
  <2>2. QED
    BY <2>1 DEF ScreenTyped, OncallPage, Tabs
<1>2. QED
  BY <1>1 DEF ScreenTyped, TeamPage, Loading, ActivityPage, Tabs

\* What render() paints and asks for, by the tab and whether its year is loaded.
LEMMA Rendered ==
  ASSUME NEW fs, render(fs), tab' \in Tabs
  PROVE  \/ /\ tab' = "team"
            /\ screen' = TeamPage /\ fetches' = fs
         \/ /\ tab' = "oncall" /\ loadedYear' # year'
            /\ screen' = Loading("oncall") /\ fetches' = Append(fs, Fetch("year", year'))
         \/ /\ tab' = "oncall" /\ loadedYear' = year'
            /\ screen' = OncallPage(oncall', year') /\ fetches' = fs
         \/ /\ tab' = "activity"
            /\ screen' = IF feed' = <<>> THEN Loading("activity") ELSE ActivityPage(feed')
            /\ fetches' = Append(fs, Fetch("feed", 0))
BY DEF render, renderOnCall, renderActivity, Tabs

LEMMA RenderedTyped ==
  ASSUME NEW fs, NEW n, ReadsTyped(fs, n), render(fs), tab' \in Tabs, year' \in Int,
         oncall' \in [Week -> Seq(Assignment)]
  PROVE  ReadsTyped(fetches', n) /\ ScreenTyped(screen')
<1>1. CASE tab' = "team"
  BY <1>1, Rendered, Pages
<1>2. CASE tab' = "oncall" /\ loadedYear' # year'
  <2>1. screen' = Loading("oncall") /\ fetches' = Append(fs, Fetch("year", year'))
    BY <1>2, Rendered
  <2>2. QED
    BY <2>1, Asked, Pages DEF Tabs
<1>3. CASE tab' = "oncall" /\ loadedYear' = year'
  <2>1. screen' = OncallPage(oncall', year') /\ fetches' = fs
    BY <1>3, Rendered
  <2>2. QED
    BY <2>1, Pages
<1>4. CASE tab' = "activity"
  <2>1. /\ screen' = IF feed' = <<>> THEN Loading("activity") ELSE ActivityPage(feed')
        /\ fetches' = Append(fs, Fetch("feed", 0))
    BY <1>4, Rendered
  <2>2. ReadsTyped(fetches', n)
    BY <2>1, Asked
  <2>3. screen' = Loading("activity") \/ screen' = ActivityPage(feed')
    BY <2>1
  <2>4. QED
    BY <2>2, <2>3, Pages DEF Tabs
<1>5. QED
  BY <1>1, <1>2, <1>3, <1>4 DEF Tabs

\* The weeks are of the calendar's years.
LEMMA Years ==
  /\ YearOf(Today) \in 2024..2099
  /\ \A w \in Week : YearOf(w) \in 2024..2099
<1>1. YearStart(2024) \in Int /\ YearStart(2100) \in Int
  BY DEF YearStart
<1>2. ASSUME NEW d \in YearStart(2024)..YearStart(2100) - 1 PROVE YearOf(d) \in 2024..2099
  <2>1. d \in Int /\ YearStart(2024) <= d /\ d < YearStart(2100)
    BY <1>1
  <2>2. QED
    BY <2>1, DayInYear
<1>3. /\ Today \in YearStart(2024)..YearStart(2100) - 1
      /\ \A w \in Week : w \in YearStart(2024)..YearStart(2100) - 1
  BY PagesAssumption
<1>4. QED
  BY <1>2, <1>3

\* The pages are three, and a user keeps to some of them.
LEMMA Opened ==
  ASSUME habit \in Habits
  PROVE  "team" \in habit /\ habit \subseteq Tabs
BY PagesAssumption

LEMMA TypedAtFirst ==
  Init => Typed
<1> SUFFICES ASSUME Init PROVE Typed
  OBVIOUS
<1> USE DEF Init
<1>1. StoreTyped
  BY PagesAssumption DEF StoreTyped
<1>2. TaskTyped
  BY DEF TaskTyped
<1>3. PageTyped
  <2>1. year \in Int
    <3>1. PICK y : y = YearOf(Today)
      OBVIOUS
    <3>2. y \in 2024..2099
      BY <3>1, Years
    <3>3. year = y
      BY <3>1
    <3>4. QED
      BY <3>2, <3>3
  <2>2. tri \in 0..3
    <3> DEFINE ts == {t \in 1..3 : Today < MonthStart(YearOf(Today), 3 * t)}
    <3>1. IsFiniteSet(1..3) /\ Cardinality(1..3) = 3
      <4>1. 1 \in Int /\ 3 \in Int
        OBVIOUS
      <4>2. IsFiniteSet(1..3) /\ Cardinality(1..3) = IF 1 > 3 THEN 0 ELSE 3 - 1 + 1
        BY <4>1, FS_Interval, Zenon
      <4>3. QED
        BY <4>2
    <3>2. Cardinality(ts) \in Nat /\ Cardinality(ts) <= 3
      BY <3>1, FS_Subset, FS_CardinalityType
    <3> HIDE DEF ts
    <3>3. PICK k \in Nat : k = Cardinality(ts)
      BY <3>2
    <3>4. tri = 3 - k
      BY <3>3 DEF ts
    <3>5. k <= 3
      BY <3>2, <3>3
    <3>6. QED
      BY <3>4, <3>5
  <2>3. tab \in habit
    BY Opened
  <2>4. scroll = 0 /\ loadedYear = None /\ spoiled = FALSE /\ late = FALSE
    BY Zenon
  <2> HIDE DEF Init
  <2>5. scroll \in Int
    BY <2>4
  <2>6. QED
    BY <2>1, <2>2, <2>3, <2>4, <2>5, Zenon DEF PageTyped
<1>4. StateTyped
  BY <1>1, Reads, PagesAssumption DEF StateTyped, StoreTyped
<1>5. MessagesTyped(inbox, log) /\ ReadsTyped(fetches, log)
  BY DEF MessagesTyped, ReadsTyped
<1>6. ScreenTyped(screen)
  BY Pages
<1>7. QED
  BY <1>1, <1>2, <1>3, <1>4, <1>5, <1>6 DEF Typed

\* A change and its messages.
LEMMA Announcement ==
  ASSUME log \in Nat, MessagesTyped(inbox, log),
         NEW m \in {"oncall_changed", "planning_range", "planning_updated"}, Announced(m)
  PROVE  /\ log' \in Nat /\ log <= log' /\ MessagesTyped(inbox', log')
         /\ \A type : Told(type)' <=> \/ Told(type) \/ type = m
                                      \/ type = "activity_new" /\ "activity" \in habit
<1> DEFINE new == [type |-> m, event |-> 0]
           event == [type |-> "activity_new", event |-> log + 1]
           ms == <<new>> \o (IF "activity" \in habit THEN <<event>> ELSE <<>>)
<1>1. log' = log + 1 /\ inbox' = inbox \o <<new>> \o (IF "activity" \in habit THEN <<event>> ELSE <<>>)
  BY DEF Announced
<1>2. new \in Messages /\ event \in Messages
  BY DEF Messages
<1>3. inbox \in Seq(Messages) /\ \A i \in DOMAIN inbox : inbox[i].type = "activity_new" => inbox[i].event \in 1..log
  BY DEF MessagesTyped
<1>4. new.type = m /\ event.type = "activity_new" /\ event.event = log + 1
  OBVIOUS
<1> HIDE DEF new, event
<1>5. PICK n \in Nat : n = Len(inbox) /\ DOMAIN inbox = 1..n
  BY <1>3
<1>6. CASE "activity" \in habit
  <2>1. inbox' = Append(Append(inbox, new), event)
    <3>1. PICK s \in Seq(Messages) : s = inbox
      BY <1>3
    <3>2. s \o <<new>> \o <<event>> = Append(Append(s, new), event)
      BY <1>2
    <3>3. QED
      BY <1>1, <1>6, <3>1, <3>2
  <2>2. /\ inbox' \in Seq(Messages) /\ DOMAIN inbox' = 1..(n + 2)
        /\ \A i \in 1..n : inbox'[i] = inbox[i]
        /\ inbox'[n + 1] = new /\ inbox'[n + 2] = event
    BY <1>2, <1>3, <1>5, <2>1
  <2>3. \A i \in 1..(n + 2) : i \in 1..n \/ i = n + 1 \/ i = n + 2
    OBVIOUS
  <2>4. n + 1 \in 1..(n + 2) /\ n + 2 \in 1..(n + 2) /\ \A i \in 1..n : i \in 1..(n + 2)
    OBVIOUS
  <2>5. MessagesTyped(inbox', log')
    <3>1. log + 1 \in 1..(log + 1) /\ \A e \in 1..log : e \in 1..(log + 1)
      OBVIOUS
    <3>2. \A i \in 1..(n + 2) : inbox'[i].type = "activity_new" => inbox'[i].event \in 1..(log + 1)
      BY <1>3, <1>4, <1>5, <2>2, <2>3, <3>1
    <3>3. QED
      BY <1>1, <2>2, <3>2 DEF MessagesTyped
  <2>6. \A type : Told(type)' <=> Told(type) \/ type = m \/ type = "activity_new"
    BY <1>4, <1>5, <2>2, <2>3, <2>4 DEF Told
  <2>7. log' \in Nat /\ log <= log'
    BY <1>1
  <2>8. QED
    BY <1>6, <2>5, <2>6, <2>7, Zenon
<1>7. CASE "activity" \notin habit
  <2>1. inbox' = Append(inbox, new)
    BY <1>1, <1>2, <1>3, <1>7
  <2>2. /\ inbox' \in Seq(Messages) /\ DOMAIN inbox' = 1..(n + 1)
        /\ \A i \in 1..n : inbox'[i] = inbox[i]
        /\ inbox'[n + 1] = new
    BY <1>2, <1>3, <1>5, <2>1
  <2>3. \A i \in 1..(n + 1) : i \in 1..n \/ i = n + 1
    OBVIOUS
  <2>4. n + 1 \in 1..(n + 1) /\ \A i \in 1..n : i \in 1..(n + 1)
    OBVIOUS
  <2>5. MessagesTyped(inbox', log')
    <3>1. \A e \in 1..log : e \in 1..(log + 1)
      OBVIOUS
    <3>2. \A i \in 1..(n + 1) : inbox'[i].type = "activity_new" => inbox'[i].event \in 1..(log + 1)
      BY <1>3, <1>4, <1>5, <2>2, <2>3, <3>1
    <3>3. QED
      BY <1>1, <2>2, <3>2 DEF MessagesTyped
  <2>6. \A type : Told(type)' <=> Told(type) \/ type = m
    BY <1>4, <1>5, <2>2, <2>3, <2>4 DEF Told
  <2>7. QED
    BY <1>1, <1>7, <2>5, <2>6
<1>8. QED
  BY <1>6, <1>7
\* The user's moves leave the store and the state as they are.
LEMMA MoveTyped ==
  ASSUME Typed, Move
  PROVE  /\ StoreTyped' /\ TaskTyped' /\ StateTyped' /\ MessagesTyped(inbox, log)'
         /\ log' = log /\ habit' = habit /\ oncall' = oncall
BY DEF Typed, Move, server, StoreTyped, TaskTyped, StateTyped, MessagesTyped

LEMMA OpenTabTyped ==
  ASSUME Typed, NEW t \in habit, OpenTab(t)
  PROVE  Typed'
<1>1. /\ StoreTyped' /\ TaskTyped' /\ StateTyped' /\ MessagesTyped(inbox, log)'
      /\ log' = log /\ habit' = habit /\ oncall' = oncall
  BY MoveTyped DEF OpenTab
<1>2. PageTyped'
  <2>1. /\ tab' = t /\ scroll' = scroll /\ year' = year /\ tri' = tri /\ loadedYear' = loadedYear
        /\ spoiled' = spoiled /\ late' = late
    BY DEF OpenTab, Move
  <2>2. QED
    BY <1>1, <2>1 DEF Typed, PageTyped
<1>3. tab' \in Tabs /\ year' \in Int /\ oncall' \in [Week -> Seq(Assignment)] /\ render(fetches)
  BY <1>1, <1>2, Opened DEF OpenTab, Typed, PageTyped, StoreTyped, StateTyped
<1>4. ReadsTyped(fetches', log') /\ ScreenTyped(screen')
  BY <1>1, <1>3, RenderedTyped DEF Typed
<1>5. QED
  BY <1>1, <1>2, <1>4 DEF Typed

\* A trimester before or after the one shown.
LEMMA TurnedTyped ==
  ASSUME Typed, NEW s \in {-1, 1}
  PROVE  /\ Turned(tri + s).tri \in 0..3 /\ Turned(tri + s).year \in Int
         /\ Turned(tri + s).loaded \in {None, Turned(tri + s).year}
         /\ Turned(tri + s).year # year => Turned(tri + s).loaded = None
         /\ Turned(tri + s).year = year =>
              Turned(tri + s).loaded = loadedYear \/ Turned(tri + s).loaded = None
<1>1. tri \in 0..3 /\ year \in Int /\ loadedYear \in {None, year}
  BY DEF Typed, PageTyped
<1>2. PICK k \in -1..4 : k = tri + s
  BY <1>1
<1>3. CASE k < 0
  BY <1>1, <1>2, <1>3 DEF Turned
<1>4. CASE k > 3
  BY <1>1, <1>2, <1>4 DEF Turned
<1>5. CASE ~(k < 0) /\ ~(k > 3)
  BY <1>1, <1>2, <1>5 DEF Turned
<1>6. QED
  BY <1>3, <1>4, <1>5

LEMMA OncallTriTyped ==
  ASSUME Typed, NEW s \in {-1, 1}, OncallTri(s)
  PROVE  Typed'
<1>1. /\ StoreTyped' /\ TaskTyped' /\ StateTyped' /\ MessagesTyped(inbox, log)'
      /\ log' = log /\ habit' = habit /\ oncall' = oncall
  BY MoveTyped DEF OncallTri
<1>2. PageTyped'
  <2>1. /\ tab' = tab /\ scroll' = scroll /\ late' = late
        /\ tri' = Turned(tri + s).tri /\ year' = Turned(tri + s).year
        /\ loadedYear' = Turned(tri + s).loaded /\ spoiled' = (spoiled /\ loadedYear' # None)
    BY DEF OncallTri, Move
  <2>2. tri' \in 0..3 /\ year' \in Int /\ loadedYear' \in {None, year'}
    BY <2>1, TurnedTyped
  <2>3. spoiled' \in BOOLEAN
    BY <2>1
  <2>4. QED
    BY <1>1, <2>1, <2>2, <2>3 DEF Typed, PageTyped
<1>3. tab' \in Tabs /\ year' \in Int /\ oncall' \in [Week -> Seq(Assignment)] /\ render(fetches)
  BY <1>1, <1>2, Opened DEF OncallTri, Typed, PageTyped, StoreTyped, StateTyped
<1>4. ReadsTyped(fetches', log') /\ ScreenTyped(screen')
  BY <1>1, <1>3, RenderedTyped DEF Typed
<1>5. QED
  BY <1>1, <1>2, <1>4 DEF Typed

LEMMA SelectYearTyped ==
  ASSUME Typed, NEW w \in Week, SelectYear(YearOf(w))
  PROVE  Typed'
<1>1. /\ StoreTyped' /\ TaskTyped' /\ StateTyped' /\ MessagesTyped(inbox, log)'
      /\ log' = log /\ habit' = habit /\ oncall' = oncall
  BY MoveTyped DEF SelectYear
<1>2. PageTyped'
  <2>1. /\ tab' = tab /\ scroll' = scroll /\ late' = late /\ tri' = tri
        /\ year' = YearOf(w) /\ loadedYear' = None /\ spoiled' = FALSE
    BY DEF SelectYear, Move
  <2>2. year' \in Int
    <3>1. PICK y \in 2024..2099 : y = YearOf(w)
      BY Years
    <3>2. QED
      BY <2>1, <3>1
  <2>3. QED
    BY <1>1, <2>1, <2>2 DEF Typed, PageTyped
<1>3. tab' \in Tabs /\ year' \in Int /\ oncall' \in [Week -> Seq(Assignment)] /\ render(fetches)
  BY <1>1, <1>2, Opened DEF SelectYear, Typed, PageTyped, StoreTyped, StateTyped
<1>4. ReadsTyped(fetches', log') /\ ScreenTyped(screen')
  BY <1>1, <1>3, RenderedTyped DEF Typed
<1>5. QED
  BY <1>1, <1>2, <1>4 DEF Typed

LEMMA ScrollTyped ==
  ASSUME Typed, NEW s \in {-1, 1}, Scroll(s)
  PROVE  Typed'
<1>1. /\ StoreTyped' /\ TaskTyped' /\ StateTyped' /\ MessagesTyped(inbox, log)'
      /\ log' = log /\ habit' = habit /\ oncall' = oncall
  BY MoveTyped DEF Scroll
<1>2. /\ scroll' = scroll + s /\ fetches' = Append(fetches, Fetch("reload", scroll'))
      /\ tab' = tab /\ screen' = screen /\ year' = year /\ tri' = tri
      /\ loadedYear' = loadedYear /\ spoiled' = spoiled /\ late' = late
  BY DEF Scroll, Move
<1>3. scroll' \in Int
  BY <1>2 DEF Typed, PageTyped
<1>4. PageTyped'
  BY <1>1, <1>2, <1>3 DEF Typed, PageTyped
<1>5. ReadsTyped(fetches', log') /\ ScreenTyped(screen')
  BY <1>1, <1>2, <1>3, Asked DEF Typed
<1>6. QED
  BY <1>1, <1>4, <1>5 DEF Typed

\* What the user assigns is a task that is not stored yet: somebody shown leaves or joins,
\* or is replaced, or the first who is not on call joins.
LEMMA Assigned ==
  ASSUME Typed, NEW w \in Week, Assign(w)
  PROVE  \E t \in Tasks : /\ Begin(t) /\ ~t.stored
                          /\ t.leaves # None \/ t.joins # None
<1> DEFINE shown == IF w \in DOMAIN screen.shown
                    THEN {screen.shown[w][i].person : i \in DOMAIN screen.shown[w]} ELSE {}
           Good(t) == t \in Tasks /\ Begin(t) /\ ~t.stored /\ (t.leaves # None \/ t.joins # None)
<1>1. ASSUME NEW t, Begin(t) PROVE shown \subseteq Person
  <2>1. screen.tab = "oncall"
    BY <1>1 DEF Begin
  <2>2. QED
    BY <2>1 DEF Typed, ScreenTyped
<1>2. ASSUME NEW l \in Person \cup {None}, NEW j \in Person \cup {None}, NEW c \in Comment,
             NEW r \in BOOLEAN, l # None \/ j # None, Begin(Task(w, l, j, c, r))
      PROVE  Good(Task(w, l, j, c, r))
  <2>1. PICK t : t = Task(w, l, j, c, r)
    OBVIOUS
  <2>2. t \in Tasks
    BY <2>1 DEF Task, Tasks
  <2>3. ~t.stored /\ t.leaves = l /\ t.joins = j
    BY <2>1 DEF Task
  <2>4. QED
    BY <1>2, <2>1, <2>2, <2>3
<1>3. None \notin Person /\ NoText \in Comment
  BY PagesAssumption
<1>4. ASSUME NEW p \in shown, NEW c \in Comment, Begin(Task(w, None, p, c, FALSE))
      PROVE  \E t : Good(t)
  <2>1. p \in Person
    BY <1>1, <1>4
  <2>2. Good(Task(w, None, p, c, FALSE))
    BY <1>2, <1>3, <1>4, <2>1
  <2>3. QED
    BY <2>2
<1>5. ASSUME NEW p \in shown, Begin(Task(w, p, None, NoText, FALSE))
      PROVE  \E t : Good(t)
  <2>1. p \in Person
    BY <1>1, <1>5
  <2>2. Good(Task(w, p, None, NoText, FALSE))
    BY <1>2, <1>3, <1>5, <2>1
  <2>3. QED
    BY <2>2
<1>6. ASSUME NEW p \in shown, NEW q \in Person \ {p},
             Begin(Task(w, p, q, onCallComment(p, w), FALSE))
      PROVE  \E t : Good(t)
  <2>1. p \in Person
    BY <1>1, <1>6
  <2>2. onCallComment(p, w) \in Comment
    <3>1. oncall[w] \in Seq(Assignment)
      BY DEF Typed, StateTyped
    <3>2. CASE IsOn(oncall[w], p)
      <4>1. PICK k \in DOMAIN oncall[w] : k = Position(oncall[w], p)
        BY <3>1, <3>2, FirstOf
      <4>2. oncall[w][k] \in Assignment
        BY <3>1
      <4>3. oncall[w][k].comment \in Comment
        BY <4>2 DEF Assignment
      <4>4. QED
        BY <3>2, <4>1, <4>3 DEF onCallComment
    <3>3. CASE ~IsOn(oncall[w], p)
      BY <1>3, <3>3 DEF onCallComment
    <3>4. QED
      BY <3>2, <3>3
  <2>3. Good(Task(w, p, q, onCallComment(p, w), FALSE))
    BY <1>2, <1>3, <1>6, <2>1, <2>2
  <2>4. QED
    BY <2>3
<1>7. ASSUME NEW i \in DOMAIN People, Begin(Task(w, None, People[i], NoText, TRUE))
      PROVE  \E t : Good(t)
  <2>1. People[i] \in Person
    BY DEF Person
  <2>2. Good(Task(w, None, People[i], NoText, TRUE))
    BY <1>2, <1>3, <1>7, <2>1
  <2>3. QED
    BY <2>2
<1>8. \/ \E p \in shown, c \in Comment : Begin(Task(w, None, p, c, FALSE))
      \/ \E p \in shown : Begin(Task(w, p, None, NoText, FALSE))
      \/ \E p \in shown : \E q \in Person \ {p} : Begin(Task(w, p, q, onCallComment(p, w), FALSE))
      \/ \E i \in DOMAIN People : Begin(Task(w, None, People[i], NoText, TRUE))
  BY Zenon DEF Assign
<1> HIDE DEF shown, Good
<1>9. \E t : Good(t)
  BY <1>4, <1>5, <1>6, <1>7, <1>8
<1>10. QED
  BY <1>9 DEF Good

LEMMA BeginTyped ==
  ASSUME Typed, NEW t \in Tasks, t.leaves # None \/ t.joins # None, Begin(t)
  PROVE  Typed'
<1>1. /\ task' = t /\ UNCHANGED <<server, inbox, page, loadedYear, oncall, feed, spoiled, late>>
      /\ IF t.repaints THEN UNCHANGED <<screen, fetches>> ELSE render(fetches)
  BY DEF Begin
<1>2. /\ db' = db /\ log' = log /\ habit' = habit /\ inbox' = inbox /\ tab' = tab /\ scroll' = scroll
      /\ year' = year /\ tri' = tri /\ loadedYear' = loadedYear /\ oncall' = oncall /\ feed' = feed
      /\ spoiled' = spoiled /\ late' = late
  BY <1>1 DEF server, page
<1>3. /\ StoreTyped' /\ PageTyped' /\ StateTyped' /\ MessagesTyped(inbox', log')
  BY <1>2 DEF Typed, StoreTyped, PageTyped, StateTyped
<1>4. TaskTyped'
  BY <1>1 DEF TaskTyped
<1>5. tab' \in Tabs /\ year' \in Int /\ oncall' \in [Week -> Seq(Assignment)]
  BY <1>2, Opened DEF Typed, PageTyped, StoreTyped, StateTyped
<1>6. ReadsTyped(fetches', log') /\ ScreenTyped(screen')
  BY <1>1, <1>2, <1>5, RenderedTyped DEF Typed
<1>7. QED
  BY <1>3, <1>4, <1>6 DEF Typed
\* An assignment that is stored.
LEMMA StoredTyped ==
  ASSUME StoreTyped, NEW w \in Week, NEW p \in Person, NEW c \in Comment \cup {None}, Stored(w, p, c)
  PROVE  db' \in [Week -> [Person -> Comment \cup {None}]]
BY DEF StoreTyped, Stored

\* Another user changes the on-call table, or only the half-days.
LEMMA OthersChange ==
  ASSUME Typed, OtherUser
  PROVE  \E m \in {"oncall_changed", "planning_range", "planning_updated"} :
           /\ Announced(m) /\ (m = "oncall_changed" \/ db' = db)
           /\ db' \in [Week -> [Person -> Comment \cup {None}]]
           /\ UNCHANGED <<habit, fetches, task, page, screen, loadedYear, oncall, feed, spoiled, late>>
<1> DEFINE Good(m) == /\ Announced(m) /\ (m = "oncall_changed" \/ db' = db)
                      /\ db' \in [Week -> [Person -> Comment \cup {None}]]
<1>1. UNCHANGED <<habit, fetches, task, page, screen, loadedYear, oncall, feed, spoiled, late>>
  BY DEF OtherUser
<1>2. StoreTyped /\ db \in [Week -> [Person -> Comment \cup {None}]]
  BY DEF Typed, StoreTyped
<1>3. ASSUME NEW a \in Contested, NEW c \in Comment \cup {None}, Stored(a[1], a[2], c),
             Announced("oncall_changed")
      PROVE  Good("oncall_changed")
  <2>1. a[1] \in Week /\ a[2] \in Person
    BY PagesAssumption
  <2>2. QED
    BY <1>2, <1>3, <2>1, StoredTyped
<1>4. \/ \E a \in Contested, c \in Comment \cup {None} :
           Stored(a[1], a[2], c) /\ Announced("oncall_changed")
      \/ UNCHANGED db /\ Announced("planning_range")
      \/ UNCHANGED db /\ Announced("planning_updated")
  BY DEF OtherUser
<1>5. Good("oncall_changed") \/ Good("planning_range") \/ Good("planning_updated")
  BY <1>2, <1>3, <1>4
<1>6. QED
  BY <1>1, <1>5

LEMMA OtherUserTyped ==
  ASSUME Typed, OtherUser
  PROVE  Typed'
<1>1. PICK m \in {"oncall_changed", "planning_range", "planning_updated"} :
        /\ Announced(m) /\ db' \in [Week -> [Person -> Comment \cup {None}]]
        /\ UNCHANGED <<habit, fetches, task, page, screen, loadedYear, oncall, feed, spoiled, late>>
  BY OthersChange
<1>2. log \in Nat /\ log' \in Nat /\ log <= log' /\ MessagesTyped(inbox', log')
  <2>1. log \in Nat /\ MessagesTyped(inbox, log)
    BY DEF Typed, StoreTyped
  <2>2. QED
    BY <1>1, <2>1, Announcement
<1>3. StoreTyped' /\ TaskTyped' /\ PageTyped'
  BY <1>1, <1>2 DEF Typed, StoreTyped, TaskTyped, PageTyped, page
<1>4. StateTyped' /\ ReadsTyped(fetches', log') /\ ScreenTyped(screen')
  <2>1. feed' \in Seq(1..log') /\ ReadsTyped(fetches', log')
    BY <1>1, <1>2, EventsAdded DEF Typed, StateTyped
  <2>2. QED
    BY <1>1, <2>1 DEF Typed, StateTyped
<1>5. QED
  BY <1>2, <1>3, <1>4 DEF Typed

\* The user's own change is stored.
LEMMA OwnStored ==
  ASSUME Typed, ServeTask
  PROVE  /\ db' \in [Week -> [Person -> Comment \cup {None}]] /\ Announced("oncall_changed")
         /\ task # None /\ task' = [task EXCEPT !.stored = TRUE]
         /\ UNCHANGED <<habit, fetches, page, screen, loadedYear, oncall, feed, spoiled, late>>
<1>1. /\ Announced("oncall_changed") /\ task # None /\ task' = [task EXCEPT !.stored = TRUE]
      /\ UNCHANGED <<habit, fetches, page, screen, loadedYear, oncall, feed, spoiled, late>>
      /\ IF task.leaves # None THEN Stored(task.week, task.leaves, None)
         ELSE Stored(task.week, task.joins, task.comment)
  BY DEF ServeTask
<1>2. task \in Tasks /\ (task.leaves # None \/ task.joins # None) /\ StoreTyped
  BY <1>1 DEF Typed, TaskTyped
<1>3. /\ task.week \in Week /\ task.comment \in Comment
      /\ task.leaves # None => task.leaves \in Person
      /\ task.joins # None => task.joins \in Person
  BY <1>2 DEF Tasks
<1>4. QED
  BY <1>1, <1>2, <1>3, StoredTyped

LEMMA ServeTaskTyped ==
  ASSUME Typed, ServeTask
  PROVE  Typed'
<1>1. /\ db' \in [Week -> [Person -> Comment \cup {None}]] /\ Announced("oncall_changed")
      /\ task # None /\ task' = [task EXCEPT !.stored = TRUE]
      /\ UNCHANGED <<habit, fetches, page, screen, loadedYear, oncall, feed, spoiled, late>>
  BY OwnStored
<1>2. log \in Nat /\ log' \in Nat /\ log <= log' /\ MessagesTyped(inbox', log')
  <2>1. log \in Nat /\ MessagesTyped(inbox, log)
    BY DEF Typed, StoreTyped
  <2>2. QED
    BY <1>1, <2>1, Announcement
<1>3. StoreTyped' /\ PageTyped'
  BY <1>1, <1>2 DEF Typed, StoreTyped, PageTyped, page
<1>4. TaskTyped'
  BY <1>1 DEF Typed, TaskTyped, Tasks
<1>5. StateTyped' /\ ReadsTyped(fetches', log') /\ ScreenTyped(screen')
  <2>1. feed' \in Seq(1..log') /\ ReadsTyped(fetches', log')
    BY <1>1, <1>2, EventsAdded DEF Typed, StateTyped
  <2>2. QED
    BY <1>1, <2>1 DEF Typed, StateTyped
<1>6. QED
  BY <1>2, <1>3, <1>4, <1>5 DEF Typed

\* A read is served, and the others stay as they are.
LEMMA ServedRead ==
  ASSUME Typed, NEW i \in DOMAIN fetches, Serve(i)
  PROVE  /\ DOMAIN fetches' = DOMAIN fetches /\ ReadsTyped(fetches', log)
         /\ \A j \in DOMAIN fetches : fetches'[j].kind = fetches[j].kind
                                      /\ fetches'[j].arg = fetches[j].arg
         /\ \A j \in DOMAIN fetches : j # i => fetches'[j] = fetches[j]
         /\ fetches'[i].read = ReadFor(fetches[i])
         /\ UNCHANGED <<server, inbox, task, page, screen, loadedYear, oncall, feed, spoiled, late>>
<1>1. /\ fetches' = [fetches EXCEPT ![i].served = TRUE, ![i].read = ReadFor(fetches[i])]
      /\ UNCHANGED <<server, inbox, task, page, screen, loadedYear, oncall, feed, spoiled, late>>
  BY DEF Serve
<1>2. fetches \in Seq(Requests) /\ \A j \in DOMAIN fetches : ReadTyped(fetches[j], log)
  BY DEF Typed, ReadsTyped
<1>3. PICK f \in Requests : f = fetches[i]
  BY <1>2
<1>4. PICK r : r = ReadFor(f)
  OBVIOUS
<1> DEFINE g == [f EXCEPT !.served = TRUE, !.read = r]
<1>5. IF f.kind = "feed" THEN r \in Seq(1..log) /\ Len(r) <= Limit ELSE r \in [Week -> Seq(Assignment)]
  <2>1. log \in Nat /\ db \in [Week -> [Person -> Comment \cup {None}]]
    BY DEF Typed, StoreTyped
  <2>2. CASE f.kind = "feed"
    BY <1>4, <2>1, <2>2, FeedRead DEF ReadFor
  <2>3. CASE f.kind = "year"
    <3>1. r = ReadOncall(WeeksOf(f.arg))
      BY <1>4, <2>3 DEF ReadFor
    <3>2. QED
      BY <2>1, <2>3, <3>1, Reads
  <2>4. CASE f.kind \in {"window", "reload"}
    <3>1. r = ReadOncall(WindowOf(f.arg))
      BY <1>4, <2>4 DEF ReadFor
    <3>2. QED
      BY <2>1, <2>4, <3>1, Reads
  <2>5. QED
    BY <2>2, <2>3, <2>4 DEF Requests
<1>6. g \in Requests /\ ReadTyped(g, log) /\ g.kind = f.kind /\ g.arg = f.arg /\ g.read = r
  <2>1. log \in Nat
    BY DEF Typed, StoreTyped
  <2>2. r \in Seq(Nat) \cup [Week -> Seq(Assignment)]
    BY <1>5, <2>1
  <2>3. g.kind = f.kind /\ g.arg = f.arg /\ g.read = r /\ g.served = TRUE
    BY DEF Requests
  <2>4. g \in Requests
    BY <2>2 DEF Requests
  <2> HIDE DEF g
  <2>5. QED
    BY <1>5, <2>3, <2>4 DEF ReadTyped
<1>7. fetches' = [fetches EXCEPT ![i] = g]
  BY <1>1, <1>2, <1>3, <1>4
<1> HIDE DEF g
<1>8. /\ fetches' \in Seq(Requests) /\ DOMAIN fetches' = DOMAIN fetches
      /\ fetches'[i] = g /\ \A j \in DOMAIN fetches : j # i => fetches'[j] = fetches[j]
  BY <1>2, <1>6, <1>7
<1>9. ReadsTyped(fetches', log)
  BY <1>2, <1>6, <1>8 DEF ReadsTyped
<1>10. QED
  BY <1>1, <1>3, <1>4, <1>6, <1>8, <1>9

LEMMA ServeTyped ==
  ASSUME Typed, NEW i \in DOMAIN fetches, Serve(i)
  PROVE  Typed'
<1>1. /\ ReadsTyped(fetches', log)
      /\ UNCHANGED <<server, inbox, task, page, screen, loadedYear, oncall, feed, spoiled, late>>
  BY ServedRead
<1>2. StoreTyped' /\ TaskTyped' /\ PageTyped' /\ StateTyped'
  BY <1>1 DEF Typed, StoreTyped, TaskTyped, PageTyped, StateTyped, server, page
<1>3. log' = log /\ MessagesTyped(inbox', log') /\ ScreenTyped(screen')
  BY <1>1 DEF Typed, server
<1>4. QED
  BY <1>1, <1>2, <1>3 DEF Typed
\* An answer, by what was read.
LEMMA AnswerTyped ==
  ASSUME Typed, NEW i \in DOMAIN fetches, Answer(i)
  PROVE  Typed'
<1> DEFINE f == fetches[i]
           rest == RemoveAt(fetches, i)
<1>1. /\ db' = db /\ log' = log /\ habit' = habit /\ inbox' = inbox /\ task' = task
      /\ tab' = tab /\ scroll' = scroll /\ year' = year /\ tri' = tri
      /\ late' \in BOOLEAN
  BY DEF Answer, server, page
<1>2. StoreTyped' /\ TaskTyped' /\ MessagesTyped(inbox', log')
  BY <1>1 DEF Typed, StoreTyped, TaskTyped
<1>3. /\ f \in Requests /\ f.served /\ ReadsTyped(rest, log)
      /\ IF f.kind = "feed" THEN f.read \in Seq(1..log) /\ Len(f.read) <= Limit
         ELSE f.read \in [Week -> Seq(Assignment)]
  <2>1. fetches \in Seq(Requests) /\ ReadTyped(f, log) /\ f.served
    BY DEF Typed, ReadsTyped, Answer
  <2>2. ReadsTyped(rest, log)
    BY Answered DEF Typed
  <2>3. QED
    BY <2>1, <2>2 DEF ReadTyped
<1>4. /\ tab \in habit /\ tab \in Tabs /\ year \in Int /\ year # None
      /\ oncall \in [Week -> Seq(Assignment)] /\ feed \in Seq(1..log) /\ Len(feed) <= Cap
  BY Opened, PagesAssumption DEF Typed, PageTyped, StoreTyped, StateTyped
<1>5. \/ f.kind = "year" /\ AnswerYear(f.read) /\ fetches' = rest
      \/ f.kind \in {"window", "reload"} /\ AnswerWindow(f.kind, f.read, rest)
      \/ f.kind = "feed" /\ AnswerFeed(f.read) /\ fetches' = rest
  BY DEF Answer
<1> HIDE DEF f, rest
<1>6. CASE f.kind = "year" /\ AnswerYear(f.read) /\ fetches' = rest
  <2>1. /\ oncall' = f.read /\ loadedYear' = year /\ screen' = OncallPage(f.read, year)
        /\ spoiled' = FALSE /\ feed' = feed
    BY <1>6 DEF AnswerYear
  <2>2. oncall' \in [Week -> Seq(Assignment)] /\ ScreenTyped(screen')
    BY <1>3, <1>4, <1>6, <2>1, Pages
  <2>3. PageTyped'
    BY <1>1, <2>1 DEF Typed, PageTyped
  <2>4. QED
    BY <1>1, <1>2, <1>3, <1>4, <1>6, <2>1, <2>2, <2>3 DEF Typed, StateTyped
<1>7. CASE f.kind \in {"window", "reload"} /\ AnswerWindow(f.kind, f.read, rest)
  <2>1. /\ oncall' = f.read /\ loadedYear' \in {None, loadedYear} /\ spoiled' \in BOOLEAN
        /\ feed' = feed /\ render(rest)
    BY <1>7 DEF AnswerWindow, AfterWindow
  <2>2. oncall' \in [Week -> Seq(Assignment)]
    BY <1>3, <1>7, <2>1
  <2>3. PageTyped'
    BY <1>1, <2>1 DEF Typed, PageTyped
  <2>4. ReadsTyped(fetches', log) /\ ScreenTyped(screen')
    BY <1>1, <1>3, <1>4, <2>1, <2>2, RenderedTyped
  <2>5. QED
    BY <1>1, <1>2, <1>4, <2>1, <2>2, <2>3, <2>4 DEF Typed, StateTyped
<1>8. CASE f.kind = "feed" /\ AnswerFeed(f.read) /\ fetches' = rest
  <2>1. /\ feed' = f.read /\ screen' = ActivityPage(f.read)
        /\ oncall' = oncall /\ loadedYear' = loadedYear /\ spoiled' = spoiled
    BY <1>8 DEF AnswerFeed
  <2>2. feed' \in Seq(1..log) /\ Len(feed') <= Cap
    <3>1. PICK k \in Nat : k = Len(f.read) /\ k <= Limit
      BY <1>3, <1>8
    <3>2. Limit \in Nat /\ Cap \in Nat /\ Limit <= Cap
      BY PagesAssumption
    <3>3. k <= Cap
      BY <3>1, <3>2
    <3>4. QED
      BY <1>3, <1>8, <2>1, <3>1, <3>3
  <2>3. ScreenTyped(screen')
    BY <2>1, Pages
  <2>4. PageTyped'
    BY <1>1, <2>1 DEF Typed, PageTyped
  <2>5. QED
    BY <1>1, <1>2, <1>3, <1>4, <1>8, <2>1, <2>2, <2>3, <2>4 DEF Typed, StateTyped
<1>9. QED
  BY <1>5, <1>6, <1>7, <1>8

\* A message, by its type: the other messages are still to come.
LEMMA Received ==
  ASSUME Typed, ReceiveMessage
  PROVE  /\ Head(inbox) \in Messages /\ MessagesTyped(inbox', log)
         /\ Head(inbox).type = "activity_new" => Head(inbox).event \in 1..log
         /\ \A type : Told(type) <=> Told(type)' \/ Head(inbox).type = type
         /\ UNCHANGED <<server, task, page, loadedYear, oncall, spoiled, late>>
<1>1. /\ inbox # <<>> /\ inbox' = Tail(inbox)
      /\ UNCHANGED <<server, task, page, loadedYear, oncall, spoiled, late>>
  BY DEF ReceiveMessage
<1>2. inbox \in Seq(Messages) /\ \A i \in DOMAIN inbox : inbox[i].type = "activity_new" => inbox[i].event \in 1..log
  BY DEF Typed, MessagesTyped
<1>3. PICK n \in Nat : n = Len(inbox) - 1 /\ DOMAIN inbox = 1..(n + 1)
  BY <1>1, <1>2
<1>4. /\ Head(inbox) = inbox[1] /\ inbox' \in Seq(Messages) /\ DOMAIN inbox' = 1..n
      /\ \A i \in 1..n : inbox'[i] = inbox[i + 1]
  BY <1>1, <1>2, <1>3
<1>5. 1 \in DOMAIN inbox /\ \A i \in 1..n : i + 1 \in DOMAIN inbox
  BY <1>3
<1>6. \A i \in 1..(n + 1) : i = 1 \/ \E j \in 1..n : i = j + 1
  <2>1. \A i \in 1..(n + 1) : i = 1 \/ (i - 1 \in 1..n /\ i = (i - 1) + 1)
    OBVIOUS
  <2>2. QED
    BY <2>1
<1>7. MessagesTyped(inbox', log)
  BY <1>2, <1>4, <1>5 DEF MessagesTyped
<1>8. ASSUME NEW type PROVE Told(type) <=> Told(type)' \/ Head(inbox).type = type
  <2>1. ASSUME NEW i \in 1..n, inbox'[i].type = type PROVE Told(type)
    <3>1. i + 1 \in DOMAIN inbox /\ inbox[i + 1].type = type
      BY <1>4, <1>5, <2>1
    <3>2. QED
      BY <3>1 DEF Told
  <2>2. ASSUME NEW i \in DOMAIN inbox, inbox[i].type = type
        PROVE  Told(type)' \/ Head(inbox).type = type
    <3>1. CASE i = 1
      BY <1>4, <2>2, <3>1
    <3>2. CASE i # 1
      <4>1. PICK j \in 1..n : i = j + 1
        BY <1>3, <1>6, <3>2
      <4>2. inbox'[j].type = type /\ j \in DOMAIN inbox'
        BY <1>4, <2>2, <4>1
      <4>3. QED
        BY <4>2 DEF Told
    <3>3. QED
      BY <3>1, <3>2
  <2>3. Told(type)' => \E i \in 1..n : inbox'[i].type = type
    BY <1>4 DEF Told
  <2>4. Told(type) => \E i \in DOMAIN inbox : inbox[i].type = type
    BY DEF Told
  <2>5. Head(inbox).type = type => Told(type)
    BY <1>4, <1>5 DEF Told
  <2>6. QED
    BY <2>1, <2>2, <2>3, <2>4, <2>5
<1>9. inbox[1] \in Messages
  BY <1>2, <1>5
<1>10. QED
  BY <1>1, <1>2, <1>4, <1>5, <1>7, <1>8, <1>9

LEMMA ReceiveMessageTyped ==
  ASSUME Typed, ReceiveMessage
  PROVE  Typed'
<1> DEFINE m == Head(inbox)
<1>1. /\ m \in Messages /\ MessagesTyped(inbox', log)
      /\ m.type = "activity_new" => m.event \in 1..log
      /\ UNCHANGED <<server, task, page, loadedYear, oncall, spoiled, late>>
  BY Received
<1>2. StoreTyped' /\ TaskTyped' /\ PageTyped' /\ log' = log /\ tab' = tab /\ year' = year
  BY <1>1 DEF Typed, StoreTyped, TaskTyped, PageTyped, server, page
<1>3. /\ tab' \in Tabs /\ year' \in Int /\ oncall' \in [Week -> Seq(Assignment)]
      /\ scroll \in Int /\ log \in Nat
  BY <1>1, <1>2, Opened DEF Typed, PageTyped, StoreTyped, StateTyped
<1>4. CASE m.type \in {"oncall_changed", "planning_range"}
  <2>1. /\ \/ fetches' = Append(fetches, Fetch("window", scroll))
           \/ fetches' = Append(fetches, Fetch("reload", scroll))
        /\ feed' = feed /\ screen' = screen
    BY <1>4 DEF ReceiveMessage
  <2>2. ReadsTyped(fetches', log) /\ ScreenTyped(screen')
    BY <1>3, <2>1, Asked DEF Typed
  <2>3. QED
    BY <1>1, <1>2, <2>1, <2>2 DEF Typed, StateTyped
<1>5. CASE m.type = "planning_updated"
  <2>1. feed' = feed /\ render(fetches)
    BY <1>5 DEF ReceiveMessage
  <2>2. ReadsTyped(fetches', log) /\ ScreenTyped(screen')
    BY <1>3, <2>1, RenderedTyped DEF Typed
  <2>3. QED
    BY <1>1, <1>2, <2>1, <2>2 DEF Typed, StateTyped
<1>6. CASE m.type = "activity_new"
  <2>1. /\ feed' = Capped(<<m.event>> \o feed)
        /\ render(fetches) \/ UNCHANGED <<screen, fetches>>
    BY <1>6 DEF ReceiveMessage
  <2>2. feed' \in Seq(1..log) /\ Len(feed') <= Cap
    BY <1>1, <1>3, <1>6, <2>1, FeedGrows DEF Typed, StateTyped
  <2>3. ReadsTyped(fetches', log) /\ ScreenTyped(screen')
    BY <1>3, <2>1, RenderedTyped DEF Typed
  <2>4. QED
    BY <1>1, <1>2, <2>2, <2>3 DEF Typed, StateTyped
<1>7. QED
  BY <1>1, <1>4, <1>5, <1>6 DEF Messages

\* The user's own change is answered.
LEMMA AnswerTaskTyped ==
  ASSUME Typed, AnswerTask
  PROVE  Typed'
<1>1. /\ task # None /\ UNCHANGED <<server, inbox, page, loadedYear, feed, spoiled, late>>
      /\ oncall' = [oncall EXCEPT ![task.week] =
           IF task.leaves # None THEN Without(@, task.leaves)
           ELSE PutLocally(@, task.joins, task.comment, ~task.both)]
      /\ task' = IF task.leaves # None /\ task.joins # None
                 THEN [task EXCEPT !.leaves = None, !.stored = FALSE] ELSE None
      /\ IF task.repaints THEN render(fetches) ELSE UNCHANGED <<screen, fetches>>
  BY DEF AnswerTask
<1>2. /\ task \in Tasks /\ (task.leaves # None \/ task.joins # None)
      /\ oncall \in [Week -> Seq(Assignment)]
  BY <1>1 DEF Typed, TaskTyped, StateTyped
<1>3. /\ task.week \in Week /\ task.comment \in Comment
      /\ task.leaves # None => task.leaves \in Person
      /\ task.joins # None => task.joins \in Person
  BY <1>2 DEF Tasks
<1>4. oncall' \in [Week -> Seq(Assignment)]
  <2>1. PICK es \in Seq(Assignment) : es = oncall[task.week]
    BY <1>2, <1>3
  <2>2. CASE task.leaves # None
    <3>1. Without(es, task.leaves) \in Seq(Assignment)
      BY Leaves
    <3>2. oncall' = [oncall EXCEPT ![task.week] = Without(es, task.leaves)]
      BY <1>1, <1>2, <1>3, <2>1, <2>2
    <3>3. QED
      BY <1>2, <1>3, <3>1, <3>2
  <2>3. CASE task.leaves = None
    <3>1. PutLocally(es, task.joins, task.comment, ~task.both) \in Seq(Assignment)
      BY <1>2, <1>3, <2>3, Joins
    <3>2. oncall' = [oncall EXCEPT ![task.week] = PutLocally(es, task.joins, task.comment, ~task.both)]
      BY <1>1, <1>2, <1>3, <2>1, <2>3
    <3>3. QED
      BY <1>2, <1>3, <3>1, <3>2
  <2>4. QED
    BY <2>2, <2>3
<1>5. StoreTyped' /\ PageTyped' /\ StateTyped' /\ MessagesTyped(inbox', log') /\ log' = log
  BY <1>1, <1>4 DEF Typed, StoreTyped, PageTyped, StateTyped, server, page
<1>6. TaskTyped'
  <2>1. CASE task.leaves # None /\ task.joins # None
    <3>1. task' = [task EXCEPT !.leaves = None, !.stored = FALSE]
      BY <1>1, <2>1
    <3>2. task' \in Tasks /\ task'.joins # None
      BY <1>2, <2>1, <3>1 DEF Tasks
    <3>3. QED
      BY <3>2 DEF TaskTyped
  <2>2. CASE ~(task.leaves # None /\ task.joins # None)
    BY <1>1, <2>2 DEF TaskTyped
  <2>3. QED
    BY <2>1, <2>2
<1>7. ReadsTyped(fetches', log') /\ ScreenTyped(screen')
  <2>1. tab' \in Tabs /\ year' \in Int
    BY <1>1, Opened DEF Typed, StoreTyped, PageTyped, page
  <2>2. QED
    BY <1>1, <1>4, <1>5, <2>1, RenderedTyped DEF Typed
<1>8. QED
  BY <1>5, <1>6, <1>7 DEF Typed

\* The steps one by one, or none.
LEMMA Steps ==
  ASSUME Typed, [Next]_vars
  PROVE  \/ \E t \in habit : OpenTab(t)
         \/ \E s \in {-1, 1} : OncallTri(s)
         \/ \E s \in {-1, 1} : Scroll(s)
         \/ \E w \in Week : SelectYear(YearOf(w))
         \/ \E t \in Tasks : Begin(t) /\ ~t.stored /\ (t.leaves # None \/ t.joins # None)
         \/ OtherUser \/ ServeTask
         \/ \E i \in DOMAIN fetches : Serve(i)
         \/ \E i \in DOMAIN fetches : Answer(i)
         \/ ReceiveMessage \/ AnswerTask
         \/ UNCHANGED vars
BY Assigned DEF Next, UserStep, ServerStep, BrowserStep

LEMMA TypedKept ==
  Typed /\ [Next]_vars => Typed'
<1> SUFFICES ASSUME Typed, [Next]_vars PROVE Typed'
  OBVIOUS
<1>1. CASE UNCHANGED vars
  <2>1. /\ UNCHANGED <<db, log, habit, inbox, fetches, task, tab, screen, scroll, year, tri, loadedYear>>
        /\ UNCHANGED <<oncall, feed, spoiled, late>>
    BY <1>1 DEF vars
  <2>2. StoreTyped' /\ TaskTyped' /\ PageTyped' /\ StateTyped'
    BY <2>1 DEF Typed, StoreTyped, TaskTyped, PageTyped, StateTyped
  <2>3. QED
    BY <2>1, <2>2 DEF Typed
<1>2. QED
  BY <1>1, Steps, OpenTabTyped, OncallTriTyped, ScrollTyped, SelectYearTyped, BeginTyped,
     OtherUserTyped, ServeTaskTyped, ServeTyped, AnswerTyped, ReceiveMessageTyped, AnswerTaskTyped

\* Whatever the user, the others and the network do, every variable keeps its type, what was
\* read and the messages are of events there are, and the feed keeps its bound.
THEOREM TypeCorrect == Spec => []TypeOK
<1>1. Typed => TypeOK
  BY Opened DEF Typed, TypeOK, StoreTyped, TaskTyped, PageTyped, StateTyped, MessagesTyped, Messages,
                ReadsTyped, ReadTyped, ScreenTyped
<1>2. QED
  BY <1>1, TypedAtFirst, TypedKept, PTL DEF Spec
-----------------------------------------------------------------------------
(* The page of a tab is painted by its own answers.                         *)

\* An answer that was not overtaken is the first of its target's; none comes late but for it.
LEMMA InTime ==
  ASSUME Typed, NEW i \in DOMAIN fetches, Answer(i), ~late'
  PROVE  /\ ~late /\ fetches \in Seq(Requests) /\ fetches[i] \in Requests /\ fetches[i].served
         /\ fetches[i].kind = "feed" =>
              tab = "activity" /\ \A j \in 1..i - 1 : fetches[j].kind \notin {"feed"}
         /\ fetches[i].kind \in OncallReads =>
              /\ ~(task # None /\ task.stored)
              /\ \A j \in 1..i - 1 : fetches[j].kind \notin OncallReads
         /\ fetches[i].kind = "year" => tab = "oncall"
         /\ fetches[i].kind \in OncallReads <=> fetches[i].kind # "feed"
<1>1. fetches \in Seq(Requests)
  BY DEF Typed, ReadsTyped
<1>2. \A j \in DOMAIN fetches : fetches[j].kind \in OncallReads <=> fetches[j].kind # "feed"
  <2>1. \A j \in DOMAIN fetches : fetches[j] \in Requests
    BY <1>1
  <2>2. QED
    BY <2>1 DEF Requests, OncallReads
<1>3. \A j \in 1..i - 1 : j \in DOMAIN fetches
  BY <1>1
<1>4. /\ ~late /\ ~Overtaken(i) /\ ~OwnOvertaken(fetches[i].kind)
      /\ fetches[i].kind = "year" => tab = "oncall"
      /\ fetches[i].kind = "feed" => tab = "activity"
      /\ fetches[i].served
  BY DEF Answer
<1>5. \A j \in 1..i - 1 : Target(fetches[j].kind) # Target(fetches[i].kind)
  BY <1>4 DEF Overtaken
<1>6. \A j \in 1..i - 1 : (fetches[j].kind = "feed") # (fetches[i].kind = "feed")
  BY <1>5, Zenon DEF Target
<1>7. fetches[i].kind = "feed" => \A j \in 1..i - 1 : fetches[j].kind \notin {"feed"}
  BY <1>6
<1>8. fetches[i].kind \in OncallReads => \A j \in 1..i - 1 : fetches[j].kind \notin OncallReads
  BY <1>2, <1>3, <1>6
<1>9. fetches[i].kind \in OncallReads => ~(task # None /\ task.stored)
  BY <1>2, <1>4 DEF OwnOvertaken
<1>10. fetches[i] \in Requests
  BY <1>1
<1>11. QED
  BY <1>1, <1>2, <1>4, <1>7, <1>8, <1>9, <1>10

\* What was late stays late.
LEMMA StaysLate ==
  ASSUME Typed, [Next]_vars, ~late'
  PROVE  ~late
<1>1. ASSUME NEW i \in DOMAIN fetches, Answer(i) PROVE ~late
  BY <1>1, InTime
<1>2. QED
  BY <1>1, Steps DEF OpenTab, OncallTri, SelectYear, Scroll, Move, Begin, OtherUser, ServeTask, Serve,
                     ReceiveMessage, AnswerTask, vars

LEMMA TabsAreOpened ==
  Typed => tab \in Tabs
BY Opened DEF Typed, StoreTyped, PageTyped

LEMMA PaintsKept ==
  ASSUME Typed, tab' \in Tabs, PaintsItsTab, [Next]_vars
  PROVE  PaintsItsTab'
<1> SUFFICES ASSUME ~late' PROVE screen'.tab = tab'
  BY DEF PaintsItsTab
<1>1. ~late /\ screen.tab = tab
  BY StaysLate DEF PaintsItsTab
<1>2. ASSUME NEW fs, render(fs) PROVE screen'.tab = tab'
  BY <1>2, Rendered DEF TeamPage, Loading, OncallPage, ActivityPage
<1>3. ASSUME NEW i \in DOMAIN fetches, Answer(i) PROVE screen'.tab = tab'
  <2>1. /\ fetches[i].kind = "feed" => tab = "activity"
        /\ fetches[i].kind = "year" => tab = "oncall"
        /\ tab' = tab
    BY <1>3, InTime DEF Answer, page
  <2>2. \/ fetches[i].kind = "year" /\ AnswerYear(fetches[i].read)
        \/ AnswerWindow(fetches[i].kind, fetches[i].read, RemoveAt(fetches, i))
        \/ fetches[i].kind = "feed" /\ AnswerFeed(fetches[i].read)
    BY <1>3 DEF Answer
  <2>3. CASE fetches[i].kind = "year" /\ AnswerYear(fetches[i].read)
    BY <2>1, <2>3 DEF AnswerYear, OncallPage
  <2>4. CASE AnswerWindow(fetches[i].kind, fetches[i].read, RemoveAt(fetches, i))
    BY <1>2, <2>4 DEF AnswerWindow
  <2>5. CASE fetches[i].kind = "feed" /\ AnswerFeed(fetches[i].read)
    BY <2>1, <2>5 DEF AnswerFeed, ActivityPage
  <2>6. QED
    BY <2>2, <2>3, <2>4, <2>5
<1>4. CASE ReceiveMessage
  <2>1. tab' = tab /\ Head(inbox) \in Messages
    BY <1>4, Received DEF page
  <2>2. render(fetches) \/ screen' = screen
    BY <1>4, <2>1 DEF ReceiveMessage, Messages
  <2>3. QED
    BY <1>1, <1>2, <2>1, <2>2
<1>5. QED
  BY <1>1, <1>2, <1>3, <1>4, Steps
     DEF OpenTab, OncallTri, SelectYear, Scroll, Move, Begin, OtherUser, ServeTask, Serve, AnswerTask,
         page, vars

-----------------------------------------------------------------------------
(* The activity tab.                                                        *)

\* The activity page asks for the feed whenever it is rendered.
LEMMA FeedRendered ==
  ASSUME NEW fs \in Seq(Requests), render(fs), tab' = "activity"
  PROVE  FeedComes'
<1> DEFINE f == Fetch("feed", 0)
<1>1. fetches' = Append(fs, f)
  BY Rendered DEF Tabs
<1>2. f \in Requests /\ f.kind = "feed" /\ ~f.served
  BY DEF Fetch, Requests
<1> HIDE DEF f
<1>3. /\ Reading(Append(fs, f), {"feed"})
      /\ \A i \in DOMAIN Append(fs, f) : IsLast(Append(fs, f), i, {"feed"}) => Append(fs, f)[i] = f
  BY <1>2, LastAsked
<1>4. Reading(fetches', {"feed"}) /\ FeedIsLast(fetches', ReadFeed')
  BY <1>1, <1>2, <1>3 DEF FeedIsLast
<1>5. QED
  BY <1>4 DEF FeedComes

\* An answer of the feed is what the feed is, if no other fetch follows it.
LEMMA FeedAnswered ==
  ASSUME Typed, FeedComes, NEW i \in DOMAIN fetches, Answer(i)
  PROVE  FeedComes'
<1> DEFINE f == fetches[i]
           rest == RemoveAt(fetches, i)
<1> SUFFICES ASSUME tab' = "activity", ~late', ~Told("activity_new")' PROVE FeedComes'
  BY DEF FeedComes
<1>1. /\ ~late /\ fetches \in Seq(Requests) /\ f.served
      /\ f.kind = "feed" => \A j \in 1..i - 1 : fetches[j].kind \notin {"feed"}
      /\ f.kind # "year"
  <2>1. tab = "activity"
    BY DEF Answer, page
  <2>2. QED
    BY <2>1, InTime
<1>2. log' = log /\ inbox' = inbox /\ tab' = tab
  BY DEF Answer, server, page
<1>3. rest \in Seq(Requests)
  BY <1>1, Removed
<1>4. \/ AnswerWindow(f.kind, f.read, rest)
      \/ f.kind = "feed" /\ AnswerFeed(f.read) /\ fetches' = rest
  BY <1>1 DEF Answer
<1>5. FeedIsLast(fetches, ReadFeed)
  BY <1>1, <1>2 DEF FeedComes, Told
<1>6. ReadFeed' = ReadFeed
  BY <1>2 DEF ReadFeed
<1> HIDE DEF f, rest
<1>7. CASE AnswerWindow(f.kind, f.read, rest)
  <2>1. render(rest)
    BY <1>7 DEF AnswerWindow
  <2>2. QED
    BY <1>3, <2>1, FeedRendered
<1>8. CASE f.kind = "feed" /\ AnswerFeed(f.read) /\ fetches' = rest
  <2>1. /\ \A j \in DOMAIN rest : IsLast(rest, j, {"feed"}) =>
             \E k \in DOMAIN fetches : IsLast(fetches, k, {"feed"}) /\ rest[j] = fetches[k]
        /\ ~Reading(rest, {"feed"}) => IsLast(fetches, i, {"feed"})
    BY <1>1, <1>8, LastLeft DEF f, rest
  <2>2. FeedIsLast(rest, ReadFeed)
    BY <1>5, <2>1 DEF FeedIsLast
  <2>3. ~Reading(rest, {"feed"}) => screen' = ActivityPage(ReadFeed)
    <3>1. screen' = ActivityPage(f.read)
      BY <1>8 DEF AnswerFeed
    <3>2. IsLast(fetches, i, {"feed"}) => f.read = ReadFeed
      BY <1>1, <1>5 DEF FeedIsLast, f
    <3>3. QED
      BY <2>1, <3>1, <3>2
  <2>4. QED
    BY <1>6, <1>8, <2>2, <2>3 DEF FeedComes
<1>9. QED
  BY <1>4, <1>7, <1>8

\* A message of an event makes the page ask for the feed.
LEMMA FeedReceived ==
  ASSUME Typed, FeedComes, ReceiveMessage
  PROVE  FeedComes'
<1> SUFFICES ASSUME tab' = "activity", ~late', ~Told("activity_new")' PROVE FeedComes'
  BY DEF FeedComes
<1> DEFINE m == Head(inbox)
<1>1. /\ m \in Messages /\ (Told("activity_new") <=> m.type = "activity_new")
      /\ UNCHANGED <<server, task, page, loadedYear, oncall, spoiled, late>>
  BY Received
<1>2. log' = log /\ tab = "activity" /\ ~late /\ fetches \in Seq(Requests)
  BY <1>1 DEF server, page, Typed, ReadsTyped
<1>3. ReadFeed' = ReadFeed
  BY <1>2 DEF ReadFeed
<1>4. CASE m.type \in {"oncall_changed", "planning_range"}
  <2>1. PICK kind \in {"window", "reload"} : fetches' = Append(fetches, Fetch(kind, scroll)) /\ screen' = screen
    BY <1>4 DEF ReceiveMessage
  <2>2. PICK f \in Requests : f = Fetch(kind, scroll) /\ f.kind # "feed"
    <3>1. Fetch(kind, scroll) \in Requests /\ Fetch(kind, scroll).kind # "feed"
      BY DEF Typed, PageTyped, Fetch, Requests
    <3>2. QED
      BY <3>1
  <2>3. /\ Reading(Append(fetches, f), {"feed"}) <=> Reading(fetches, {"feed"})
        /\ \A i \in DOMAIN Append(fetches, f) : IsLast(Append(fetches, f), i, {"feed"}) =>
             i \in DOMAIN fetches /\ IsLast(fetches, i, {"feed"}) /\ Append(fetches, f)[i] = fetches[i]
    BY <1>2, <2>2, LastAsked
  <2>4. /\ FeedIsLast(fetches, ReadFeed)
        /\ ~Reading(fetches, {"feed"}) => screen = ActivityPage(ReadFeed)
    BY <1>1, <1>2, <1>4 DEF FeedComes
  <2>5. FeedIsLast(Append(fetches, f), ReadFeed)
    BY <2>3, <2>4 DEF FeedIsLast
  <2>6. QED
    BY <1>3, <2>1, <2>2, <2>3, <2>4, <2>5 DEF FeedComes
<1>5. CASE m.type \in {"planning_updated", "activity_new"}
  <2>1. render(fetches)
    BY <1>2, <1>5 DEF ReceiveMessage
  <2>2. QED
    BY <1>2, <2>1, FeedRendered
<1>6. QED
  BY <1>1, <1>4, <1>5 DEF Messages

LEMMA FeedKept ==
  ASSUME Typed, PaintsItsTab, FeedComes, [Next]_vars
  PROVE  FeedComes'
<1> SUFFICES ASSUME tab' = "activity", ~late', ~Told("activity_new")' PROVE FeedComes'
  BY DEF FeedComes
<1>1. ~late /\ screen.tab = tab /\ fetches \in Seq(Requests)
  BY StaysLate DEF PaintsItsTab, Typed, ReadsTyped
<1>2. ASSUME log' = log, inbox' = inbox, tab' = tab, fetches' = fetches, screen' = screen
      PROVE  FeedComes'
  <2>1. ReadFeed' = ReadFeed /\ ~Told("activity_new")
    BY <1>2 DEF ReadFeed, Told
  <2>2. QED
    BY <1>1, <1>2, <2>1 DEF FeedComes
<1>3. ASSUME NEW m \in {"oncall_changed", "planning_range", "planning_updated"}, Announced(m),
             tab' = tab
      PROVE  FALSE
  <2>1. log \in Nat /\ MessagesTyped(inbox, log) /\ "activity" \in habit
    BY <1>3 DEF Typed, StoreTyped, PageTyped
  <2>2. QED
    BY <1>3, <2>1, Announcement
<1>4. ASSUME NEW t \in habit, OpenTab(t) PROVE FeedComes'
  BY <1>1, <1>4, FeedRendered DEF OpenTab
<1>5. ASSUME NEW s \in {-1, 1}, OncallTri(s) \/ Scroll(s) PROVE FeedComes'
  BY <1>1, <1>5 DEF OncallTri, Scroll
<1>6. ASSUME NEW y, SelectYear(y) PROVE FeedComes'
  BY <1>1, <1>6 DEF SelectYear
<1>7. ASSUME NEW t, Begin(t) PROVE FeedComes'
  BY <1>1, <1>7 DEF Begin, page
<1>8. CASE OtherUser
  <2>1. PICK m \in {"oncall_changed", "planning_range", "planning_updated"} : Announced(m) /\ UNCHANGED page
    BY <1>8, OthersChange
  <2>2. QED
    BY <1>3, <2>1 DEF page
<1>9. CASE ServeTask
  <2>1. Announced("oncall_changed") /\ UNCHANGED page
    BY <1>9, OwnStored
  <2>2. QED
    BY <1>3, <2>1 DEF page
<1>10. ASSUME NEW i \in DOMAIN fetches, Serve(i) PROVE FeedComes'
  <2>1. /\ DOMAIN fetches' = DOMAIN fetches
        /\ \A j \in DOMAIN fetches : fetches'[j].kind = fetches[j].kind
        /\ \A j \in DOMAIN fetches : j # i => fetches'[j] = fetches[j]
        /\ fetches'[i].read = ReadFor(fetches[i])
        /\ UNCHANGED <<server, inbox, task, page, screen>>
    BY <1>10, ServedRead
  <2>2. ReadFeed' = ReadFeed /\ ~Told("activity_new")
    BY <2>1 DEF ReadFeed, Told, server
  <2>3. /\ FeedIsLast(fetches, ReadFeed)
        /\ ~Reading(fetches, {"feed"}) => screen = ActivityPage(ReadFeed)
    BY <1>1, <2>1, <2>2 DEF FeedComes, page
  <2>4. Reading(fetches', {"feed"}) <=> Reading(fetches, {"feed"})
    BY <2>1 DEF Reading
  <2>5. \A j \in DOMAIN fetches : IsLast(fetches', j, {"feed"}) <=> IsLast(fetches, j, {"feed"})
    BY <2>1 DEF IsLast
  <2>6. IsLast(fetches, i, {"feed"}) => fetches'[i].read = ReadFeed
    BY <2>1 DEF IsLast, ReadFor
  <2>7. FeedIsLast(fetches', ReadFeed)
    BY <2>1, <2>3, <2>5, <2>6 DEF FeedIsLast
  <2>8. QED
    BY <2>1, <2>2, <2>3, <2>4, <2>7 DEF FeedComes
<1>11. CASE AnswerTask
  BY <1>1, <1>2, <1>11, FeedRendered DEF AnswerTask, server, page
<1>12. CASE UNCHANGED vars
  BY <1>2, <1>12 DEF vars
<1>13. QED
  BY <1>4, <1>5, <1>6, <1>7, <1>8, <1>9, <1>10, <1>11, <1>12, Steps, FeedAnswered, FeedReceived

LEMMA FeedAtFirst ==
  Init => PaintsItsTab /\ FeedComes
BY DEF Init, PaintsItsTab, FeedComes, TeamPage

\* Once nothing is under way the activity tab shows the newest events, newest first, each
\* once: the fetch that an event's message causes reads the events whose message came
\* before, and the last fetch's answer is what is shown.
THEOREM FeedShown == Spec => []FeedIsComplete
<1> DEFINE IInv == Typed /\ PaintsItsTab /\ FeedComes
<1>1. Init => IInv
  BY TypedAtFirst, FeedAtFirst
<1>2. IInv /\ [Next]_vars => IInv'
  <2> SUFFICES ASSUME IInv, [Next]_vars PROVE IInv'
    OBVIOUS
  <2>1. Typed'
    BY TypedKept
  <2>2. tab' \in Tabs
    BY <2>1, PagesAssumption DEF Typed, StoreTyped, PageTyped
  <2>3. QED
    BY <2>1, <2>2, PaintsKept, FeedKept
<1>3. IInv => FeedIsComplete
  <2> SUFFICES ASSUME IInv PROVE FeedIsComplete
    OBVIOUS
  <2>1. Quiet => ~Told("activity_new") /\ ~Reading(fetches, {"feed"})
    BY DEF Quiet, Told, Reading
  <2>2. QED
    BY <2>1 DEF FeedIsComplete, FeedComes
<1> HIDE DEF IInv
<1>4. QED
  BY <1>1, <1>2, <1>3, PTL DEF Spec
-----------------------------------------------------------------------------
(* The on-call tab.                                                         *)

\* What the on-call tab's last read is to return, and the table that is stored.
TableStored == ReadOncall(WeeksOf(year))

\* The table read changes with the table stored and with the year alone.
LEMMA SameTable ==
  ASSUME db' = db
  PROVE  year' = year => TableStored' = TableStored
BY DEF TableStored, ReadOncall, WeeksOf

\* A read other than a year's, asked for last, says nothing of the year; nor does one that
\* is not of on-call.
LEMMA YearAsked ==
  ASSUME NEW fs \in Seq(Requests), NEW f \in Requests, NEW y, NEW told, NEW r,
         \/ f.kind = "year" /\ f.arg = y /\ ~f.served
         \/ f.kind \in {"window", "reload"}
         \/ f.kind = "feed" /\ YearIsLast(fs, y, told, r)
  PROVE  YearIsLast(Append(fs, f), y, told, r)
<1>1. \A i \in DOMAIN Append(fs, f) : IsLast(Append(fs, f), i, OncallReads) =>
        IF f.kind \in OncallReads THEN Append(fs, f)[i] = f
        ELSE i \in DOMAIN fs /\ IsLast(fs, i, OncallReads) /\ Append(fs, f)[i] = fs[i]
  BY LastAsked
<1>2. QED
  BY <1>1 DEF YearIsLast, OncallReads

\* The on-call tab when it is rendered: its year is loaded, or asked for.
LEMMA OncallRendered ==
  ASSUME Typed', NEW fs \in Seq(Requests), render(fs), tab' \in Tabs,
         \/ YearIsLast(fs, year', Told("oncall_changed")', TableStored')
         \/ tab' = "oncall" /\ loadedYear' # year',
         Reading(fs, OncallReads) \/ Told("oncall_changed")' \/ loadedYear' = None \/ spoiled'
           \/ oncall' = TableStored',
         task' # None /\ task'.stored => Told("oncall_changed")' \/ Reading(fs, {"window"})
  PROVE  OncallSound'
<1>1. year' \in Int /\ year' # None
  BY PagesAssumption DEF Typed, PageTyped
<1>2. CASE tab' = "oncall" /\ loadedYear' # year'
  <2>1. PICK f : f = Fetch("year", year')
    OBVIOUS
  <2>2. f \in Requests /\ f.kind = "year" /\ f.arg = year' /\ ~f.served
    BY <1>1, <2>1 DEF Fetch, Requests
  <2>3. fetches' = Append(fs, f)
    BY <1>2, <2>1, Rendered
  <2>4. YearIsLast(fetches', year', Told("oncall_changed")', TableStored')
    BY <2>2, <2>3, YearAsked
  <2>5. Reading(fetches', OncallReads) /\ Reading(fetches', {"year"})
        /\ (Reading(fs, {"window"}) => Reading(fetches', {"window"}))
    BY <2>2, <2>3, LastAsked DEF OncallReads
  <2>6. QED
    BY <2>4, <2>5 DEF OncallSound, TableStored, YearIsStored, YearIsShown, OwnComesBack, YearComes, Settled
<1>3. CASE tab' = "oncall" /\ loadedYear' = year'
  <2>1. screen' = OncallPage(oncall', year') /\ fetches' = fs
    BY <1>3, Rendered
  <2>2. YearIsLast(fetches', year', Told("oncall_changed")', TableStored')
    BY <1>3, <2>1
  <2>3. YearIsStored' /\ YearIsShown' /\ OwnComesBack' /\ YearComes'
    BY <1>1, <1>3, <2>1 DEF TableStored, YearIsStored, YearIsShown, OwnComesBack, YearComes, Settled
  <2>4. QED
    BY <2>2, <2>3 DEF OncallSound, TableStored
<1>4. CASE tab' = "team"
  <2>1. fetches' = fs
    BY <1>4, Rendered
  <2>2. YearIsLast(fetches', year', Told("oncall_changed")', TableStored')
    BY <1>4, <2>1
  <2>3. YearIsStored' /\ YearIsShown' /\ OwnComesBack' /\ YearComes'
    BY <1>4, <2>1 DEF TableStored, YearIsStored, YearIsShown, OwnComesBack, YearComes, Settled
  <2>4. QED
    BY <2>2, <2>3 DEF OncallSound, TableStored
<1>5. CASE tab' = "activity"
  <2>1. PICK f : f = Fetch("feed", 0)
    OBVIOUS
  <2>2. f \in Requests /\ f.kind = "feed"
    BY <2>1 DEF Fetch, Requests
  <2>3. fetches' = Append(fs, f)
    BY <1>5, <2>1, Rendered
  <2>4. YearIsLast(fetches', year', Told("oncall_changed")', TableStored')
    BY <1>5, <2>2, <2>3, YearAsked
  <2>5. /\ Reading(fetches', OncallReads) <=> Reading(fs, OncallReads)
        /\ Reading(fetches', {"window"}) <=> Reading(fs, {"window"})
    BY <2>2, <2>3, LastAsked DEF OncallReads
  <2>6. YearIsStored' /\ YearIsShown' /\ OwnComesBack' /\ YearComes'
    BY <1>5, <2>5 DEF TableStored, YearIsStored, YearIsShown, OwnComesBack, YearComes, Settled
  <2>7. QED
    BY <2>4, <2>6 DEF OncallSound, TableStored
<1>6. QED
  BY <1>2, <1>3, <1>4, <1>5 DEF Tabs

\* ... and when nothing of it changes, and when another read of on-call is asked for.
LEMMA OncallUntouched ==
  ASSUME OncallSound, ~late, ~late',
         /\ fetches' = fetches /\ db' = db /\ year' = year /\ loadedYear' = loadedYear /\ tab' = tab
         /\ screen' = screen /\ spoiled' = spoiled
         /\ Told("oncall_changed")' <=> Told("oncall_changed"),
         oncall' = oncall \/ Reading(fetches, OncallReads) \/ Told("oncall_changed"),
         task' # None /\ task'.stored => task # None /\ task.stored
  PROVE  OncallSound'
<1>1. TableStored' = TableStored
  BY SameTable
<1>2. /\ YearIsLast(fetches, year, Told("oncall_changed"), TableStored)
      /\ YearIsStored /\ YearIsShown /\ OwnComesBack /\ YearComes
  BY DEF OncallSound, TableStored
<1>3. YearIsLast(fetches', year', Told("oncall_changed")', TableStored')
  BY <1>1, <1>2 DEF YearIsLast
<1>4. YearIsStored' /\ YearIsShown' /\ OwnComesBack' /\ YearComes'
  BY <1>1, <1>2 DEF TableStored, YearIsStored, YearIsShown, OwnComesBack, YearComes, Settled
<1>5. QED
  BY <1>3, <1>4 DEF OncallSound, TableStored

LEMMA ReloadAsked ==
  ASSUME Typed, OncallSound, ~late, NEW kind \in {"window", "reload"}, NEW arg \in Int,
         fetches' = Append(fetches, Fetch(kind, arg)), tab' = tab, loadedYear' = loadedYear,
         task' = task, Told("oncall_changed") => Told("oncall_changed")' \/ kind = "window"
  PROVE  OncallSound'
<1>1. fetches \in Seq(Requests)
  BY DEF Typed, ReadsTyped
<1>2. PICK f : f = Fetch(kind, arg)
  OBVIOUS
<1>3. f \in Requests /\ f.kind = kind
  BY <1>2 DEF Fetch, Requests
<1>4. YearIsLast(fetches', year', Told("oncall_changed")', TableStored')
  BY <1>1, <1>2, <1>3, YearAsked
<1>5. /\ Reading(fetches', OncallReads)
      /\ Reading(fetches, {"year"}) => Reading(fetches', {"year"})
      /\ Reading(fetches, {"window"}) \/ kind = "window" => Reading(fetches', {"window"})
  BY <1>1, <1>2, <1>3, LastAsked DEF OncallReads
<1>6. YearIsStored' /\ YearIsShown' /\ OwnComesBack' /\ YearComes'
  BY <1>5 DEF OncallSound, YearIsStored, YearIsShown, OwnComesBack, YearComes, Settled
<1>7. QED
  BY <1>4, <1>6 DEF OncallSound, TableStored
\* A change is announced: what was read may be of before it, but its message is to come.
LEMMA OncallAnnounced ==
  ASSUME Typed, OncallSound, ~late, ~late',
         NEW m \in {"oncall_changed", "planning_range", "planning_updated"}, Announced(m),
         m = "oncall_changed" \/ db' = db,
         UNCHANGED <<fetches, page, screen, loadedYear, oncall, spoiled>>,
         task' # None /\ task'.stored => m = "oncall_changed" \/ (task # None /\ task.stored)
  PROVE  OncallSound'
<1>1. \A type : Told(type)' <=> Told(type) \/ type = m \/ (type = "activity_new" /\ "activity" \in habit)
  BY Announcement DEF Typed, StoreTyped
<1>2. CASE m = "oncall_changed"
  <2>1. Told("oncall_changed")'
    BY <1>1, <1>2
  <2>2. YearIsLast(fetches', year', Told("oncall_changed")', TableStored')
    BY <2>1 DEF OncallSound, YearIsLast, page
  <2>3. YearIsStored' /\ YearIsShown' /\ OwnComesBack' /\ YearComes'
    BY <2>1 DEF OncallSound, YearIsStored, YearIsShown, OwnComesBack, YearComes, Settled, page
  <2>4. QED
    BY <2>2, <2>3 DEF OncallSound, TableStored
<1>3. CASE m # "oncall_changed"
  <2>1. Told("oncall_changed")' <=> Told("oncall_changed")
    BY <1>1, <1>3
  <2>2. QED
    BY <1>3, <2>1, OncallUntouched DEF page
<1>4. QED
  BY <1>2, <1>3

\* A year's read returns the table that is stored when it is served.
LEMMA OncallServed ==
  ASSUME Typed, OncallSound, ~late, ~late', NEW i \in DOMAIN fetches, Serve(i)
  PROVE  OncallSound'
<1>1. /\ DOMAIN fetches' = DOMAIN fetches
      /\ \A j \in DOMAIN fetches : fetches'[j].kind = fetches[j].kind /\ fetches'[j].arg = fetches[j].arg
      /\ \A j \in DOMAIN fetches : j # i => fetches'[j] = fetches[j]
      /\ fetches'[i].read = ReadFor(fetches[i])
      /\ UNCHANGED <<server, inbox, task, page, screen, loadedYear, oncall, feed, spoiled, late>>
  BY ServedRead
<1>2. /\ YearIsLast(fetches, year, Told("oncall_changed"), TableStored)
      /\ YearIsStored /\ YearIsShown /\ OwnComesBack /\ YearComes
  BY DEF OncallSound, TableStored
<1>3. TableStored' = TableStored /\ (Told("oncall_changed")' <=> Told("oncall_changed")) /\ year' = year
  BY <1>1, SameTable DEF server, page, Told
<1>4. \A kinds : Reading(fetches', kinds) <=> Reading(fetches, kinds)
  BY <1>1 DEF Reading
<1>5. \A j \in DOMAIN fetches : IsLast(fetches', j, OncallReads) <=> IsLast(fetches, j, OncallReads)
  BY <1>1 DEF IsLast
<1>6. IsLast(fetches, i, OncallReads) /\ fetches[i].kind = "year" => fetches'[i].read = TableStored
  BY <1>1, <1>2 DEF YearIsLast, ReadFor, TableStored
<1>7. YearIsLast(fetches', year', Told("oncall_changed")', TableStored')
  <2>1. SUFFICES ASSUME NEW j \in DOMAIN fetches, IsLast(fetches', j, OncallReads), fetches'[j].kind = "year"
                 PROVE  /\ fetches'[j].arg = year
                        /\ fetches'[j].served /\ ~Told("oncall_changed") => fetches'[j].read = TableStored
    BY <1>1, <1>3 DEF YearIsLast
  <2>2. /\ IsLast(fetches, j, OncallReads) /\ fetches[j].kind = "year" /\ fetches'[j].arg = fetches[j].arg
    BY <1>1, <1>5, <2>1
  <2>3. fetches[j].arg = year /\ (fetches[j].served /\ ~Told("oncall_changed") => fetches[j].read = TableStored)
    BY <1>2, <2>2 DEF YearIsLast
  <2>4. CASE j = i
    BY <1>6, <2>2, <2>3, <2>4
  <2>5. CASE j # i
    BY <1>1, <2>2, <2>3, <2>5
  <2>6. QED
    BY <2>4, <2>5
<1>8. YearIsStored' /\ YearIsShown' /\ OwnComesBack' /\ YearComes'
  BY <1>1, <1>2, <1>3, <1>4 DEF TableStored, YearIsStored, YearIsShown, OwnComesBack, YearComes, Settled, page
<1>9. QED
  BY <1>7, <1>8 DEF OncallSound, TableStored

\* An answer: a year's is what the tab is to show, unless another read follows; a window's
\* makes the tab ask for its year, or spoils a year that is loaded.
LEMMA OncallAnswered ==
  ASSUME Typed, Typed', tab' \in Tabs, OncallSound, ~late', NEW i \in DOMAIN fetches, Answer(i)
  PROVE  OncallSound'
<1> DEFINE f == fetches[i]
           rest == RemoveAt(fetches, i)
<1>1. /\ ~late /\ fetches \in Seq(Requests) /\ f \in Requests /\ f.served
      /\ f.kind = "feed" => tab = "activity"
      /\ f.kind \in OncallReads =>
           /\ ~(task # None /\ task.stored)
           /\ \A j \in 1..i - 1 : fetches[j].kind \notin OncallReads
      /\ f.kind = "year" => tab = "oncall"
      /\ f.kind \in OncallReads <=> f.kind # "feed"
  BY InTime
<1>2. db' = db /\ inbox' = inbox /\ task' = task /\ tab' = tab /\ year' = year /\ year # None
  BY PagesAssumption DEF Answer, server, page, Typed, PageTyped
<1>3. rest \in Seq(Requests)
  BY <1>1, Removed
<1>4. \/ f.kind = "year" /\ AnswerYear(f.read) /\ fetches' = rest
      \/ f.kind \in {"window", "reload"} /\ AnswerWindow(f.kind, f.read, rest)
      \/ f.kind = "feed" /\ AnswerFeed(f.read) /\ fetches' = rest
  BY DEF Answer
<1>5. /\ YearIsLast(fetches, year, Told("oncall_changed"), TableStored)
      /\ YearIsStored /\ YearIsShown /\ OwnComesBack /\ YearComes
  BY <1>1 DEF OncallSound, TableStored
<1>6. TableStored' = TableStored /\ (Told("oncall_changed")' <=> Told("oncall_changed"))
  BY <1>2, SameTable DEF Told
<1>7. /\ \A k \in DOMAIN rest : IsLast(rest, k, OncallReads) =>
           \E j \in DOMAIN fetches : IsLast(fetches, j, OncallReads) /\ rest[k] = fetches[j]
      /\ ~Reading(rest, OncallReads) =>
           IF f.kind \in OncallReads THEN IsLast(fetches, i, OncallReads) ELSE ~Reading(fetches, OncallReads)
  BY <1>1, LastLeft
<1>8. YearIsLast(rest, year, Told("oncall_changed"), TableStored)
  BY <1>5, <1>7 DEF YearIsLast
<1>9. \A kind \in {"year", "window"} :
        f.kind # kind /\ Reading(fetches, {kind}) => Reading(rest, {kind})
  <2> SUFFICES ASSUME NEW kind \in {"year", "window"}, f.kind # kind, Reading(fetches, {kind})
               PROVE  Reading(rest, {kind})
    OBVIOUS
  <2>1. f.kind \notin {kind}
    OBVIOUS
  <2>2. QED
    BY <1>1, <2>1, LastLeft
<1>10. f.kind = "year" /\ ~Reading(rest, OncallReads) /\ ~Told("oncall_changed") => f.read = TableStored
  BY <1>1, <1>5, <1>7 DEF YearIsLast
<1> HIDE DEF f, rest
<1>11. CASE f.kind = "year" /\ AnswerYear(f.read) /\ fetches' = rest
  <2>1. /\ oncall' = f.read /\ loadedYear' = year /\ screen' = OncallPage(f.read, year)
        /\ spoiled' = FALSE
    BY <1>11 DEF AnswerYear
  <2>2. YearIsLast(fetches', year', Told("oncall_changed")', TableStored')
    BY <1>2, <1>6, <1>8, <1>11 DEF YearIsLast
  <2>3. ~(task # None /\ task.stored)
    BY <1>1, <1>11
  <2>4. YearIsStored' /\ YearIsShown' /\ OwnComesBack' /\ YearComes'
    BY <1>2, <1>6, <1>10, <1>11, <2>1, <2>3
       DEF TableStored, YearIsStored, YearIsShown, OwnComesBack, YearComes, Settled
  <2>5. QED
    BY <2>2, <2>4 DEF OncallSound, TableStored
<1>12. CASE f.kind \in {"window", "reload"} /\ AnswerWindow(f.kind, f.read, rest)
  <2>1. /\ oncall' = f.read /\ render(rest)
        /\ loadedYear' = IF f.kind = "window" /\ tab = "oncall" THEN None ELSE loadedYear
        /\ spoiled' = (loadedYear # None /\ (f.kind = "reload" \/ tab # "oncall"))
    BY <1>12 DEF AnswerWindow, AfterWindow
  <2>2. YearIsLast(rest, year', Told("oncall_changed")', TableStored')
    BY <1>2, <1>6, <1>8 DEF YearIsLast
  <2>3. loadedYear' = None \/ spoiled'
    BY <1>12, <2>1
  <2>4. ~(task' # None /\ task'.stored)
    BY <1>1, <1>2, <1>12
  <2>5. QED
    BY <1>3, <2>1, <2>2, <2>3, <2>4, OncallRendered
<1>13. CASE f.kind = "feed" /\ AnswerFeed(f.read) /\ fetches' = rest
  <2>1. oncall' = oncall /\ loadedYear' = loadedYear /\ spoiled' = spoiled /\ tab = "activity"
    BY <1>1, <1>13 DEF AnswerFeed
  <2>2. YearIsLast(fetches', year', Told("oncall_changed")', TableStored')
    BY <1>2, <1>6, <1>8, <1>13 DEF YearIsLast
  <2>3. /\ ~Reading(rest, OncallReads) => ~Reading(fetches, OncallReads)
        /\ Reading(fetches, {"window"}) => Reading(rest, {"window"})
    BY <1>1, <1>7, <1>9, <1>13
  <2>4. YearIsStored' /\ YearIsShown' /\ OwnComesBack' /\ YearComes'
    BY <1>2, <1>5, <1>6, <1>13, <2>1, <2>3
       DEF TableStored, YearIsStored, YearIsShown, OwnComesBack, YearComes, Settled
  <2>5. QED
    BY <2>2, <2>4 DEF OncallSound, TableStored
<1>14. QED
  BY <1>4, <1>11, <1>12, <1>13

\* A message of a change makes the page read the window, and no other message matters here.
LEMMA OncallReceived ==
  ASSUME Typed, Typed', tab' \in Tabs, OncallSound, ~late, ~late', ReceiveMessage
  PROVE  OncallSound'
<1> DEFINE m == Head(inbox)
<1>1. /\ m \in Messages
      /\ Told("oncall_changed") <=> Told("oncall_changed")' \/ m.type = "oncall_changed"
      /\ UNCHANGED <<server, task, page, loadedYear, oncall, spoiled, late>>
  BY Received
<1>2. db' = db /\ tab' = tab /\ year' = year /\ scroll \in Int /\ fetches \in Seq(Requests)
  BY <1>1 DEF server, page, Typed, PageTyped, ReadsTyped
<1>3. CASE m.type = "oncall_changed"
  <2>1. fetches' = Append(fetches, Fetch("window", scroll))
    BY <1>3 DEF ReceiveMessage
  <2>2. QED
    BY <1>1, <1>2, <2>1, ReloadAsked
<1>4. CASE m.type = "planning_range"
  <2>1. fetches' = Append(fetches, Fetch("reload", scroll))
    BY <1>4 DEF ReceiveMessage
  <2>2. QED
    BY <1>1, <1>2, <1>4, <2>1, ReloadAsked
<1>5. CASE m.type \in {"planning_updated", "activity_new"}
  <2>1. render(fetches) \/ UNCHANGED <<screen, fetches>>
    BY <1>5 DEF ReceiveMessage
  <2>2. Told("oncall_changed")' <=> Told("oncall_changed")
    BY <1>1, <1>5
  <2>3. CASE UNCHANGED <<screen, fetches>>
    BY <1>1, <1>2, <2>2, <2>3, OncallUntouched
  <2>4. CASE render(fetches)
    <3>1. TableStored' = TableStored
      BY <1>2, SameTable
    <3>2. YearIsLast(fetches, year', Told("oncall_changed")', TableStored')
      <4>1. YearIsLast(fetches, year, Told("oncall_changed"), TableStored)
        BY DEF OncallSound, TableStored
      <4>2. QED
        BY <1>2, <2>2, <3>1, <4>1 DEF YearIsLast
    <3>3. Reading(fetches, OncallReads) \/ Told("oncall_changed")' \/ loadedYear' = None \/ spoiled'
            \/ oncall' = TableStored'
      BY <1>1, <2>2, <3>1 DEF OncallSound, TableStored, YearIsStored, Settled
    <3>4. task' # None /\ task'.stored => Told("oncall_changed")' \/ Reading(fetches, {"window"})
      BY <1>1, <2>2 DEF OncallSound, OwnComesBack
    <3>5. QED
      BY <1>2, <2>4, <3>2, <3>3, <3>4, OncallRendered
  <2>5. QED
    BY <2>1, <2>3, <2>4
<1>6. QED
  BY <1>1, <1>3, <1>4, <1>5 DEF Messages

\* The moves to a tab, a trimester or a year.
LEMMA OncallMoved ==
  ASSUME Typed, Typed', tab' \in Tabs, OncallSound, ~late, render(fetches),
         UNCHANGED <<db, inbox, task, oncall>>,
         \/ year' = year /\ loadedYear' = loadedYear /\ spoiled' = spoiled
         \/ tab' = "oncall" /\ loadedYear' = None
  PROVE  OncallSound'
<1>1. fetches \in Seq(Requests) /\ year' # None
  BY PagesAssumption DEF Typed, ReadsTyped, PageTyped
<1>2. Told("oncall_changed")' <=> Told("oncall_changed")
  BY DEF Told
<1>3. task' # None /\ task'.stored => Told("oncall_changed")' \/ Reading(fetches, {"window"})
  BY <1>2 DEF OncallSound, OwnComesBack
<1>4. CASE tab' = "oncall" /\ loadedYear' = None
  BY <1>1, <1>3, <1>4, OncallRendered
<1>5. CASE year' = year /\ loadedYear' = loadedYear /\ spoiled' = spoiled
  <2>1. TableStored' = TableStored
    BY <1>5, SameTable
  <2>2. YearIsLast(fetches, year', Told("oncall_changed")', TableStored')
    <3>1. YearIsLast(fetches, year, Told("oncall_changed"), TableStored)
      BY DEF OncallSound, TableStored
    <3>2. QED
      BY <1>2, <1>5, <2>1, <3>1 DEF YearIsLast
  <2>3. Reading(fetches, OncallReads) \/ Told("oncall_changed")' \/ loadedYear' = None \/ spoiled'
          \/ oncall' = TableStored'
    BY <1>2, <1>5, <2>1 DEF OncallSound, TableStored, YearIsStored, Settled
  <2>4. QED
    BY <1>1, <1>3, <2>2, <2>3, OncallRendered
<1>6. QED
  BY <1>4, <1>5

\* The user's own change is begun, or answered: it will be read again.
LEMMA OncallOwn ==
  ASSUME Typed, Typed', tab' \in Tabs, OncallSound, ~late, ~late',
         render(fetches) \/ UNCHANGED <<screen, fetches>>,
         UNCHANGED <<db, inbox, tab, year, loadedYear, spoiled>>,
         oncall' = oncall \/ (task # None /\ task.stored),
         task' # None => ~task'.stored
  PROVE  OncallSound'
<1>1. fetches \in Seq(Requests) /\ (Told("oncall_changed")' <=> Told("oncall_changed"))
  BY DEF Typed, ReadsTyped, Told
<1>2. TableStored' = TableStored
  BY SameTable
<1>3. oncall' = oncall \/ Reading(fetches, OncallReads) \/ Told("oncall_changed")
  BY DEF OncallSound, OwnComesBack, Reading, OncallReads
<1>4. CASE UNCHANGED <<screen, fetches>>
  BY <1>1, <1>3, <1>4, OncallUntouched
<1>5. CASE render(fetches)
  <2>1. YearIsLast(fetches, year', Told("oncall_changed")', TableStored')
    <3>1. YearIsLast(fetches, year, Told("oncall_changed"), TableStored)
      BY DEF OncallSound, TableStored
    <3>2. QED
      BY <1>1, <1>2, <3>1 DEF YearIsLast
  <2>2. Reading(fetches, OncallReads) \/ Told("oncall_changed")' \/ loadedYear' = None \/ spoiled'
          \/ oncall' = TableStored'
    BY <1>1, <1>2, <1>3 DEF OncallSound, TableStored, YearIsStored, Settled
  <2>3. QED
    BY <1>1, <1>5, <2>1, <2>2, OncallRendered
<1>6. QED
  BY <1>4, <1>5

LEMMA OncallKept ==
  ASSUME Typed, Typed', tab' \in Tabs, PaintsItsTab, OncallSound, [Next]_vars
  PROVE  OncallSound'
<1> SUFFICES ASSUME ~late' PROVE OncallSound'
  BY DEF OncallSound
<1>1. ~late /\ screen.tab = tab
  BY StaysLate DEF PaintsItsTab
<1>2. ASSUME NEW t \in habit, OpenTab(t) PROVE OncallSound'
  <2>1. /\ render(fetches) /\ UNCHANGED <<db, inbox, task, oncall>>
        /\ year' = year /\ loadedYear' = loadedYear /\ spoiled' = spoiled
    BY <1>2 DEF OpenTab, Move, server
  <2>2. QED
    BY <1>1, <2>1, OncallMoved
<1>3. ASSUME NEW s \in {-1, 1}, OncallTri(s) PROVE OncallSound'
  <2>1. /\ render(fetches) /\ UNCHANGED <<db, inbox, task, oncall>> /\ tab' = "oncall"
        /\ year' = Turned(tri + s).year /\ loadedYear' = Turned(tri + s).loaded
        /\ spoiled' = (spoiled /\ loadedYear' # None)
    BY <1>1, <1>3 DEF OncallTri, Move, server
  <2>2. CASE loadedYear' = None
    BY <1>1, <2>1, <2>2, OncallMoved
  <2>3. CASE loadedYear' # None
    <3>1. year' = year /\ loadedYear' = loadedYear
      BY <2>1, <2>3, TurnedTyped
    <3>2. spoiled' = spoiled
      BY <2>1, <2>3 DEF Typed, PageTyped
    <3>3. QED
      BY <1>1, <2>1, <3>1, <3>2, OncallMoved
  <2>4. QED
    BY <2>2, <2>3
<1>4. ASSUME NEW y, SelectYear(y) PROVE OncallSound'
  <2>1. /\ render(fetches) /\ UNCHANGED <<db, inbox, task, oncall>> /\ tab' = "oncall"
        /\ loadedYear' = None
    BY <1>1, <1>4 DEF SelectYear, Move, server
  <2>2. QED
    BY <1>1, <2>1, OncallMoved
<1>5. ASSUME NEW s \in {-1, 1}, Scroll(s) PROVE OncallSound'
  <2>1. /\ scroll' \in Int /\ fetches' = Append(fetches, Fetch("reload", scroll'))
        /\ tab' = tab /\ loadedYear' = loadedYear /\ task' = task /\ inbox' = inbox
    BY <1>5 DEF Scroll, Move, Typed, PageTyped
  <2>2. PICK n \in Int : n = scroll'
    BY <2>1
  <2>3. fetches' = Append(fetches, Fetch("reload", n))
    BY <2>1, <2>2
  <2>4. Told("oncall_changed") => Told("oncall_changed")'
    BY <2>1 DEF Told
  <2>5. QED
    BY <1>1, <2>1, <2>3, <2>4, ReloadAsked
<1>6. ASSUME NEW t, Begin(t), ~t.stored PROVE OncallSound'
  <2>1. /\ render(fetches) \/ UNCHANGED <<screen, fetches>>
        /\ UNCHANGED <<db, inbox, tab, year, loadedYear, spoiled>>
        /\ oncall' = oncall /\ task' = t
    BY <1>6 DEF Begin, server, page
  <2>2. QED
    BY <1>1, <1>6, <2>1, OncallOwn
<1>7. CASE AnswerTask
  <2>1. /\ render(fetches) \/ UNCHANGED <<screen, fetches>>
        /\ UNCHANGED <<db, inbox, tab, year, loadedYear, spoiled>>
        /\ task # None /\ task.stored
    BY <1>7 DEF AnswerTask, server, page
  <2>2. task' # None => ~task'.stored
    <3>1. CASE task.leaves # None /\ task.joins # None
      <4>1. task \in Tasks
        BY <2>1 DEF Typed, TaskTyped
      <4>2. task' = [task EXCEPT !.leaves = None, !.stored = FALSE]
        BY <1>7, <3>1 DEF AnswerTask
      <4>3. QED
        BY <4>1, <4>2 DEF Tasks
    <3>2. CASE ~(task.leaves # None /\ task.joins # None)
      BY <1>7, <3>2 DEF AnswerTask
    <3>3. QED
      BY <3>1, <3>2
  <2>3. QED
    BY <1>1, <2>1, <2>2, OncallOwn
<1>8. CASE OtherUser
  <2>1. PICK m \in {"oncall_changed", "planning_range", "planning_updated"} :
          /\ Announced(m) /\ (m = "oncall_changed" \/ db' = db)
          /\ UNCHANGED <<habit, fetches, task, page, screen, loadedYear, oncall, feed, spoiled, late>>
    BY <1>8, OthersChange
  <2>2. QED
    BY <1>1, <2>1, OncallAnnounced
<1>9. CASE ServeTask
  <2>1. /\ Announced("oncall_changed")
        /\ UNCHANGED <<habit, fetches, page, screen, loadedYear, oncall, feed, spoiled, late>>
    BY <1>9, OwnStored
  <2>2. QED
    BY <1>1, <2>1, OncallAnnounced
<1>10. CASE UNCHANGED vars
  <2>1. /\ fetches' = fetches /\ db' = db /\ year' = year /\ loadedYear' = loadedYear /\ tab' = tab
        /\ screen' = screen /\ spoiled' = spoiled /\ oncall' = oncall /\ task' = task /\ inbox' = inbox
    BY <1>10 DEF vars
  <2>2. Told("oncall_changed")' <=> Told("oncall_changed")
    BY <2>1 DEF Told
  <2>3. QED
    BY <1>1, <2>1, <2>2, OncallUntouched
<1>11. QED
  BY <1>1, <1>2, <1>3, <1>4, <1>5, <1>6, <1>7, <1>8, <1>9, <1>10, Steps, OncallServed, OncallAnswered,
     OncallReceived

LEMMA OncallAtFirst ==
  Init => OncallSound
<1> SUFFICES ASSUME Init PROVE OncallSound
  OBVIOUS
<1>1. fetches = <<>> /\ task = None /\ tab = "team" /\ loadedYear = None
  BY Zenon DEF Init
<1>2. QED
  BY <1>1 DEF OncallSound, YearIsLast, YearIsStored, YearIsShown, OwnComesBack, YearComes

\* Once nothing is under way the on-call tab shows its year as it is stored: the read of the
\* year that is answered last was served after the last change, or that change's message
\* would still make the tab read its year again.
THEOREM OncallTabShown == Spec => []OncallTabIsComplete
<1> DEFINE IInv == Typed /\ PaintsItsTab /\ OncallSound
<1>1. Init => IInv
  BY TypedAtFirst, FeedAtFirst, OncallAtFirst
<1>2. IInv /\ [Next]_vars => IInv'
  <2> SUFFICES ASSUME IInv, [Next]_vars PROVE IInv'
    OBVIOUS
  <2>1. Typed'
    BY TypedKept
  <2>2. tab' \in Tabs
    BY <2>1, PagesAssumption DEF Typed, StoreTyped, PageTyped
  <2>3. QED
    BY <2>1, <2>2, PaintsKept, OncallKept
<1>3. IInv => OncallTabIsComplete
  <2> SUFFICES ASSUME IInv, Quiet, tab = "oncall", ~late, ~spoiled
               PROVE  /\ screen.tab = "oncall" /\ ~screen.loading /\ loadedYear = year
                      /\ DOMAIN screen.shown = WeeksOf(year)
                      /\ \A w \in WeeksOf(year) : Agrees(screen.shown[w], w) /\ Agrees(oncall[w], w)
    BY DEF OncallTabIsComplete
  <2>1. Settled
    BY DEF Quiet, Settled, Told, Reading
  <2>2. year # None /\ db \in [Week -> [Person -> Comment \cup {None}]]
    BY PagesAssumption DEF Typed, StoreTyped, PageTyped
  <2>3. loadedYear = year /\ screen = OncallPage(oncall, year) /\ oncall = ReadOncall(WeeksOf(year))
    BY <2>1, <2>2 DEF OncallSound, YearIsShown, YearIsStored
  <2>4. \A w \in WeeksOf(year) : Agrees(oncall[w], w)
    <3>1. WeeksOf(year) \subseteq Week
      BY DEF WeeksOf
    <3>2. \A w \in Week : w \in WeeksOf(year) => Agrees(ReadOncall(WeeksOf(year))[w], w)
      BY <2>2, Reads
    <3>3. QED
      BY <2>3, <3>1, <3>2
  <2>5. /\ screen.tab = "oncall" /\ ~screen.loading
        /\ screen.shown = [w \in WeeksOf(year) |-> oncall[w]]
    BY <2>3 DEF OncallPage
  <2>6. QED
    BY <2>3, <2>4, <2>5
<1> HIDE DEF IInv
<1>4. QED
  BY <1>1, <1>2, <1>3, PTL DEF Spec
=============================================================================
