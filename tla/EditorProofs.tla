---------------------------- MODULE EditorProofs ----------------------------
(***************************************************************************)
(* For any people, any days, any plannings to start from and anything that *)
(* is typed into the form: Editor's variables stay in their types, no      *)
(* half-day ever holds two things that exclude each other, the editor is   *)
(* about the cells that were dragged over, Apply leaves alone what the     *)
(* user did not touch, and every view says the same of a half-day.         *)
(*                                                                         *)
(* The type invariant and the well-formedness of the half-days are         *)
(* inductive together (IInv).  What the form says of the half-days it was  *)
(* opened on needs two more: a drag begins in a row of the grid as it was  *)
(* then (DragStarted), and until the range is changed or somebody else     *)
(* writes, the toggles and, before any input, the form are what the        *)
(* half-days hold (OpenedSound).                                           *)
(***************************************************************************)
EXTENDS Editor, CalendarProofs, FiniteSetTheorems, TLAPS

\* The rows of the grid are people, each at most once (the row loop of renderTeamGrid).
LEMMA RowsArePeople ==
  /\ Rows \in Seq(Person)
  /\ Len(Rows) \in Nat /\ Len(Rows) <= Len(People)
  /\ \A i, j \in DOMAIN Rows : Rows[i] = Rows[j] => i = j
<1> DEFINE n == Len(People)
           G(g, i) == IF i = 0 THEN <<>>
                      ELSE IF Matches(People[i]) THEN Append(g[i - 1], People[i]) ELSE g[i - 1]
<1>0. n \in Nat /\ People \in Seq(Person) /\ \A i \in 1..n : People[i] \in Person
  BY EditorAssumption
<1>1. \A m \in 0..n : \E g : g = [i \in 0..m |-> G(g, i)]
  <2> DEFINE Bad == {m \in 0..n : ~\E g : g = [i \in 0..m |-> G(g, i)]}
  <2> SUFFICES ASSUME Bad # {} PROVE FALSE
    OBVIOUS
  <2>0. PICK m \in Bad : \A k \in Bad : m <= k
    <3>1. Bad \subseteq Nat
      BY <1>0
    <3>2. QED
      BY <3>1, LeastNumber
  <2>1. m \in 0..n /\ ~\E g : g = [i \in 0..m |-> G(g, i)]
    BY <2>0
  <2>2. CASE m = 0
    <3> DEFINE g == [i \in 0..0 |-> <<>>]
    <3>1. g = [i \in 0..0 |-> G(g, i)]
      OBVIOUS
    <3>2. QED
      BY <2>1, <2>2, <3>1
  <2>3. CASE m > 0
    <3>0. m - 1 \in 0..n /\ m - 1 < m
      BY <2>1, <2>3, <1>0
    <3>3a. m - 1 \notin Bad
      <4>1. m - 1 \in Bad => m <= m - 1
        BY <2>0, Zenon
      <4>2. ~(m <= m - 1)
        BY <2>1, <1>0
      <4>3. QED
        BY <4>1, <4>2, Zenon
    <3>1. PICK g : g = [i \in 0..m - 1 |-> G(g, i)]
      BY <3>0, <3>3a
    <3> DEFINE h == [i \in 0..m |-> IF i < m THEN g[i] ELSE G(g, m)]
    <3>2. \A i \in 0..m : h[i] = G(h, i)
      <4> SUFFICES ASSUME NEW i \in 0..m PROVE h[i] = G(h, i)
        OBVIOUS
      <4>0. m \in Nat /\ i \in Nat
        BY <2>1, <1>0
      <4>1. CASE i < m
        <5>0. i \in 0..m - 1
          BY <4>0, <4>1
        <5>1. h[i] = g[i] /\ g[i] = G(g, i)
          BY <3>1, <4>1, <5>0
        <5>2. i # 0 => h[i - 1] = g[i - 1]
          BY <4>0, <4>1
        <5>3. QED
          BY <5>1, <5>2
      <4>2. CASE i = m
        BY <2>3, <4>0, <4>2
      <4>3. QED
        BY <4>0, <4>1, <4>2
    <3>3. h = [i \in 0..m |-> G(h, i)]
      BY <3>2
    <3>4. QED
      BY <2>1, <3>3, Zenon
  <2>4. QED
    BY <2>1, <2>2, <2>3, <1>0
<1> DEFINE F == RowsOfFirst
<1>2. F = [i \in 0..n |-> G(F, i)]
  <2>1. F = CHOOSE g : g = [i \in 0..n |-> G(g, i)]
    BY DEF RowsOfFirst
  <2>2. n \in 0..n
    BY <1>0
  <2>3. QED
    BY <1>1, <2>1, <2>2, Zenon
<1> DEFINE Good(m) == /\ F[m] \in Seq(Person) /\ Len(F[m]) <= m
                      /\ \A i \in 1..Len(F[m]) : \E j \in 1..m : F[m][i] = People[j]
                      /\ \A i, j \in 1..Len(F[m]) : F[m][i] = F[m][j] => i = j
<1>3. \A m \in 0..n : Good(m)
  <2> HIDE DEF F
  <2> DEFINE Bad == {m \in 0..n : ~Good(m)}
  <2> SUFFICES ASSUME Bad # {} PROVE FALSE
    OBVIOUS
  <2>0. PICK m \in Bad : \A k \in Bad : m <= k
    <3>1. Bad \subseteq Nat
      BY <1>0
    <3>2. QED
      BY <3>1, LeastNumber
  <2>1. F[m] = G(F, m) /\ m \in 0..n
    BY <1>2, <2>0
  <2>2. CASE m = 0
    <3>1. F[m] = <<>> /\ Len(<<>>) = 0 /\ <<>> \in Seq(Person)
      BY <2>1, <2>2
    <3>2. Good(m)
      BY <2>2, <3>1
    <3>3. QED
      BY <2>0, <3>2
  <2>3. CASE m > 0
    <3>1. m - 1 \in 0..n /\ m \in 1..n /\ m \in Nat
      BY <2>1, <2>3, <1>0
    <3>2. Good(m - 1)
      <4>1. m - 1 \in Bad => m <= m - 1
        BY <2>0, Zenon
      <4>2. ~(m <= m - 1)
        BY <3>1
      <4>3. QED
        BY <3>1, <4>1, <4>2
    <3>3. F[m] = IF Matches(People[m]) THEN Append(F[m - 1], People[m]) ELSE F[m - 1]
      BY <2>1, <2>3, <3>1
    <3>4. CASE ~Matches(People[m])
      <4>1. F[m] = F[m - 1]
        BY <3>3, <3>4
      <4>2. 1..m - 1 \subseteq 1..m
        BY <3>1
      <4>3. \A i \in 1..Len(F[m]) : \E j \in 1..m : F[m][i] = People[j]
        BY <3>2, <4>1, <4>2
      <4>4. F[m] \in Seq(Person) /\ Len(F[m]) <= m /\ m - 1 <= m
        BY <3>1, <3>2, <4>1
      <4>5. \A i, j \in 1..Len(F[m]) : F[m][i] = F[m][j] => i = j
        BY <3>2, <4>1
      <4>6. QED
        BY <2>0, <4>3, <4>4, <4>5
    <3>5. CASE Matches(People[m])
      <4> DEFINE s == F[m - 1]
      <4>1. F[m] = Append(s, People[m]) /\ People[m] \in Person /\ s \in Seq(Person) /\ Len(s) <= m - 1
        BY <1>0, <3>1, <3>2, <3>3, <3>5
      <4> HIDE DEF s
      <4>2. /\ F[m] \in Seq(Person) /\ Len(F[m]) = Len(s) + 1 /\ Len(s) \in Nat
            /\ F[m][Len(s) + 1] = People[m]
            /\ \A i \in 1..Len(s) : F[m][i] = s[i]
        BY <4>1
      <4>3. \A i \in 1..Len(s) : \E j \in 1..m - 1 : s[i] = People[j]
        BY <3>2 DEF s
      <4>4. \A i, j \in 1..Len(s) : s[i] = s[j] => i = j
        BY <3>2 DEF s
      <4>5. \A i \in 1..Len(s) : s[i] # People[m]
        <5> SUFFICES ASSUME NEW i \in 1..Len(s) PROVE s[i] # People[m]
          OBVIOUS
        <5>1. PICK j \in 1..m - 1 : s[i] = People[j]
          BY <4>3
        <5>2. j \in DOMAIN People /\ m \in DOMAIN People /\ j # m
          BY <1>0, <3>1
        <5>3. QED
          BY <5>1, <5>2, EditorAssumption
      <4>6. \A i \in 1..Len(F[m]) : i \in 1..Len(s) \/ i = Len(s) + 1
        BY <4>2
      <4>7. \A i \in 1..Len(F[m]) : \E j \in 1..m : F[m][i] = People[j]
        <5>1. 1..m - 1 \subseteq 1..m /\ m \in 1..m
          BY <3>1
        <5>2. QED
          BY <4>2, <4>3, <4>6, <5>1
      <4>8. \A i, j \in 1..Len(F[m]) : F[m][i] = F[m][j] => i = j
        BY <4>2, <4>4, <4>5, <4>6
      <4>9. Len(F[m]) <= m
        BY <3>1, <4>1, <4>2
      <4>10. QED
        BY <2>0, <4>2, <4>7, <4>8, <4>9
    <3>6. QED
      BY <3>4, <3>5
  <2>4. QED
    BY <2>1, <2>2, <2>3, <1>0
<1>4. QED
  <2>1. n \in 0..n
    BY <1>0
  <2>2. Good(n)
    BY <1>3, <2>1
  <2>3. Rows = F[n]
    BY DEF Rows
  <2> HIDE DEF F, n
  <2>4. /\ Rows \in Seq(Person) /\ Len(Rows) <= n
        /\ \A i, j \in 1..Len(Rows) : Rows[i] = Rows[j] => i = j
    BY <2>2, <2>3
  <2>5. DOMAIN Rows = 1..Len(Rows) /\ Len(Rows) \in Nat
    BY <2>4
  <2>6. QED
    BY <2>4, <2>5 DEF n

\* The people and the half-days are finitely many.
LEMMA Finite == IsFiniteSet(Person) /\ IsFiniteSet(Slot)
<1>1. Slot = Opening..Closing /\ Opening \in Int /\ Closing \in Int
  BY EditorAssumption DEF Slot, generateSlotsInRange
<1>2. IsFiniteSet(Slot)
  BY <1>1, FS_Interval
<1>3. DOMAIN People = 1..Len(People) /\ Len(People) \in Nat
  BY EditorAssumption
<1>4. IsFiniteSet(DOMAIN People)
  BY <1>3, FS_Interval
<1>5. Person = {People[i] : i \in DOMAIN People}
  BY DEF Person
<1>6. People \in [DOMAIN People -> Person]
  BY <1>3, EditorAssumption
<1>7. IsFiniteSet(Person)
  <2>1. People \in Surjection(DOMAIN People, Person)
    BY <1>5, <1>6 DEF Surjection
  <2>2. QED
    BY <1>4, <2>1, FS_Surjection
<1>8. QED
  BY <1>2, <1>7

\* What is drawn is a cell of a row of the grid.
LEMMA Drawn ==
  ASSUME NEW r1, NEW r2, NEW k1, NEW k2
  PROVE  /\ Rectangle(r1, r2, k1, k2) \subseteq (DOMAIN Rows) \X Columns(Slot, showWeekend)
         /\ Columns(Slot, showWeekend) \subseteq Slot
BY DEF Rectangle, Columns

\* A non-empty set of cells has a first one and a last one.
LEMMA FirstAndLast ==
  ASSUME NEW m \in Nat, NEW cells \in SUBSET ((1..m) \X Slot), cells # {}
  PROVE  /\ First(cells) \in cells
         /\ \A d \in cells : First(cells) = d \/ Before(First(cells), d)
         /\ Last(cells) \in cells
         /\ \A d \in cells : Last(cells) = d \/ Before(d, Last(cells))
<1>0. Slot = Opening..Closing /\ Opening \in Int /\ Closing \in Int
  BY EditorAssumption DEF Slot, generateSlotsInRange
<1>1. \E c \in cells : \A d \in cells : c = d \/ Before(c, d)
  <2> DEFINE rs == {c[1] : c \in cells}
  <2>1. rs \subseteq Nat /\ rs # {}
    OBVIOUS
  <2>2. PICK r \in rs : \A y \in rs : r <= y
    BY <2>1, LeastNumber
  <2> DEFINE ks == {c[2] - Opening : c \in {d \in cells : d[1] = r}}
  <2>3. ks \subseteq Nat /\ ks # {}
    BY <1>0, <2>2
  <2>4. PICK k \in ks : \A y \in ks : k <= y
    BY <2>3, LeastNumber
  <2>5. PICK c \in cells : c[1] = r /\ c[2] - Opening = k
    BY <2>4
  <2>6. ASSUME NEW d \in cells PROVE c = d \/ Before(c, d)
    <3>1. c[1] <= d[1]
      BY <2>2, <2>5
    <3>2. d[1] = c[1] => c[2] <= d[2]
      <4>1. d[1] = r => d[2] - Opening \in ks
        OBVIOUS
      <4>2. d[1] = c[1] => c[2] - Opening <= d[2] - Opening
        BY <2>4, <2>5, <4>1, Zenon
      <4>3. d[2] \in Int /\ c[2] \in Int
        BY <1>0
      <4>4. QED
        BY <1>0, <4>2, <4>3
    <3>3. c = <<c[1], c[2]>> /\ d = <<d[1], d[2]>>
      OBVIOUS
    <3>4. c[1] \in Nat /\ d[1] \in Nat /\ c[2] \in Int /\ d[2] \in Int
      BY <1>0
    <3>5. QED
      BY <3>1, <3>2, <3>3, <3>4 DEF Before
  <2>7. QED
    BY <2>6
<1>2. \E c \in cells : \A d \in cells : c = d \/ Before(d, c)
  <2> DEFINE rs == {m - c[1] : c \in cells}
  <2>1. rs \subseteq Nat /\ rs # {}
    OBVIOUS
  <2>2. PICK r \in rs : \A y \in rs : r <= y
    BY <2>1, LeastNumber
  <2> DEFINE ks == {Closing - c[2] : c \in {d \in cells : m - d[1] = r}}
  <2>3. ks \subseteq Nat /\ ks # {}
    BY <1>0, <2>2
  <2>4. PICK k \in ks : \A y \in ks : k <= y
    BY <2>3, LeastNumber
  <2>5. PICK c \in cells : m - c[1] = r /\ Closing - c[2] = k
    BY <2>4
  <2>6. ASSUME NEW d \in cells PROVE c = d \/ Before(d, c)
    <3>1. d[1] <= c[1]
      BY <2>2, <2>5
    <3>2. d[1] = c[1] => d[2] <= c[2]
      <4>1. m - d[1] = r => Closing - d[2] \in ks
        OBVIOUS
      <4>2. d[1] = c[1] => Closing - c[2] <= Closing - d[2]
        BY <2>4, <2>5, <4>1, Zenon
      <4>3. d[2] \in Int /\ c[2] \in Int
        BY <1>0
      <4>4. QED
        BY <1>0, <4>2, <4>3
    <3>3. c = <<c[1], c[2]>> /\ d = <<d[1], d[2]>>
      OBVIOUS
    <3>4. c[1] \in Nat /\ d[1] \in Nat /\ c[2] \in Int /\ d[2] \in Int
      BY <1>0
    <3>5. QED
      BY <3>1, <3>2, <3>3, <3>4 DEF Before
  <2>7. QED
    BY <2>6
<1>3. QED
  BY <1>1, <1>2 DEF First, Last

\* The cells under a drag are cells of rows of the grid.
LEMMA SelectedCells ==
  ASSUME NEW d
  PROVE  /\ Selected(d) \subseteq (DOMAIN Rows) \X Columns(Slot, showWeekend)
         /\ Selected(d) \subseteq (1..Len(Rows)) \X Slot
<1>1. Selected(d) \subseteq (DOMAIN Rows) \X Columns(Slot, showWeekend)
  BY Drawn DEF Selected
<1>2. DOMAIN Rows = 1..Len(Rows)
  BY RowsArePeople
<1>3. QED
  BY <1>1, <1>2, Drawn

\* What a cell holds: the entry of somebody's half-day.
LEMMA CellData ==
  ASSUME TypeOK, NEW c \in (1..Len(Rows)) \X Slot
  PROVE  /\ <<Rows[c[1]], c[2]>> \in Cell
         /\ At(Rows[c[1]], c[2]) \in Entry \cup {None}
BY RowsArePeople DEF TypeOK, At, Cell

\* What the form is filled with.
LEMMA FormIsForm ==
  ASSUME NEW src \in Entry \cup {None}
  PROVE  FormOf(src) \in Form /\ TabOf(src) \in Tab
<1>1. DefaultAway \in Absence /\ NoText \in Text
  BY EditorAssumption DEF DefaultAway, Absence
<1>2. CASE src = None
  BY <1>1, <1>2 DEF FormOf, TabOf, Form, Tab, IsAway
<1>3. CASE src # None
  <2>1. src \in Entry
    BY <1>3
  <2>2. src.away # None => src.away \in Absence
    BY <2>1 DEF Entry
  <2>3. QED
    BY <1>1, <1>3, <2>1, <2>2 DEF FormOf, TabOf, Form, Tab, IsAway, Entry
<1>4. QED
  BY <1>2, <1>3

\* An editor that opens is a well-typed one.
LEMMA OpenedEditor ==
  ASSUME TypeOK, NEW cells \in SUBSET ((1..Len(Rows)) \X Slot), cells # {}
  PROVE  /\ openUnifiedEditor(cells) \in Editing
         /\ openUnifiedEditor(cells).pids # {}
         /\ \A f \in Flag : openUnifiedEditor(cells).tri[f] = "grey" => openUnifiedEditor(cells).grey[f]
<1> DEFINE Data(c) == At(Rows[c[1]], c[2])
           filled  == {c \in cells : ~IsEmpty(Data(c))}
           src     == IF filled = {} THEN None ELSE Data(First(filled))
           isRange == Cardinality(cells) > 1
           has     == [f \in Flag |-> \E c \in cells : FlagAt(Data(c), f)]
           tri     == [f \in Flag |-> triInit(isRange, has[f], src, f)]
           grey    == [f \in Flag |-> isRange /\ has[f]]
<1>1. openUnifiedEditor(cells) =
        [pids |-> {Rows[c[1]] : c \in cells}, from |-> First(cells)[2], to |-> Last(cells)[2],
         tab |-> TabOf(src), tri |-> tri, grey |-> grey, form |-> FormOf(src),
         touched |-> {}, moved |-> FALSE, disturbed |-> FALSE, inputs |-> 0]
  BY DEF openUnifiedEditor
<1>2. src \in Entry \cup {None}
  <2>1. filled # {} => First(filled) \in filled
    BY FirstAndLast, RowsArePeople
  <2>2. QED
    BY <2>1, CellData
<1>3. First(cells)[2] \in Slot /\ Last(cells)[2] \in Slot
  BY FirstAndLast, RowsArePeople
<1>4. {Rows[c[1]] : c \in cells} \subseteq Person
  BY RowsArePeople
<1>5. tri \in [Flag -> {"grey", "tick", "empty"}] /\ grey \in [Flag -> BOOLEAN]
      /\ \A f \in Flag : tri[f] = "grey" => grey[f]
  BY DEF triInit
<1>6. FormOf(src) \in Form /\ TabOf(src) \in Tab
  BY <1>2, FormIsForm
<1>7. MaxInputs \in Nat
  BY EditorAssumption
<1> HIDE DEF src, tri, grey
<1>8. QED
  BY <1>1, <1>3, <1>4, <1>5, <1>6, <1>7 DEF Editing

\* What Apply stores is an entry, and one that may be.
LEMMA WrittenEntry ==
  ASSUME NEW e \in Editing, NEW sd \in Entry \cup {None}
  PROVE  /\ Written(e, sd) \in Entry \cup {None}
         /\ ~Refused(e) /\ Written(e, sd) # None => WellFormed(Written(e, sd))
         /\ \A f \in Flag : (f = "run" => e.tab \in Work) =>
              FlagAt(Written(e, sd), f) = resolveTri(e.tri[f], FlagAt(sd, f))
<1> DEFINE run == e.tab \in Work /\ resolveTri(e.tri["run"], FlagAt(sd, "run"))
           remote == resolveTri(e.tri["remote"], FlagAt(sd, "remote"))
           offsite == resolveTri(e.tri["offsite"], FlagAt(sd, "offsite"))
           projects == IF e.tab = "project" THEN e.form.projects ELSE <<>>
           note == IF e.tab \in Work /\ e.tri["run"] = "tick" THEN e.form.note
                   ELSE IF sd = None THEN NoText ELSE sd.note
           entry == [state    |-> IF e.tab = "undetermined" THEN "undetermined" ELSE "filled",
                     away     |-> IF e.tab = "away" THEN e.form.away ELSE None,
                     incident |-> IF e.tab = "incident" THEN e.form.incident ELSE None,
                     projects |-> projects, run |-> run, note |-> note,
                     remote   |-> remote, offsite |-> offsite]
<1>1. Written(e, sd) = IF e.tab \in Work /\ projects = <<>> /\ ~run /\ ~remote /\ ~offsite
                       THEN None ELSE entry
  BY DEF Written
<1>2. e.form \in Form /\ e.tab \in Tab
  BY DEF Editing
<1>3. e.form.projects \in Seq(Share) /\ e.form.away \in Absence /\ e.form.incident \in Text
      /\ e.form.note \in Text
  BY <1>2 DEF Form
<1>4. \A f \in Flag : FlagAt(sd, f) \in BOOLEAN
  BY DEF FlagAt, Entry, Flag
<1>5. run \in BOOLEAN /\ remote \in BOOLEAN /\ offsite \in BOOLEAN
  BY <1>4 DEF resolveTri, Flag
<1>6. projects \in Seq(Share) /\ note \in Text
  BY <1>3, EditorAssumption DEF Entry
<1>7. e.form.away # None /\ e.form.incident # None
  BY <1>3, EditorAssumption
<1> HIDE DEF run, remote, offsite, note
<1>8. entry \in Entry
  BY <1>3, <1>5, <1>6 DEF Entry
<1>9. ASSUME ~Refused(e), ~(e.tab \in Work /\ projects = <<>> /\ ~run /\ ~remote /\ ~offsite)
      PROVE  WellFormed(entry)
  <2>1. projects # <<>> => ~(sumPct(projects) > 100)
    BY <1>9 DEF Refused
  <2>2. run => e.tab \in Work
    BY DEF run
  <2>3. QED
    BY <1>2, <1>5, <1>7, <1>9, <2>1, <2>2 DEF WellFormed, HasProjects, Work, Tab
<1>10. ASSUME NEW f \in Flag, f = "run" => e.tab \in Work
       PROVE  FlagAt(Written(e, sd), f) = resolveTri(e.tri[f], FlagAt(sd, f))
  <2>1. e.tab \in Work => run = resolveTri(e.tri["run"], FlagAt(sd, "run"))
    BY <1>4 DEF run, resolveTri, Flag
  <2>2. entry # None
    BY <1>8, EditorAssumption
  <2>3. CASE e.tab \in Work /\ projects = <<>> /\ ~run /\ ~remote /\ ~offsite
    BY <1>1, <1>5, <1>10, <2>1, <2>3 DEF FlagAt, Flag, remote, offsite
  <2>4. CASE ~(e.tab \in Work /\ projects = <<>> /\ ~run /\ ~remote /\ ~offsite)
    <3>1. FlagAt(Written(e, sd), f) = entry[f]
      BY <1>1, <2>2, <2>4 DEF FlagAt
    <3>2. QED
      BY <1>10, <2>1, <3>1 DEF Flag, remote, offsite
  <2>5. QED
    BY <2>3, <2>4
<1>11. QED
  BY <1>1, <1>8, <1>9, <1>10

----------------------------------------------------------------------------
(* Types, and what half-days hold. *)

\* The inductive invariant.
IInv == TypeOK /\ EntriesAreWellFormed

\* The plannings to start from are typed and well formed.
LEMMA InvariantInit == Init => IInv
<1> SUFFICES ASSUME Init PROVE IInv
  OBVIOUS
<1>1. planning \in Seeds
  BY DEF Init
<1>2. planning \in [Cell -> Entry \cup {None}]
      /\ \A c \in Cell : planning[c] # None => WellFormed(planning[c])
  BY <1>1, EditorAssumption
<1>3. count \in [applies : 0..MaxApplies, others : 0..MaxDisturbances,
                failures : 0..MaxDisturbances]
  BY EditorAssumption DEF Init
<1>4. QED
  BY <1>2, <1>3 DEF Init, IInv, TypeOK, EntriesAreWellFormed

\* A drag stays on what is drawn, and opens a well-typed editor (endDrag).
LEMMA InvariantSelect == IInv /\ Select => IInv'
<1> SUFFICES ASSUME IInv, Select PROVE IInv'
  OBVIOUS
<1> USE DEF IInv
<1>0. DOMAIN Rows \subseteq DOMAIN People
  BY RowsArePeople, EditorAssumption
<1>1. ASSUME NEW r \in DOMAIN Rows, NEW k \in Slot, StartDrag(r, k) PROVE IInv'
  <2>1. k \in Columns(Slot, showWeekend)
    BY <1>1, Drawn DEF StartDrag
  <2>2. drag' \in Dragging /\ drag'.startCol = k /\ drag'.endCol = k
    BY <1>0, <1>1, RowsArePeople DEF StartDrag, Dragging
  <2>3. editor' = None
    BY <1>1 DEF StartDrag, Idle
  <2>4. QED
    BY <1>1, <2>1, <2>2, <2>3 DEF StartDrag, TypeOK, EntriesAreWellFormed
<1>2. ASSUME NEW r \in DOMAIN Rows, NEW k \in Slot, ExtendDrag(r, k) PROVE IInv'
  <2>1. k \in Columns(Slot, showWeekend)
    BY <1>2, Drawn DEF ExtendDrag
  <2>2. drag' \in Dragging /\ drag'.startCol = drag.startCol /\ drag'.endCol = k
    BY <1>0, <1>2 DEF ExtendDrag, Dragging, TypeOK
  <2>3. QED
    BY <1>2, <2>1, <2>2 DEF ExtendDrag, TypeOK, EntriesAreWellFormed
<1>3. CASE EndDrag
  <2>1. editor' # None => /\ editor' \in Editing /\ editor'.pids # {}
                          /\ \A f \in Flag : editor'.tri[f] = "grey" => editor'.grey[f]
    BY <1>3, SelectedCells, OpenedEditor DEF EndDrag
  <2>2. QED
    BY <1>3, <2>1 DEF EndDrag, TypeOK, EntriesAreWellFormed
<1>4. QED
  BY <1>1, <1>2, <1>3 DEF Select

\* An input changes the editor alone, and keeps it well typed.
LEMMA InputKeeps ==
  ASSUME IInv, NEW e \in Editing, e.pids = editor.pids, e.inputs = editor.inputs,
         \A f \in Flag : e.tri[f] = "grey" => e.grey[f],
         Input(e)
  PROVE  IInv'
<1>0. e.inputs + 1 \in 0..MaxInputs
  BY EditorAssumption DEF Input, Editing
<1>1. editor' \in Editing /\ editor'.pids = editor.pids /\ editor'.tri = e.tri /\ editor'.grey = e.grey
  BY <1>0 DEF Input, Editing
<1>2. QED
  BY <1>1 DEF Input, IInv, TypeOK, EntriesAreWellFormed

\* Apply stores well-formed half-days, on every tab (applyUnifiedEditor).
LEMMA InvariantApply ==
  ASSUME IInv, NEW failing, applyUnifiedEditor(failing), count.others + count.failures < MaxDisturbances \/ failing = {}
  PROVE  IInv'
<1> DEFINE cells == getRangeEditorCells(editor)
<1>0. editor # None /\ editor \in Editing /\ ~Refused(editor)
  BY DEF applyUnifiedEditor, IInv, TypeOK
<1>1. ASSUME NEW c \in Cell
      PROVE  /\ planning'[c] \in Entry \cup {None}
             /\ planning'[c] # None => WellFormed(planning'[c])
  <2>1. planning'[c] = IF c \in cells \ failing THEN Written(editor, planning[c]) ELSE planning[c]
    BY DEF applyUnifiedEditor
  <2>2. planning[c] \in Entry \cup {None} /\ (planning[c] # None => WellFormed(planning[c]))
    BY DEF IInv, TypeOK, EntriesAreWellFormed
  <2>3. QED
    BY <1>0, <2>1, <2>2, WrittenEntry
<1>2. planning' \in [Cell -> Entry \cup {None}]
  <2>1. planning' = [c \in Cell |-> planning'[c]]
    BY DEF applyUnifiedEditor
  <2>2. QED
    BY <1>1, <2>1
<1>3. editor' # None => /\ editor' \in Editing /\ editor'.pids = editor.pids
                        /\ editor'.tri = editor.tri /\ editor'.grey = editor.grey
  BY <1>0 DEF applyUnifiedEditor, Editing
<1>4. count' \in [applies : 0..MaxApplies, others : 0..MaxDisturbances, failures : 0..MaxDisturbances]
  BY EditorAssumption DEF applyUnifiedEditor, IInv, TypeOK
<1>5. QED
  BY <1>0, <1>1, <1>2, <1>3, <1>4 DEF applyUnifiedEditor, IInv, TypeOK, EntriesAreWellFormed

\* Whatever is done in the editor keeps the invariant.
LEMMA InvariantEdit == IInv /\ Edit => IInv'
<1> SUFFICES ASSUME IInv, Edit PROVE IInv'
  OBVIOUS
<1>0. /\ editor \in Editing /\ editor.pids # {} /\ editor # None
      /\ \A f \in Flag : editor.tri[f] = "grey" => editor.grey[f]
  BY DEF Edit, IInv, TypeOK
<1>1. ASSUME NEW t \in Tab, uniSwitchTab(t) PROVE IInv'
  BY <1>0, <1>1, InputKeeps DEF uniSwitchTab, Editing
<1>2. ASSUME NEW f \in Flag, cycleTri(f) PROVE IInv'
  <2> DEFINE e == [editor EXCEPT !.tri[f] = NextTri(editor.grey[f], @), !.touched = @ \cup {f}]
  <2>1. NextTri(editor.grey[f], editor.tri[f]) \in {"grey", "tick", "empty"}
        /\ (NextTri(editor.grey[f], editor.tri[f]) = "grey" => editor.grey[f])
    BY <1>0 DEF NextTri, Editing
  <2>2. /\ e \in Editing /\ e.pids = editor.pids /\ e.inputs = editor.inputs /\ e.grey = editor.grey
        /\ e.tri = [editor.tri EXCEPT ![f] = NextTri(editor.grey[f], @)]
    BY <1>0, <2>1 DEF Editing
  <2>3. \A g \in Flag : e.tri[g] = "grey" => e.grey[g]
    BY <1>0, <2>1, <2>2 DEF Editing
  <2>4. QED
    BY <1>2, <2>2, <2>3, InputKeeps DEF cycleTri
<1>3. ASSUME NEW ps \in TypedProjects, TypeProjects(ps) PROVE IInv'
  BY <1>0, <1>3, InputKeeps, EditorAssumption DEF TypeProjects, Editing, Form
<1>4. ASSUME NEW a \in TypedAway, TypeAway(a) PROVE IInv'
  BY <1>0, <1>4, InputKeeps, EditorAssumption DEF TypeAway, Editing, Form
<1>5. ASSUME NEW t \in TypedIncident, TypeIncident(t) PROVE IInv'
  BY <1>0, <1>5, InputKeeps, EditorAssumption DEF TypeIncident, Editing, Form
<1>6. ASSUME NEW n \in TypedNote, TypeNote(n) PROVE IInv'
  BY <1>0, <1>6, InputKeeps, EditorAssumption DEF TypeNote, Editing, Form
<1>7. ASSUME NEW r \in TypedRange, TypeRange(r) PROVE IInv'
  BY <1>0, <1>7, InputKeeps, EditorAssumption DEF TypeRange, Editing
<1>8. CASE applyUnifiedEditor({})
  BY <1>8, InvariantApply
<1>9. ASSUME count.others + count.failures < MaxDisturbances,
             NEW c \in getRangeEditorCells(editor), applyUnifiedEditor({c})
      PROVE  IInv'
  BY <1>9, InvariantApply
<1>10. CASE closeModal
  BY <1>10 DEF closeModal, IInv, TypeOK, EntriesAreWellFormed
<1>11. QED
  BY <1>1, <1>2, <1>3, <1>4, <1>5, <1>6, <1>7, <1>8, <1>9, <1>10 DEF Edit

\* What others write is well formed, as their editors are the same.
LEMMA InvariantOthers ==
  ASSUME IInv, NEW c \in Contested, NEW d \in Other \cup {None}, OtherWrites(c, d)
  PROVE  IInv'
<1>1. c \in Cell /\ d \in Entry \cup {None} /\ (d # None => WellFormed(d))
  BY EditorAssumption
<1>2. planning' = [planning EXCEPT ![c] = d] /\ planning \in [Cell -> Entry \cup {None}]
  BY DEF OtherWrites, IInv, TypeOK
<1>3. planning' \in [Cell -> Entry \cup {None}]
  BY <1>1, <1>2
<1>4. \A b \in Cell : planning'[b] # None => WellFormed(planning'[b])
  BY <1>1, <1>2 DEF IInv, EntriesAreWellFormed
<1>5. editor' # None => /\ editor # None /\ editor' \in Editing /\ editor'.pids = editor.pids
                        /\ editor'.tri = editor.tri /\ editor'.grey = editor.grey
  BY DEF OtherWrites, IInv, TypeOK, Editing
<1>6. count' \in [applies : 0..MaxApplies, others : 0..MaxDisturbances, failures : 0..MaxDisturbances]
  BY EditorAssumption DEF OtherWrites, IInv, TypeOK
<1>7. drag' = drag /\ showWeekend' = showWeekend /\ filter' = filter /\ (editor = None => editor' = None)
  BY DEF OtherWrites
<1>8. QED
  BY <1>3, <1>4, <1>5, <1>6, <1>7 DEF IInv, TypeOK, EntriesAreWellFormed

\* Every step keeps the invariant.
LEMMA InvariantNext == IInv /\ [Next]_vars => IInv'
<1> SUFFICES ASSUME IInv, [Next]_vars PROVE IInv'
  OBVIOUS
<1>1. CASE Select
  BY <1>1, InvariantSelect
<1>2. CASE Edit
  BY <1>2, InvariantEdit
<1>3. ASSUME NEW c \in Contested, NEW d \in Other \cup {None}, OtherWrites(c, d) PROVE IInv'
  BY <1>3, InvariantOthers
<1>4. CASE ToggleWeekend
  BY <1>4 DEF ToggleWeekend, Idle, IInv, TypeOK, EntriesAreWellFormed
<1>5. ASSUME NEW f \in TypedFilter \cup {None}, TypeFilter(f) PROVE IInv'
  BY <1>5 DEF TypeFilter, IInv, TypeOK, EntriesAreWellFormed
<1>6. CASE UNCHANGED vars
  BY <1>6 DEF vars, IInv, TypeOK, EntriesAreWellFormed
<1>7. QED
  BY <1>1, <1>2, <1>3, <1>4, <1>5, <1>6 DEF Next

\* Every variable keeps its type, a drag stays on cells that are drawn, and a toggle is
\* grey only where grey means something (cycleTri).
THEOREM TypeCorrect == Spec => []TypeOK
<1>1. IInv => TypeOK
  BY DEF IInv
<1>2. QED
  BY <1>1, InvariantInit, InvariantNext, PTL DEF Spec

\* No half-day ever holds two things that exclude each other, or nothing (applyUnifiedEditor).
THEOREM HalfDaysAreWellFormed == Spec => []EntriesAreWellFormed
<1>1. IInv => EntriesAreWellFormed
  BY DEF IInv
<1>2. QED
  BY <1>1, InvariantInit, InvariantNext, PTL DEF Spec

----------------------------------------------------------------------------
(* What is selected. *)

\* The columns among those drawn from one to another.
LEMMA RangeColumns ==
  ASSUME NEW k1 \in Slot, NEW k2 \in Slot
  PROVE  Columns(generateSlotsInRange(k1, k2), showWeekend)
           = {k \in Columns(Slot, showWeekend) : k \in k1..k2}
<1>1. Slot = Opening..Closing /\ Opening \in Int /\ Closing \in Int
  BY EditorAssumption DEF Slot, generateSlotsInRange
<1>2. k1..k2 \subseteq Slot
  BY <1>1
<1>3. QED
  BY <1>2 DEF Columns, generateSlotsInRange

\* The editor that opens on a rectangle is about the half-days of its cells.
LEMMA RectangleIsRange ==
  ASSUME NEW r1, NEW r2, NEW k1 \in Slot, NEW k2 \in Slot,
         NEW cells, cells = Rectangle(r1, r2, k1, k2), cells # {}
  PROVE  getRangeEditorCells(openUnifiedEditor(cells)) = {<<Rows[c[1]], c[2]>> : c \in cells}
<1> DEFINE f == First(cells)
           l == Last(cells)
           cols == Columns(Slot, showWeekend)
           pids == {Rows[c[1]] : c \in cells}
<1>1. /\ openUnifiedEditor(cells).pids = pids
      /\ openUnifiedEditor(cells).from = f[2]
      /\ openUnifiedEditor(cells).to = l[2]
  BY DEF openUnifiedEditor
<1>2. /\ cells \in SUBSET ((1..Len(Rows)) \X Slot) /\ Len(Rows) \in Nat
      /\ cells = {c \in (DOMAIN Rows) \X cols : c[1] \in r1..r2 /\ c[2] \in k1..k2}
  BY Drawn, RowsArePeople DEF Rectangle
<1>3. /\ f \in cells /\ \A d \in cells : f = d \/ Before(f, d)
      /\ l \in cells /\ \A d \in cells : l = d \/ Before(d, l)
  BY <1>2, FirstAndLast
<1>4. Slot = Opening..Closing /\ Opening \in Int /\ Closing \in Int
  BY EditorAssumption DEF Slot, generateSlotsInRange
<1> HIDE DEF f, l
<1>5. ASSUME NEW c \in cells PROVE f[2] <= c[2] /\ c[2] <= l[2]
  <2>1. <<f[1], c[2]>> \in cells /\ <<l[1], c[2]>> \in cells
    BY <1>2, <1>3
  <2>2. f = <<f[1], c[2]>> \/ Before(f, <<f[1], c[2]>>)
    BY <1>3, <2>1
  <2>3. l = <<l[1], c[2]>> \/ Before(<<l[1], c[2]>>, l)
    BY <1>3, <2>1
  <2>4. f[1] \in Nat /\ l[1] \in Nat /\ f[2] \in Int /\ l[2] \in Int /\ c[2] \in Int
    BY <1>2, <1>3, <1>4
  <2>5. QED
    BY <2>2, <2>3, <2>4 DEF Before
<1>6. f[2] \in Slot /\ l[2] \in Slot
  BY <1>2, <1>3
<1>7. getRangeEditorCells(openUnifiedEditor(cells)) = pids \X {k \in cols : k \in f[2]..l[2]}
  BY <1>1, <1>6, RangeColumns DEF getRangeEditorCells
<1>8. ASSUME NEW c \in cells PROVE <<Rows[c[1]], c[2]>> \in pids \X {k \in cols : k \in f[2]..l[2]}
  <2>1. c[2] \in cols /\ c[2] \in Int /\ f[2] \in Int /\ l[2] \in Int
    BY <1>2, <1>4, <1>6
  <2>2. QED
    BY <1>5, <2>1
<1>9. ASSUME NEW c \in cells, NEW k \in cols, k \in f[2]..l[2]
      PROVE  <<c[1], k>> \in cells
  <2>1. f[2] \in k1..k2 /\ l[2] \in k1..k2 /\ k1 \in Int /\ k2 \in Int
    BY <1>2, <1>3, <1>4
  <2>2. k \in k1..k2
    BY <1>9, <2>1
  <2>3. QED
    BY <1>2, <2>2
<1>10. ASSUME NEW x \in pids \X {k \in cols : k \in f[2]..l[2]}
       PROVE  x \in {<<Rows[c[1]], c[2]>> : c \in cells}
  <2>1. PICK c \in cells : x[1] = Rows[c[1]]
    OBVIOUS
  <2>2. <<c[1], x[2]>> \in cells /\ x = <<x[1], x[2]>>
    BY <1>9
  <2>3. QED
    BY <2>1, <2>2
<1>11. QED
  BY <1>7, <1>8, <1>10

\* A drag starts in a row of the grid as it was then.
DragStarted == drag # None => drag.startRow \in DOMAIN drag.rows

\* The cells of a drag, while the rows are what they were when it began.
LEMMA DragIsRange ==
  ASSUME IInv, DragStarted, drag # None
  PROVE  /\ Rows = drag.rows => Selected(drag) # {}
         /\ Selected(drag) # {} =>
              getRangeEditorCells(openUnifiedEditor(Selected(drag)))
                = {<<Rows[c[1]], c[2]>> : c \in Selected(drag)}
<1> DEFINE r1 == IF drag.isDragging THEN Least(drag.startRow, drag.endRow) ELSE drag.startRow
           r2 == IF drag.isDragging THEN Most(drag.startRow, drag.endRow) ELSE drag.startRow
           k1 == IF drag.isDragging THEN Least(drag.startCol, drag.endCol) ELSE drag.startCol
           k2 == IF drag.isDragging THEN Most(drag.startCol, drag.endCol) ELSE drag.startCol
<1>1. Selected(drag) = Rectangle(r1, r2, k1, k2)
  BY DEF Selected
<1>2. drag \in Dragging /\ drag.startCol \in Columns(Slot, showWeekend)
  BY DEF IInv, TypeOK
<1>3. /\ drag.startRow \in DOMAIN People /\ drag.endRow \in DOMAIN People
      /\ drag.startCol \in Slot /\ drag.endCol \in Slot
  BY <1>2 DEF Dragging
<1>4. k1 \in Slot /\ k2 \in Slot
  BY <1>3 DEF Least, Most
<1>5. drag.startRow \in Int /\ drag.endRow \in Int /\ drag.startCol \in Int /\ drag.endCol \in Int
  <2>1. Slot \subseteq Int
    BY EditorAssumption DEF Slot, generateSlotsInRange
  <2>2. DOMAIN People \subseteq Int
    BY EditorAssumption
  <2>3. QED
    BY <1>3, <2>1, <2>2
<1>6. drag.startRow \in r1..r2 /\ drag.startCol \in k1..k2
  BY <1>5 DEF Least, Most
<1> HIDE DEF r1, r2, k1, k2
<1>7. Rows = drag.rows => <<drag.startRow, drag.startCol>> \in Rectangle(r1, r2, k1, k2)
  BY <1>2, <1>6 DEF DragStarted, Rectangle
<1>8. QED
  BY <1>1, <1>4, <1>7, RectangleIsRange

\* No drag is under way at first.
LEMMA DragStartedInit == Init => DragStarted
BY DEF Init, DragStarted

\* The row a drag began in, and the rows of that time, do not change under it.
LEMMA DragStartedNext == IInv /\ DragStarted /\ [Next]_vars => DragStarted'
<1> SUFFICES ASSUME IInv, DragStarted, [Next]_vars PROVE DragStarted'
  OBVIOUS
<1>1. ASSUME NEW r \in DOMAIN Rows, NEW k \in Slot, StartDrag(r, k) PROVE DragStarted'
  BY <1>1 DEF StartDrag, DragStarted
<1>2. ASSUME NEW r \in DOMAIN Rows, NEW k \in Slot, ExtendDrag(r, k) PROVE DragStarted'
  <2>1. drag \in Dragging
    BY <1>2 DEF ExtendDrag, IInv, TypeOK
  <2>2. drag'.rows = drag.rows /\ drag'.startRow = drag.startRow
    BY <1>2, <2>1 DEF ExtendDrag, Dragging
  <2>3. QED
    BY <1>2, <2>2 DEF ExtendDrag, DragStarted
<1>3. CASE EndDrag
  BY <1>3 DEF EndDrag, DragStarted
<1>4. CASE Edit
  BY <1>4 DEF Edit, uniSwitchTab, cycleTri, TypeProjects, TypeAway, TypeIncident, TypeNote, TypeRange,
              Input, applyUnifiedEditor, closeModal, DragStarted
<1>5. ASSUME drag' = drag PROVE DragStarted'
  BY <1>5 DEF DragStarted
<1>6. QED
  BY <1>1, <1>2, <1>3, <1>4, <1>5
     DEF Next, Select, OtherWrites, ToggleWeekend, TypeFilter, vars

\* The editor is about the cells that were dragged over (endDrag gathers by row numbers,
\* getRangeEditorCells by dates), if no row came or went under the drag.
THEOREM SelectionIsDragged == Spec => DragSelects
<1>1. ASSUME IInv, DragStarted, [Next]_vars, drag # None, drag' = None, Rows = drag.rows
      PROVE  /\ editor' # None
             /\ getRangeEditorCells(editor)' = {<<drag.rows[c[1]], c[2]>> : c \in Selected(drag)}
  <2>1. EndDrag
    <3>1. drag \in Dragging
      BY <1>1 DEF IInv, TypeOK
    <3>2. ASSUME NEW r \in DOMAIN Rows, NEW k \in Slot, StartDrag(r, k) PROVE FALSE
      BY <1>1, <3>2 DEF StartDrag, Idle
    <3>3. ASSUME NEW r \in DOMAIN Rows, NEW k \in Slot, ExtendDrag(r, k) PROVE FALSE
      <4>1. DOMAIN Rows \subseteq DOMAIN People
        BY RowsArePeople, EditorAssumption
      <4>2. drag' \in Dragging
        BY <3>1, <3>3, <4>1 DEF ExtendDrag, Dragging
      <4>3. QED
        BY <1>1, <4>2, EditorAssumption
    <3>4. ~Edit
      BY <1>1 DEF Edit, IInv, TypeOK
    <3>5. drag' # drag
      BY <1>1
    <3>6. QED
      BY <1>1, <3>2, <3>3, <3>4, <3>5 DEF Next, Select, OtherWrites, ToggleWeekend, TypeFilter, vars
  <2>2. Selected(drag) # {}
    BY <1>1, DragIsRange
  <2>3. editor' = openUnifiedEditor(Selected(drag)) /\ showWeekend' = showWeekend
    BY <2>1, <2>2 DEF EndDrag
  <2>4. editor' # None
    BY <1>1, <2>2, <2>3, SelectedCells, OpenedEditor, EditorAssumption DEF IInv
  <2>5. getRangeEditorCells(editor)' = getRangeEditorCells(openUnifiedEditor(Selected(drag)))
    BY <2>3 DEF getRangeEditorCells, Columns
  <2>6. QED
    BY <1>1, <2>2, <2>4, <2>5, DragIsRange
<1>2. QED
  BY <1>1, InvariantInit, InvariantNext, DragStartedInit, DragStartedNext, PTL DEF Spec, DragSelects

----------------------------------------------------------------------------
(* What Apply changes. *)

\* The cells of a drag are finitely many.
LEMMA FiniteSelection == IsFiniteSet((1..Len(Rows)) \X Slot)
<1>1. Len(Rows) \in Nat
  BY RowsArePeople
<1>2. IsFiniteSet(1..Len(Rows))
  BY <1>1, FS_Interval
<1>3. QED
  BY <1>2, Finite, FS_Product

\* The first of a single cell is that cell.
LEMMA FirstOfOne ==
  ASSUME NEW c
  PROVE  First({c}) = c
BY DEF First

\* The toggles of an editor that has just opened say what its half-days hold; the
\* form of an editor on one half-day is that half-day.
LEMMA OpenedTells ==
  ASSUME TypeOK, NEW cells \in SUBSET ((1..Len(Rows)) \X Slot), cells # {},
         NEW e, e = openUnifiedEditor(cells)
  PROVE  /\ \A f \in Flag, c \in cells :
              e.tri[f] # "grey" => (FlagAt(At(Rows[c[1]], c[2]), f) <=> e.tri[f] = "tick")
         /\ \A c : cells = {c} =>
              /\ e.tab = TabOf(At(Rows[c[1]], c[2]))
              /\ e.form = FormOf(At(Rows[c[1]], c[2]))
              /\ \A f \in Flag : e.tri[f] # "grey"
<1> DEFINE Data(c) == At(Rows[c[1]], c[2])
           filled  == {c \in cells : ~IsEmpty(Data(c))}
           src     == IF filled = {} THEN None ELSE Data(First(filled))
           isRange == Cardinality(cells) > 1
           has     == [f \in Flag |-> \E c \in cells : FlagAt(Data(c), f)]
           tri     == [f \in Flag |-> triInit(isRange, has[f], src, f)]
<1>1. e.tri = tri /\ e.tab = TabOf(src) /\ e.form = FormOf(src)
  BY DEF openUnifiedEditor
<1>2. IsFiniteSet(cells)
  BY FiniteSelection, FS_Subset
<1>3. ASSUME NEW c, cells = {c}
      PROVE  ~isRange /\ src = Data(c)
  <2>1. Cardinality(cells) = 1
    BY <1>3, FS_Singleton
  <2>2. CASE IsEmpty(Data(c))
    <3>1. filled = {}
      BY <1>3, <2>2
    <3>2. Data(c) = None
      BY <1>3, <2>2, CellData DEF IsEmpty, Entry
    <3>3. QED
      BY <2>1, <3>1, <3>2
  <2>3. CASE ~IsEmpty(Data(c))
    <3>1. filled = {c}
      BY <1>3, <2>3
    <3>2. First(filled) = c
      BY <3>1, FirstOfOne, Zenon
    <3>3. src = Data(c)
      BY <3>1, <3>2, Zenon
    <3>4. QED
      BY <2>1, <3>3
  <2>4. QED
    BY <2>2, <2>3
<1>4. ~isRange => \E c \in cells : cells = {c}
  BY <1>2, FS_Singleton, FS_CardinalityType, FS_EmptySet
<1> HIDE DEF src, isRange
<1>5. ASSUME NEW f \in Flag, NEW c \in cells, e.tri[f] # "grey"
      PROVE  FlagAt(Data(c), f) <=> e.tri[f] = "tick"
  <2>1. e.tri[f] = triInit(isRange, has[f], src, f)
    BY <1>1
  <2>2. CASE isRange
    BY <1>5, <2>1, <2>2 DEF triInit
  <2>3. CASE ~isRange
    <3>1. cells = {c}
      BY <1>4, <2>3
    <3>2. src = Data(c)
      BY <1>3, <3>1
    <3>3. QED
      BY <2>1, <2>3, <3>2 DEF triInit
  <2>4. QED
    BY <2>2, <2>3
<1>6. ASSUME NEW c, cells = {c}, NEW f \in Flag
      PROVE  e.tri[f] # "grey"
  BY <1>1, <1>3, <1>6 DEF triInit
<1>7. QED
  BY <1>1, <1>3, <1>5, <1>6

\* What Apply does to a half-day that is as the editor was opened on: nothing.
LEMMA AppliedAsOpened ==
  ASSUME NEW e \in Editing, NEW sd \in Entry \cup {None}, sd # None => WellFormed(sd),
         e.tab = TabOf(sd), e.form = FormOf(sd),
         \A f \in Flag : resolveTri(e.tri[f], FlagAt(sd, f)) = FlagAt(sd, f)
  PROVE  Written(e, sd) = sd
<1> DEFINE run == e.tab \in Work /\ resolveTri(e.tri["run"], FlagAt(sd, "run"))
           remote == resolveTri(e.tri["remote"], FlagAt(sd, "remote"))
           offsite == resolveTri(e.tri["offsite"], FlagAt(sd, "offsite"))
           projects == IF e.tab = "project" THEN e.form.projects ELSE <<>>
<1>1. run = (e.tab \in Work /\ FlagAt(sd, "run")) /\ remote = FlagAt(sd, "remote")
      /\ offsite = FlagAt(sd, "offsite")
  BY DEF Flag
<1>2. CASE sd = None
  <2>1. e.tab = "project" /\ e.form.projects = <<>>
    BY <1>2 DEF TabOf, FormOf
  <2>2. run = FALSE /\ remote = FALSE /\ offsite = FALSE
    BY <1>1, <1>2 DEF FlagAt
  <2>3. Written(e, sd) = None
    BY <2>1, <2>2 DEF Written, Work
  <2>4. QED
    BY <1>2, <2>3
<1>3. CASE sd # None
  <2>1. sd \in Entry /\ WellFormed(sd)
    BY <1>3
  <2>2. /\ e.tab = (IF sd.state = "undetermined" THEN "undetermined"
                    ELSE IF sd.away # None THEN "away"
                    ELSE IF sd.incident # None THEN "incident" ELSE "project")
        /\ e.form.projects = sd.projects /\ e.form.note = sd.note
        /\ sd.away # None => e.form.away = sd.away
        /\ sd.incident # None => e.form.incident = sd.incident
    BY <1>3 DEF TabOf, FormOf, IsAway
  <2>3. sd.run \in BOOLEAN /\ sd.remote \in BOOLEAN /\ sd.offsite \in BOOLEAN
        /\ sd.state \in {"filled", "undetermined"}
    BY <2>1 DEF Entry
  <2>4. run = sd.run /\ remote = sd.remote /\ offsite = sd.offsite /\ projects = sd.projects
    BY <1>1, <1>3, <2>1, <2>2, <2>3 DEF FlagAt, WellFormed, HasProjects, Work
  <2>5. ~(e.tab \in Work /\ projects = <<>> /\ ~run /\ ~remote /\ ~offsite)
    BY <2>1, <2>2, <2>3, <2>4 DEF WellFormed, HasProjects, Work
  <2> DEFINE entry == [state |-> IF e.tab = "undetermined" THEN "undetermined" ELSE "filled",
                       away     |-> IF e.tab = "away" THEN e.form.away ELSE None,
                       incident |-> IF e.tab = "incident" THEN e.form.incident ELSE None,
                       projects |-> projects, run |-> run,
                       note |-> IF e.tab \in Work /\ e.tri["run"] = "tick" THEN e.form.note
                                ELSE IF sd = None THEN NoText ELSE sd.note,
                       remote   |-> remote, offsite |-> offsite]
  <2>6. Written(e, sd) = entry
    BY <2>5 DEF Written
  <2>7. /\ entry.state = sd.state /\ entry.away = sd.away /\ entry.incident = sd.incident
        /\ entry.note = sd.note
    BY <1>3, <2>1, <2>2, <2>3 DEF WellFormed
  <2>8. entry = sd
    BY <2>1, <2>4, <2>7 DEF Entry
  <2>9. QED
    BY <2>6, <2>8
<1>4. QED
  BY <1>2, <1>3

\* Until its range is changed or somebody else writes, the toggles of an editor that were
\* not clicked say what its half-days hold, and an editor on one half-day, before any
\* input, is filled with what that holds.
OpenedSound ==
  editor # None /\ ~editor.moved /\ ~editor.disturbed =>
    /\ \A f \in Flag \ editor.touched, c \in getRangeEditorCells(editor) :
         editor.tri[f] # "grey" => (FlagAt(planning[c], f) <=> editor.tri[f] = "tick")
    /\ \A c : editor.inputs = 0 /\ getRangeEditorCells(editor) = {c} =>
         /\ editor.tab = TabOf(planning[c])
         /\ editor.form = FormOf(planning[c])
         /\ \A f \in Flag : editor.tri[f] # "grey"

\* An editor without inputs has had no toggle clicked and its range not changed.
Unmoved == editor # None /\ editor.inputs = 0 => ~editor.moved /\ editor.touched = {}

\* The editor opens so (endDrag, openUnifiedEditor).
LEMMA SoundAtEndDrag ==
  ASSUME IInv, DragStarted, EndDrag
  PROVE  OpenedSound' /\ Unmoved'
<1> DEFINE cells == Selected(drag)
           e == openUnifiedEditor(cells)
<1>1. CASE cells = {}
  BY <1>1 DEF EndDrag, OpenedSound, Unmoved
<1>2. CASE cells # {}
  <2>1. editor' = e /\ showWeekend' = showWeekend /\ planning' = planning
    BY <1>2 DEF EndDrag
  <2>2. getRangeEditorCells(editor)' = getRangeEditorCells(e)
    BY <2>1 DEF getRangeEditorCells, Columns
  <2>3. getRangeEditorCells(e) = {<<Rows[c[1]], c[2]>> : c \in cells}
    BY <1>2, DragIsRange DEF EndDrag
  <2>4. cells \in SUBSET ((1..Len(Rows)) \X Slot)
    BY SelectedCells
  <2>5. e.touched = {} /\ ~e.moved /\ ~e.disturbed
    BY DEF openUnifiedEditor
  <2>6. /\ \A f \in Flag, c \in cells :
             e.tri[f] # "grey" => (FlagAt(At(Rows[c[1]], c[2]), f) <=> e.tri[f] = "tick")
        /\ \A c : cells = {c} =>
             /\ e.tab = TabOf(At(Rows[c[1]], c[2]))
             /\ e.form = FormOf(At(Rows[c[1]], c[2]))
             /\ \A f \in Flag : e.tri[f] # "grey"
    BY <1>2, <2>4, OpenedTells DEF IInv
  <2> HIDE DEF e, cells
  <2>7. ASSUME NEW c, getRangeEditorCells(e) = {c}
        PROVE  /\ e.tab = TabOf(planning[c]) /\ e.form = FormOf(planning[c])
               /\ \A f \in Flag : e.tri[f] # "grey"
    <3>1. PICK b \in cells : TRUE
      BY <1>2
    <3>2. \A d \in cells : <<Rows[d[1]], d[2]>> = c
      BY <2>3, <2>7
    <3>3. \A d \in cells : d = b
      <4>1. ASSUME NEW d \in cells PROVE d = b
        <5>1. Rows[d[1]] = Rows[b[1]] /\ d[2] = b[2]
          BY <3>2
        <5>2. d[1] \in DOMAIN Rows /\ b[1] \in DOMAIN Rows /\ d = <<d[1], d[2]>> /\ b = <<b[1], b[2]>>
          BY <2>4, RowsArePeople
        <5>3. d[1] = b[1]
          BY <5>1, <5>2, RowsArePeople
        <5>4. QED
          BY <5>1, <5>2, <5>3
      <4>2. QED
        BY <4>1
    <3>4. cells = {b}
      BY <3>1, <3>3
    <3>5. QED
      BY <2>6, <3>2, <3>4 DEF At
  <2>8. ASSUME NEW f \in Flag, NEW c \in getRangeEditorCells(e), e.tri[f] # "grey"
        PROVE  FlagAt(planning[c], f) <=> e.tri[f] = "tick"
    <3>1. PICK b \in cells : c = <<Rows[b[1]], b[2]>>
      BY <2>3
    <3>2. QED
      BY <2>6, <2>8, <3>1 DEF At
  <2>9. OpenedSound'
    BY <2>1, <2>2, <2>7, <2>8 DEF OpenedSound
  <2>10. QED
    BY <2>1, <2>5, <2>9 DEF Unmoved
<1>3. QED
  BY <1>1, <1>2

\* No editor is open at first.
LEMMA SoundInit == Init => OpenedSound /\ Unmoved
BY DEF Init, OpenedSound, Unmoved

\* It stays so: each input touches a toggle or the range, or neither (the handlers of
\* openUnifiedEditor), and others' writes are recorded.
LEMMA SoundNext ==
  IInv /\ DragStarted /\ OpenedSound /\ Unmoved /\ [Next]_vars => OpenedSound' /\ Unmoved'
<1> SUFFICES ASSUME IInv, DragStarted, OpenedSound, Unmoved, [Next]_vars
             PROVE  OpenedSound' /\ Unmoved'
  OBVIOUS
<1>0. editor # None => editor \in Editing
  BY DEF IInv, TypeOK
<1> DEFINE Keeps(e) ==
             /\ e \in Editing /\ e.inputs = editor.inputs /\ e.pids = editor.pids
             /\ \/ e.moved
                \/ /\ e.moved = editor.moved /\ e.disturbed = editor.disturbed
                   /\ e.from = editor.from /\ e.to = editor.to
             /\ editor.touched \subseteq e.touched
             /\ \A f \in Flag \ e.touched : e.tri[f] = editor.tri[f]
<1>1. ASSUME NEW e, Input(e), Keeps(e) PROVE OpenedSound' /\ Unmoved'
  <2>1. /\ editor # None /\ editor \in Editing
        /\ editor' = [e EXCEPT !.inputs = @ + 1] /\ planning' = planning /\ showWeekend' = showWeekend
    BY <1>0, <1>1 DEF Input
  <2>2. /\ editor'.inputs # 0 /\ editor'.tri = e.tri /\ editor'.moved = e.moved
        /\ editor'.disturbed = e.disturbed /\ editor'.touched = e.touched
        /\ editor'.pids = e.pids /\ editor'.from = e.from /\ editor'.to = e.to
    BY <1>1, <2>1, EditorAssumption DEF Editing
  <2>3. ~e.moved => getRangeEditorCells(editor)' = getRangeEditorCells(editor)
    BY <1>1, <2>1, <2>2 DEF getRangeEditorCells, Columns
  <2>4. OpenedSound'
    BY <1>1, <2>1, <2>2, <2>3 DEF OpenedSound
  <2>5. QED
    BY <2>2, <2>4 DEF Unmoved
<1>2. ASSUME editor' # None => editor'.disturbed /\ editor'.inputs = editor.inputs
                               /\ editor'.moved = editor.moved /\ editor'.touched = editor.touched
                               /\ editor # None
      PROVE  OpenedSound' /\ Unmoved'
  BY <1>2 DEF OpenedSound, Unmoved
<1>3. ASSUME NEW f \in Flag, cycleTri(f) PROVE OpenedSound' /\ Unmoved'
  <2> DEFINE e == [editor EXCEPT !.tri[f] = NextTri(editor.grey[f], @), !.touched = @ \cup {f}]
  <2>1. editor \in Editing /\ Input(e)
    BY <1>0, <1>3 DEF cycleTri, Input
  <2>2. NextTri(editor.grey[f], editor.tri[f]) \in {"grey", "tick", "empty"}
    BY <2>1 DEF NextTri, Editing
  <2>3. /\ e \in Editing /\ e.inputs = editor.inputs /\ e.moved = editor.moved
        /\ e.disturbed = editor.disturbed /\ e.pids = editor.pids
        /\ e.from = editor.from /\ e.to = editor.to /\ e.touched = editor.touched \cup {f}
        /\ e.tri = [editor.tri EXCEPT ![f] = NextTri(editor.grey[f], @)]
    BY <2>1, <2>2 DEF Editing
  <2>4. \A g \in Flag \ e.touched : e.tri[g] = editor.tri[g]
    BY <2>1, <2>3 DEF Editing
  <2> HIDE DEF e
  <2>5. QED
    BY <2>1, <2>3, <2>4, <1>1
<1>4. ASSUME NEW t \in Tab, uniSwitchTab(t) PROVE OpenedSound' /\ Unmoved'
  <2> DEFINE e == [editor EXCEPT !.tab = t]
  <2>1. Input(e) /\ editor \in Editing
    BY <1>0, <1>4 DEF uniSwitchTab, Input
  <2>2. Keeps(e)
    BY <2>1 DEF Editing
  <2>3. QED
    BY <1>1, <2>1, <2>2
<1>5. ASSUME NEW ps \in TypedProjects, TypeProjects(ps) PROVE OpenedSound' /\ Unmoved'
  <2> DEFINE e == [editor EXCEPT !.form.projects = ps]
  <2>1. Input(e) /\ editor \in Editing
    BY <1>0, <1>5 DEF TypeProjects, Input
  <2>2. Keeps(e)
    BY <2>1, EditorAssumption DEF Editing, Form
  <2>3. QED
    BY <1>1, <2>1, <2>2
<1>6. ASSUME NEW a \in TypedAway, TypeAway(a) PROVE OpenedSound' /\ Unmoved'
  <2> DEFINE e == [editor EXCEPT !.form.away = a]
  <2>1. Input(e) /\ editor \in Editing
    BY <1>0, <1>6 DEF TypeAway, Input
  <2>2. Keeps(e)
    BY <2>1, EditorAssumption DEF Editing, Form
  <2>3. QED
    BY <1>1, <2>1, <2>2
<1>7. ASSUME NEW t \in TypedIncident, TypeIncident(t) PROVE OpenedSound' /\ Unmoved'
  <2> DEFINE e == [editor EXCEPT !.form.incident = t]
  <2>1. Input(e) /\ editor \in Editing
    BY <1>0, <1>7 DEF TypeIncident, Input
  <2>2. Keeps(e)
    BY <2>1, EditorAssumption DEF Editing, Form
  <2>3. QED
    BY <1>1, <2>1, <2>2
<1>8. ASSUME NEW n \in TypedNote, TypeNote(n) PROVE OpenedSound' /\ Unmoved'
  <2> DEFINE e == [editor EXCEPT !.form.note = n]
  <2>1. Input(e) /\ editor \in Editing
    BY <1>0, <1>8 DEF TypeNote, Input
  <2>2. Keeps(e)
    BY <2>1, EditorAssumption DEF Editing, Form
  <2>3. QED
    BY <1>1, <2>1, <2>2
<1>9. ASSUME NEW r \in TypedRange, TypeRange(r) PROVE OpenedSound' /\ Unmoved'
  <2> DEFINE e == [editor EXCEPT !.from = r[1], !.to = r[2], !.moved = TRUE]
  <2>1. Input(e) /\ editor \in Editing
    BY <1>0, <1>9 DEF TypeRange, Input
  <2>2. Keeps(e)
    BY <2>1, EditorAssumption DEF Editing
  <2>3. QED
    BY <1>1, <2>1, <2>2
<1>10. ASSUME NEW failing, applyUnifiedEditor(failing) PROVE OpenedSound' /\ Unmoved'
  BY <1>0, <1>2, <1>10 DEF applyUnifiedEditor, Editing
<1>11. CASE closeModal
  BY <1>2, <1>11 DEF closeModal
<1>12. CASE Edit
  BY <1>3, <1>4, <1>5, <1>6, <1>7, <1>8, <1>9, <1>10, <1>11, <1>12 DEF Edit
<1>13. CASE EndDrag
  BY <1>13, SoundAtEndDrag
<1>14. ASSUME NEW r \in DOMAIN Rows, NEW k \in Slot, StartDrag(r, k) \/ ExtendDrag(r, k)
       PROVE  OpenedSound' /\ Unmoved'
  <2>1. editor' = None
    BY <1>14 DEF StartDrag, Idle, ExtendDrag, IInv, TypeOK
  <2>2. QED
    BY <1>2, <2>1
<1>15. ASSUME NEW c \in Contested, NEW d \in Other \cup {None}, OtherWrites(c, d)
       PROVE  OpenedSound' /\ Unmoved'
  BY <1>0, <1>2, <1>15 DEF OtherWrites, Editing
<1>16. ASSUME ToggleWeekend \/ \E f \in TypedFilter \cup {None} : TypeFilter(f)
       PROVE  OpenedSound' /\ Unmoved'
  BY <1>2, <1>16 DEF ToggleWeekend, TypeFilter, Idle
<1>17. CASE UNCHANGED vars
  BY <1>17 DEF vars, OpenedSound, Unmoved, getRangeEditorCells, Columns
<1>18. QED
  BY <1>12, <1>13, <1>14, <1>15, <1>16, <1>17 DEF Next, Select

\* The steps in which something is applied are those of the editor's button.
LEMMA OnlyApplyApplies ==
  ASSUME IInv, [Next]_vars, Applies
  PROVE  \E failing : applyUnifiedEditor(failing)
<1>1. count' # count
  BY DEF Applies
<1>2. ASSUME NEW c \in Contested, NEW d \in Other \cup {None}, OtherWrites(c, d) PROVE FALSE
  BY <1>2 DEF OtherWrites, Applies, IInv, TypeOK
<1>3. Edit
  BY <1>1, <1>2
     DEF Next, Select, StartDrag, ExtendDrag, EndDrag, ToggleWeekend, TypeFilter, vars
<1>4. QED
  BY <1>1, <1>3 DEF Edit, uniSwitchTab, cycleTri, TypeProjects, TypeAway, TypeIncident, TypeNote,
                    TypeRange, Input, closeModal

\* Apply changes a mark only if the user clicked its toggle, or run on a tab that excludes
\* it (triInit, resolveTri).
THEOREM MarksStay == Spec => UntouchedFlagsStay
<1> DEFINE Stays(f) ==
      /\ f = "run" => editor.tab \in Work
      /\ editor.tri[f] = "grey" \/ ~(editor.moved \/ editor.disturbed)
      => \A c \in Cell : FlagAt(planning'[c], f) = FlagAt(planning[c], f)
<1>1. ASSUME IInv, OpenedSound, [Next]_vars, Applies, NEW f \in Flag \ editor.touched
      PROVE  Stays(f)
  <2>1. PICK failing : applyUnifiedEditor(failing)
    BY <1>1, OnlyApplyApplies
  <2> DEFINE cells == getRangeEditorCells(editor)
  <2>2. editor # None /\ editor \in Editing /\ planning \in [Cell -> Entry \cup {None}]
    BY <1>1, <2>1 DEF applyUnifiedEditor, IInv, TypeOK
  <2>3. SUFFICES ASSUME f = "run" => editor.tab \in Work,
                        editor.tri[f] = "grey" \/ ~(editor.moved \/ editor.disturbed),
                        NEW c \in Cell
                 PROVE  FlagAt(planning'[c], f) = FlagAt(planning[c], f)
    OBVIOUS
  <2>4. planning'[c] = IF c \in cells \ failing THEN Written(editor, planning[c]) ELSE planning[c]
    BY <2>1 DEF applyUnifiedEditor
  <2>5. CASE c \in cells \ failing
    <3>1. FlagAt(planning'[c], f) = resolveTri(editor.tri[f], FlagAt(planning[c], f))
      BY <2>2, <2>3, <2>4, <2>5, WrittenEntry
    <3>2. FlagAt(planning[c], f) \in BOOLEAN
      BY <2>2 DEF FlagAt, Entry, Flag
    <3>3. editor.tri[f] # "grey" => (FlagAt(planning[c], f) <=> editor.tri[f] = "tick")
      BY <1>1, <2>2, <2>3, <2>5 DEF OpenedSound
    <3>4. QED
      BY <3>1, <3>2, <3>3 DEF resolveTri
  <2>6. QED
    BY <2>4, <2>5
<1>2. IInv /\ OpenedSound /\ [Next]_vars => (Applies => \A f \in Flag \ editor.touched : Stays(f))
  BY <1>1
<1>3. QED
  BY <1>2, InvariantInit, InvariantNext, DragStartedInit, DragStartedNext, SoundInit, SoundNext, PTL
     DEF Spec, UntouchedFlagsStay

\* Opening the editor on one half-day and applying it as it is changes nothing: what
\* openUnifiedEditor fills in is what applyUnifiedEditor stores.
THEOREM UnchangedForm == Spec => UnchangedFormIsHarmless
<1>1. ASSUME IInv, OpenedSound, Unmoved, [Next]_vars, Applies, editor.inputs = 0,
             ~editor.disturbed, Cardinality(getRangeEditorCells(editor)) = 1
      PROVE  planning' = planning
  <2>1. PICK failing : applyUnifiedEditor(failing)
    BY <1>1, OnlyApplyApplies
  <2> DEFINE cells == getRangeEditorCells(editor)
  <2>2. editor # None /\ editor \in Editing /\ planning \in [Cell -> Entry \cup {None}]
    BY <1>1, <2>1 DEF applyUnifiedEditor, IInv, TypeOK
  <2>3. PICK c : cells = {c}
    <3>1. cells \subseteq Person \X Slot
      BY <2>2, EditorAssumption DEF getRangeEditorCells, Columns, generateSlotsInRange, Editing, Slot
    <3>2. IsFiniteSet(cells)
      BY <3>1, Finite, FS_Product, FS_Subset
    <3>3. QED
      BY <1>1, <3>2, FS_Singleton
  <2>4. ~editor.moved /\ editor.touched = {}
    BY <1>1, <2>2 DEF Unmoved
  <2>5. /\ editor.tab = TabOf(planning[c]) /\ editor.form = FormOf(planning[c])
        /\ \A f \in Flag : editor.tri[f] # "grey"
                           /\ (FlagAt(planning[c], f) <=> editor.tri[f] = "tick")
    BY <1>1, <2>2, <2>3, <2>4 DEF OpenedSound
  <2>6. ASSUME c \in Cell
        PROVE  Written(editor, planning[c]) = planning[c]
    <3>1. planning[c] \in Entry \cup {None} /\ (planning[c] # None => WellFormed(planning[c]))
      BY <1>1, <2>2, <2>6 DEF IInv, EntriesAreWellFormed
    <3>2. \A f \in Flag : FlagAt(planning[c], f) \in BOOLEAN
      BY <3>1 DEF FlagAt, Entry, Flag
    <3>3. \A f \in Flag : resolveTri(editor.tri[f], FlagAt(planning[c], f)) = FlagAt(planning[c], f)
      BY <2>5, <3>2 DEF resolveTri
    <3>4. QED
      BY <2>2, <2>5, <3>1, <3>3, AppliedAsOpened
  <2>7. \A b \in Cell : planning'[b] = planning[b]
    BY <2>1, <2>3, <2>6 DEF applyUnifiedEditor
  <2>8. planning' = [b \in Cell |-> planning'[b]]
    BY <2>1 DEF applyUnifiedEditor
  <2>9. QED
    BY <2>2, <2>7, <2>8
<1>2. QED
  BY <1>1, InvariantInit, InvariantNext, DragStartedInit, DragStartedNext, SoundInit, SoundNext, PTL
     DEF Spec, UnchangedFormIsHarmless

----------------------------------------------------------------------------
(* A merged cell reads like the one its label is in, and every place a      *)
(* half-day is shown or counted agrees.  Both hold of any well-formed       *)
(* half-day, so both follow from the invariant; the counts agree because    *)
(* they count the same set.                                                 *)

----------------------------------------------------------------------------
(* What is shown. *)

\* Half-days with equal keys read alike, unless they read as not filled.
LEMMA EqualKeys ==
  ASSUME NEW d1 \in Entry \cup {None}, NEW d2 \in Entry \cup {None}, NEW w1, NEW w2,
         getMergeKey(d1, w1) = getMergeKey(d2, w2),
         "not-filled" \notin getSlotClass(d2)
  PROVE  getCellLabel(d1) = getCellLabel(d2)
<1>1. d2 # None /\ d2 \in Entry
  BY DEF getSlotClass, IsEmpty
<1>2. d1 # None /\ d1 \in Entry
  BY <1>1 DEF getMergeKey, IsEmpty, Entry, HasProjects
<1>3. CASE d2.state = "undetermined" \/ d2.away # None \/ d2.incident # None
  BY <1>1, <1>2, <1>3 DEF getMergeKey, getCellLabel, IsEmpty, Entry, HasProjects
<1>4. CASE d2.state # "undetermined" /\ d2.away = None /\ d2.incident = None
  <2>1. d1.state # "undetermined" /\ d1.away = None /\ d1.incident = None
    BY <1>1, <1>2, <1>4 DEF getMergeKey, IsEmpty, Entry, HasProjects
  <2>2. getCellLabel(d1) = <<"work", [i \in DOMAIN d1.projects |-> d1.projects[i].name],
                             IF d1.run THEN IF d1.note # NoText THEN "R*" ELSE "R" ELSE "">>
    BY <1>2, <2>1 DEF getCellLabel, IsEmpty, Entry
  <2>3. getCellLabel(d2) = <<"work", [i \in DOMAIN d2.projects |-> d2.projects[i].name],
                             IF d2.run THEN IF d2.note # NoText THEN "R*" ELSE "R" ELSE "">>
    BY <1>1, <1>4 DEF getCellLabel, IsEmpty, Entry
  <2>4. d1.projects \in Seq(Share) /\ d2.projects \in Seq(Share)
    BY <1>1, <1>2 DEF Entry
  <2>5. CASE Len(d2.projects) = 1
    <3>1. Len(d1.projects) = 1 /\ d1.projects[1].name = d2.projects[1].name /\ d1.run = d2.run
          /\ (d2.run => d1.note = d2.note)
      BY <1>1, <1>2, <1>4, <2>1, <2>4, <2>5 DEF getMergeKey, IsEmpty, Entry, HasProjects
    <3>2. DOMAIN d1.projects = {1} /\ DOMAIN d2.projects = {1}
      BY <2>4, <2>5, <3>1
    <3>3. [i \in DOMAIN d1.projects |-> d1.projects[i].name]
            = [i \in DOMAIN d2.projects |-> d2.projects[i].name]
      BY <3>1, <3>2
    <3>4. CASE d2.run
      BY <2>2, <2>3, <3>1, <3>3, <3>4
    <3>5. CASE ~d2.run
      BY <2>2, <2>3, <3>1, <3>3, <3>5
    <3>6. QED
      BY <3>4, <3>5
  <2>6. CASE Len(d2.projects) # 1
    <3>1. /\ d1.projects = d2.projects /\ d1.run = d2.run /\ (d2.run => d1.note = d2.note)
      BY <1>1, <1>2, <1>4, <2>1, <2>4, <2>6 DEF getMergeKey, IsEmpty, Entry, HasProjects
    <3>2. CASE d2.run
      BY <2>2, <2>3, <3>1, <3>2
    <3>3. CASE ~d2.run
      BY <2>2, <2>3, <3>1, <3>3
    <3>4. QED
      BY <3>2, <3>3
  <2>7. QED
    BY <2>5, <2>6
<1>5. QED
  BY <1>3, <1>4

\* A label is left out only where the cell to the left reads the same (getMergeKey).
THEOREM MergedCells == Spec => []MergedCellsReadAlike
<1>1. IInv => MergedCellsReadAlike
  <2> SUFFICES ASSUME IInv, NEW p \in Person, NEW c \in Neighbours, ~LabelShown(p, c[1], c[2])
      PROVE getCellLabel(At(p, c[1])) = getCellLabel(At(p, c[2]))
    BY DEF MergedCellsReadAlike
  <2>1. c[1] \in Slot /\ c[2] \in Slot
    BY DEF Neighbours, Columns
  <2>2. At(p, c[1]) \in Entry \cup {None} /\ At(p, c[2]) \in Entry \cup {None}
    BY <2>1 DEF IInv, TypeOK, At, Cell
  <2>3. QED
    BY <2>2, EqualKeys DEF LabelShown, Merged
<1>2. QED
  BY <1>1, InvariantInit, InvariantNext, PTL DEF Spec

\* There is a background if there is a project.
LEMMA ColouredIfProjects ==
  ASSUME NEW d \in Entry
  PROVE  /\ projectColorBg(d) # <<>> <=> HasProjects(d)
         /\ HasProjects(d) <=> Names(d) # {}
         /\ Names(d) \subseteq Project
<1> DEFINE s == [i \in DOMAIN d.projects |-> d.projects[i].name]
           n == IF Len(d.projects) >= 2 THEN 2 ELSE Len(d.projects)
<1>1. d.projects \in Seq(Share) /\ d \in Entry
  BY DEF Entry
<1>2. Len(d.projects) \in Nat /\ DOMAIN d.projects = 1..Len(d.projects)
      /\ \A i \in DOMAIN d.projects : d.projects[i].name \in Project
  <2>1. DOMAIN d.projects = 1..Len(d.projects) /\ \A i \in DOMAIN d.projects : d.projects[i] \in Share
    BY <1>1
  <2>2. QED
    BY <1>1, <2>1 DEF Share
<1>3. HasProjects(d) <=> Len(d.projects) # 0
  BY <1>1, <1>2 DEF HasProjects
<1>4. s \in Seq(Project) /\ Len(s) = Len(d.projects)
  BY <1>2
<1>5. n \in Nat /\ n <= Len(s) /\ (n = 0 <=> Len(d.projects) = 0)
  BY <1>2, <1>4
<1>6. projectColorBg(d) = SubSeq(s, 1, n)
  <2>1. d # None
    BY <1>1, EditorAssumption
  <2>2. QED
    BY <2>1 DEF projectColorBg
<1> HIDE DEF s, n
<1>7. SubSeq(s, 1, n) \in Seq(Project) /\ Len(SubSeq(s, 1, n)) = n
  BY <1>4, <1>5
<1>8. projectColorBg(d) # <<>> <=> HasProjects(d)
  BY <1>3, <1>5, <1>6, <1>7
<1>9. Names(d) = {d.projects[i].name : i \in 1..Len(d.projects)}
  BY <1>2 DEF Names
<1>10. HasProjects(d) <=> Names(d) # {}
  <2>1. Len(d.projects) # 0 <=> 1 \in 1..Len(d.projects)
    BY <1>2
  <2>2. Len(d.projects) = 0 => 1..Len(d.projects) = {}
    OBVIOUS
  <2>3. QED
    BY <1>3, <1>9, <2>1, <2>2
<1>11. QED
  BY <1>2, <1>8, <1>9, <1>10

\* A half-day that may be reads the same everywhere.
LEMMA EntryViews ==
  ASSUME NEW d \in Entry \cup {None}, d # None => WellFormed(d)
  PROVE  CellViewsAgree(d)
<1> DEFINE class == getSlotClass(d)
           title == getSlotTitle(d)
           Marks == {"remote", "offsite"}
           Shown == /\ "away" \in class <=> IsAway(d)
                    /\ "run" \in class <=> IsRun(d)
                    /\ "project" \in class <=> projectColorBg(d) # <<>>
           Titled == /\ "Away" \in title <=> "away" \in class
                     /\ "Incident" \in title <=> "incident" \in class
                     /\ "Projects" \in title <=> "project" \in class
                     /\ "Run duty" \in title <=> "run" \in class
                     /\ title \cap Marks = class \cap Marks
                     /\ getSlotLabel(d) = title \ {"Not filled"}
           Named == /\ uniCategorise(d) = None <=> d = None
                    /\ uniCategorise(d) = "project+run" <=> {"project", "run"} \subseteq class
                    /\ uniCategorise(d) = "other" <=> d # None /\ "not-filled" \in class
           Listed == /\ "Run" \in availabilityDetail(d) <=> "run" \in class
                     /\ icsEvents(d) = {} <=> "not-filled" \in class
           Loaded == /\ ~(halfDayValue(d) > 100)
                     /\ halfDayValue(d) > 0 => class \cap {"project", "run", "undetermined"} # {}
<1>0. SUFFICES Shown /\ Titled /\ Named /\ Listed /\ Loaded
  BY DEF CellViewsAgree
<1>1. FlagOf(d) \subseteq Marks
  BY DEF FlagOf
<1>2. None # "project+run" /\ None # "other"
  BY EditorAssumption DEF Category
<1>3. CASE d = None
  <2>1. /\ class = {"not-filled"} \cup FlagOf(d) /\ title = {"Not filled"} \cup FlagOf(d)
        /\ getSlotLabel(d) = {} /\ FlagOf(d) = {} /\ uniCategorise(d) = None
        /\ availabilityDetail(d) = {"Available"} /\ icsEvents(d) = {} /\ halfDayValue(d) = 0
        /\ projectColorBg(d) = <<>> /\ ~IsAway(d) /\ ~IsRun(d)
    BY <1>3 DEF getSlotClass, getSlotTitle, getSlotLabel, uniCategorise, availabilityDetail,
                icsEvents, halfDayValue, projectColorBg, IsAway, IsRun, IsEmpty, FlagOf
  <2> HIDE DEF class, title
  <2>2. Shown
    BY <1>3, <2>1
  <2>3. Titled
    BY <1>3, <2>1
  <2>4. Named
    BY <1>2, <1>3, <2>1
  <2>5. Listed
    BY <1>3, <2>1
  <2>6. Loaded
    <3>1. halfDayValue(d) = 0
      BY <2>1
    <3>2. QED
      BY <3>1
  <2>7. QED
    BY <2>2, <2>3, <2>4, <2>5, <2>6
<1>4. CASE ~IsEmpty(d) /\ d.state = "undetermined"
  <2>0. d # None /\ d \in Entry /\ WellFormed(d)
    BY <1>4 DEF IsEmpty
  <2>1. projectColorBg(d) # <<>> <=> HasProjects(d)
    BY <2>0, ColouredIfProjects
  <2>2. Shown
    BY <1>1, <1>4, <2>0, <2>1 DEF getSlotClass, IsAway, IsRun, WellFormed
  <2>3. Titled
    BY <1>1, <1>4, <2>0 DEF getSlotClass, getSlotTitle, getSlotLabel, WellFormed
  <2>4. Named
    <3>1. uniCategorise(d) = "undetermined"
      BY <1>4, <2>0 DEF uniCategorise
    <3>2. "run" \notin class /\ "not-filled" \notin class
      BY <1>1, <1>4, <2>0 DEF getSlotClass, WellFormed
    <3>3. QED
      BY <2>0, <3>1, <3>2, EditorAssumption DEF Category
  <2>5. Listed
    BY <1>1, <1>4, <2>0 DEF getSlotClass, availabilityDetail, icsEvents, WellFormed
  <2>6. Loaded
    BY <1>1, <1>4, <2>0 DEF getSlotClass, halfDayValue, WellFormed
  <2>7. QED
    BY <2>2, <2>3, <2>4, <2>5, <2>6
<1>5. CASE ~IsEmpty(d) /\ d.state # "undetermined" /\ d.away # None
  <2>0. d # None /\ d \in Entry /\ WellFormed(d)
    BY <1>5 DEF IsEmpty
  <2>1. projectColorBg(d) # <<>> <=> HasProjects(d)
    BY <2>0, ColouredIfProjects
  <2>2. Shown
    BY <1>1, <1>5, <2>0, <2>1 DEF getSlotClass, IsAway, IsRun, WellFormed
  <2>3. Titled
    BY <1>1, <1>5, <2>0 DEF getSlotClass, getSlotTitle, getSlotLabel, WellFormed
  <2>4. Named
    <3>1. uniCategorise(d) = "away"
      BY <1>5, <2>0 DEF uniCategorise
    <3>2. "run" \notin class /\ "not-filled" \notin class
      BY <1>1, <1>5, <2>0 DEF getSlotClass, WellFormed
    <3>3. QED
      BY <2>0, <3>1, <3>2, EditorAssumption DEF Category
  <2>5. Listed
    BY <1>1, <1>5, <2>0 DEF getSlotClass, availabilityDetail, icsEvents, WellFormed
  <2>6. Loaded
    BY <1>1, <1>5, <2>0 DEF getSlotClass, halfDayValue, WellFormed
  <2>7. QED
    BY <2>2, <2>3, <2>4, <2>5, <2>6
<1>6. CASE ~IsEmpty(d) /\ d.state # "undetermined" /\ d.away = None /\ d.incident # None
  <2>0. d # None /\ d \in Entry /\ WellFormed(d)
    BY <1>6 DEF IsEmpty
  <2>1. projectColorBg(d) # <<>> <=> HasProjects(d)
    BY <2>0, ColouredIfProjects
  <2>2. Shown
    BY <1>1, <1>6, <2>0, <2>1 DEF getSlotClass, IsAway, IsRun, WellFormed
  <2>3. Titled
    BY <1>1, <1>6, <2>0 DEF getSlotClass, getSlotTitle, getSlotLabel, WellFormed
  <2>4. Named
    <3>1. uniCategorise(d) = "incident"
      BY <1>6, <2>0 DEF uniCategorise
    <3>2. "run" \notin class /\ "not-filled" \notin class
      BY <1>1, <1>6, <2>0 DEF getSlotClass, WellFormed
    <3>3. QED
      BY <2>0, <3>1, <3>2, EditorAssumption DEF Category
  <2>5. Listed
    BY <1>1, <1>6, <2>0 DEF getSlotClass, availabilityDetail, icsEvents, WellFormed
  <2>6. Loaded
    BY <1>1, <1>6, <2>0 DEF getSlotClass, halfDayValue, WellFormed
  <2>7. QED
    BY <2>2, <2>3, <2>4, <2>5, <2>6
<1>7. CASE ~IsEmpty(d) /\ d.state # "undetermined" /\ d.away = None /\ d.incident = None
  <2>0. d # None /\ d \in Entry /\ WellFormed(d)
    BY <1>7 DEF IsEmpty
  <2>1. projectColorBg(d) # <<>> <=> HasProjects(d)
    BY <2>0, ColouredIfProjects
  <2>2. Shown
    BY <1>1, <1>7, <2>0, <2>1 DEF getSlotClass, IsAway, IsRun, WellFormed
  <2>3. Titled
    BY <1>1, <1>7, <2>0 DEF getSlotClass, getSlotTitle, getSlotLabel, WellFormed
  <2>4. Named
    <3>1. uniCategorise(d) = IF d.run /\ HasProjects(d) THEN "project+run" ELSE IF d.run THEN "run"
                             ELSE IF HasProjects(d) THEN "project" ELSE "other"
      BY <1>7, <2>0 DEF uniCategorise
    <3>2. /\ "run" \in class <=> d.run
          /\ "project" \in class <=> HasProjects(d)
          /\ "not-filled" \in class <=> ~d.run /\ ~HasProjects(d)
      BY <1>1, <1>7, <2>0 DEF getSlotClass
    <3>3. uniCategorise(d) # None
      BY <3>1, EditorAssumption DEF Category
    <3>4. QED
      BY <2>0, <3>1, <3>2, <3>3
  <2>5. Listed
    <3>1. /\ "run" \in class <=> d.run
          /\ "not-filled" \in class <=> ~d.run /\ ~HasProjects(d)
      BY <1>1, <1>7, <2>0 DEF getSlotClass
    <3>2. "Run" \notin Names(d) /\ (HasProjects(d) <=> Names(d) # {})
      BY <2>0, ColouredIfProjects, EditorAssumption
    <3>3. "Run" \in availabilityDetail(d) <=> d.run
      BY <1>1, <1>7, <2>0, <3>2 DEF availabilityDetail
    <3>4. icsEvents(d) = {} <=> ~d.run /\ ~HasProjects(d)
      <4>1. icsEvents(d) = IF HasProjects(d) THEN {"project"} \X Names(d)
                           ELSE IF d.run THEN {"run"} ELSE {}
        BY <1>7, <2>0 DEF icsEvents
      <4>2. HasProjects(d) => {"project"} \X Names(d) # {}
        <5>1. \A x \in Names(d) : <<"project", x>> \in {"project"} \X Names(d)
          OBVIOUS
        <5>2. QED
          BY <3>2, <5>1
      <4>3. QED
        BY <4>1, <4>2
    <3>5. QED
      BY <3>1, <3>3, <3>4
  <2>6. Loaded
    BY <1>1, <1>7, <2>0 DEF getSlotClass, halfDayValue, WellFormed
  <2>7. QED
    BY <2>2, <2>3, <2>4, <2>5, <2>6
<1>8. QED
  BY <1>3, <1>4, <1>5, <1>6, <1>7 DEF IsEmpty, Entry

\* What each way of counting tests, told by the class of the cell.
LEMMA Tests ==
  ASSUME NEW d \in Entry \cup {None}, d # None => WellFormed(d)
  PROVE  /\ ~Undecided(d) /\ IsAway(d) <=> IsAway(d)
         /\ daySummaryOf(d) = "away" <=> IsAway(d)
         /\ Undecided(d) \/ ~IsAway(d) <=> ~IsAway(d)
         /\ ~Undecided(d) /\ ~IsAway(d) /\ IsRun(d) <=> IsRun(d)
         /\ daySummaryOf(d) = "run" <=> IsRun(d)
         /\ halfDayPresence(d) = 100 <=> ~IsAway(d)
         /\ IsRun(d) => ~IsAway(d)
<1>1. CASE d = None
  BY <1>1 DEF Undecided, IsAway, IsRun, daySummaryOf, halfDayPresence, IsEmpty
<1>2. CASE d # None
  BY <1>2 DEF Undecided, IsAway, IsRun, daySummaryOf, halfDayPresence, IsEmpty, WellFormed, Entry
<1>3. QED
  BY <1>1, <1>2

\* All ways of counting over some half-days agree.
LEMMA Counters ==
  ASSUME NEW S, IsFiniteSet(S), NEW data \in [S -> Entry \cup {None}],
         \A x \in S : data[x] # None => WellFormed(data[x])
  PROVE  /\ summaryRow(data).away = calcRunCoveragePerSlot(data).away
         /\ summaryRow(data).away = daySummary(data, "away")
         /\ summaryRow(data).run = calcRunCoveragePerSlot(data).onRun
         /\ summaryRow(data).run = daySummary(data, "run")
         /\ calcRunCoveragePerSlot(data).away + calcRunCoveragePerSlot(data).avail = Cardinality(S)
         /\ calcRunCoveragePerSlot(data).avail = Count(data, LAMBDA sd : halfDayPresence(sd) = 100)
         /\ calcRunRatio(data).run = summaryRow(data).run
         /\ calcRunRatio(data).run <= calcRunRatio(data).working
         /\ collectRunNotes(data) \subseteq {x \in S : IsRun(data[x])}
         /\ \A b \in BOOLEAN : conflictWarn(data, b) <=> b /\ summaryRow(data).away > 0
<1> DEFINE Away == {x \in S : IsAway(data[x])}
           Here == {x \in S : ~IsAway(data[x])}
           Run  == {x \in S : IsRun(data[x])}
<1>1. /\ summaryRow(data).away = Cardinality(Away) /\ summaryRow(data).run = Cardinality(Run)
  BY DEF summaryRow, Count
<1>2. /\ calcRunCoveragePerSlot(data).away = Cardinality(Away)
      /\ calcRunCoveragePerSlot(data).avail = Cardinality(Here)
      /\ calcRunCoveragePerSlot(data).onRun = Cardinality(Run)
  <2>1. /\ {x \in S : ~Undecided(data[x]) /\ IsAway(data[x])} = Away
        /\ {x \in S : Undecided(data[x]) \/ ~IsAway(data[x])} = Here
        /\ {x \in S : ~Undecided(data[x]) /\ ~IsAway(data[x]) /\ IsRun(data[x])} = Run
    BY Tests
  <2>2. QED
    BY <2>1 DEF calcRunCoveragePerSlot, Count
<1>3. /\ calcRunRatio(data).working = Cardinality(Here)
      /\ calcRunRatio(data).run = Cardinality(Run)
  <2>1. /\ {x \in S : Undecided(data[x]) \/ ~IsAway(data[x])} = Here
        /\ {x \in S : ~Undecided(data[x]) /\ ~IsAway(data[x]) /\ IsRun(data[x])} = Run
    BY Tests
  <2>2. QED
    BY <2>1 DEF calcRunRatio, Count
<1>4. /\ daySummary(data, "away") = Cardinality(Away)
      /\ daySummary(data, "run") = Cardinality(Run)
  <2>1. /\ {x \in S : daySummaryOf(data[x]) = "away"} = Away
        /\ {x \in S : daySummaryOf(data[x]) = "run"} = Run
    BY Tests
  <2>2. QED
    BY <2>1 DEF daySummary, Count
<1>5. Count(data, LAMBDA sd : halfDayPresence(sd) = 100) = Cardinality(Here)
  <2>1. {x \in S : halfDayPresence(data[x]) = 100} = Here
    BY Tests
  <2>2. QED
    BY <2>1 DEF Count
<1>6. /\ IsFiniteSet(Away) /\ IsFiniteSet(Here) /\ IsFiniteSet(Run)
      /\ Cardinality(Away) \in Nat /\ Cardinality(Here) \in Nat /\ Cardinality(Run) \in Nat
  <2>1. Away \subseteq S /\ Here \subseteq S /\ Run \subseteq S
    OBVIOUS
  <2>2. QED
    BY <2>1, FS_Subset, FS_CardinalityType
<1>7. Cardinality(Away) + Cardinality(Here) = Cardinality(S)
  <2>1. Away \cup Here = S /\ Away \cap Here = {}
    OBVIOUS
  <2>2. Cardinality(S) = Cardinality(Away) + Cardinality(Here) - Cardinality({})
    BY <1>6, <2>1, FS_Union
  <2>3. QED
    BY <1>6, <2>2, FS_EmptySet
<1>8. Cardinality(Run) <= Cardinality(Here)
  <2>1. Run \subseteq Here
    BY Tests
  <2>2. QED
    BY <1>6, <2>1, FS_Subset
<1>9. collectRunNotes(data) \subseteq Run
  BY DEF collectRunNotes
<1>10. ASSUME NEW b \in BOOLEAN PROVE conflictWarn(data, b) <=> b /\ Cardinality(Away) > 0
  <2>1. Cardinality(Away) > 0 <=> Away # {}
    BY <1>6, FS_EmptySet
  <2>2. conflictWarn(data, b) <=> b /\ Away # {}
    BY DEF conflictWarn
  <2>3. QED
    BY <2>1, <2>2
<1> HIDE DEF Away, Here, Run
<1>11. QED
  BY <1>1, <1>2, <1>3, <1>4, <1>5, <1>7, <1>8, <1>9, <1>10 DEF Run

\* Everywhere a half-day is shown or counted, it reads the same: the cells, titles, labels,
\* colours, the day summary, the run coverage, the workload, the ratios and the warnings.
THEOREM EveryViewAgrees == Spec => []ViewsAgree
<1>1. ASSUME IInv PROVE ViewsAgree
  <2>1. \A c \in Cell : /\ planning[c] \in Entry \cup {None}
                        /\ planning[c] # None => WellFormed(planning[c])
    BY <1>1 DEF IInv, TypeOK, EntriesAreWellFormed
  <2>2. \A c \in Cell : CellViewsAgree(planning[c])
    BY <2>1, EntryViews
  <2>3. \A p \in Person, k \in Slot : <<p, k>> \in Cell
    BY DEF Cell
  <2>4. ASSUME NEW k \in Slot
        PROVE  LET column   == [p \in Person |-> At(p, k)]
                   summary  == summaryRow(column)
                   coverage == calcRunCoveragePerSlot(column)
               IN /\ summary.away = coverage.away /\ summary.away = daySummary(column, "away")
                  /\ summary.run = coverage.onRun /\ summary.run = daySummary(column, "run")
                  /\ coverage.away + coverage.avail = Cardinality(Person)
                  /\ coverage.avail = Count(column, LAMBDA sd : halfDayPresence(sd) = 100)
    <3> DEFINE column == [p \in Person |-> At(p, k)]
    <3>1. column \in [Person -> Entry \cup {None}]
          /\ \A p \in Person : column[p] # None => WellFormed(column[p])
      BY <2>1, <2>3 DEF At
    <3> HIDE DEF column
    <3>2. QED
      BY <3>1, Finite, Counters DEF column
  <2>5. ASSUME NEW p \in Person
        PROVE  LET row == [k \in Slot |-> At(p, k)]
               IN /\ calcRunRatio(row).run = summaryRow(row).run
                  /\ calcRunRatio(row).run <= calcRunRatio(row).working
                  /\ collectRunNotes(row) \subseteq {k \in Slot : "run" \in getSlotClass(row[k])}
                  /\ conflictWarn(row, TRUE) <=> summaryRow(row).away > 0
    <3> DEFINE row == [k \in Slot |-> At(p, k)]
    <3>1. row \in [Slot -> Entry \cup {None}]
          /\ \A k \in Slot : row[k] # None => WellFormed(row[k])
      BY <2>1, <2>3 DEF At
    <3>2. \A k \in Slot : IsRun(row[k]) => "run" \in getSlotClass(row[k])
      BY <2>2, <2>3 DEF At, CellViewsAgree
    <3> HIDE DEF row
    <3>3. QED
      BY <3>1, <3>2, Finite, Counters DEF row
  <2>6. QED
    BY <2>2, <2>4, <2>5 DEF ViewsAgree
<1>2. QED
  BY <1>1, InvariantInit, InvariantNext, PTL DEF Spec
============================================================================
