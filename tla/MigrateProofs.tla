--------------------------- MODULE MigrateProofs ---------------------------
(***************************************************************************)
(* Theorems about Migrate, for databases of every age, with any events in  *)
(* them, and for any number of stops, half-days and writes.                *)
(*                                                                         *)
(* ServesMigratedData speaks of a running server; what leads to it is in   *)
(* the steps before: a start that is at statement n has done what the n - 1*)
(* statements before it do, whatever stopped starts did (Progress); the    *)
(* rows on backfillAuditMeta's list are those that still lack a meta       *)
(* (BackfillSound), and a meta, parsed or recorded, is never the blank one *)
(* (ParsedIsNotBlank, RecordedIsNotBlank), or a row would be updated at    *)
(* every start.  That no statement fails rests on their order: each speaks *)
(* of what earlier ones add (StatementsType).                              *)
(*                                                                         *)
(* BackfillAgrees is about texts.  SplitN and Joined are recursive: that   *)
(* their recursions end is shown once (RecursionExists), and what they     *)
(* find by induction over the places of a text, as the least place where   *)
(* it would fail (UpTo).  Splitting then undoes joining (SplitOfJoined),   *)
(* and the rest is a case for each kind of event (MetaAgrees) and that an  *)
(* update goes to the row it was read from (OwnMetas).                     *)
(***************************************************************************)
EXTENDS Migrate, FiniteSetTheorems, SequenceTheorems, WellFoundedInduction, TLAPS

-----------------------------------------------------------------------------
(* Texts: what is joined with a separator is split where it was joined.     *)

\* A non-empty set of numbers has a least one.
LEMMA LeastNumber ==
  ASSUME NEW T \in SUBSET Nat, T # {}
  PROVE  \E x \in T : \A y \in T : x <= y
<1>1. \E x \in T : \A y \in T : ~(<<y, x>> \in OpToRel(<, Nat))
  BY NatLessThanWellFounded, WFMin, Zenon
<1>2. \E x \in T : \A y \in T : ~(y < x)
  BY <1>1, Zenon DEF OpToRel
<1>3. QED
  BY <1>2

\* m steps from a first value.
Repeats(g, m, V, init, step) ==
  g \in [0..m -> V] /\ g[0] = init /\ \A i \in 1..m : g[i] = step[i][g[i - 1]]

\* Induction up to some number, over a set.
LEMMA UpTo ==
  ASSUME NEW m \in Nat, NEW S, 0 \in S, \A k \in 0..m : k < m /\ k \in S => k + 1 \in S
  PROVE  0..m \subseteq S
<1> DEFINE Bad == (0..m) \ S
<1>1. SUFFICES ASSUME Bad # {}
               PROVE  FALSE
  OBVIOUS
<1>2. Bad \in SUBSET Nat
  OBVIOUS
<1> HIDE DEF Bad
<1>3. PICK b \in Bad : \A y \in Bad : b <= y
  BY <1>1, <1>2, LeastNumber
<1> USE DEF Bad
<1>4. b # 0 /\ b \in 1..m /\ b \notin S
  BY <1>3
<1>5. b - 1 \in S /\ b - 1 \in 0..m
  BY <1>3, <1>4
<1>6. (b - 1) + 1 \in S
  BY <1>4, <1>5
<1>7. QED
  BY <1>4, <1>6

\* A step that can be made from any value can be repeated m times: there is no least number
\* of repetitions that fails.
LEMMA RecursionExists ==
  ASSUME NEW m \in Nat, NEW V, NEW init \in V, NEW step \in [1..m -> [V -> V]]
  PROVE  \E g : Repeats(g, m, V, init, step)
<1> DEFINE Good(k) == \E g \in [0..k -> V] : g[0] = init /\ \A i \in 1..k : g[i] = step[i][g[i - 1]]
<1>1. Good(0)
  <2> DEFINE g == [i \in 0..0 |-> init]
  <2>1. g \in [0..0 -> V] /\ g[0] = init /\ \A i \in 1..0 : g[i] = step[i][g[i - 1]]
    OBVIOUS
  <2>2. QED
    BY <2>1
<1>2. ASSUME NEW k \in 0..m, k < m, Good(k)
      PROVE  Good(k + 1)
  <2>1. PICK g \in [0..k -> V] : g[0] = init /\ \A i \in 1..k : g[i] = step[i][g[i - 1]]
    BY <1>2
  <2> DEFINE h == [i \in 0..(k + 1) |-> IF i = k + 1 THEN step[k + 1][g[k]] ELSE g[i]]
  <2>2. g[k] \in V /\ k + 1 \in 1..m
    BY <1>2, <2>1
  <2>3. step[k + 1][g[k]] \in V
    BY <2>2
  <2>4. h \in [0..(k + 1) -> V]
    BY <2>1, <2>3
  <2>5. h[0] = init
    BY <2>1
  <2>6. \A i \in 1..(k + 1) : h[i] = step[i][h[i - 1]]
    BY <2>1
  <2>7. QED
    BY <2>4, <2>5, <2>6
<1> HIDE DEF Good
<1> DEFINE S == {k \in 0..m : Good(k)}
<1>3. 0 \in S /\ \A k \in 0..m : k < m /\ k \in S => k + 1 \in S
  BY <1>1, <1>2
<1> HIDE DEF S
<1>4. 0..m \subseteq S
  BY <1>3, UpTo
<1>5. m \in S
  BY <1>4
<1> USE DEF S
<1>6. Good(m)
  BY <1>5
<1>7. QED
  BY <1>6 DEF Good, Repeats

-----------------------------------------------------------------------------
\* One step of SplitN.
Further(parts, token, sep, n) ==
  IF token = sep /\ Len(parts) < n THEN Append(parts, <<>>)
  ELSE [parts EXCEPT ![Len(parts)] = Append(@, token)]

Splitting(g, T, text, sep, n) ==
  /\ g \in [0..Len(text) -> Seq(Seq(T)) \ {<<>>}]
  /\ g[0] = << <<>> >>
  /\ \A i \in 1..Len(text) : g[i] = Further(g[i - 1], text[i], sep, n)

\* A step of SplitN on parts yields parts, and begins at most one.
LEMMA FurtherType ==
  ASSUME NEW T, NEW parts \in Seq(Seq(T)) \ {<<>>}, NEW token \in T, NEW sep, NEW n \in Nat
  PROVE  /\ Further(parts, token, sep, n) \in Seq(Seq(T)) \ {<<>>}
         /\ Len(Further(parts, token, sep, n)) =
              IF token = sep /\ Len(parts) < n THEN Len(parts) + 1 ELSE Len(parts)
<1>1. Len(parts) \in 1..Len(parts) /\ Len(parts) \in Nat
  OBVIOUS
<1>2. parts[Len(parts)] \in Seq(T)
  BY <1>1
<1>3. Append(parts[Len(parts)], token) \in Seq(T)
  BY <1>2
<1>4. [parts EXCEPT ![Len(parts)] = Append(@, token)] \in Seq(Seq(T))
  BY <1>1, <1>3
<1>5. Len([parts EXCEPT ![Len(parts)] = Append(@, token)]) = Len(parts)
  OBVIOUS
<1>6. Append(parts, <<>>) \in Seq(Seq(T)) /\ Len(Append(parts, <<>>)) = Len(parts) + 1
  <2>1. <<>> \in Seq(T)
    OBVIOUS
  <2>2. QED
    BY <2>1
<1>7. QED
  BY <1>1, <1>4, <1>5, <1>6 DEF Further

\* There are such steps for every text.
LEMMA SplittingExists ==
  ASSUME NEW T, NEW text \in Seq(T), NEW sep, NEW n \in Nat \ {0}
  PROVE  \E g : Splitting(g, T, text, sep, n)
<1> DEFINE V == Seq(Seq(T)) \ {<<>>}
           m == Len(text)
           step == [i \in 1..m |-> [p \in V |-> Further(p, text[i], sep, n)]]
<1>1. m \in Nat /\ << <<>> >> \in V
  <2>1. <<>> \in Seq(T)
    OBVIOUS
  <2>2. << <<>> >> \in Seq(Seq(T)) /\ << <<>> >> # <<>>
    BY <2>1
  <2>3. QED
    BY <2>2
<1>2. \A p \in V, i \in 1..m : Further(p, text[i], sep, n) \in V
  BY FurtherType
<1>3. step \in [1..m -> [V -> V]]
  BY <1>2
<1>4. \A p \in V, i \in 1..m : step[i][p] = Further(p, text[i], sep, n)
  OBVIOUS
<1> HIDE DEF step, V, m
<1>5. \A base \in V, st \in [1..m -> [V -> V]] :
        \E g : Repeats(g, m, V, base, st)
  BY <1>1, RecursionExists
<1>6. PICK g \in [0..m -> V] : g[0] = << <<>> >> /\ \A i \in 1..m : g[i] = step[i][g[i - 1]]
  BY <1>1, <1>3, <1>5 DEF Repeats
<1>7. \A i \in 1..m : g[i - 1] \in V
  <2>1. \A i \in 1..m : i - 1 \in 0..m
    BY <1>1
  <2>2. QED
    BY <1>6, <2>1
<1>8. \A i \in 1..m : g[i] = Further(g[i - 1], text[i], sep, n)
  BY <1>4, <1>6, <1>7
<1>9. QED
  BY <1>6, <1>8 DEF Splitting, V, m

\* How many separators there are up to some place.
Seps(text, sep, i) == Cardinality({j \in 1..i : text[j] = sep})

\* A place adds one separator or none.
LEMMA SepsCounted ==
  \A text, sep :
    /\ Seps(text, sep, 0) = 0
    /\ \A i \in Nat :
         /\ Seps(text, sep, i) \in Nat
         /\ text[i + 1] = sep => Seps(text, sep, i + 1) = Seps(text, sep, i) + 1
         /\ text[i + 1] # sep => Seps(text, sep, i + 1) = Seps(text, sep, i)
<1> TAKE text, sep
<1> DEFINE seps(k) == {j \in 1..k : text[j] = sep}
<1>1. Seps(text, sep, 0) = 0
  <2>1. {j \in 1..0 : text[j] = sep} = {}
    OBVIOUS
  <2>2. QED
    BY <2>1, FS_EmptySet DEF Seps
<1> SUFFICES ASSUME NEW i \in Nat
             PROVE  /\ Seps(text, sep, i) \in Nat
                    /\ text[i + 1] = sep => Seps(text, sep, i + 1) = Seps(text, sep, i) + 1
                    /\ text[i + 1] # sep => Seps(text, sep, i + 1) = Seps(text, sep, i)
  BY <1>1
<1>2. IsFiniteSet(seps(i)) /\ Cardinality(seps(i)) \in Nat
  <2>1. IsFiniteSet(1..i)
    BY FS_Interval
  <2>2. IsFiniteSet(seps(i))
    BY <2>1, FS_Subset
  <2>3. QED
    BY <2>2, FS_CardinalityType
<1>3. CASE text[i + 1] = sep
  <2>1. seps(i + 1) = seps(i) \cup {i + 1} /\ i + 1 \notin seps(i)
    BY <1>3
  <2> HIDE DEF seps
  <2>2. Cardinality(seps(i + 1)) = Cardinality(seps(i)) + 1
    BY <1>2, <2>1, FS_AddElement
  <2> USE DEF seps
  <2>3. QED
    BY <1>1, <1>2, <1>3, <2>2 DEF Seps
<1>4. CASE text[i + 1] # sep
  <2>1. seps(i + 1) = seps(i)
    BY <1>4
  <2>2. QED
    BY <1>1, <1>2, <1>4, <2>1 DEF Seps
<1>5. QED
  BY <1>3, <1>4

Smaller(n, c) == Min({n, c})

\* The library's least number, of two.
LEMMA MinOfTwo ==
  ASSUME NEW n \in Nat, NEW c \in Nat
  PROVE  Smaller(n, c) = IF n < c THEN n ELSE c
BY DEF Smaller, Min

\* The number of parts so far is one more than that of the separators, up to the limit.
LEMMA SplittingCounts ==
  ASSUME NEW T, NEW text \in Seq(T), NEW sep, NEW n \in Nat \ {0}, NEW g,
         Splitting(g, T, text, sep, n)
  PROVE  \A i \in 0..Len(text) : Len(g[i]) = Smaller(n, Seps(text, sep, i) + 1)
<1> DEFINE m == Len(text)
           parts(k) == IF n < Seps(text, sep, k) + 1 THEN n ELSE Seps(text, sep, k) + 1
           S == {k \in 0..m : Len(g[k]) = parts(k)}
<1>1. \A k \in 0..m : /\ Seps(text, sep, 0) = 0 /\ Seps(text, sep, k) \in Nat
                      /\ Seps(text, sep, k + 1) = IF text[k + 1] = sep
                                                  THEN Seps(text, sep, k) + 1
                                                  ELSE Seps(text, sep, k)
  <2>1. /\ Seps(text, sep, 0) = 0
        /\ \A k \in Nat :
             /\ Seps(text, sep, k) \in Nat
             /\ text[k + 1] = sep => Seps(text, sep, k + 1) = Seps(text, sep, k) + 1
             /\ text[k + 1] # sep => Seps(text, sep, k + 1) = Seps(text, sep, k)
    BY SepsCounted
  <2>2. \A k \in 0..m : k \in Nat
    OBVIOUS
  <2>3. QED
    BY <2>1, <2>2
<1>2. 0 \in S
  <2>1. Len(g[0]) = 1 /\ 0 \in 0..m /\ Seps(text, sep, 0) = 0
    BY <1>1 DEF Splitting
  <2>2. parts(0) = 1
    BY <2>1
  <2> HIDE DEF parts
  <2>3. QED
    BY <2>1, <2>2
<1>3. ASSUME NEW k \in 0..m, k < m, k \in S
      PROVE  k + 1 \in S
  <2>1. k + 1 \in 1..m /\ text[k + 1] \in T
    BY <1>3
  <2>2. g[k] \in Seq(Seq(T)) \ {<<>>}
    BY DEF Splitting
  <2>3. g[k] \in Seq(Seq(T)) \ {<<>>} /\ text[k + 1] \in T /\ k + 1 \in 1..m
    BY <2>1, <2>2
  <2>4. g[k + 1] = Further(g[k], text[k + 1], sep, n)
    BY <2>3 DEF Splitting
  <2>5. Len(g[k + 1]) = IF text[k + 1] = sep /\ Len(g[k]) < n THEN Len(g[k]) + 1 ELSE Len(g[k])
    BY <2>3, <2>4, FurtherType
  <2>6. Len(g[k + 1]) = parts(k + 1)
    BY <1>1, <1>3, <2>5
  <2>7. QED
    BY <2>3, <2>6
<1>4. m \in Nat
  OBVIOUS
<1> HIDE DEF S, m
<1>5. 0..m \subseteq S
  BY <1>4, <1>2, <1>3, UpTo
<1> USE DEF S
<1>6. ASSUME NEW i \in 0..m
      PROVE  Len(g[i]) = Smaller(n, Seps(text, sep, i) + 1)
  BY <1>1, <1>5, <1>6, MinOfTwo
<1>7. QED
  BY <1>6 DEF m

\* SplitN finds what its steps lead to.
LEMMA SplitIs ==
  ASSUME NEW T, NEW text \in Seq(T), NEW sep, NEW n \in Nat \ {0}, NEW g,
         Splitting(g, T, text, sep, n)
  PROVE  SplitN(text, sep, n) = g[Len(text)]
<1>1. \A i \in 0..Len(text) : Len(g[i]) = Smaller(n, Seps(text, sep, i) + 1)
  BY SplittingCounts
<1> DEFINE last(i) == Min({n, Cardinality({j \in 1..(i - 1) : text[j] = sep}) + 1})
           F(f) == [i \in 0..Len(text) |->
                      IF i = 0 THEN << <<>> >>
                      ELSE IF text[i] = sep /\ last(i) < n THEN Append(f[i - 1], <<>>)
                      ELSE [f[i - 1] EXCEPT ![last(i)] = Append(@, text[i])]]
<1>2. SplitN(text, sep, n) = (CHOOSE f : f = F(f))[Len(text)]
  BY Zenon DEF SplitN
<1>3. \A i \in 1..Len(text) : last(i) = Len(g[i - 1])
  <2>1. \A i \in 0..Len(text) : Len(g[i]) = Smaller(n, Seps(text, sep, i) + 1)
    BY <1>1
  <2>2. \A i \in 1..Len(text) : i - 1 \in 0..Len(text)
    OBVIOUS
  <2>3. QED
    BY <2>1, <2>2 DEF Seps, Smaller
<1> HIDE DEF last
<1>4. g = F(g)
  <2>1. g = [i \in 0..Len(text) |-> g[i]]
    BY DEF Splitting
  <2>2. ASSUME NEW i \in 1..Len(text)
        PROVE  g[i] = F(g)[i]
    <3>1. g[i] = Further(g[i - 1], text[i], sep, n) /\ last(i) = Len(g[i - 1])
      BY <1>3 DEF Splitting
    <3>2. i # 0 /\ i \in 0..Len(text)
      OBVIOUS
    <3>3. F(g)[i] = IF text[i] = sep /\ last(i) < n THEN Append(g[i - 1], <<>>)
                    ELSE [g[i - 1] EXCEPT ![last(i)] = Append(@, text[i])]
      BY <3>2
    <3>4. QED
      BY <3>1, <3>3 DEF Further
  <2>3. g[0] = F(g)[0]
    BY DEF Splitting
  <2>4. \A i \in 0..Len(text) : i = 0 \/ i \in 1..Len(text)
    OBVIOUS
  <2>5. QED
    BY <2>1, <2>2, <2>3, <2>4
<1> DEFINE c == CHOOSE f : f = F(f)
<1>5. c = F(c)
  BY <1>4, Zenon
<1> HIDE DEF c
<1>6. c[0] = g[0]
  BY <1>5 DEF Splitting
<1>7. ASSUME NEW k \in 0..Len(text), k < Len(text), c[k] = g[k]
      PROVE  c[k + 1] = g[k + 1]
  <2>1. c[k + 1] = F(c)[k + 1] /\ g[k + 1] = F(g)[k + 1]
    BY <1>4, <1>5, Zenon
  <2>2. k + 1 \in 0..Len(text) /\ (k + 1) - 1 = k
    BY <1>7
  <2>3. F(c)[k + 1] = F(g)[k + 1]
    BY <1>7, <2>2
  <2>4. QED
    BY <2>1, <2>3
<1> DEFINE S == {k \in 0..Len(text) : c[k] = g[k]}
<1>8. 0 \in S /\ \A k \in 0..Len(text) : k < Len(text) /\ k \in S => k + 1 \in S
  BY <1>6, <1>7
<1> HIDE DEF S
<1>9. 0..Len(text) \subseteq S
  <2>1. Len(text) \in Nat
    OBVIOUS
  <2>2. QED
    BY <1>8, <2>1, UpTo
<1>10. c[Len(text)] = g[Len(text)]
  BY <1>9 DEF S
<1>11. QED
  BY <1>2, <1>10 DEF c

\* SplitN yields at least one part.
LEMMA SplitType ==
  ASSUME NEW T, NEW text \in Seq(T), NEW sep, NEW n \in Nat \ {0}
  PROVE  SplitN(text, sep, n) \in Seq(Seq(T)) \ {<<>>}
<1>1. PICK g : Splitting(g, T, text, sep, n)
  BY SplittingExists
<1>2. SplitN(text, sep, n) = g[Len(text)]
  BY <1>1, SplitIs
<1>3. Len(text) \in 0..Len(text)
  OBVIOUS
<1>4. QED
  BY <1>1, <1>2, <1>3 DEF Splitting

\* An empty text is one empty part.
LEMMA SplitEmpty ==
  ASSUME NEW T, NEW sep, NEW n \in Nat \ {0}
  PROVE  SplitN(<<>>, sep, n) = << <<>> >>
<1>1. <<>> \in Seq(T) /\ Len(<<>>) = 0
  OBVIOUS
<1>2. PICK g : Splitting(g, T, <<>>, sep, n)
  BY <1>1, SplittingExists
<1>3. SplitN(<<>>, sep, n) = g[Len(<<>>)]
  <2>1. \A text \in Seq(T) : Splitting(g, T, text, sep, n) => SplitN(text, sep, n) = g[Len(text)]
    BY SplitIs
  <2>2. QED
    BY <1>1, <1>2, <2>1
<1>4. QED
  BY <1>1, <1>2, <1>3 DEF Splitting

\* One more token.
LEMMA SplitAppend ==
  ASSUME NEW T, NEW text \in Seq(T), NEW token \in T, NEW sep, NEW n \in Nat \ {0}
  PROVE  SplitN(Append(text, token), sep, n) = Further(SplitN(text, sep, n), token, sep, n)
<1> DEFINE longer == Append(text, token)
           m == Len(text)
<1>1. /\ longer \in Seq(T) /\ Len(longer) = m + 1 /\ m \in Nat
      /\ \A i \in 1..m : longer[i] = text[i]
      /\ longer[m + 1] = token
  OBVIOUS
<1> HIDE DEF longer
<1>2. PICK g : Splitting(g, T, longer, sep, n)
  BY <1>1, SplittingExists
<1> DEFINE h == [i \in 0..m |-> g[i]]
<1>3. Splitting(h, T, text, sep, n)
  <2>1. h \in [0..m -> Seq(Seq(T)) \ {<<>>}]
    BY <1>1, <1>2 DEF Splitting
  <2>2. h[0] = << <<>> >>
    BY <1>1, <1>2 DEF Splitting
  <2>3. ASSUME NEW i \in 1..m
        PROVE  h[i] = Further(h[i - 1], text[i], sep, n)
    <3>1. i \in 1..(m + 1) /\ i \in 0..m /\ i - 1 \in 0..m
      BY <1>1
    <3>2. g[i] = Further(g[i - 1], longer[i], sep, n)
      BY <1>1, <1>2, <3>1 DEF Splitting
    <3>3. longer[i] = text[i] /\ h[i] = g[i] /\ h[i - 1] = g[i - 1]
      BY <1>1, <3>1
    <3> HIDE DEF h
    <3>4. QED
      BY <3>2, <3>3
  <2>4. QED
    BY <2>1, <2>2, <2>3 DEF Splitting
<1>4. SplitN(text, sep, n) = h[m]
  BY <1>3, SplitIs
<1>5. SplitN(longer, sep, n) = g[m + 1]
  BY <1>1, <1>2, SplitIs
<1>6. g[m + 1] = Further(g[m], token, sep, n)
  <2>1. m + 1 \in 1..(m + 1) /\ (m + 1) - 1 = m
    BY <1>1
  <2>2. g[m + 1] = Further(g[(m + 1) - 1], longer[m + 1], sep, n)
    BY <1>1, <1>2, <2>1 DEF Splitting
  <2>3. QED
    BY <1>1, <2>1, <2>2
<1>7. h[m] = g[m]
  BY <1>1
<1>8. QED
  BY <1>4, <1>5, <1>6, <1>7 DEF longer

\* Appending to the second of two texts.
LEMMA AppendOfConcat ==
  ASSUME NEW T, NEW s \in Seq(T), NEW t \in Seq(T), NEW token \in T
  PROVE  Append(s \o t, token) = s \o Append(t, token) /\ s \o t \in Seq(T)
<1>1. s \o t \in Seq(T) /\ <<token>> \in Seq(T)
  BY ConcatProperties
<1>2. Append(s \o t, token) = (s \o t) \o <<token>>
  BY <1>1, AppendIsConcat
<1>3. Append(t, token) = t \o <<token>>
  BY AppendIsConcat
<1>4. (s \o t) \o <<token>> = s \o (t \o <<token>>)
  BY <1>1, ConcatAssociative
<1>5. QED
  BY <1>1, <1>2, <1>3, <1>4

\* The parts, the last of them made longer.
Longer(parts, text) == [parts EXCEPT ![Len(parts)] = @ \o text]

\* Making the last part longer adds no part.
LEMMA LongerFacts ==
  ASSUME NEW T, NEW parts \in Seq(Seq(T)) \ {<<>>}, NEW text \in Seq(T)
  PROVE  /\ Longer(parts, text) \in Seq(Seq(T)) \ {<<>>}
         /\ Len(Longer(parts, text)) = Len(parts)
         /\ Longer(parts, <<>>) = parts
<1>1. Len(parts) \in 1..Len(parts) /\ Len(parts) \in Nat /\ parts[Len(parts)] \in Seq(T)
  OBVIOUS
<1>2. parts[Len(parts)] \o text \in Seq(T)
  BY <1>1
<1>3. parts[Len(parts)] \o <<>> = parts[Len(parts)]
  BY <1>1, ConcatEmptySeq
<1>4. QED
  BY <1>1, <1>2, <1>3 DEF Longer

\* A token that begins no part makes the last one longer.
LEMMA FurtherLonger ==
  ASSUME NEW T, NEW parts \in Seq(Seq(T)) \ {<<>>}, NEW text \in Seq(T), NEW token \in T,
         NEW sep, NEW n \in Nat, token # sep \/ Len(parts) >= n
  PROVE  Further(Longer(parts, text), token, sep, n) = Longer(parts, Append(text, token))
<1> DEFINE l == Len(parts)
<1>1. l \in 1..l /\ l \in Nat /\ parts[l] \in Seq(T)
  OBVIOUS
<1>2. Len(Longer(parts, text)) = l
  BY LongerFacts
<1>3. Further(Longer(parts, text), token, sep, n)
        = [Longer(parts, text) EXCEPT ![l] = Append(@, token)]
  BY <1>1, <1>2 DEF Further
<1>4. Append(parts[l] \o text, token) = parts[l] \o Append(text, token)
  <2> DEFINE p == parts[l]
  <2>1. p \in Seq(T)
    BY <1>1
  <2> HIDE DEF p
  <2>2. Append(p \o text, token) = p \o Append(text, token)
    <3>1. \A a \in Seq(T), b \in Seq(T), x \in T :
            Append(a \o b, x) = a \o Append(b, x) /\ a \o b \in Seq(T)
      BY AppendOfConcat
    <3>2. QED
      BY <2>1, <3>1
  <2>3. QED
    BY <2>2 DEF p
<1>5. QED
  BY <1>1, <1>3, <1>4 DEF Longer

\* More text without a separator, or after the limit.
LEMMA SplitMore ==
  ASSUME NEW T, NEW t \in Seq(T), NEW u \in Seq(T), NEW sep, NEW n \in Nat \ {0},
         sep \notin Range(u) \/ Len(SplitN(t, sep, n)) >= n
  PROVE  SplitN(t \o u, sep, n) = Longer(SplitN(t, sep, n), u)
<1> DEFINE P == SplitN(t, sep, n)
           m == Len(u)
           v(k) == SubSeq(u, 1, k)
           S == {k \in 0..m : SplitN(t \o v(k), sep, n) = Longer(P, v(k))}
<1>1. P \in Seq(Seq(T)) \ {<<>>} /\ m \in Nat
  BY SplitType
<1> HIDE DEF P
<1>2. 0 \in S
  <2>1. v(0) = <<>>
    BY SubSeqEmpty
  <2>2. t \o <<>> = t
    BY ConcatEmptySeq
  <2>3. Longer(P, <<>>) = P
    BY <1>1, LongerFacts
  <2>4. SplitN(t \o v(0), sep, n) = Longer(P, v(0))
    BY <2>1, <2>2, <2>3 DEF P
  <2> HIDE DEF v
  <2>5. QED
    BY <1>1, <2>4
<1>3. ASSUME NEW k \in 0..m, k < m, k \in S
      PROVE  k + 1 \in S
  <2>1. k + 1 \in 1..m /\ u[k + 1] \in T
    BY <1>1, <1>3
  <2>2. v(k) \in Seq(T)
    BY <1>3
  <2>3. v(k + 1) = Append(v(k), u[k + 1])
    BY <1>3, <2>1
  <2> HIDE DEF v
  <2>4. t \o v(k + 1) = Append(t \o v(k), u[k + 1]) /\ t \o v(k) \in Seq(T)
    <3>1. \A a \in Seq(T), b \in Seq(T), x \in T :
            Append(a \o b, x) = a \o Append(b, x) /\ a \o b \in Seq(T)
      BY AppendOfConcat
    <3>2. t \o v(k) \in Seq(T) /\ Append(t \o v(k), u[k + 1]) = t \o Append(v(k), u[k + 1])
      BY <2>1, <2>2, <3>1, Zenon
    <3>3. QED
      BY <2>3, <3>2, Zenon
  <2>5. SplitN(t \o v(k + 1), sep, n) = Further(SplitN(t \o v(k), sep, n), u[k + 1], sep, n)
    <3>1. \A text \in Seq(T), token \in T :
            SplitN(Append(text, token), sep, n) = Further(SplitN(text, sep, n), token, sep, n)
      BY SplitAppend
    <3>2. QED
      BY <2>1, <2>4, <3>1
  <2>6. SplitN(t \o v(k), sep, n) = Longer(P, v(k))
    BY <1>3
  <2>7. u[k + 1] # sep \/ Len(P) >= n
    BY <2>1 DEF Range, P
  <2>8. Further(Longer(P, v(k)), u[k + 1], sep, n) = Longer(P, v(k + 1))
    <3>1. \A text \in Seq(T), token \in T :
            token # sep \/ Len(P) >= n
              => Further(Longer(P, text), token, sep, n) = Longer(P, Append(text, token))
      BY <1>1, FurtherLonger
    <3>2. QED
      BY <2>1, <2>2, <2>3, <2>7, <3>1
  <2>9. QED
    BY <2>1, <2>5, <2>6, <2>8
<1> HIDE DEF S
<1>4. 0..m \subseteq S
  BY <1>1, <1>2, <1>3, UpTo
<1> USE DEF S
<1>6. v(m) = u
  BY SubSeqFull
<1> HIDE DEF v, m
<1>5. SplitN(t \o v(m), sep, n) = Longer(P, v(m))
  BY <1>1, <1>4
<1>7. QED
  BY <1>5, <1>6 DEF P

-----------------------------------------------------------------------------
\* The texts joined so far.
Joining(g, texts, sep) ==
  /\ DOMAIN g = 0..Len(texts)
  /\ g[0] = <<>>
  /\ \A i \in 1..Len(texts) :
       g[i] = IF i = 1 THEN texts[1] ELSE g[i - 1] \o <<sep>> \o texts[i]

\* Joined finds what its steps lead to.
LEMMA JoinedIs ==
  ASSUME NEW T, NEW texts \in Seq(Seq(T)), NEW sep \in T
  PROVE  \E g : Joining(g, texts, sep) /\ Joined(texts, sep) = g[Len(texts)]
<1> DEFINE m == Len(texts)
           V == Seq(T)
           step == [i \in 1..m |-> [v \in V |->
                      IF i = 1 THEN texts[1] ELSE v \o <<sep>> \o texts[i]]]
           F(f) == [k \in 0..Len(texts) |->
                      IF k = 0 THEN <<>>
                      ELSE IF k = 1 THEN texts[1]
                      ELSE f[k - 1] \o <<sep>> \o texts[k]]
           c == CHOOSE f : f = F(f)
<1>1. Joined(texts, sep) = c[Len(texts)]
  BY Zenon DEF Joined
<1>2. m \in Nat /\ <<>> \in V
  OBVIOUS
<1>3. \A v \in V, i \in 1..m : (IF i = 1 THEN texts[1] ELSE v \o <<sep>> \o texts[i]) \in V
  <2>1. \A i \in 1..m : texts[i] \in Seq(T)
    OBVIOUS
  <2>2. \A v \in V, w \in V : v \o <<sep>> \o w \in V
    <3>1. <<sep>> \in Seq(T)
      OBVIOUS
    <3>2. QED
      BY <3>1, ConcatProperties
  <2>3. QED
    BY <2>1, <2>2
<1>4. step \in [1..m -> [V -> V]]
  BY <1>3
<1>5. \A v \in V, i \in 1..m :
        step[i][v] = IF i = 1 THEN texts[1] ELSE v \o <<sep>> \o texts[i]
  OBVIOUS
<1> HIDE DEF step, V, m
<1>6. \A base \in V, st \in [1..m -> [V -> V]] : \E g : Repeats(g, m, V, base, st)
  BY <1>2, RecursionExists
<1>7. PICK g : Repeats(g, m, V, <<>>, step)
  BY <1>2, <1>4, <1>6
<1>8. /\ g \in [0..m -> V] /\ g[0] = <<>>
      /\ \A i \in 1..m : g[i] = IF i = 1 THEN texts[1] ELSE g[i - 1] \o <<sep>> \o texts[i]
  <2>1. \A i \in 1..m : i - 1 \in 0..m
    BY <1>2
  <2>2. QED
    BY <1>5, <1>7, <2>1 DEF Repeats
<1>9. g = F(g)
  <2>1. g = [k \in 0..m |-> g[k]]
    BY <1>8
  <2>2. ASSUME NEW k \in 0..m
        PROVE  g[k] = F(g)[k]
    <3>1. k = 0 \/ k \in 1..m
      BY <1>2
    <3>2. QED
      BY <1>2, <1>8, <3>1 DEF m
  <2> HIDE DEF F
  <2>3. DOMAIN F(g) = 0..m /\ F(g) = [k \in 0..m |-> F(g)[k]]
    BY DEF F, m
  <2>4. QED
    BY <2>1, <2>2, <2>3
<1>10. c = F(c)
  BY <1>9, Zenon
<1> HIDE DEF c
<1>11. Joining(c, texts, sep)
  <2>1. DOMAIN c = 0..Len(texts) /\ c[0] = <<>>
    BY <1>2, <1>10 DEF m
  <2>2. ASSUME NEW i \in 1..Len(texts)
        PROVE  c[i] = IF i = 1 THEN texts[1] ELSE c[i - 1] \o <<sep>> \o texts[i]
    <3>1. c[i] = F(c)[i]
      BY <1>10, Zenon
    <3>2. i \in 0..Len(texts) /\ i # 0
      OBVIOUS
    <3>3. F(c)[i] = IF i = 1 THEN texts[1] ELSE c[i - 1] \o <<sep>> \o texts[i]
      BY <3>2
    <3>4. QED
      BY <3>1, <3>3
  <2>3. QED
    BY <2>1, <2>2 DEF Joining
<1>12. QED
  BY <1>1, <1>11

\* The text joined up to some place: long enough, made of the texts and the separator,
\* and begun by the first text or, where that is empty, the separator.
Starts(text, first, sep) ==
  /\ first # <<>> => text # <<>>
  /\ text # <<>> => text[1] = IF first # <<>> THEN first[1] ELSE sep
MadeOf(text, texts, sep) ==
  \A j \in 1..Len(text) : text[j] = sep \/ \E k \in 1..Len(texts) : text[j] \in Range(texts[k])

IsGlued(t, a, sep, b) ==
  /\ t = a \o <<sep>> \o b
  /\ Len(t) = Len(a) + 1 + Len(b)
  /\ \A j \in 1..Len(a) : t[j] = a[j]
  /\ t[Len(a) + 1] = sep
  /\ \A j \in 1..Len(b) : t[Len(a) + 1 + j] = b[j]

\* Two texts and a separator, place by place.
LEMMA Glued ==
  ASSUME NEW T, NEW a \in Seq(T), NEW b \in Seq(T), NEW sep \in T
  PROVE  \E t \in Seq(T) : IsGlued(t, a, sep, b)
<1>1. <<sep>> \in Seq(T) /\ Len(<<sep>>) = 1 /\ Len(a) \in Nat /\ Len(b) \in Nat
  OBVIOUS
<1>2. PICK as : /\ as = a \o <<sep>> /\ as \in Seq(T) /\ Len(as) = Len(a) + 1
                /\ \A j \in 1..(Len(a) + 1) : as[j] = IF j <= Len(a) THEN a[j] ELSE sep
  <2>1. /\ a \o <<sep>> \in Seq(T) /\ Len(a \o <<sep>>) = Len(a) + 1
        /\ \A j \in 1..(Len(a) + 1) : (a \o <<sep>>)[j] = IF j <= Len(a) THEN a[j] ELSE sep
    BY <1>1, ConcatProperties
  <2>2. QED
    BY <2>1
<1>3. PICK t : /\ t = as \o b /\ t \in Seq(T) /\ Len(t) = Len(as) + Len(b)
               /\ \A j \in 1..(Len(as) + Len(b)) :
                    t[j] = IF j <= Len(as) THEN as[j] ELSE b[j - Len(as)]
  <2>1. /\ as \o b \in Seq(T) /\ Len(as \o b) = Len(as) + Len(b)
        /\ \A j \in 1..(Len(as) + Len(b)) :
             (as \o b)[j] = IF j <= Len(as) THEN as[j] ELSE b[j - Len(as)]
    BY <1>2, ConcatProperties
  <2>2. QED
    BY <2>1
<1>4. ASSUME NEW j \in 1..Len(a)
      PROVE  t[j] = a[j]
  <2>1. j \in 1..(Len(a) + 1) /\ j \in 1..(Len(as) + Len(b)) /\ j <= Len(a) /\ j <= Len(as)
    BY <1>1, <1>2
  <2>2. QED
    BY <1>2, <1>3, <2>1
<1>5. t[Len(a) + 1] = sep
  <2>1. Len(a) + 1 \in 1..(Len(a) + 1) /\ Len(a) + 1 \in 1..(Len(as) + Len(b))
        /\ ~(Len(a) + 1 <= Len(a)) /\ Len(a) + 1 <= Len(as)
    BY <1>1, <1>2
  <2>2. QED
    BY <1>2, <1>3, <2>1
<1>6. ASSUME NEW j \in 1..Len(b)
      PROVE  t[Len(a) + 1 + j] = b[j]
  <2>1. /\ Len(a) + 1 + j \in 1..(Len(as) + Len(b)) /\ ~(Len(a) + 1 + j <= Len(as))
        /\ (Len(a) + 1 + j) - Len(as) = j
    BY <1>1, <1>2
  <2>2. QED
    BY <1>3, <2>1
<1>7. t = a \o <<sep>> \o b /\ Len(t) = Len(a) + 1 + Len(b)
  BY <1>1, <1>2, <1>3
<1>8. QED
  BY <1>3, <1>4, <1>5, <1>6, <1>7 DEF IsGlued

\* What has been joined so far is begun by, and made of, the texts and the separator.
LEMMA JoiningFacts ==
  ASSUME NEW T, NEW texts \in Seq(Seq(T)), NEW sep \in T, NEW g, Joining(g, texts, sep)
  PROVE  \A i \in 1..Len(texts) :
           /\ g[i] \in Seq(T) /\ Len(g[i]) + 1 >= i
           /\ Starts(g[i], texts[1], sep)
           /\ MadeOf(g[i], texts, sep)
<1> DEFINE m == Len(texts)
           Fine(text, k) == /\ text \in Seq(T) /\ Len(text) + 1 >= k
                            /\ Starts(text, texts[1], sep) /\ MadeOf(text, texts, sep)
           S == {k \in 0..m : k = 0 \/ Fine(g[k], k)}
<1>1. m \in Nat /\ 0 \in S
  OBVIOUS
<1>2. ASSUME NEW k \in 0..m, k < m, k \in S
      PROVE  k + 1 \in S
  <2>1. k + 1 \in 1..m /\ 1 \in 1..m
    BY <1>2
  <2>2. texts[k + 1] \in Seq(T) /\ texts[1] \in Seq(T)
    BY <2>1
  <2>3. CASE k = 0
    <3>1. g[1] = texts[1]
      BY <2>1 DEF Joining
    <3>2. Starts(texts[1], texts[1], sep)
      BY DEF Starts
    <3>3. MadeOf(texts[1], texts, sep)
      BY <2>1, <2>2 DEF MadeOf, Range
    <3>4. Fine(g[1], 1)
      BY <2>2, <3>1, <3>2, <3>3
    <3>5. QED
      BY <2>1, <2>3, <3>4
  <2>4. CASE k # 0
    <3> DEFINE a == g[k]
               b == texts[k + 1]
    <3>1. Fine(a, k)
      BY <1>2, <2>4
    <3>2. b \in Seq(T) /\ b = texts[k + 1]
      BY <2>2
    <3>3. g[k + 1] = a \o <<sep>> \o b
      <4>1. k + 1 # 1 /\ (k + 1) - 1 = k
        BY <2>1, <2>4
      <4>2. g[k + 1] = IF k + 1 = 1 THEN texts[1] ELSE g[(k + 1) - 1] \o <<sep>> \o texts[k + 1]
        BY <2>1 DEF Joining
      <4>3. QED
        BY <4>1, <4>2
    <3> HIDE DEF a, b
    <3>4. PICK t \in Seq(T) : IsGlued(t, a, sep, b)
      BY <3>1, <3>2, Glued
    <3>5. /\ t = a \o <<sep>> \o b
          /\ Len(t) = Len(a) + 1 + Len(b)
          /\ \A j \in 1..Len(a) : t[j] = a[j]
          /\ t[Len(a) + 1] = sep
          /\ \A j \in 1..Len(b) : t[Len(a) + 1 + j] = b[j]
      BY <3>4 DEF IsGlued
    <3>6. Len(a) \in Nat /\ Len(b) \in Nat /\ Len(t) \in Nat
      BY <3>1, <3>2
    <3>7. Len(t) + 1 >= k + 1
      BY <3>1, <3>5, <3>6
    <3>8. Starts(t, texts[1], sep)
      <4>1. t # <<>>
        BY <3>5, <3>6
      <4>2. CASE a = <<>>
        <5>1. Len(a) = 0
          BY <4>2
        <5>2. t[1] = sep
          BY <3>5, <5>1
        <5>3. texts[1] = <<>>
          BY <3>1, <4>2 DEF Starts
        <5>4. QED
          BY <4>1, <5>2, <5>3 DEF Starts
      <4>3. CASE a # <<>>
        <5>1. 1 \in 1..Len(a)
          BY <3>1, <3>6, <4>3
        <5>2. t[1] = a[1]
          BY <3>5, <5>1
        <5>3. QED
          BY <3>1, <4>1, <4>3, <5>2 DEF Starts
      <4>4. QED
        BY <4>2, <4>3
    <3>9. MadeOf(t, texts, sep)
      <4>1. SUFFICES ASSUME NEW j \in 1..Len(t)
                     PROVE  t[j] = sep \/ \E i \in 1..Len(texts) : t[j] \in Range(texts[i])
        BY DEF MadeOf
      <4>2. CASE j \in 1..Len(a)
        <5>1. t[j] = a[j]
          BY <3>5, <4>2
        <5>2. a[j] = sep \/ \E i \in 1..Len(texts) : a[j] \in Range(texts[i])
          BY <3>1, <4>2 DEF MadeOf
        <5>3. QED
          BY <5>1, <5>2
      <4>3. CASE j = Len(a) + 1
        BY <3>5, <4>3
      <4>4. ASSUME NEW i \in 1..Len(b), j = Len(a) + 1 + i
            PROVE  \E l \in 1..Len(texts) : t[j] \in Range(texts[l])
        <5>1. t[j] = b[i]
          BY <3>5, <4>4
        <5>2. t[j] \in Range(b)
          BY <3>2, <5>1 DEF Range
        <5>3. QED
          BY <2>1, <3>2, <5>2
      <4>5. j \in 1..Len(a) \/ j = Len(a) + 1 \/ \E i \in 1..Len(b) : j = Len(a) + 1 + i
        <5>1. j \in 1..(Len(a) + 1 + Len(b))
          BY <3>5
        <5>2. CASE j > Len(a) + 1
          <6>1. j - (Len(a) + 1) \in 1..Len(b) /\ j = Len(a) + 1 + (j - (Len(a) + 1))
            BY <3>6, <5>1, <5>2
          <6>2. QED
            BY <6>1
        <5>3. CASE j <= Len(a)
          <6>1. j \in 1..Len(a)
            BY <3>6, <5>1, <5>3
          <6>2. QED
            BY <6>1
        <5>4. j > Len(a) + 1 \/ j <= Len(a) \/ j = Len(a) + 1
          BY <3>6, <5>1
        <5>5. QED
          BY <5>2, <5>3, <5>4
      <4>6. QED
        BY <4>2, <4>3, <4>4, <4>5
    <3>10. g[k + 1] = t /\ Fine(t, k + 1)
      BY <3>3, <3>5, <3>7, <3>8, <3>9
    <3> HIDE DEF Fine
    <3>11. QED
      BY <2>1, <3>10
  <2>5. QED
    BY <2>3, <2>4
<1> HIDE DEF S
<1>3. 0..m \subseteq S
  BY <1>1, <1>2, UpTo
<1>4. QED
  BY <1>3 DEF S

\* A part begun and then made longer is a part appended.
LEMMA LongerAppend ==
  ASSUME NEW T, NEW parts \in Seq(Seq(T)), NEW text \in Seq(T)
  PROVE  Longer(Append(parts, <<>>), text) = Append(parts, text)
<1>1. <<>> \in Seq(T) /\ Len(parts) \in Nat
  OBVIOUS
<1>2. /\ Len(Append(parts, <<>>)) = Len(parts) + 1
      /\ Append(parts, <<>>)[Len(parts) + 1] = <<>>
  BY <1>1
<1>3. <<>> \o text = text
  BY ConcatEmptySeq
<1> DEFINE p == Append(parts, <<>>)
<1>4. p \in Seq(Seq(T)) /\ Append(parts, text) \in Seq(Seq(T))
  BY <1>1
<1>5. \A i \in 1..Len(parts) : p[i] = parts[i] /\ Append(parts, text)[i] = parts[i]
  OBVIOUS
<1>6. Append(parts, text)[Len(parts) + 1] = text /\ Len(Append(parts, text)) = Len(parts) + 1
  BY <1>1
<1> HIDE DEF p
<1>7. Longer(p, text) = [p EXCEPT ![Len(parts) + 1] = text]
  BY <1>2, <1>3 DEF Longer, p
<1>8. /\ Longer(p, text) \in Seq(Seq(T)) /\ Len(Longer(p, text)) = Len(parts) + 1
      /\ \A i \in 1..(Len(parts) + 1) :
           Longer(p, text)[i] = IF i = Len(parts) + 1 THEN text ELSE p[i]
  <2>1. Len(parts) + 1 \in 1..Len(p) /\ Len(p) = Len(parts) + 1
    BY <1>1, <1>2 DEF p
  <2>2. /\ [p EXCEPT ![Len(parts) + 1] = text] \in Seq(Seq(T))
        /\ Len([p EXCEPT ![Len(parts) + 1] = text]) = Len(p)
        /\ \A j \in 1..Len(p) : [p EXCEPT ![Len(parts) + 1] = text][j]
                                = IF j = Len(parts) + 1 THEN text ELSE p[j]
    BY <1>4, <2>1, ExceptSeq
  <2>3. QED
    BY <1>7, <2>1, <2>2
<1>9. \A i \in 1..(Len(parts) + 1) : Longer(p, text)[i] = Append(parts, text)[i]
  <2>1. \A i \in 1..(Len(parts) + 1) : i = Len(parts) + 1 \/ i \in 1..Len(parts)
    BY <1>1
  <2>2. \A i \in 1..Len(parts) : i # Len(parts) + 1 /\ i \in 1..(Len(parts) + 1)
    BY <1>1
  <2>3. \A i \in 1..Len(parts) : Longer(p, text)[i] = Append(parts, text)[i]
    BY <1>5, <1>8, <2>2
  <2>4. Longer(p, text)[Len(parts) + 1] = Append(parts, text)[Len(parts) + 1]
    BY <1>1, <1>6, <1>8
  <2>5. QED
    BY <2>1, <2>3, <2>4
<1>10. Longer(p, text) = Append(parts, text)
  BY <1>4, <1>6, <1>8, <1>9, SeqEqual
<1>11. QED
  BY <1>10 DEF p

\* Splitting undoes joining, when the separator is in no part but one at the limit.
LEMMA SplitOfJoined ==
  ASSUME NEW T, NEW texts \in Seq(Seq(T)) \ {<<>>}, NEW sep \in T, NEW n \in Nat \ {0},
         Len(texts) <= n,
         \A i \in 1..Len(texts) : i = n \/ sep \notin Range(texts[i])
  PROVE  SplitN(Joined(texts, sep), sep, n) = texts
<1> DEFINE m == Len(texts)
           first(k) == SubSeq(texts, 1, k)
<1>1. PICK g : Joining(g, texts, sep) /\ Joined(texts, sep) = g[Len(texts)]
  BY JoinedIs
<1>2. \A i \in 1..m : g[i] \in Seq(T) /\ texts[i] \in Seq(T)
  BY <1>1, JoiningFacts
<1>3. m \in Nat /\ m >= 1
  OBVIOUS
<1>4. \A k \in 1..m : first(k) \in Seq(Seq(T)) /\ Len(first(k)) = k
  OBVIOUS
<1>5. \A k \in 1..m : k < m => first(k + 1) = Append(first(k), texts[k + 1])
  OBVIOUS
<1>6. first(1) = <<texts[1]>> /\ first(m) = texts
  <2>1. Len(<<texts[1]>>) = 1 /\ <<texts[1]>>[1] = texts[1] /\ texts[1] \in Seq(T)
    OBVIOUS
  <2>2. first(1)[1] = texts[1] /\ Len(first(1)) = 1 /\ first(1) \in Seq(Seq(T))
    OBVIOUS
  <2>3. <<texts[1]>> \in Seq(Seq(T))
    BY <2>1
  <2>4. \A i \in 1..Len(first(1)) : first(1)[i] = <<texts[1]>>[i]
    BY <2>1, <2>2
  <2> HIDE DEF first
  <2>5. first(1) = <<texts[1]>>
    BY <2>1, <2>2, <2>3, <2>4, SeqEqual
  <2>6. SubSeq(texts, 1, Len(texts)) = texts
    BY SubSeqFull
  <2>7. QED
    BY <2>5, <2>6 DEF first
<1>7. \A t \in Seq(T), u \in Seq(T) :
        sep \notin Range(u) \/ Len(SplitN(t, sep, n)) >= n
          => SplitN(t \o u, sep, n) = Longer(SplitN(t, sep, n), u)
  BY SplitMore
<1> HIDE DEF m, first
<1> DEFINE S == {k \in 0..(m - 1) : SplitN(g[k + 1], sep, n) = first(k + 1)}
<1>8. 0 \in S
  <2>1. 1 \in 1..m /\ g[1] = texts[1] /\ texts[1] \in Seq(T) /\ <<>> \in Seq(T)
    BY <1>1, <1>2, <1>3 DEF Joining, m
  <2>2. SplitN(<<>>, sep, n) = << <<>> >>
    BY SplitEmpty
  <2>3. <<>> \o texts[1] = texts[1]
    BY <2>1, ConcatEmptySeq
  <2>4. sep \notin Range(texts[1]) \/ Len(SplitN(<<>>, sep, n)) >= n
    BY <2>1, <2>2 DEF m
  <2>5. SplitN(texts[1], sep, n) = Longer(<< <<>> >>, texts[1])
    <3>1. SplitN(<<>> \o texts[1], sep, n) = Longer(SplitN(<<>>, sep, n), texts[1])
      BY <1>7, <2>1, <2>4
    <3>2. QED
      BY <2>2, <2>3, <3>1
  <2>6. Longer(<< <<>> >>, texts[1]) = <<texts[1]>>
    BY <2>3 DEF Longer
  <2>7. SplitN(g[0 + 1], sep, n) = first(0 + 1)
    BY <1>6, <2>1, <2>5, <2>6
  <2>8. QED
    BY <1>3, <2>7
<1>9. ASSUME NEW k \in 0..(m - 1), k < m - 1, k \in S
      PROVE  k + 1 \in S
  <2>1. PICK i \in 1..m : i = k + 1 /\ i < m /\ i + 1 \in 1..m /\ i < n
    BY <1>3, <1>9 DEF m
  <2> DEFINE u == texts[i + 1]
             q == first(i)
             a == g[i]
  <2>2. a \in Seq(T) /\ u \in Seq(T) /\ q \in Seq(Seq(T)) /\ Len(q) = i
    BY <1>2, <1>4, <2>1
  <2>3. SplitN(a, sep, n) = q
    BY <1>9, <2>1
  <2>4. g[i + 1] = a \o <<sep>> \o u
    <3>1. i + 1 # 1 /\ (i + 1) - 1 = i
      BY <2>1
    <3>2. g[i + 1] = IF i + 1 = 1 THEN texts[1] ELSE g[(i + 1) - 1] \o <<sep>> \o texts[i + 1]
      BY <1>1, <2>1 DEF Joining, m
    <3>3. QED
      BY <3>1, <3>2
  <2>5. first(i + 1) = Append(q, u)
    BY <1>5, <2>1
  <2>6. i + 1 = n \/ sep \notin Range(u)
    BY <2>1 DEF m
  <2> HIDE DEF u, q, a
  <2>7. Append(a, sep) = a \o <<sep>> /\ Append(a, sep) \in Seq(T)
    BY <2>2, AppendIsConcat
  <2>8. SplitN(Append(a, sep), sep, n) = Append(q, <<>>)
    <3>1. SplitN(Append(a, sep), sep, n) = Further(SplitN(a, sep, n), sep, sep, n)
      BY <2>2, SplitAppend
    <3>2. QED
      BY <2>1, <2>2, <2>3, <3>1 DEF Further
  <2>9. Len(Append(q, <<>>)) = i + 1
    BY <2>2
  <2>10. SplitN(Append(a, sep) \o u, sep, n) = Longer(Append(q, <<>>), u)
    <3>1. sep \notin Range(u) \/ Len(SplitN(Append(a, sep), sep, n)) >= n
      BY <2>6, <2>8, <2>9
    <3>2. SplitN(Append(a, sep) \o u, sep, n) = Longer(SplitN(Append(a, sep), sep, n), u)
      BY <1>7, <2>2, <2>7, <3>1
    <3>3. QED
      BY <2>8, <3>2
  <2>11. Longer(Append(q, <<>>), u) = Append(q, u)
    BY <2>2, LongerAppend
  <2>12. SplitN(g[i + 1], sep, n) = first(i + 1)
    BY <2>4, <2>5, <2>7, <2>10, <2>11
  <2>13. QED
    BY <1>3, <2>1, <2>12
<1> HIDE DEF S
<1>10. m - 1 \in Nat
  BY <1>3
<1>11. 0..(m - 1) \subseteq S
  BY <1>8, <1>9, <1>10, UpTo
<1>12. m - 1 \in S /\ (m - 1) + 1 = m
  BY <1>3, <1>10, <1>11
<1>13. SplitN(g[m], sep, n) = first(m)
  BY <1>12 DEF S
<1>14. QED
  BY <1>1, <1>6, <1>13 DEF m

-----------------------------------------------------------------------------
\* What the handlers join is split into what they joined.
LEMMA SplitPair ==
  ASSUME NEW T, NEW a \in Seq(T), NEW b \in Seq(T), NEW sep \in T, sep \notin Range(a)
  PROVE  SplitN(Joined(<<a, b>>, sep), sep, 2) = <<a, b>>
<1> DEFINE texts == <<a, b>>
<1>1. /\ texts \in Seq(Seq(T)) \ {<<>>} /\ Len(texts) <= 2 /\ 2 \in Nat \ {0}
      /\ \A i \in 1..Len(texts) : i = 2 \/ sep \notin Range(texts[i])
  OBVIOUS
<1> HIDE DEF texts
<1>2. SplitN(Joined(texts, sep), sep, 2) = texts
  BY <1>1, SplitOfJoined
<1>3. QED
  BY <1>2 DEF texts

\* Three of them: the last may hold the separator.
LEMMA SplitTriple ==
  ASSUME NEW T, NEW a \in Seq(T), NEW b \in Seq(T), NEW c \in Seq(T), NEW sep \in T,
         sep \notin Range(a), sep \notin Range(b)
  PROVE  SplitN(Joined(<<a, b, c>>, sep), sep, 3) = <<a, b, c>>
<1> DEFINE texts == <<a, b, c>>
<1>1. /\ texts \in Seq(Seq(T)) \ {<<>>} /\ Len(texts) <= 3 /\ 3 \in Nat \ {0}
      /\ \A i \in 1..Len(texts) : i = 3 \/ sep \notin Range(texts[i])
  OBVIOUS
<1> HIDE DEF texts
<1>2. SplitN(Joined(texts, sep), sep, 3) = texts
  BY <1>1, SplitOfJoined
<1>3. QED
  BY <1>2 DEF texts

\* Any number of them, without a limit.
LEMMA SplitNames ==
  ASSUME NEW T, NEW names \in Seq(Seq(T)) \ {<<>>}, NEW sep \in T,
         \A i \in 1..Len(names) : sep \notin Range(names[i])
  PROVE  /\ Joined(names, sep) \in Seq(T)
         /\ Starts(Joined(names, sep), names[1], sep)
         /\ MadeOf(Joined(names, sep), names, sep)
         /\ Split(Joined(names, sep), sep) = names
<1> DEFINE text == Joined(names, sep)
           n == Len(text) + 1
<1>1. PICK g : Joining(g, names, sep) /\ text = g[Len(names)]
  BY JoinedIs
<1>2. Len(names) \in 1..Len(names)
  OBVIOUS
<1>3. /\ text \in Seq(T) /\ n >= Len(names)
      /\ Starts(text, names[1], sep) /\ MadeOf(text, names, sep)
  BY <1>1, <1>2, JoiningFacts
<1>4. n \in Nat \ {0}
  BY <1>3
<1> HIDE DEF n
<1>5. SplitN(text, sep, n) = names
  BY <1>3, <1>4, SplitOfJoined
<1>6. QED
  BY <1>3, <1>5 DEF Split, n

\* The library's least number of a set.
LEMMA LeastIs ==
  ASSUME NEW I \in SUBSET Nat, NEW k \in I, \A i \in I : k <= i
  PROVE  Min(I) = k
<1>1. \A x \in I : (\A y \in I : x <= y) <=> x = k
  OBVIOUS
<1>2. QED
  BY <1>1 DEF Min

\* A text that begins with a word and a number: the number is the first in it.
LEMMA SecondIsCounted ==
  ASSUME NEW T, NEW text \in Seq(T), Len(text) >= 2, text[1] \notin Number, text[2] \in Number,
         NEW field
  PROVE  Count(field, text) = {<<field, text[2]>>}
<1> DEFINE I == {i \in 1..Len(text) : text[i] \in Number}
<1>1. I \in SUBSET Nat /\ 2 \in I /\ I # {} /\ \A i \in I : 2 <= i
  OBVIOUS
<1>3. Count(field, text) = Opt((IF I # {} THEN Min(I) ELSE 0) # 0, field,
                             text[IF I # {} THEN Min(I) ELSE 0])
  BY Zenon DEF Count, SelectInSeq
<1> HIDE DEF I
<1>2. Min(I) = 2
  BY <1>1, LeastIs
<1>4. QED
  BY <1>1, <1>2, <1>3 DEF Opt

\* A word and a number: the number is found.
LEMMA PairCounted ==
  ASSUME NEW word \in Token \ Number, NEW number \in Number, NEW field
  PROVE  Count(field, <<word, number>>) = {<<field, number>>}
<1>1. PICK text : text = <<word, number>>
  OBVIOUS
<1>2. /\ text \in Seq(Token) /\ Len(text) = 2 /\ text[1] = word /\ text[2] = number
  BY <1>1, TokenAssumption DEF TokenAssumption
<1>3. Len(text) >= 2 /\ text[1] \notin Number /\ text[2] \in Number
  BY <1>2
<1>4. Count(field, text) = {<<field, text[2]>>}
  BY <1>2, <1>3, SecondIsCounted
<1>5. QED
  BY <1>1, <1>2, <1>4

\* The text from a word on.
LEMMA FromWord ==
  ASSUME NEW T, NEW text \in Seq(T), NEW k \in 1..Len(text), NEW word, text[k] = word,
         \A i \in 1..(k - 1) : text[i] # word
  PROVE  From(text, word) = SubSeq(text, k, Len(text))
<1> DEFINE I == {i \in 1..Len(text) : text[i] = word}
<1>1. I \in SUBSET Nat /\ k \in I /\ I # {} /\ k # 0
  OBVIOUS
<1>2. \A i \in I : k <= i
  <2>1. ASSUME NEW i \in I, i < k
        PROVE  FALSE
    <3>1. i \in 1..(k - 1)
      BY <2>1
    <3>2. QED
      BY <3>1
  <2>2. QED
    BY <2>1
<1>3. From(text, word) = IF (IF I # {} THEN Min(I) ELSE 0) = 0 THEN <<>>
                         ELSE SubSeq(text, IF I # {} THEN Min(I) ELSE 0, Len(text))
  BY Zenon DEF From, SelectInSeq
<1> HIDE DEF I
<1>4. Min(I) = k
  BY <1>1, <1>2, LeastIs
<1>5. QED
  BY <1>1, <1>3, <1>4

\* What an import reports.
LEMMA ImportCounted ==
  ASSUME NEW c \in Number, NEW u \in Number,
         NEW created \in Token \ Number, NEW updated \in Token \ Number, created # updated,
         NEW field, NEW text, text = <<created, c, updated, u>>
  PROVE  /\ Count(field, From(text, created)) = {<<field, c>>}
         /\ Count(field, From(text, updated)) = {<<field, u>>}
<1>2. /\ text \in Seq(Token) /\ Len(text) = 4
      /\ text[1] = created /\ text[2] = c /\ text[3] = updated /\ text[4] = u
  <2>1. {created, c, updated, u} \subseteq Token
    BY TokenAssumption DEF TokenAssumption
  <2>2. QED
    BY <2>1
<1>3. created \notin Number /\ updated \notin Number /\ c # updated
  OBVIOUS
<1>4. From(text, created) = text
  <2>1. 1 \in 1..Len(text) /\ \A i \in 1..(1 - 1) : text[i] # created
    <3>1. 1 \in 1..Len(text) /\ \A i \in 1..(1 - 1) : FALSE
      BY <1>2
    <3>2. QED
      BY <3>1
  <2>2. From(text, created) = SubSeq(text, 1, Len(text))
    BY <1>2, <2>1, FromWord
  <2>3. QED
    BY <1>2, <2>2, SubSeqFull
<1>5. PICK t : /\ From(text, updated) = t /\ t \in Seq(Token) /\ Len(t) = 2
               /\ t[1] = updated /\ t[2] = u
  <2>1. 3 \in 1..Len(text) /\ \A i \in 1..(3 - 1) : text[i] # updated
    <3>1. \A i \in 1..(3 - 1) : i = 1 \/ i = 2
      OBVIOUS
    <3>2. QED
      BY <1>2, <1>3, <3>1
  <2>2. From(text, updated) = SubSeq(text, 3, Len(text))
    BY <1>2, <2>1, FromWord
  <2>3. /\ SubSeq(text, 3, 4) \in Seq(Token) /\ Len(SubSeq(text, 3, 4)) = 2
        /\ SubSeq(text, 3, 4)[1] = text[3] /\ SubSeq(text, 3, 4)[2] = text[4]
    BY <1>2
  <2>4. QED
    BY <1>2, <2>2, <2>3
<1>6. Count(field, text) = {<<field, text[2]>>}
  <2>1. text[1] \notin Number /\ text[2] \in Number /\ Len(text) >= 2
    BY <1>2, <1>3
  <2>2. QED
    BY <1>2, <2>1, SecondIsCounted
<1>7. Count(field, t) = {<<field, t[2]>>}
  BY <1>3, <1>5, SecondIsCounted
<1>8. QED
  BY <1>2, <1>4, <1>5, <1>6, <1>7

-----------------------------------------------------------------------------
(* What is read out of the texts of an event, and what was recorded.         *)

\* What the fields of an event are.
LEMMA EventFields ==
  ASSUME NEW e \in Event
  PROVE  /\ e.action \in SlotActions => e.person \in Text /\ e.date \in Text /\ e.slot \in Text
         /\ e.action = "planning_set" => e.data \in Data
         /\ e.action \in DutyActions => e.person \in Text /\ e.week \in Text
         /\ e.action = "planning_copy" => e.person \in Text /\ e.from \in Text /\ e.to \in Text
         /\ e.action = "prune" => e.weeks \in Number /\ e.deleted \in Number
         /\ e.action = "project_import_csv" => e.created \in Number /\ e.updated \in Number
<1>1. /\ "planning_set" \notin RangeActions \cup DutyActions \cup IdActions \cup DOMAIN NameField
      /\ "planning_clear" \notin RangeActions \cup DutyActions \cup IdActions \cup DOMAIN NameField
      /\ "planning_copy" \notin RangeActions \cup DutyActions \cup IdActions \cup DOMAIN NameField
      /\ "prune" \notin RangeActions \cup DutyActions \cup IdActions \cup DOMAIN NameField
      /\ "project_import_csv"
           \notin RangeActions \cup DutyActions \cup IdActions \cup DOMAIN NameField
      /\ DutyActions \cap (RangeActions \cup IdActions \cup DOMAIN NameField) = {}
      /\ SlotActions = {"planning_set", "planning_clear"}
      /\ "planning_set" \notin {"settings_update", "reset"}
      /\ "prune" \notin {"settings_update", "reset"}
      /\ DutyActions = {"oncall_set", "oncall_remove"}
  BY DEF RangeActions, DutyActions, IdActions, NameField, SlotActions
<1>2. QED
  BY <1>1 DEF Event

\* No two lists have an action in common.
LEMMA ActionsDiffer ==
  /\ SlotActions = {"planning_set", "planning_clear"}
  /\ \A a \in SlotActions \cup {"planning_copy", "prune", "project_import_csv",
                                "settings_update", "reset"} :
       a \notin RangeActions \cup DutyActions \cup IdActions \cup DOMAIN NameField
  /\ DutyActions \cap (RangeActions \cup IdActions \cup DOMAIN NameField) = {}
  /\ IdActions \cap (RangeActions \cup DOMAIN NameField) = {}
  /\ RangeActions \cap DOMAIN NameField = {}
BY DEF RangeActions, DutyActions, IdActions, NameField, SlotActions

\* Every action is on a list, or one of these.
LEMMA ActionOf ==
  ASSUME NEW e \in Event
  PROVE  e.action \in SlotActions \cup RangeActions \cup DutyActions \cup IdActions
           \cup DOMAIN NameField
           \cup {"planning_copy", "prune", "project_import_csv", "settings_update", "reset"}
BY ActionsDiffer DEF Event

\* The meta of a half-day has one value for each field, and none of those of its key.
LEMMA DataMetaAgrees ==
  ASSUME NEW d \in Data
  PROVE  /\ Agree(DataMeta(d), DataMeta(d))
         /\ \A f \in DataMeta(d) : f[1] \notin {"person_ids", "date", "slot"}
<1>1. CASE d.kind = "away"
  <2>1. DataMeta(d) = {<<"state", "away">>, <<"away_type", d.type>>}
    BY <1>1 DEF DataMeta
  <2>2. QED
    BY <2>1 DEF Agree
<1>2. CASE d.kind = "incident"
  <2>1. DataMeta(d) \subseteq {<<"state", "incident">>, <<"incident_text", d.text>>}
    BY <1>2 DEF DataMeta, Opt
  <2>2. QED
    BY <2>1 DEF Agree
<1>3. CASE d.kind = "project"
  <2>1. PICK yes : yes = TRUE
    OBVIOUS
  <2>2. DataMeta(d) \subseteq {<<"state", "project">>, <<"projects", d.names>>, <<"run", yes>>}
    BY <1>3, <2>1 DEF DataMeta, Opt
  <2>3. QED
    BY <2>2 DEF Agree
<1>4. CASE d.kind = "run"
  <2>1. DataMeta(d) = {<<"state", "run">>}
    BY <1>4 DEF DataMeta
  <2>2. QED
    BY <2>1 DEF Agree
<1>5. CASE d.kind = "bare"
  <2>1. DataMeta(d) = {<<"state", d.state>>}
    BY <1>5 DEF DataMeta
  <2>2. QED
    BY <2>1 DEF Agree
<1>6. QED
  BY <1>1, <1>2, <1>3, <1>4, <1>5 DEF Data

\* What a handler records has one value for each field.
LEMMA RichAgrees ==
  ASSUME NEW e \in Event
  PROVE  Agree(Rich(e), Rich(e))
<1>1. CASE e.action = "planning_set"
  <2>1. Rich(e) = {<<"person_ids", <<e.person>> >>, <<"date", e.date>>, <<"slot", e.slot>>}
                    \cup DataMeta(e.data)
    BY <1>1, ActionsDiffer DEF Rich
  <2>2. e.data \in Data
    BY <1>1, EventFields
  <2>3. PICK m : m = DataMeta(e.data) /\ Agree(m, m)
                 /\ \A f \in m : f[1] \notin {"person_ids", "date", "slot"}
    BY <2>2, DataMetaAgrees
  <2>4. PICK n : n = {<<"person_ids", <<e.person>> >>, <<"date", e.date>>, <<"slot", e.slot>>}
    OBVIOUS
  <2>5. Agree(n, n) /\ \A f \in n : f[1] \in {"person_ids", "date", "slot"}
    BY <2>4 DEF Agree
  <2>6. Rich(e) = n \cup m
    BY <2>1, <2>3, <2>4
  <2>7. Agree(n \cup m, n \cup m)
    BY <2>3, <2>5 DEF Agree
  <2>8. QED
    BY <2>6, <2>7
<1>2. CASE e.action = "planning_clear"
  <2>1. Rich(e) = {<<"person_ids", <<e.person>> >>, <<"date", e.date>>, <<"slot", e.slot>>,
                   <<"state", "cleared">>}
    BY <1>2, ActionsDiffer DEF Rich
  <2>2. QED
    BY <2>1 DEF Agree
<1>3. CASE e.action \in RangeActions
  <2>1. Rich(e) = {<<"people_count", e.count>>, <<"start_date", e.start>>,
                   <<"start_slot", e.startSlot>>, <<"end_date", e.end>>, <<"end_slot", e.endSlot>>}
    BY <1>3, ActionsDiffer DEF Rich
  <2>2. QED
    BY <2>1 DEF Agree
<1>4. CASE e.action = "planning_copy"
  <2>1. Rich(e) = {<<"person_ids", <<e.person>> >>, <<"from_week", e.from>>, <<"to_week", e.to>>}
    BY <1>4, ActionsDiffer DEF Rich
  <2>2. QED
    BY <2>1 DEF Agree
<1>5. CASE e.action \in DutyActions
  <2>1. Rich(e) = {<<"person_ids", <<e.person>> >>, <<"week_start", e.week>>}
    BY <1>5, ActionsDiffer DEF Rich
  <2>2. QED
    BY <2>1 DEF Agree
<1>6. CASE e.action \in IdActions
  <2>1. Rich(e) = {<<"person_ids", <<e.person>> >>}
    BY <1>6, ActionsDiffer DEF Rich
  <2>2. QED
    BY <2>1 DEF Agree
<1>7. CASE e.action \in DOMAIN NameField
  <2>1. Rich(e) = {<<NameField[e.action], e.name>>}
    BY <1>7, ActionsDiffer DEF Rich
  <2>2. QED
    BY <2>1 DEF Agree
<1>8. CASE e.action = "prune"
  <2>1. Rich(e) = {<<"weeks_old", e.weeks>>, <<"deleted", e.deleted>>}
    BY <1>8, ActionsDiffer DEF Rich
  <2>2. QED
    BY <2>1 DEF Agree
<1>9. CASE e.action = "project_import_csv"
  <2>1. Rich(e) = {<<"created", e.created>>, <<"updated", e.updated>>}
    BY <1>9, ActionsDiffer DEF Rich
  <2>2. QED
    BY <2>1 DEF Agree
<1>10. CASE e.action \in {"settings_update", "reset"}
  <2>1. Rich(e) = {}
    BY <1>10, ActionsDiffer DEF Rich
  <2>2. QED
    BY <2>1 DEF Agree
<1>11. QED
  BY <1>1, <1>2, <1>3, <1>4, <1>5, <1>6, <1>7, <1>8, <1>9, <1>10, ActionOf, ActionsDiffer

\* The words of the texts, one by one.
LEMMA WordsAreTokens ==
  /\ " " \in Token /\ " -> " \in Token /\ "," \in Token /\ "person" \in Token
  /\ "away:" \in Token /\ "incident:" \in Token /\ "+run" \in Token /\ "run" \in Token
  /\ "weeks_old " \in Token \ Number /\ "deleted " \in Token \ Number
  /\ "created " \in Token \ Number /\ " updated " \in Token \ Number
BY TokenAssumption DEF TokenAssumption, Words

\* Whose half-day it is and when, out of the target.
LEMMA SlotTarget ==
  ASSUME NEW e \in Event, Separable(e), e.action \in SlotActions
  PROVE  SlotParts(Target(e)) = <<e.person, e.date, e.slot>>
<1>1. e.person \in Text /\ e.date \in Text /\ e.slot \in Text
  BY EventFields
<1>2. " " \notin Range(e.person) /\ " " \notin Range(e.date)
  BY DEF Separable
<1>3. Target(e) = Joined(<<e.person, e.date, e.slot>>, " ")
  BY ActionsDiffer DEF Target
<1>4. \A a, b, c \in Seq(Token) : \A sep \in Token :
        sep \notin Range(a) /\ sep \notin Range(b)
          => SplitN(Joined(<<a, b, c>>, sep), sep, 3) = <<a, b, c>>
  BY SplitTriple
<1>5. QED
  <2>1. e.person \in Seq(Token) /\ e.date \in Seq(Token) /\ e.slot \in Seq(Token)
    BY <1>1 DEF Text
  <2>2. SplitN(Joined(<<e.person, e.date, e.slot>>, " "), " ", 3) = <<e.person, e.date, e.slot>>
    BY <1>2, <1>4, <2>1, WordsAreTokens, Zenon
  <2>3. QED
    BY <1>3, <2>2 DEF SlotParts

\* Two fields out of a target.
LEMMA PairTarget ==
  ASSUME NEW a \in Text, NEW b \in Text, NEW sep \in Token, sep \notin Range(a)
  PROVE  SplitN(Joined(<<a, b>>, sep), sep, 2) = <<a, b>>
BY SplitPair DEF Text

\* A word before a text is its head.
LEMMA WordAndText ==
  ASSUME NEW word, NEW text \in Text
  PROVE  /\ <<word>> \o text # <<>>
         /\ Head(<<word>> \o text) = word
         /\ Tail(<<word>> \o text) = text
<1>1. text \in Seq(Token)
  BY DEF Text
<1>2. QED
  BY <1>1

\* A text without spaces is not trimmed.
LEMMA NoneTrimmed ==
  ASSUME NEW T, NEW text \in Seq(T), NEW solid, solid = 1..Len(text)
  PROVE  (IF solid = {} THEN <<>> ELSE SubSeq(text, Min(solid), Max(solid))) = text
<1>1. CASE text = <<>>
  BY <1>1
<1>2. CASE text # <<>>
  <2>1. Len(text) \in Nat /\ Len(text) >= 1 /\ solid \in SUBSET Nat /\ 1 \in solid /\ solid # {}
    <3>1. PICK n \in Nat : n = Len(text)
      OBVIOUS
    <3>2. n # 0
      BY <1>2, <3>1
    <3>3. 1..n \in SUBSET Nat /\ 1 \in 1..n
      BY <3>2
    <3>4. solid = 1..n
      BY <3>1
    <3>5. QED
      BY <3>1, <3>2, <3>3, <3>4
  <2>2. \A i \in solid : 1 <= i
    OBVIOUS
  <2>3. Min(solid) = 1
    BY <2>1, <2>2, LeastIs
  <2>4. Max(solid) = Len(text)
    <3>1. \A x : x \in solid /\ (\A y \in solid : x >= y) <=> x = Len(text)
      BY <2>1
    <3>2. QED
      BY <3>1 DEF Max
  <2>5. QED
    BY <2>1, <2>3, <2>4, SubSeqFull
<1>3. QED
  BY <1>1, <1>2

LEMMA TrimmedIs ==
  ASSUME NEW text \in Text, " " \notin Range(text)
  PROVE  Trimmed(text) = text
<1>1. text \in Seq(Token) /\ DOMAIN text = 1..Len(text)
  BY LenProperties, Zenon DEF Text
<1>2. PICK solid : solid = {i \in 1..Len(text) : text[i] # " "}
  OBVIOUS
<1>3. \A i \in 1..Len(text) : text[i] # " "
  BY <1>1, Zenon DEF Range
<1>4. solid = 1..Len(text)
  BY <1>2, <1>3, Zenon
<1>5. (IF solid = {} THEN <<>> ELSE SubSeq(text, Min(solid), Max(solid))) = text
  BY <1>1, <1>4, NoneTrimmed, Zenon
<1>6. QED
  BY <1>2, <1>5, Zenon DEF Trimmed

\* All but a half-day that is set: their texts hold no data.
LEMMA PlainMetaAgrees ==
  ASSUME NEW e \in Event, Separable(e), Readable(e), e.action # "planning_set",
         e.action \notin RangeActions
  PROVE  Agree(MetaOf(e), Rich(e))
<1>1. CASE e.action = "planning_clear"
  <2>1. SlotParts(Target(e)) = <<e.person, e.date, e.slot>>
    BY <1>1, SlotTarget, ActionsDiffer
  <2>2. Detail(e) = <<>>
    BY <1>1, ActionsDiffer DEF Detail
  <2>3. MetaOf(e) = LET parts == SlotParts(Target(e)) IN
         {<<"person_ids", <<parts[1]>> >>} \cup Opt(Len(parts) >= 2, "date", parts[2])
           \cup Opt(Len(parts) = 3, "slot", parts[3]) \cup DetailMeta(Detail(e))
    BY <1>1, ActionsDiffer DEF MetaOf, Parsed
  <2>4. MetaOf(e) = {<<"person_ids", <<e.person>> >>, <<"date", e.date>>, <<"slot", e.slot>>}
    BY <2>1, <2>2, <2>3 DEF Opt, DetailMeta
  <2>5. Rich(e) = {<<"person_ids", <<e.person>> >>, <<"date", e.date>>, <<"slot", e.slot>>,
                   <<"state", "cleared">>}
    BY <1>1, ActionsDiffer DEF Rich
  <2>6. QED
    BY <2>4, <2>5, RichAgrees DEF Agree
<1>2. CASE e.action = "planning_copy"
  <2>1. e.person \in Text /\ e.from \in Text /\ e.to \in Text
    BY <1>2, EventFields
  <2>2. SplitN(Target(e), " -> ", 2) = <<e.from, e.to>>
    <3>1. Target(e) = Joined(<<e.from, e.to>>, " -> ")
      BY <1>2, ActionsDiffer DEF Target
    <3>2. " -> " \notin Range(e.from)
      BY <1>2 DEF Separable
    <3>3. QED
      BY <2>1, <3>1, <3>2, PairTarget, WordsAreTokens, Zenon
  <2>3. Trimmed(Without(Detail(e), "person")) = e.person
    <3>1. Detail(e) = <<"person">> \o e.person
      BY <1>2, ActionsDiffer DEF Detail
    <3>2. Without(Detail(e), "person") = e.person
      BY <2>1, <3>1, WordAndText, Zenon DEF Without
    <3>3. " " \notin Range(e.person)
      BY <1>2, Zenon DEF Separable
    <3>4. QED
      BY <2>1, <3>2, <3>3, TrimmedIs, Zenon
  <2>4. MetaOf(e) = LET weeks == SplitN(Target(e), " -> ", 2)
                        pid   == Trimmed(Without(Detail(e), "person")) IN
         Opt(pid # <<>>, "person_ids", <<pid>>)
           \cup Opt(Len(weeks) = 2, "from_week", weeks[1])
           \cup Opt(Len(weeks) = 2, "to_week", weeks[2])
    BY <1>2, ActionsDiffer DEF MetaOf, Parsed
  <2>5. MetaOf(e) \subseteq
          {<<"person_ids", <<e.person>> >>, <<"from_week", e.from>>, <<"to_week", e.to>>}
    <3>1. PICK weeks : weeks = SplitN(Target(e), " -> ", 2) /\ weeks = <<e.from, e.to>>
      BY <2>2, Zenon
    <3>2. weeks = <<e.from, e.to>>
      BY <3>1
    <3>3. weeks[1] = e.from /\ weeks[2] = e.to /\ Len(weeks) = 2
      BY <3>2
    <3>4. PICK pid : pid = e.person
      OBVIOUS
    <3>5. MetaOf(e) = Opt(pid # <<>>, "person_ids", <<pid>>)
            \cup Opt(Len(weeks) = 2, "from_week", weeks[1])
            \cup Opt(Len(weeks) = 2, "to_week", weeks[2])
      BY <2>3, <2>4, <3>1, <3>4
    <3>6. QED
      BY <3>3, <3>4, <3>5 DEF Opt
  <2>6. Rich(e) = {<<"person_ids", <<e.person>> >>, <<"from_week", e.from>>, <<"to_week", e.to>>}
    BY <1>2, ActionsDiffer DEF Rich
  <2>7. QED
    BY <2>5, <2>6, RichAgrees DEF Agree
<1>3. CASE e.action \in DutyActions
  <2>1. e.person \in Text /\ e.week \in Text
    BY <1>3, EventFields
  <2>2. SplitN(Target(e), " ", 2) = <<e.person, e.week>>
    <3>1. Target(e) = Joined(<<e.person, e.week>>, " ")
      BY <1>3, ActionsDiffer DEF Target
    <3>2. " " \notin Range(e.person)
      BY <1>3 DEF Separable
    <3>3. QED
      BY <2>1, <3>1, <3>2, PairTarget, WordsAreTokens, Zenon
  <2>3. MetaOf(e) = LET parts == SplitN(Target(e), " ", 2) IN
         {<<"person_ids", <<parts[1]>> >>} \cup Opt(Len(parts) = 2, "week_start", parts[2])
    BY <1>3, ActionsDiffer DEF MetaOf, Parsed
  <2>4. MetaOf(e) = {<<"person_ids", <<e.person>> >>, <<"week_start", e.week>>}
    <3>1. PICK parts : parts = SplitN(Target(e), " ", 2) /\ parts = <<e.person, e.week>>
      BY <2>2, Zenon
    <3>2. parts = <<e.person, e.week>>
      BY <3>1
    <3>3. parts[1] = e.person /\ parts[2] = e.week /\ Len(parts) = 2
      BY <3>2
    <3>4. MetaOf(e) = {<<"person_ids", <<parts[1]>> >>}
                        \cup Opt(Len(parts) = 2, "week_start", parts[2])
      BY <2>3, <3>1
    <3>5. QED
      BY <3>3, <3>4 DEF Opt
  <2>5. Rich(e) = {<<"person_ids", <<e.person>> >>, <<"week_start", e.week>>}
    BY <1>3, ActionsDiffer DEF Rich
  <2>6. QED
    BY <2>4, <2>5, RichAgrees DEF Agree
<1>4. CASE e.action \in IdActions
  <2>1. Target(e) = e.person
    BY <1>4, ActionsDiffer DEF Target
  <2>2. MetaOf(e) = {<<"person_ids", <<e.person>> >>}
    BY <1>4, <2>1, ActionsDiffer DEF MetaOf, Parsed
  <2>3. Rich(e) = {<<"person_ids", <<e.person>> >>}
    BY <1>4, ActionsDiffer DEF Rich
  <2>4. QED
    BY <2>2, <2>3, RichAgrees DEF Agree
<1>5. CASE e.action \in DOMAIN NameField
  <2>1. Target(e) = e.name
    BY <1>5, ActionsDiffer DEF Target
  <2>2. MetaOf(e) = {<<NameField[e.action], e.name>>}
    BY <1>5, <2>1, ActionsDiffer DEF MetaOf, Parsed
  <2>3. Rich(e) = {<<NameField[e.action], e.name>>}
    BY <1>5, ActionsDiffer DEF Rich
  <2>4. QED
    BY <2>2, <2>3, RichAgrees DEF Agree
<1>6. CASE e.action = "prune"
  <2>1. e.weeks \in Number /\ e.deleted \in Number
    BY <1>6, EventFields
  <2>2. Target(e) = <<"weeks_old ", e.weeks>> /\ Detail(e) = <<"deleted ", e.deleted>>
    BY <1>6, ActionsDiffer DEF Target, Detail
  <2>3. MetaOf(e) = Count("weeks_old", Target(e)) \cup Count("deleted", Detail(e))
    BY <1>6, ActionsDiffer DEF MetaOf, Parsed
  <2>4. MetaOf(e) = {<<"weeks_old", e.weeks>>, <<"deleted", e.deleted>>}
    <3>1. \A field : \A word \in Token \ Number, number \in Number :
            Count(field, <<word, number>>) = {<<field, number>>}
      BY PairCounted
    <3>2. /\ Count("weeks_old", Target(e)) = {<<"weeks_old", e.weeks>>}
          /\ Count("deleted", Detail(e)) = {<<"deleted", e.deleted>>}
      <4>1. /\ Count("weeks_old", <<"weeks_old ", e.weeks>>) = {<<"weeks_old", e.weeks>>}
            /\ Count("deleted", <<"deleted ", e.deleted>>) = {<<"deleted", e.deleted>>}
        BY <2>1, <3>1, WordsAreTokens, Zenon
      <4>2. QED
        BY <2>2, <4>1
    <3>3. QED
      BY <2>3, <3>2
  <2>5. Rich(e) = {<<"weeks_old", e.weeks>>, <<"deleted", e.deleted>>}
    BY <1>6, ActionsDiffer DEF Rich
  <2>6. QED
    BY <2>4, <2>5, RichAgrees DEF Agree
<1>7. CASE e.action = "project_import_csv"
  <2>1. e.created \in Number /\ e.updated \in Number
    BY <1>7, EventFields
  <2>2. Detail(e) = <<"created ", e.created, " updated ", e.updated>>
    BY <1>7, ActionsDiffer DEF Detail
  <2>3. MetaOf(e) = Count("created", From(Detail(e), "created "))
                      \cup Count("updated", From(Detail(e), " updated "))
    BY <1>7, ActionsDiffer DEF MetaOf, Parsed
  <2>4. /\ Count("created", From(Detail(e), "created ")) = {<<"created", e.created>>}
        /\ Count("updated", From(Detail(e), " updated ")) = {<<"updated", e.updated>>}
    <3>1. PICK W : W = Token \ Number
      OBVIOUS
    <3>2. "created " \in W /\ " updated " \in W
      BY <3>1, WordsAreTokens, Zenon
    <3>3. \A v \in W, w \in W : \A c \in Number, u \in Number :
            \A field, text : v # w /\ text = <<v, c, w, u>> =>
              /\ Count(field, From(text, v)) = {<<field, c>>}
              /\ Count(field, From(text, w)) = {<<field, u>>}
      BY <3>1, ImportCounted
    <3>4. PICK c \in Number, u \in Number : c = e.created /\ u = e.updated
      BY <2>1
    <3>5. PICK v \in W, w \in W : v = "created " /\ w = " updated "
      BY <3>2, Zenon
    <3>6. v # w
      BY <3>5
    <3>7. PICK text : text = <<v, c, w, u>>
      OBVIOUS
    <3>8. \A field : /\ Count(field, From(text, v)) = {<<field, c>>}
                    /\ Count(field, From(text, w)) = {<<field, u>>}
      <4>1. v \in W /\ w \in W /\ c \in Number /\ u \in Number
        BY <3>4, <3>5
      <4>2. QED
        BY <3>3, <3>6, <3>7, <4>1
    <3>9. text = Detail(e)
      BY <2>2, <3>4, <3>5, <3>7
    <3>10. QED
      BY <3>4, <3>5, <3>8, <3>9
  <2>5. Rich(e) = {<<"created", e.created>>, <<"updated", e.updated>>}
    BY <1>7, ActionsDiffer DEF Rich
  <2>6. QED
    BY <2>3, <2>4, <2>5, RichAgrees DEF Agree
<1>8. e.action \notin {"settings_update", "reset"}
  BY ActionsDiffer DEF Readable, Parses
<1>9. QED
  BY <1>1, <1>2, <1>3, <1>4, <1>5, <1>6, <1>7, <1>8, ActionOf, ActionsDiffer

\* One text is joined to itself.
LEMMA JoinedOne ==
  ASSUME NEW T, NEW text \in Seq(T), NEW sep \in T
  PROVE  Joined(<<text>>, sep) = text
<1> DEFINE texts == <<text>>
<1>1. texts \in Seq(Seq(T)) /\ Len(texts) = 1 /\ texts[1] = text
  OBVIOUS
<1> HIDE DEF texts
<1>2. PICK g : Joining(g, texts, sep) /\ Joined(texts, sep) = g[Len(texts)]
  BY <1>1, JoinedIs
<1>3. g[1] = texts[1]
  BY <1>1, <1>2 DEF Joining
<1>4. QED
  BY <1>1, <1>2, <1>3 DEF texts

\* The separators, the mark and the words W are not in the names where they would be
\* taken for something else.
Apart(names, comma, mark, run, W) ==
  /\ comma # mark /\ comma # run /\ mark # run /\ comma \notin W /\ mark \notin W
  /\ \A i \in 1..Len(names) : comma \notin Range(names[i]) /\ mark \notin Range(names[i])
  /\ names[1] # <<>> => names[1][1] \notin W
  /\ names # << <<run>> >>
\* The names of projects, joined: what the text begins with, holds and is split into.
LEMMA NamesText ==
  ASSUME NEW names \in Seq(Seq(Token)) \ {<<>>}, NEW comma \in Token, NEW mark \in Token,
         NEW run \in Token, NEW W \in SUBSET Token, Apart(names, comma, mark, run, W)
  PROVE  /\ Joined(names, comma) \in Seq(Token)
         /\ Split(Joined(names, comma), comma) = names
         /\ mark \notin Range(Joined(names, comma))
         /\ Joined(names, comma) # <<>> => Head(Joined(names, comma)) \notin W
         /\ Joined(names, comma) # <<run>>
<1>1. PICK text : text = Joined(names, comma)
  OBVIOUS
<1>2. PICK T : T = Token
  OBVIOUS
<1>3. /\ names \in Seq(Seq(T)) \ {<<>>} /\ comma \in T /\ mark \in T /\ run \in T /\ W \in SUBSET T
      /\ \A i \in 1..Len(names) : comma \notin Range(names[i]) /\ mark \notin Range(names[i])
      /\ comma # mark /\ comma # run /\ comma \notin W
      /\ names[1] # <<>> => names[1][1] \notin W
      /\ names # << <<run>> >>
  BY <1>2 DEF Apart
<1>4. /\ text \in Seq(T) /\ Split(text, comma) = names
      /\ Starts(text, names[1], comma) /\ MadeOf(text, names, comma)
  BY <1>1, <1>3, SplitNames
<1>5. mark \notin Range(text)
  <2>1. \A j \in 1..Len(text) : text[j] # mark
    BY <1>4, <1>3 DEF MadeOf
  <2>2. DOMAIN text = 1..Len(text)
    BY <1>4
  <2>3. QED
    BY <2>1, <2>2 DEF Range
<1>6. ASSUME text # <<>>
      PROVE  Head(text) \notin W
  <2>1. Head(text) = text[1]
    BY <1>4, <1>6
  <2>2. QED
    BY <1>4, <1>6, <1>3, <2>1 DEF Starts
<1>7. ASSUME text = <<run>>
      PROVE  names = << <<run>> >>
  <2>1. /\ <<text>> \in Seq(Seq(T)) \ {<<>>}
        /\ \A i \in 1..Len(<<text>>) : comma \notin Range(<<text>>[i])
    <3>1. comma \notin Range(text)
      <4>1. Range(text) = {run}
        BY <1>7 DEF Range
      <4>2. QED
        BY <1>7, <1>3, <4>1
    <3>2. QED
      BY <1>4, <3>1
  <2>2. Split(Joined(<<text>>, comma), comma) = <<text>>
    BY <1>3, <2>1, SplitNames
  <2>3. Joined(<<text>>, comma) = text
    BY <1>4, <1>3, JoinedOne
  <2>4. QED
    BY <1>4, <1>7, <1>3, <2>2, <2>3
<1>8. QED
  BY <1>4, <1>5, <1>6, <1>7, <1>1, <1>2, <1>3

\* A text with a mark at its end.
EndsWith(t, text, mark) ==
  /\ t # <<>> /\ Last(t) = mark /\ Front(t) = text /\ mark \in Range(t)
  /\ text = <<>> => Head(t) = mark
  /\ text # <<>> => Head(t) = Head(text)

\* The mark is found at its end, and taken off.
LEMMA MarkedText ==
  ASSUME NEW text \in Seq(Token), NEW mark \in Token
  PROVE  EndsWith(text \o <<mark>>, text, mark)
<1>1. PICK t : t = text \o <<mark>>
  OBVIOUS
<1>2. PICK T : T = Token
  OBVIOUS
<1>3. /\ t \in Seq(T) /\ text \in Seq(T) /\ Len(t) = Len(text) + 1 /\ Len(text) \in Nat
      /\ \A i \in 1..Len(text) : t[i] = text[i]
      /\ t[Len(text) + 1] = mark
  BY <1>1, <1>2
<1>4. t # <<>> /\ Last(t) = mark
  BY <1>3 DEF Last
<1>5. Front(t) = text
  <2>1. SubSeq(t, 1, Len(text)) \in Seq(T) /\ Len(SubSeq(t, 1, Len(text))) = Len(text)
        /\ \A i \in 1..Len(text) : SubSeq(t, 1, Len(text))[i] = text[i]
    BY <1>3
  <2>2. SubSeq(t, 1, Len(text)) = text
    BY <1>3, <2>1, SeqEqual
  <2>3. QED
    BY <1>3, <2>2 DEF Front
<1>6. mark \in Range(t)
  <2>1. Len(text) + 1 \in DOMAIN t
    BY <1>3
  <2>2. QED
    BY <1>3, <2>1 DEF Range
<1>7. (text = <<>> => Head(t) = mark) /\ (text # <<>> => Head(t) = Head(text))
  <2>1. Head(t) = t[1]
    BY <1>3
  <2>2. CASE text = <<>>
    BY <1>3, <2>1, <2>2
  <2>3. CASE text # <<>>
    <3>1. 1 \in 1..Len(text) /\ Head(text) = text[1]
      BY <1>3, <2>3
    <3>2. QED
      BY <1>3, <2>1, <2>3, <3>1
  <2>4. QED
    BY <2>2, <2>3
<1>8. QED
  BY <1>4, <1>5, <1>6, <1>7, <1>1 DEF EndsWith

\* A text that starts with a word has it as a prefix.
LEMMA PrefixWord ==
  ASSUME NEW T, NEW text \in Seq(T), text # <<>>, NEW word, text[1] = word
  PROVE  IsPrefix(<<word>>, text)
<1>1. Len(<<word>>) = 1 /\ 1 <= Len(text) /\ word \in T
  OBVIOUS
<1>2. SubSeq(<<word>>, 1, 1) = SubSeq(text, 1, 1)
  <2>1. <<word>> \in Seq(T) /\ <<word>>[1] = word
    BY <1>1
  <2>2. \A s \in Seq(T) : Len(s) >= 1 =>
          SubSeq(s, 1, 1) \in Seq(T) /\ Len(SubSeq(s, 1, 1)) = 1 /\ SubSeq(s, 1, 1)[1] = s[1]
    OBVIOUS
  <2>3. QED
    BY <1>1, <2>1, <2>2, SeqEqual
<1>3. QED
  BY <1>1, <1>2 DEF IsPrefix

TextFor(names, marked, comma, mark) == Joined(names, comma) \o (IF marked THEN <<mark>> ELSE <<>>)

Told(text, joined, names, marked, comma, mark, run, W) ==
  /\ Split(joined, comma) = names
  /\ text # <<>> => Head(text) \notin W
  /\ text # <<run>>
  /\ marked => text # <<>> /\ mark \in Range(text) /\ Last(text) = mark /\ Front(text) = joined
  /\ ~marked => mark \notin Range(text) /\ text = joined

\* What applyDetailMeta looks at in the text of a half-day with projects.
LEMMA ProjectText ==
  ASSUME NEW names \in Seq(Seq(Token)) \ {<<>>}, NEW comma \in Token, NEW mark \in Token,
         NEW run \in Token, NEW W \in SUBSET Token, NEW marked \in BOOLEAN,
         Apart(names, comma, mark, run, W)
  PROVE  Told(TextFor(names, marked, comma, mark), Joined(names, comma),
              names, marked, comma, mark, run, W)
<1>1. PICK joined, text : /\ joined = Joined(names, comma)
                          /\ text = TextFor(names, marked, comma, mark)
  BY Zenon
<1>2. /\ joined \in Seq(Token) /\ Split(joined, comma) = names /\ mark \notin Range(joined)
      /\ joined # <<>> => Head(joined) \notin W
      /\ joined # <<run>>
  BY <1>1, NamesText, Zenon
<1>3. CASE marked
  <2>1. text = joined \o <<mark>>
    BY <1>1, <1>3 DEF TextFor
  <2>2. EndsWith(text, joined, mark)
    BY <1>2, <2>1, MarkedText, Zenon
  <2>3. text # <<run>>
    BY <2>2 DEF EndsWith, Last, Apart
  <2>4. QED
    BY <1>1, <1>2, <1>3, <2>2, <2>3 DEF EndsWith, Apart, Told
<1>4. CASE ~marked
  <2>1. text = joined
    <3>1. text = joined \o <<>>
      BY <1>1, <1>4 DEF TextFor
    <3>2. QED
      BY <1>2, <3>1
  <2>2. QED
    BY <1>1, <1>2, <1>4, <2>1 DEF Told
<1>5. QED
  BY <1>3, <1>4

\* Names that are not prefixed by some words do not start with them.
LEMMA FirstWord ==
  ASSUME NEW T, NEW names \in Seq(Seq(T)) \ {<<>>}, NEW W,
         \A word \in W : ~IsPrefix(<<word>>, names[1])
  PROVE  names[1] # <<>> => names[1][1] \notin W
<1>1. names[1] \in Seq(T)
  OBVIOUS
<1>2. QED
  BY <1>1, PrefixWord

\* The kinds of half-day in turn: an absence.
LEMMA AwayAgrees ==
  ASSUME NEW d \in Data, d.kind = "away"
  PROVE  DetailMeta(SlotDetail(d)) = DataMeta(d)
<1>1. d.type \in Text
  BY DEF Data
<1>2. SlotDetail(d) = <<"away:">> \o d.type
  BY DEF SlotDetail
<1>3. DataMeta(d) = {<<"state", "away">>, <<"away_type", d.type>>}
  BY DEF DataMeta
<1>4. \A word : <<word>> \o d.type # <<>> /\ Head(<<word>> \o d.type) = word
                 /\ Tail(<<word>> \o d.type) = d.type
  BY <1>1, WordAndText
<1>5. QED
  BY <1>2, <1>3, <1>4, Zenon DEF DetailMeta

\* An incident: the text is there even when it is empty.
LEMMA IncidentAgrees ==
  ASSUME NEW d \in Data, d.kind = "incident"
  PROVE  DetailMeta(SlotDetail(d)) = {<<"state", "incident">>, <<"incident_text", d.text>>}
<1>1. d.text \in Text
  BY DEF Data
<1>2. SlotDetail(d) = <<"incident:">> \o d.text
  BY DEF SlotDetail
<1>3. PICK word : word = "incident:"
  OBVIOUS
<1>4. word # "away:"
  BY <1>3
<1>5. PICK detail : detail = <<word>> \o d.text
  OBVIOUS
<1>6. detail # <<>> /\ Head(detail) = word /\ Tail(detail) = d.text
  BY <1>1, <1>5, WordAndText
<1>7. DetailMeta(detail) = {<<"state", "incident">>, <<"incident_text", d.text>>}
  BY <1>3, <1>4, <1>6, Zenon DEF DetailMeta
<1>8. QED
  BY <1>2, <1>3, <1>5, <1>7

\* Run duty alone.
LEMMA RunAgrees ==
  ASSUME NEW d \in Data, d.kind = "run"
  PROVE  DetailMeta(SlotDetail(d)) = DataMeta(d)
<1>1. SlotDetail(d) = <<"run">> /\ DataMeta(d) = {<<"state", "run">>}
  BY DEF SlotDetail, DataMeta
<1>2. PICK word : word = "run"
  OBVIOUS
<1>3. word # "away:" /\ word # "incident:"
  BY <1>2
<1>4. PICK detail : detail = <<word>>
  OBVIOUS
<1>5. detail # <<>> /\ Head(detail) = word
  BY <1>4
<1>6. DetailMeta(detail) = {<<"state", "run">>}
  BY <1>2, <1>3, <1>4, <1>5, Zenon DEF DetailMeta
<1>7. QED
  BY <1>1, <1>2, <1>4, <1>6

\* Projects, with run duty or without: an empty text says nothing.
LEMMA ProjectAgrees ==
  ASSUME NEW d \in Data, d.kind = "project",
         \A i \in DOMAIN d.names : {",", "+run"} \cap Range(d.names[i]) = {},
         \A word \in {"away:", "incident:"} : ~IsPrefix(<<word>>, d.names[1]),
         d.names # << <<"run">> >>
  PROVE  DetailMeta(SlotDetail(d)) = {} \/ DetailMeta(SlotDetail(d)) = DataMeta(d)
<1>1. d.names \in Seq(Text) \ {<<>>} /\ d.run \in BOOLEAN
  BY DEF Data
<1>2. SlotDetail(d) = Joined(d.names, ",") \o (IF d.run THEN <<"+run">> ELSE <<>>)
  BY DEF SlotDetail
<1>3. DataMeta(d) = {<<"state", "project">>, <<"projects", d.names>>} \cup Opt(d.run, "run", TRUE)
  BY DEF DataMeta
<1>4. PICK comma \in Token, mark \in Token, run \in Token :
        comma = "," /\ mark = "+run" /\ run = "run"
  BY WordsAreTokens, Zenon
<1>5. PICK W \in SUBSET Token : W = {"away:", "incident:"}
  BY WordsAreTokens, Zenon
<1>6. comma # mark /\ comma # run /\ mark # run /\ comma \notin W /\ mark \notin W
  BY <1>4, <1>5
<1>7. PICK names \in Seq(Seq(Token)) \ {<<>>}, marked \in BOOLEAN :
        names = d.names /\ marked = d.run
  BY <1>1 DEF Text
<1>8. \A i \in 1..Len(names) : comma \notin Range(names[i]) /\ mark \notin Range(names[i])
  <2>1. DOMAIN names = 1..Len(names)
    BY LenProperties, Zenon
  <2>2. \A i \in DOMAIN names : comma \notin Range(names[i]) /\ mark \notin Range(names[i])
    BY <1>4, <1>7, Zenon
  <2>3. QED
    BY <2>1, <2>2
<1>9. /\ names[1] # <<>> => names[1][1] \notin W
      /\ names # << <<run>> >>
  <2>1. \A word \in W : ~IsPrefix(<<word>>, names[1])
    BY <1>5, <1>7, Zenon
  <2>2. names # << <<run>> >>
    BY <1>4, <1>7, Zenon
  <2>3. QED
    BY <2>1, <2>2, FirstWord, Zenon
<1>10. PICK joined, text : /\ joined = Joined(names, comma)
                           /\ text = TextFor(names, marked, comma, mark)
  BY Zenon
<1>11. /\ Split(joined, comma) = names
       /\ text # <<>> => Head(text) \notin W
       /\ text # <<run>>
       /\ marked => text # <<>> /\ mark \in Range(text) /\ Last(text) = mark /\ Front(text) = joined
       /\ ~marked => mark \notin Range(text) /\ text = joined
  <2>1. Apart(names, comma, mark, run, W)
    BY <1>6, <1>8, <1>9, Zenon DEF Apart
  <2>2. Told(text, joined, names, marked, comma, mark, run, W)
    BY <1>10, <2>1, ProjectText, Zenon
  <2>3. QED
    BY <2>2, Zenon DEF Told
<1>12. SlotDetail(d) = text
  BY <1>2, <1>4, <1>7, <1>10, Zenon DEF TextFor
<1>13. CASE text = <<>>
  BY <1>12, <1>13 DEF DetailMeta
<1>14. CASE marked
  <2>1. DetailMeta(text) = {<<"state", "project">>, <<"run", TRUE>>,
                            <<"projects", Split(WithoutRun(text), ",")>>}
    <3>1. Head(text) # "away:" /\ Head(text) # "incident:" /\ text # <<"run">>
          /\ "+run" \in Range(text)
      BY <1>4, <1>5, <1>11, <1>14, Zenon
    <3>2. QED
      BY <1>11, <1>14, <3>1, Zenon DEF DetailMeta
  <2>2. WithoutRun(text) = joined
    BY <1>4, <1>11, <1>14, Zenon DEF WithoutRun
  <2>3. Split(WithoutRun(text), ",") = names
    BY <1>4, <1>11, <2>2, Zenon
  <2>4. DataMeta(d) = {<<"state", "project">>, <<"projects", d.names>>} \cup {<<"run", TRUE>>}
    BY <1>3, <1>7, <1>14, Zenon DEF Opt
  <2>5. PICK a, b, c : /\ a = <<"state", "project">>
                       /\ b = <<"run", TRUE>> /\ c = <<"projects", names>>
    OBVIOUS
  <2>6. DetailMeta(text) = {a, b, c}
    BY <2>1, <2>3, <2>5, Zenon
  <2>7. DataMeta(d) = {a, c} \cup {b}
    BY <1>7, <2>4, <2>5, Zenon
  <2>8. {a, b, c} = {a, c} \cup {b}
    OBVIOUS
  <2>9. QED
    BY <1>12, <2>6, <2>7, <2>8
<1>15. CASE text # <<>> /\ ~marked
  <2>1. DetailMeta(text) = {<<"state", "project">>, <<"projects", Split(text, ",")>>}
    <3>1. Head(text) # "away:" /\ Head(text) # "incident:" /\ text # <<"run">>
          /\ "+run" \notin Range(text)
      BY <1>4, <1>5, <1>11, <1>15, Zenon
    <3>2. QED
      BY <1>15, <3>1, Zenon DEF DetailMeta
  <2>2. Split(text, ",") = names
    BY <1>4, <1>11, <1>15, Zenon
  <2>3. DataMeta(d) = {<<"state", "project">>, <<"projects", d.names>>} \cup {}
    BY <1>3, <1>7, <1>15, Zenon DEF Opt
  <2>4. QED
    BY <1>7, <1>12, <2>1, <2>2, <2>3
<1>16. QED
  BY <1>13, <1>14, <1>15

\* No detail says whose half-day it is, or when.
LEMMA DetailFields ==
  ASSUME NEW detail
  PROVE  \A f \in DetailMeta(detail) : f[1] \notin {"person_ids", "date", "slot"}
<1>1. PICK yes : yes = TRUE
  OBVIOUS
<1>2. PICK a, i, p, q : /\ a = Tail(detail) /\ i = Tail(detail)
                        /\ p = Split(WithoutRun(detail), ",")
                        /\ q = Split(detail, ",")
  OBVIOUS
<1>3. DetailMeta(detail) \subseteq
        {<<"state", "away">>, <<"away_type", a>>, <<"state", "incident">>, <<"incident_text", i>>,
         <<"state", "run">>, <<"state", "project">>, <<"run", yes>>, <<"projects", p>>,
         <<"projects", q>>}
  BY <1>1, <1>2, Zenon DEF DetailMeta
<1>4. QED
  BY <1>3

\* A half-day that is set: the target has its key, the detail its data.
LEMMA SetMetaAgrees ==
  ASSUME NEW e \in Event, Separable(e), e.action = "planning_set", ~Bare(e)
  PROVE  Agree(MetaOf(e), Rich(e))
<1>1. PICK d \in Data : d = e.data
  BY EventFields
<1>2. d.kind # "bare"
  BY <1>1 DEF Bare
<1>3. PICK m, n : m = DetailMeta(SlotDetail(d)) /\ n = DataMeta(d)
  OBVIOUS
<1>4. Agree(m, n)
  <2>1. Agree(n, n)
    BY <1>3, DataMetaAgrees
  <2>2. CASE d.kind = "away"
    BY <1>3, <2>1, <2>2, AwayAgrees
  <2>3. CASE d.kind = "incident"
    <3>1. m = {<<"state", "incident">>, <<"incident_text", d.text>>}
      BY <1>3, <2>3, IncidentAgrees
    <3>2. n \subseteq {<<"state", "incident">>, <<"incident_text", d.text>>}
      BY <1>3, <2>3 DEF DataMeta, Opt
    <3>3. QED
      BY <3>1, <3>2 DEF Agree
  <2>4. CASE d.kind = "run"
    BY <1>3, <2>1, <2>4, RunAgrees
  <2>5. CASE d.kind = "project"
    <3>1. /\ \A i \in DOMAIN d.names : {",", "+run"} \cap Range(d.names[i]) = {}
          /\ \A word \in {"away:", "incident:"} : ~IsPrefix(<<word>>, d.names[1])
          /\ d.names # << <<"run">> >>
      BY <1>1, <2>5, Zenon DEF Separable
    <3>2. m = {} \/ m = n
      BY <1>3, <2>5, <3>1, ProjectAgrees, Zenon
    <3>3. QED
      BY <2>1, <3>2 DEF Agree
  <2>6. QED
    BY <1>2, <2>2, <2>3, <2>4, <2>5 DEF Data
<1>5. PICK key : key = {<<"person_ids", <<e.person>> >>, <<"date", e.date>>, <<"slot", e.slot>>}
  OBVIOUS
<1>6. Rich(e) = key \cup n
  BY <1>1, <1>3, <1>5, ActionsDiffer DEF Rich
<1>7. MetaOf(e) = key \cup m
  <2>1. SlotParts(Target(e)) = <<e.person, e.date, e.slot>>
    BY SlotTarget, ActionsDiffer
  <2>2. Detail(e) = SlotDetail(d)
    BY <1>1, ActionsDiffer DEF Detail
  <2>3. MetaOf(e) = LET parts == SlotParts(Target(e)) IN
         {<<"person_ids", <<parts[1]>> >>} \cup Opt(Len(parts) >= 2, "date", parts[2])
           \cup Opt(Len(parts) = 3, "slot", parts[3]) \cup DetailMeta(Detail(e))
    BY ActionsDiffer DEF MetaOf, Parsed
  <2>4. QED
    BY <1>3, <1>5, <2>1, <2>2, <2>3 DEF Opt
<1>8. /\ Agree(key, key)
      /\ \A f \in key : f[1] \in {"person_ids", "date", "slot"}
  BY <1>5 DEF Agree
<1>9. /\ \A f \in m : f[1] \notin {"person_ids", "date", "slot"}
      /\ \A f \in n : f[1] \notin {"person_ids", "date", "slot"}
  BY <1>3, DetailFields, DataMetaAgrees
<1>10. Agree(key \cup m, key \cup n)
  BY <1>4, <1>8, <1>9 DEF Agree
<1>11. QED
  BY <1>6, <1>7, <1>10

\* What is read out of the texts of an event agrees with what the handlers record of it.
THEOREM MetaAgrees ==
  ASSUME NEW e \in Event, Separable(e), Readable(e), e.action \notin RangeActions, ~Bare(e)
  PROVE  Agree(MetaOf(e), Rich(e))
BY SetMetaAgrees, PlainMetaAgrees

-----------------------------------------------------------------------------
(* No meta is the blank one.                                                *)

\* A meta that has another field, or none.
LEMMA NotBlank ==
  ASSUME NEW m, m = {} \/ \E f \in m : f[1] # "blank"
  PROVE  m # Blank
<1>1. PICK b : b = <<"blank", TRUE>>
  OBVIOUS
<1>2. b[1] = "blank" /\ Blank = {b}
  BY <1>1 DEF Blank
<1>3. QED
  BY <1>2

\* A meta that names people says something, whatever else is in it.
LEMMA PeopleAreNotBlank ==
  ASSUME NEW m, NEW people, <<"person_ids", people>> \in m
  PROVE  m # Blank
BY NotBlank

\* The fields that hold a name are not the one of the blank meta.
LEMMA NameFields ==
  ASSUME NEW action \in DOMAIN NameField
  PROVE  NameField[action] # "blank"
BY DEF NameField

\* What a handler records says something.
LEMMA RecordedIsNotBlank ==
  ASSUME NEW e
  PROVE  Rich(e) # Blank
<1>1. CASE e.action = "planning_set"
  <2>1. Rich(e) = {<<"person_ids", <<e.person>> >>, <<"date", e.date>>, <<"slot", e.slot>>}
                    \cup DataMeta(e.data)
    BY <1>1, ZenonT(30) DEF Rich, RangeActions, DutyActions, IdActions, NameField
  <2>2. QED
    BY <2>1, PeopleAreNotBlank
<1>2. CASE e.action \in DOMAIN NameField
  <2>1. Rich(e) = {<<NameField[e.action], e.name>>}
    BY <1>2, ZenonT(60) DEF Rich, RangeActions, DutyActions, IdActions, NameField
  <2>2. PICK x : x = NameField[e.action]
    OBVIOUS
  <2>3. x # "blank" /\ <<x, e.name>> \in Rich(e)
    BY <1>2, <2>1, <2>2, NameFields
  <2>4. QED
    BY <2>3, NotBlank
<1>3. CASE e.action = "planning_clear"
  <2>1. <<"person_ids", <<e.person>> >> \in Rich(e)
    BY <1>3, ZenonT(30) DEF Rich, RangeActions, DutyActions, IdActions, NameField
  <2>2. QED
    BY <2>1, PeopleAreNotBlank
<1>4. CASE e.action \in RangeActions
  <2>1. <<"people_count", e.count>> \in Rich(e)
    BY <1>4, ZenonT(30) DEF Rich, RangeActions, DutyActions, IdActions, NameField
  <2>2. QED
    BY <2>1, NotBlank
<1>5. CASE e.action = "planning_copy"
  <2>1. <<"person_ids", <<e.person>> >> \in Rich(e)
    BY <1>5, ZenonT(30) DEF Rich, RangeActions, DutyActions, IdActions, NameField
  <2>2. QED
    BY <2>1, PeopleAreNotBlank
<1>6. CASE e.action \in DutyActions
  <2>1. <<"person_ids", <<e.person>> >> \in Rich(e)
    BY <1>6, ZenonT(30) DEF Rich, RangeActions, DutyActions, IdActions, NameField
  <2>2. QED
    BY <2>1, PeopleAreNotBlank
<1>7. CASE e.action \in IdActions
  <2>1. <<"person_ids", <<e.person>> >> \in Rich(e)
    BY <1>7, ZenonT(30) DEF Rich, RangeActions, DutyActions, IdActions, NameField
  <2>2. QED
    BY <2>1, PeopleAreNotBlank
<1>8. CASE e.action = "prune"
  <2>1. <<"weeks_old", e.weeks>> \in Rich(e)
    BY <1>8, ZenonT(30) DEF Rich, RangeActions, DutyActions, IdActions, NameField
  <2>2. QED
    BY <2>1, NotBlank
<1>9. CASE e.action = "project_import_csv"
  <2>1. <<"created", e.created>> \in Rich(e)
    BY <1>9, ZenonT(30) DEF Rich, RangeActions, DutyActions, IdActions, NameField
  <2>2. QED
    BY <2>1, NotBlank
<1>10. CASE /\ e.action \notin {"planning_set", "planning_clear", "planning_copy", "prune",
                                "project_import_csv"}
            /\ e.action \notin RangeActions /\ e.action \notin DutyActions
            /\ e.action \notin IdActions /\ e.action \notin DOMAIN NameField
  <2>1. Rich(e) = {}
    BY <1>10, Zenon DEF Rich
  <2>2. QED
    BY <2>1, NotBlank
<1>11. QED
  BY <1>1, <1>2, <1>3, <1>4, <1>5, <1>6, <1>7, <1>8, <1>9, <1>10

\* What parseLegacyAuditMeta makes of the texts that it can read is never the blank meta.
LEMMA ParsedIsNotBlank ==
  ASSUME NEW action, NEW target, NEW detail, Parses(action, target)
  PROVE  Parsed(action, target, detail) # Blank
<1> DEFINE m == Parsed(action, target, detail)
           Named(n) == \A f \in n : f[1] # "blank"
<1>1. ASSUME NEW n, Named(n) PROVE n # Blank
  BY <1>1, NotBlank
<1>2. ASSUME NEW p, NEW x, NEW v, x # "blank" PROVE Named(Opt(p, x, v))
  BY <1>2 DEF Opt
<1>3. ASSUME NEW x, NEW text, x # "blank" PROVE Named(Count(x, text))
  BY <1>2, <1>3 DEF Count
<1>4. CASE action \in SlotActions
  <2>1. \E parts : <<"person_ids", parts>> \in m
    BY <1>4, ZenonT(30)
       DEF Parsed, SlotActions, RangeActions, DutyActions, IdActions, NameField
  <2>2. QED
    BY <2>1, PeopleAreNotBlank
<1>5. CASE action \in RangeActions
  <2>1. PICK p, s, e : m = (IF p THEN EndMeta("start_date", "start_slot", s)
                                        \cup EndMeta("end_date", "end_slot", e)
                                 ELSE {}) \cup Count("people_count", detail)
    BY <1>5, ZenonT(30)
       DEF Parsed, SlotActions, RangeActions, DutyActions, IdActions, NameField
  <2>2. ASSUME NEW x, NEW y, NEW text, x # "blank", y # "blank"
        PROVE  Named(EndMeta(x, y, text))
    BY <1>2, <2>2 DEF EndMeta
  <2>3. Named(m)
    BY <1>3, <2>1, <2>2
  <2>4. QED
    BY <1>1, <2>3
<1>6. CASE action = "planning_copy"
  <2>1. PICK p, q, s, u, v, w : m = Opt(p, "person_ids", s) \cup Opt(q, "from_week", u)
                                       \cup Opt(v, "to_week", w)
    BY <1>6, ZenonT(30)
       DEF Parsed, SlotActions, RangeActions, DutyActions, IdActions, NameField
  <2>2. Named(m)
    BY <1>2, <2>1
  <2>3. QED
    BY <1>1, <2>2
<1>7. CASE action \in DutyActions
  <2>1. \E parts : <<"person_ids", parts>> \in m
    BY <1>7, ZenonT(30)
       DEF Parsed, SlotActions, RangeActions, DutyActions, IdActions, NameField
  <2>2. QED
    BY <2>1, PeopleAreNotBlank
<1>8. CASE action \in IdActions
  <2>1. \E parts : <<"person_ids", parts>> \in m
    BY <1>8, ZenonT(30)
       DEF Parsed, SlotActions, RangeActions, DutyActions, IdActions, NameField
  <2>2. QED
    BY <2>1, PeopleAreNotBlank
<1>9. CASE action \in DOMAIN NameField
  <2>1. m = {<<NameField[action], target>>}
    BY <1>9, ZenonT(60)
       DEF Parsed, SlotActions, RangeActions, DutyActions, IdActions, NameField
  <2>2. PICK x : x = NameField[action]
    OBVIOUS
  <2>3. x # "blank" /\ <<x, target>> \in m
    BY <1>9, <2>1, <2>2, NameFields
  <2>4. QED
    BY <2>3, NotBlank
<1>10. CASE action = "prune"
  <2>1. m = Count("weeks_old", target) \cup Count("deleted", detail)
    BY <1>10, ZenonT(30)
       DEF Parsed, SlotActions, RangeActions, DutyActions, IdActions, NameField
  <2>2. Named(m)
    BY <1>3, <2>1
  <2>3. QED
    BY <1>1, <2>2
<1>11. CASE action = "project_import_csv"
  <2>1. m = Count("created", From(detail, "created "))
              \cup Count("updated", From(detail, " updated "))
    BY <1>11, ZenonT(30)
       DEF Parsed, SlotActions, RangeActions, DutyActions, IdActions, NameField
  <2>2. Named(m)
    BY <1>3, <2>1
  <2>3. QED
    BY <1>1, <2>2
<1>12. QED
  BY <1>4, <1>5, <1>6, <1>7, <1>8, <1>9, <1>10, <1>11 DEF Parses
-----------------------------------------------------------------------------
(* The statements.                                                          *)

\* Two lists of migrations one after the other.
LEMMA ConcatStatements ==
  ASSUME NEW T, NEW s \in Seq(T), NEW t \in Seq(T)
  PROVE  s \o t \in Seq(T) /\ Range(s \o t) = Range(s) \cup Range(t)
<1>1. s \o t \in Seq(T) /\ DOMAIN (s \o t) = 1..(Len(s) + Len(t))
  OBVIOUS
<1>2. \A i \in DOMAIN s : i \in DOMAIN (s \o t) /\ (s \o t)[i] = s[i]
  OBVIOUS
<1>3. \A i \in DOMAIN t : i + Len(s) \in DOMAIN (s \o t) /\ (s \o t)[i + Len(s)] = t[i]
  OBVIOUS
<1>4. \A i \in DOMAIN (s \o t) :
        \/ i \in DOMAIN s /\ (s \o t)[i] = s[i]
        \/ i - Len(s) \in DOMAIN t /\ (s \o t)[i] = t[i - Len(s)]
  OBVIOUS
<1> DEFINE u == s \o t
<1>5. /\ \A i \in DOMAIN s : i \in DOMAIN u /\ u[i] = s[i]
      /\ \A i \in DOMAIN t : \E j \in DOMAIN u : u[j] = t[i]
      /\ \A i \in DOMAIN u : (i \in DOMAIN s /\ u[i] = s[i]) \/ \E j \in DOMAIN t : u[i] = t[j]
  BY <1>2, <1>3, <1>4
<1> HIDE DEF u
<1>6. Range(u) = Range(s) \cup Range(t)
  BY <1>5 DEF Range
<1>7. QED
  BY <1>1, <1>6 DEF u

\* What the statements are drawn from.
Statement == UNION {Range(M001_init), Range(M002_projects), Range(M003_features),
  Range(M004_remote), Range(M005_team_lead), Range(M006_offsite_incident),
  Range(M007_audit_meta), Range(M008_is_incident), Range(M009_run_note),
  Range(M010_oncall_comment), Range(M011_tentative_away)}

\* A list of some of them.
LEMMA Listed ==
  ASSUME NEW list, NEW T, list \in Seq(T), Range(list) \subseteq Statement
  PROVE  list \in Seq(Statement)
<1>1. \A i \in 1..Len(list) : list[i] \in Range(list)
  BY DEF Range
<1>2. list \in [1..Len(list) -> Statement] /\ Len(list) \in Nat
  BY <1>1
<1>3. QED
  BY <1>2

\* Each statement of a list speaks of what is there before, or of what an earlier one of
\* the list adds.
Supported(there, list) ==
  \A n \in DOMAIN list : \A o \in Needs(list[n]) :
    o \in there \/ \E i \in 1..(n - 1) : o \in Objects({list[i]})

\* What two sets of statements do together, and a part of a set.
LEMMA Effects ==
  ASSUME NEW A, NEW B
  PROVE  /\ Objects(A \cup B) = Objects(A) \cup Objects(B)
         /\ Keys(A \cup B) = Keys(A) \cup Keys(B)
         /\ A \subseteq B => Objects(A) \subseteq Objects(B) /\ Keys(A) \subseteq Keys(B)
BY DEF Objects, Keys

\* What one statement adds.
LEMMA ObjectsOfOne ==
  ASSUME NEW s
  PROVE  Objects({s}) = IF s.do \in {"create", "add"} THEN {<<s.table, s.column>>} ELSE {}
<1>1. {x \in {s} : x.do \in {"create", "add"}}
        = IF s.do \in {"create", "add"} THEN {s} ELSE {}
  OBVIOUS
<1>2. QED
  BY <1>1 DEF Objects

\* What the statements of each kind speak of, and what they add.
LEMMA OneStatement ==
  /\ \A table : Needs(Create(table)) = {} /\ Objects({Create(table)}) = {<<table, "">>}
  /\ \A table, column : /\ Needs(Add(table, column)) = {<<table, "">>}
                        /\ Objects({Add(table, column)}) = {<<table, column>>}
  /\ \A key : Needs(Default(key)) = {<<"settings", "">>}
  /\ Needs(MarkIncidents) = {<<"planning", "">>, <<"planning", "incident_text">>,
                             <<"planning", "is_incident">>}
<1>1. ASSUME NEW table
      PROVE  Needs(Create(table)) = {} /\ Objects({Create(table)}) = {<<table, "">>}
  <2>1. PICK s : s = Create(table)
    OBVIOUS
  <2>2. s.do = "create" /\ s.table = table /\ s.column = ""
    BY <2>1 DEF Create
  <2>3. QED
    BY <2>1, <2>2, ObjectsOfOne DEF Needs
<1>2. ASSUME NEW table, NEW column
      PROVE  /\ Needs(Add(table, column)) = {<<table, "">>}
             /\ Objects({Add(table, column)}) = {<<table, column>>}
  <2>1. PICK s : s = Add(table, column)
    OBVIOUS
  <2>2. s.do = "add" /\ s.table = table /\ s.column = column
    BY <2>1 DEF Add
  <2>3. QED
    BY <2>1, <2>2, ObjectsOfOne DEF Needs
<1>3. \A key : Needs(Default(key)) = {<<"settings", "">>}
  BY DEF Needs, Default
<1>4. Needs(MarkIncidents) = {<<"planning", "">>, <<"planning", "incident_text">>,
                              <<"planning", "is_incident">>}
  BY DEF Needs, MarkIncidents
<1>5. QED
  BY <1>1, <1>2, <1>3, <1>4

\* A set of statements adds what one of them adds.
LEMMA ObjectsOfSome ==
  ASSUME NEW S
  PROVE  \A o : o \in Objects(S) <=> \E s \in S : o \in Objects({s})
BY ObjectsOfOne DEF Objects

\* Two lists one after the other: the second may need what the first adds.
LEMMA ConcatSupported ==
  ASSUME NEW T, NEW s \in Seq(T), NEW t \in Seq(T),
         Supported({}, s), Supported(Objects(Range(s)), t)
  PROVE  /\ Supported({}, s \o t)
         /\ Objects(Range(s \o t)) = Objects(Range(s)) \cup Objects(Range(t))
<1> DEFINE u == s \o t
<1>1. Objects(Range(u)) = Objects(Range(s)) \cup Objects(Range(t))
  <2>1. Range(u) = Range(s) \cup Range(t)
    BY ConcatStatements
  <2>2. QED
    BY <2>1, Effects
<1>2. /\ Len(s) \in Nat /\ Len(t) \in Nat /\ DOMAIN s = 1..Len(s) /\ DOMAIN t = 1..Len(t)
      /\ DOMAIN u = 1..(Len(s) + Len(t))
      /\ \A i \in 1..Len(s) : u[i] = s[i]
      /\ \A i \in 1..Len(t) : u[i + Len(s)] = t[i]
  OBVIOUS
<1> HIDE DEF u
<1>3. ASSUME NEW n \in DOMAIN u, NEW o \in Needs(u[n])
      PROVE  \E i \in 1..(n - 1) : o \in Objects({u[i]})
  <2>1. CASE n \in DOMAIN s
    <3>1. u[n] = s[n]
      BY <1>2, <2>1
    <3>2. PICK i \in 1..(n - 1) : o \in Objects({s[i]})
      BY <1>3, <2>1, <3>1 DEF Supported
    <3>3. u[i] = s[i]
      BY <1>2, <2>1, <3>2
    <3>4. QED
      BY <3>2, <3>3
  <2>2. CASE n \notin DOMAIN s
    <3>1. PICK m \in DOMAIN t : n = m + Len(s) /\ u[n] = t[m]
      <4>1. n - Len(s) \in 1..Len(t) /\ n = (n - Len(s)) + Len(s)
        BY <1>2, <2>2
      <4>2. QED
        BY <1>2, <4>1
    <3>2. CASE o \in Objects(Range(s))
      <4>1. PICK r \in Range(s) : o \in Objects({r})
        BY <3>2, ObjectsOfSome
      <4>2. PICK i \in DOMAIN s : s[i] = r
        BY <4>1 DEF Range
      <4>3. i \in 1..(n - 1) /\ u[i] = r
        BY <1>2, <2>2, <4>2
      <4>4. QED
        BY <4>1, <4>3
    <3>3. CASE o \notin Objects(Range(s))
      <4>1. PICK i \in 1..(m - 1) : o \in Objects({t[i]})
        BY <1>3, <3>1, <3>3 DEF Supported
      <4>2. i + Len(s) \in 1..(n - 1) /\ u[i + Len(s)] = t[i]
        BY <1>2, <3>1, <4>1
      <4>3. QED
        BY <4>1, <4>2
    <3>4. QED
      BY <3>2, <3>3
  <2>3. QED
    BY <2>1, <2>2
<1>4. QED
  BY <1>1, <1>3 DEF Supported, u

\* Lists of one, two and three statements.
LEMMA ListOfOne ==
  ASSUME NEW there, NEW a, Needs(a) \subseteq there
  PROVE  Supported(there, <<a>>) /\ Range(<<a>>) = {a}
BY DEF Supported, Range

\* The same for two.
LEMMA ListOfTwo ==
  ASSUME NEW there, NEW a, NEW b,
         Needs(a) \subseteq there, Needs(b) \subseteq there \cup Objects({a})
  PROVE  Supported(there, <<a, b>>) /\ Range(<<a, b>>) = {a, b}
<1> DEFINE two == <<a, b>>
<1>1. DOMAIN two = 1..2 /\ two[1] = a /\ two[2] = b
  OBVIOUS
<1> HIDE DEF two
<1>2. Range(two) = {a, b}
  BY <1>1 DEF Range
<1>3. ASSUME NEW n \in DOMAIN two, NEW o \in Needs(two[n])
      PROVE  o \in there \/ \E i \in 1..(n - 1) : o \in Objects({two[i]})
  <2>1. CASE n = 1
    BY <1>1, <1>3, <2>1
  <2>2. CASE n = 2
    <3>1. 1 \in 1..(n - 1) /\ (o \in there \/ o \in Objects({two[1]}))
      BY <1>1, <1>3, <2>2
    <3>2. QED
      BY <3>1
  <2>3. QED
    BY <1>1, <2>1, <2>2
<1>4. QED
  BY <1>2, <1>3 DEF Supported, two

\* The same for three.
LEMMA ListOfThree ==
  ASSUME NEW there, NEW a, NEW b, NEW c, NEW three, three = <<a, b, c>>,
         Needs(a) \subseteq there, Needs(b) \subseteq there, Needs(c) \subseteq there
  PROVE  Supported(there, three) /\ Range(three) = {a, b, c}
<1>1. DOMAIN three = 1..3 /\ three[1] = a /\ three[2] = b /\ three[3] = c
  OBVIOUS
<1>2. Range(three) = {a, b, c}
  BY <1>1 DEF Range
<1>3. \A n \in DOMAIN three : Needs(three[n]) \subseteq there
  BY <1>1
<1>4. QED
  BY <1>2, <1>3 DEF Supported

\* Two lists of migrations, when the second needs no more than what is known of the first.
LEMMA OneMigrationMore ==
  ASSUME NEW s \in Seq(Statement), NEW t \in Seq(Statement), NEW there,
         Supported({}, s), there \subseteq Objects(Range(s)), Supported(there, t)
  PROVE  /\ s \o t \in Seq(Statement) /\ Supported({}, s \o t)
         /\ Range(s \o t) = Range(s) \cup Range(t)
         /\ there \cup Objects(Range(t)) \subseteq Objects(Range(s \o t))
<1>1. Supported(Objects(Range(s)), t)
  BY DEF Supported
<1>2. QED
  BY <1>1, ConcatStatements, ConcatSupported

\* The tables of the first migration, and those of the second and the third.
Tables1 == {<<"users", "">>, <<"settings", "">>, <<"people", "">>, <<"planning", "">>,
            <<"oncall", "">>}
Tables2 == Tables1 \cup {<<"projects", "">>}
Tables3 == Tables2 \cup {<<"audit_log", "">>}

\* The first migration starts from nothing.
LEMMA FirstMigration ==
  Supported({}, M001_init) /\ Tables1 \subseteq Objects(Range(M001_init))
<1> DEFINE list == M001_init
<1>1. /\ DOMAIN list = 1..13
      /\ list[1] = Create("users") /\ list[2] = Create("settings")
      /\ list[3] = Create("people") /\ list[4] = Create("planning")
      /\ list[5] = Create("rotation") /\ list[6] = Create("oncall")
      /\ \A n \in 7..13 : \E key : list[n] = Default(key)
  <2>1. /\ DOMAIN list = 1..13
        /\ list[1] = Create("users") /\ list[2] = Create("settings")
        /\ list[3] = Create("people") /\ list[4] = Create("planning")
        /\ list[5] = Create("rotation") /\ list[6] = Create("oncall")
    BY DEF M001_init
  <2>2. /\ list[7] = Default("window_weeks") /\ list[8] = Default("prune_weeks")
        /\ list[9] = Default("week_starts") /\ list[10] = Default("run_mode")
        /\ list[11] = Default("run_target_persons") /\ list[12] = Default("theme")
        /\ list[13] = Default("export_counter")
    BY DEF M001_init
  <2>3. \A n \in 7..13 : n \in {7, 8, 9, 10, 11, 12, 13}
    OBVIOUS
  <2>4. QED
    BY <2>1, <2>2, <2>3
<1> HIDE DEF list
<1>2. \A n \in 1..6 : \E table : list[n] = Create(table)
  <2>1. \A n \in 1..6 : n \in {1, 2, 3, 4, 5, 6}
    OBVIOUS
  <2>2. QED
    BY <1>1, <2>1
<1>3. ASSUME NEW n \in DOMAIN list, NEW o \in Needs(list[n])
      PROVE  \E i \in 1..(n - 1) : o \in Objects({list[i]})
  <2>1. n \notin 1..6
    BY <1>2, <1>3, OneStatement
  <2>2. n \in 7..13 /\ 2 \in 1..(n - 1)
    BY <1>1, <2>1
  <2>3. o = <<"settings", "">>
    <3>1. PICK key : list[n] = Default(key)
      BY <1>1, <2>2
    <3>2. Needs(list[n]) = {<<"settings", "">>}
      BY <3>1, OneStatement
    <3>3. QED
      BY <1>3, <3>2
  <2>4. o \in Objects({list[2]})
    BY <1>1, <2>3, OneStatement
  <2>5. QED
    BY <2>2, <2>4
<1>4. {Create("users"), Create("settings"), Create("people"), Create("planning"),
       Create("oncall")} \subseteq Range(list)
  BY <1>1 DEF Range
<1>5. \A table : Create(table) \in Range(list) => <<table, "">> \in Objects(Range(list))
  BY OneStatement, ObjectsOfSome
<1>6. Tables1 \subseteq Objects(Range(list))
  BY <1>4, <1>5 DEF Tables1
<1>7. QED
  BY <1>3, <1>6 DEF Supported, list

\* The list of all of them, which has migration 008's UPDATE in it: none speaks of
\* a table or a column that no earlier one adds.
LEMMA StatementsType ==
  /\ Statements \in Seq(Statement) /\ Len(Statements) \in Nat \ {0}
  /\ MarkIncidents \in Whole
  /\ Supported({}, Statements)
<1> DEFINE s2 == M001_init \o M002_projects
           s3 == s2 \o M003_features
           s4 == s3 \o M004_remote
           s5 == s4 \o M005_team_lead
           s6 == s5 \o M006_offsite_incident
           s7 == s6 \o M007_audit_meta
           s8 == s7 \o M008_is_incident
           s9 == s8 \o M009_run_note
           s10 == s9 \o M010_oncall_comment
           s11 == s10 \o M011_tentative_away
<1>1. /\ M001_init \in Seq(Statement)
      /\ M002_projects \in Seq(Statement)
      /\ M003_features \in Seq(Statement)
      /\ M004_remote \in Seq(Statement)
      /\ M005_team_lead \in Seq(Statement)
      /\ M006_offsite_incident \in Seq(Statement)
      /\ M007_audit_meta \in Seq(Statement)
      /\ M008_is_incident \in Seq(Statement)
      /\ M009_run_note \in Seq(Statement)
      /\ M010_oncall_comment \in Seq(Statement)
      /\ M011_tentative_away \in Seq(Statement)
  <2>1. M001_init \in Seq(Statement)
    <3>1. M001_init \in Seq({
           Create("users"), Create("settings"), Create("people"), Create("planning"),
           Create("rotation"), Create("oncall"), Default("window_weeks"), Default("prune_weeks"),
           Default("week_starts"), Default("run_mode"), Default("run_target_persons"),
           Default("theme"), Default("export_counter")})
      BY DEF M001_init
    <3>2. QED
      BY <3>1, Listed DEF Statement
  <2>2. M002_projects \in Seq(Statement)
    <3>1. M002_projects \in Seq({Create("projects"), Create("holidays")})
      BY DEF M002_projects
    <3>2. QED
      BY <3>1, Listed DEF Statement
  <2>3. M003_features \in Seq(Statement)
    <3>1. M003_features \in Seq({
           Add("users", "selected_person_id"), Add("people", "ics_token"), Create("audit_log")})
      BY DEF M003_features
    <3>2. QED
      BY <3>1, Listed DEF Statement
  <2>4. M004_remote \in Seq(Statement)
    <3>1. M004_remote \in Seq({Add("planning", "remote")})
      BY DEF M004_remote
    <3>2. QED
      BY <3>1, Listed DEF Statement
  <2>5. M005_team_lead \in Seq(Statement)
    <3>1. M005_team_lead \in Seq({Add("projects", "team_lead")})
      BY DEF M005_team_lead
    <3>2. QED
      BY <3>1, Listed DEF Statement
  <2>6. M006_offsite_incident \in Seq(Statement)
    <3>1. M006_offsite_incident \in Seq({
           Add("planning", "offsite"), Add("planning", "incident_text")})
      BY DEF M006_offsite_incident
    <3>2. QED
      BY <3>1, Listed DEF Statement
  <2>7. M007_audit_meta \in Seq(Statement)
    <3>1. M007_audit_meta \in Seq({Add("audit_log", "meta")})
      BY DEF M007_audit_meta
    <3>2. QED
      BY <3>1, Listed DEF Statement
  <2>8. M008_is_incident \in Seq(Statement)
    <3>1. M008_is_incident \in Seq({Add("planning", "is_incident"), MarkIncidents})
      BY DEF M008_is_incident
    <3>2. QED
      BY <3>1, Listed DEF Statement
  <2>9. M009_run_note \in Seq(Statement)
    <3>1. M009_run_note \in Seq({Add("planning", "run_note")})
      BY DEF M009_run_note
    <3>2. QED
      BY <3>1, Listed DEF Statement
  <2>10. M010_oncall_comment \in Seq(Statement)
    <3>1. M010_oncall_comment \in Seq({Add("oncall", "comment")})
      BY DEF M010_oncall_comment
    <3>2. QED
      BY <3>1, Listed DEF Statement
  <2>11. M011_tentative_away \in Seq(Statement)
    <3>1. M011_tentative_away \in Seq({Add("planning", "tentative")})
      BY DEF M011_tentative_away
    <3>2. QED
      BY <3>1, Listed DEF Statement
  <2>12. QED
    BY <2>1, <2>2, <2>3, <2>4, <2>5, <2>6, <2>7, <2>8, <2>9, <2>10, <2>11
<1>4. /\ s2 \in Seq(Statement) /\ Supported({}, s2)
      /\ Tables2 \subseteq Objects(Range(s2))
  <2>1. /\ Supported(Tables1, M002_projects)
        /\ Create("projects") \in Range(M002_projects)
    <3>1. PICK a, b : a = Create("projects") /\ b = Create("holidays")
      OBVIOUS
    <3>2. Needs(a) = {} /\ Needs(b) = {}
      BY <3>1, OneStatement
    <3>3. Supported(Tables1, <<a, b>>) /\ Range(<<a, b>>) = {a, b}
      BY <3>2, ListOfTwo
    <3>4. M002_projects = <<a, b>>
      BY <3>1 DEF M002_projects
    <3>5. QED
      BY <3>1, <3>3, <3>4
  <2>2. <<"projects", "">> \in Objects(Range(M002_projects))
    BY <2>1, OneStatement, ObjectsOfSome
  <2>3. /\ s2 \in Seq(Statement) /\ Supported({}, s2)
        /\ Tables1 \cup Objects(Range(M002_projects)) \subseteq Objects(Range(s2))
    BY <1>1, <2>1, FirstMigration, OneMigrationMore
  <2>4. QED
    BY <2>2, <2>3 DEF Tables2
<1> HIDE DEF s2
<1>5. /\ s3 \in Seq(Statement) /\ Supported({}, s3)
      /\ Tables3 \subseteq Objects(Range(s3))
  <2>1. Supported(Tables2, M003_features) /\ Create("audit_log") \in Range(M003_features)
    <3>1. PICK a, b, c : /\ a = Add("users", "selected_person_id")
                         /\ b = Add("people", "ics_token") /\ c = Create("audit_log")
      OBVIOUS
    <3>2. Needs(a) = {<<"users", "">>} /\ Needs(b) = {<<"people", "">>} /\ Needs(c) = {}
      BY <3>1, OneStatement
    <3>3. <<"users", "">> \in Tables2 /\ <<"people", "">> \in Tables2
      BY DEF Tables2, Tables1
    <3>4. M003_features = <<a, b, c>>
      BY <3>1 DEF M003_features
    <3>5. Supported(Tables2, M003_features) /\ Range(M003_features) = {a, b, c}
      <4>1. /\ Needs(a) \subseteq Tables2 /\ Needs(b) \subseteq Tables2
            /\ Needs(c) \subseteq Tables2
        BY <3>2, <3>3
      <4>2. QED
        BY <3>4, <4>1, ListOfThree
    <3>6. QED
      BY <3>1, <3>5
  <2>2. <<"audit_log", "">> \in Objects(Range(M003_features))
    BY <2>1, OneStatement, ObjectsOfSome
  <2>3. /\ s3 \in Seq(Statement) /\ Supported({}, s3)
        /\ Tables2 \cup Objects(Range(M003_features)) \subseteq Objects(Range(s3))
    BY <1>1, <1>4, <2>1, OneMigrationMore
  <2>4. QED
    BY <2>2, <2>3 DEF Tables3
<1> HIDE DEF s3
<1>6. ASSUME NEW s \in Seq(Statement), NEW there, Supported({}, s), NEW table, NEW column,
             there \subseteq Objects(Range(s)), <<table, "">> \in there,
             NEW list \in Seq(Statement), list = <<Add(table, column)>>
      PROVE  /\ s \o list \in Seq(Statement) /\ Supported({}, s \o list)
             /\ there \subseteq Objects(Range(s \o list))
             /\ MarkIncidents \in Range(s) => MarkIncidents \in Range(s \o list)
  <2>1. Supported(there, list)
    <3>1. PICK a : a = Add(table, column)
      OBVIOUS
    <3>2. Needs(a) = {<<table, "">>}
      BY <3>1, OneStatement
    <3>3. QED
      BY <1>6, <3>1, <3>2, ListOfOne
  <2>2. QED
    BY <1>6, <2>1, OneMigrationMore
<1>7. /\ s4 \in Seq(Statement) /\ Supported({}, s4)
      /\ Tables3 \subseteq Objects(Range(s4))
  BY <1>1, <1>5, <1>6 DEF M004_remote, Tables1, Tables2, Tables3
<1> HIDE DEF s4
<1>8. /\ s5 \in Seq(Statement) /\ Supported({}, s5)
      /\ Tables3 \subseteq Objects(Range(s5))
  BY <1>1, <1>6, <1>7 DEF M005_team_lead, Tables1, Tables2, Tables3
<1> HIDE DEF s5
<1>9. /\ s6 \in Seq(Statement) /\ Supported({}, s6)
      /\ Tables3 \cup {<<"planning", "incident_text">>} \subseteq Objects(Range(s6))
  <2>1. PICK a, b : a = Add("planning", "offsite") /\ b = Add("planning", "incident_text")
    OBVIOUS
  <2>2. Needs(a) = {<<"planning", "">>} /\ Needs(b) = {<<"planning", "">>}
    BY <2>1, OneStatement
  <2>3. Supported(Tables3, M006_offsite_incident) /\ b \in Range(M006_offsite_incident)
    <3>1. <<"planning", "">> \in Tables3
      BY DEF Tables3, Tables2, Tables1
    <3>2. Supported(Tables3, <<a, b>>) /\ Range(<<a, b>>) = {a, b}
      <4>1. Needs(a) \subseteq Tables3 /\ Needs(b) \subseteq Tables3 \cup Objects({a})
        BY <2>2, <3>1
      <4>2. QED
        BY <4>1, ListOfTwo
    <3>3. M006_offsite_incident = <<a, b>>
      BY <2>1 DEF M006_offsite_incident
    <3>4. QED
      BY <3>2, <3>3
  <2>4. <<"planning", "incident_text">> \in Objects(Range(M006_offsite_incident))
    <3>1. Objects({b}) = {<<"planning", "incident_text">>}
      BY <2>1, OneStatement
    <3>2. QED
      BY <2>3, <3>1, ObjectsOfSome
  <2>5. /\ s6 \in Seq(Statement) /\ Supported({}, s6)
        /\ Tables3 \cup Objects(Range(M006_offsite_incident)) \subseteq Objects(Range(s6))
    BY <1>1, <1>8, <2>3, OneMigrationMore
  <2>6. QED
    BY <2>4, <2>5
<1> HIDE DEF s6
<1> DEFINE there == Tables3 \cup {<<"planning", "incident_text">>}
<1>10. s7 \in Seq(Statement) /\ Supported({}, s7) /\ there \subseteq Objects(Range(s7))
  <2>1. <<"audit_log", "">> \in there
    BY DEF Tables3
  <2>2. QED
    BY <1>1, <1>6, <1>9, <2>1 DEF M007_audit_meta
<1> HIDE DEF s7
<1>11. /\ s8 \in Seq(Statement) /\ Supported({}, s8) /\ there \subseteq Objects(Range(s8))
       /\ MarkIncidents \in Range(s8)
  <2>1. PICK a, b : a = Add("planning", "is_incident") /\ b = MarkIncidents
    OBVIOUS
  <2>2. /\ Needs(a) = {<<"planning", "">>} /\ Objects({a}) = {<<"planning", "is_incident">>}
        /\ Needs(b) = {<<"planning", "">>, <<"planning", "incident_text">>,
                       <<"planning", "is_incident">>}
    BY <2>1, OneStatement
  <2>3. Supported(there, M008_is_incident) /\ b \in Range(M008_is_incident)
    <3>1. <<"planning", "">> \in there /\ <<"planning", "incident_text">> \in there
      BY DEF Tables3, Tables2, Tables1
    <3>2. Supported(there, <<a, b>>) /\ Range(<<a, b>>) = {a, b}
      <4>1. Needs(a) \subseteq there /\ Needs(b) \subseteq there \cup Objects({a})
        BY <2>2, <3>1
      <4>2. QED
        BY <4>1, ListOfTwo
    <3>3. M008_is_incident = <<a, b>>
      BY <2>1 DEF M008_is_incident
    <3>4. QED
      BY <3>2, <3>3
  <2>4. QED
    BY <1>1, <1>10, <2>1, <2>3, OneMigrationMore
<1> HIDE DEF s8
<1>12. <<"planning", "">> \in there /\ <<"oncall", "">> \in there
  BY DEF Tables3, Tables2, Tables1
<1> HIDE DEF there
<1>13. /\ s9 \in Seq(Statement) /\ Supported({}, s9) /\ there \subseteq Objects(Range(s9))
       /\ MarkIncidents \in Range(s9)
  BY <1>1, <1>6, <1>11, <1>12 DEF M009_run_note
<1> HIDE DEF s9
<1>14. /\ s10 \in Seq(Statement) /\ Supported({}, s10) /\ there \subseteq Objects(Range(s10))
       /\ MarkIncidents \in Range(s10)
  BY <1>1, <1>6, <1>12, <1>13 DEF M010_oncall_comment
<1> HIDE DEF s10
<1>15. s11 \in Seq(Statement) /\ Supported({}, s11) /\ MarkIncidents \in Range(s11)
  BY <1>1, <1>6, <1>12, <1>14 DEF M011_tentative_away
<1>16. Statements = s11
  BY DEF Statements, s2, s3, s4, s5, s6, s7, s8, s9, s10
<1> HIDE DEF s11
<1>17. /\ Statements \in Seq(Statement) /\ Supported({}, Statements)
       /\ MarkIncidents \in Range(Statements)
  BY <1>15, <1>16
<1>18. PICK i \in DOMAIN Statements : Statements[i] = MarkIncidents
  BY <1>17 DEF Range
<1>19. Len(Statements) \in Nat /\ i \in 1..Len(Statements)
  BY <1>17
<1>20. Len(Statements) # 0
  BY <1>19
<1>21. QED
  BY <1>17, <1>18, <1>19, <1>20 DEF Whole, AllOf
-----------------------------------------------------------------------------
(* The inductive invariant.                                                 *)

\* What the first n statements have done.
Done(n) ==
  /\ Objects(AllOf(n)) \subseteq schema
  /\ Keys(AllOf(n)) \subseteq DOMAIN settings
  /\ MarkIncidents \in AllOf(n) =>
       \A k \in Slot : planning[k] # NoRow /\ planning[k].text => planning[k].flag

\* A start has done what its statements say, up to where it is.
Progress ==
  /\ pc = "migrating" => Done(at - 1)
  /\ pc \in {"read", "update", "running"} => Done(Len(Statements))

\* The rows that backfillAuditMeta read and did not update yet are those that lack a
\* meta, and its updates are what their texts say; after it, no row lacks one.
BackfillSound ==
  /\ \A id \in DOMAIN pending :
       /\ audit[id].meta = Blank /\ Readable(audit[id].event)
       /\ pending[id] = MetaOf(audit[id].event)
  /\ pc \in {"update", "running"} =>
       \A id \in DOMAIN audit :
         audit[id].meta = Blank /\ Readable(audit[id].event) => id \in DOMAIN pending
  /\ pc = "running" => DOMAIN pending = {}

\* Only events of older releases lack one.
OldEventsLackMeta ==
  \A id \in DOMAIN audit : audit[id].meta = Blank => audit[id].event \in LegacyEvent

\* The rows that this release wrote are as a start leaves them.
RowsAreMarked ==
  \A k \in Slot : stored[k] # "old" /\ planning[k] # NoRow /\ planning[k].text => planning[k].flag

IInv ==
  /\ TypeOK /\ settings \in [DOMAIN settings -> {"default", "chosen"}]
  /\ Progress /\ BackfillSound /\ OldEventsLackMeta /\ RowsAreMarked /\ RestartKeepsPlanning
-----------------------------------------------------------------------------
(* What lists of statements do.                                             *)

\* One statement more.
LEMMA OneMore ==
  ASSUME NEW n \in 1..Len(Statements)
  PROVE  AllOf(n) = AllOf(n - 1) \cup {Statements[n]}
<1>1. Len(Statements) \in Nat
  BY StatementsType
<1>2. 1..n = 1..(n - 1) \cup {n}
  BY <1>1
<1>3. QED
  BY <1>2 DEF AllOf

\* Nothing is done before the first; what some do is a part of what all do.
LEMMA PartOfWhole ==
  /\ AllOf(0) = {}
  /\ \A n \in 0..Len(Statements) : AllOf(n) \subseteq Whole
<1>1. Len(Statements) \in Nat
  BY StatementsType
<1>2. 1..0 = {} /\ \A n \in 0..Len(Statements) : 1..n \subseteq 1..Len(Statements)
  BY <1>1
<1>3. QED
  BY <1>2 DEF AllOf, Whole

\* One statement of the whole list.
LEMMA OneOfWhole ==
  ASSUME NEW n \in 1..Len(Statements)
  PROVE  /\ Objects({Statements[n]}) \subseteq Objects(Whole)
         /\ Statements[n].do = "default" => Statements[n].column \in Keys(Whole)
         /\ Keys({Statements[n]})
              = IF Statements[n].do = "default" THEN {Statements[n].column} ELSE {}
<1>1. Statements[n] \in Whole
  BY DEF Whole, AllOf
<1>2. {Statements[n]} \subseteq Whole
  BY <1>1
<1>3. Keys({Statements[n]})
        = IF Statements[n].do = "default" THEN {Statements[n].column} ELSE {}
  BY DEF Keys
<1>4. QED
  BY <1>2, <1>3, Effects

\* INSERT OR IGNORE gives the key a value, and leaves the others theirs.
LEMMA DefaultedKeeps ==
  ASSUME NEW key, settings \in [DOMAIN settings -> {"default", "chosen"}]
  PROVE  /\ DOMAIN Defaulted(key) = DOMAIN settings \cup {key}
         /\ Defaulted(key) \in [DOMAIN settings \cup {key} -> {"default", "chosen"}]
         /\ \A k \in DOMAIN settings : Defaulted(key)[k] = settings[k]
BY DEF Defaulted
-----------------------------------------------------------------------------
(* The invariant holds at first, and every step keeps it.                   *)

\* No updates.
LEMMA NothingPending ==
  DOMAIN << >> = {} /\ Range(<< >>) = {}
BY DEF Range

\* Whatever an older release left is sound.
LEMMA InitInvariant == Init => IInv
<1> SUFFICES ASSUME Init PROVE IInv
  OBVIOUS
<1> USE MigrateAssumption
<1>1. PICK n \in 0..Len(Statements) :
        /\ schema = Objects(AllOf(n))
        /\ settings \in [Keys(AllOf(n)) -> {"default"}]
        /\ planning \in [Slot -> OldRows(n)]
  BY DEF Init
<1>2. PICK old \in {<<>>} \cup {<<e>> : e \in LegacyEvent} :
        audit = [i \in DOMAIN old |-> [event |-> old[i], meta |-> Blank]]
  BY DEF Init
<1>3. /\ pc = "down" /\ at = 1 /\ pending = << >>
      /\ stored = [k \in Slot |-> "old"]
      /\ count = [stops |-> 0, writes |-> 0, events |-> 0]
  BY DEF Init
<1>4. Objects(AllOf(n)) \subseteq Objects(Whole) /\ Keys(AllOf(n)) \subseteq Keys(Whole)
  BY PartOfWhole, Effects
<1>5. planning \in [Slot -> Row \cup {NoRow}]
  BY <1>1 DEF OldRows
<1>6. /\ audit \in Seq(AuditRow)
      /\ \A id \in DOMAIN audit : audit[id].event \in LegacyEvent
  <2>1. CASE old = <<>>
    <3>1. DOMAIN old = {}
      BY <2>1
    <3>2. audit = <<>>
      BY <1>2, <3>1
    <3>3. QED
      BY <3>2
  <2>2. CASE \E e \in LegacyEvent : old = <<e>>
    <3>1. PICK e \in LegacyEvent : old = <<e>>
      BY <2>2
    <3>2. DOMAIN old = {1} /\ old[1] = e
      BY <3>1
    <3>3. PICK row : row = [event |-> e, meta |-> Blank]
      OBVIOUS
    <3>4. audit = <<row>>
      BY <1>2, <3>2, <3>3
    <3>5. row \in AuditRow
      BY <3>3 DEF AuditRow
    <3>6. QED
      BY <3>3, <3>4, <3>5
  <2>3. QED
    BY <2>1, <2>2
<1>7. settings \in [DOMAIN settings -> {"default", "chosen"}] /\ DOMAIN settings = Keys(AllOf(n))
  BY <1>1
<1>8. TypeOK
  <2>1. Range(settings) \subseteq {"default", "chosen"}
    BY <1>7 DEF Range
  <2>2. 1 \in 1..Len(Statements)
    BY StatementsType
  <2>3. stored \in [Slot -> Stored]
    BY <1>3 DEF Stored
  <2>4. count \in [stops : 0..MaxStops, writes : 0..MaxWrites, events : 0..MaxEvents]
    BY <1>3 DEF MigrateAssumption
  <2>5. DOMAIN pending \subseteq DOMAIN audit /\ Range(pending) \subseteq ParsedMeta
    BY <1>3, NothingPending
  <2>6. QED
    BY <1>1, <1>3, <1>4, <1>5, <1>6, <1>7, <2>1, <2>2, <2>3, <2>4, <2>5 DEF TypeOK
<1>9. QED
  BY <1>3, <1>6, <1>7, <1>8
     DEF IInv, Progress, BackfillSound, OldEventsLackMeta, RowsAreMarked, RestartKeepsPlanning

\* A start begins before the first statement.
LEMMA StartKeeps ==
  ASSUME IInv, Start PROVE IInv'
<1>1. Done(at - 1)'
  <2>1. Objects({}) = {} /\ Keys({}) = {}
    BY DEF Objects, Keys
  <2>2. at' - 1 = 0
    BY DEF Start
  <2>3. QED
    BY <2>1, <2>2, PartOfWhole DEF Done
<1>2. TypeOK'
  <2>1. 1 \in 1..Len(Statements)
    BY StatementsType
  <2>2. QED
    BY <2>1 DEF IInv, TypeOK, Start
<1>3. QED
  BY <1>1, <1>2 DEF Start, IInv, Progress, BackfillSound, OldEventsLackMeta, RowsAreMarked,
                    RestartKeepsPlanning

\* A row that is marked again reads the same.
LEMMA MarkedAgain ==
  ASSUME NEW row \in Row \cup {NoRow}
  PROVE  /\ Marked(row) \in Row \cup {NoRow}
         /\ Marked(row) # NoRow /\ Marked(row).text => Marked(row).flag
         /\ (row # NoRow /\ row.text => row.flag) => Marked(row) = row
<1>1. CASE row = NoRow
  BY <1>1 DEF Marked
<1>2. CASE row # NoRow
  <2>1. PICK t \in BOOLEAN, f \in BOOLEAN : row = [text |-> t, flag |-> f]
    BY <1>2 DEF Row
  <2>2. CASE t
    <3>1. Marked(row) = [text |-> t, flag |-> TRUE]
      BY <1>2, <2>1, <2>2 DEF Marked
    <3>2. f => row = [text |-> t, flag |-> TRUE]
      BY <2>1
    <3>3. row.text /\ (row.flag => f)
      BY <2>1, <2>2
    <3>4. [text |-> t, flag |-> TRUE] \in Row
      BY DEF Row
    <3>5. QED
      BY <1>2, <3>1, <3>2, <3>3, <3>4
  <2>3. CASE ~t
    BY <1>2, <2>1, <2>3 DEF Marked
  <2>4. QED
    BY <2>2, <2>3
<1>3. QED
  BY <1>1, <1>2
\* A statement does what it says, and takes nothing back.
LEMMA MigrateKeeps ==
  ASSUME IInv, Migrate PROVE IInv'
<1> DEFINE s == Statements[at]
<1>1. pc = "migrating" /\ at \in 1..Len(Statements) /\ Len(Statements) \in Nat
  BY StatementsType DEF IInv, TypeOK, Migrate
<1>2. /\ schema' = schema \cup Objects({s})
      /\ settings' = IF s.do = "default" THEN Defaulted(s.column) ELSE settings
      /\ planning' = IF s.do = "mark" THEN [k \in Slot |-> Marked(planning[k])] ELSE planning
      /\ UNCHANGED <<audit, pending, stored, count>>
  BY DEF Migrate
<1>3. /\ at = Len(Statements) => pc' = "read" /\ at' = 1
      /\ at # Len(Statements) => pc' = "migrating" /\ at' = at + 1
  BY DEF Migrate
<1>4. Done(at - 1)
  BY <1>1 DEF IInv, Progress
<1>5. /\ AllOf(at) = AllOf(at - 1) \cup {s}
      /\ Objects(AllOf(at)) = Objects(AllOf(at - 1)) \cup Objects({s})
      /\ Keys(AllOf(at)) = Keys(AllOf(at - 1)) \cup Keys({s})
      /\ Objects({s}) \subseteq Objects(Whole)
      /\ s.do = "default" => s.column \in Keys(Whole)
      /\ Keys({s}) = IF s.do = "default" THEN {s.column} ELSE {}
  <2>1. AllOf(at) = AllOf(at - 1) \cup {s}
    BY <1>1, OneMore
  <2>2. /\ Objects(AllOf(at - 1) \cup {s}) = Objects(AllOf(at - 1)) \cup Objects({s})
        /\ Keys(AllOf(at - 1) \cup {s}) = Keys(AllOf(at - 1)) \cup Keys({s})
    BY DEF Objects, Keys
  <2>3. QED
    BY <1>1, <2>1, <2>2, OneOfWhole
<1> HIDE DEF s
<1>6. /\ settings' \in [DOMAIN settings' -> {"default", "chosen"}]
      /\ DOMAIN settings' = DOMAIN settings \cup Keys({s})
      /\ Range(settings') \subseteq {"default", "chosen"}
  <2>1. settings \in [DOMAIN settings -> {"default", "chosen"}]
    BY DEF IInv
  <2>2. /\ settings' \in [DOMAIN settings' -> {"default", "chosen"}]
        /\ DOMAIN settings' = DOMAIN settings \cup Keys({s})
    <3>1. CASE s.do = "default"
      BY <1>2, <1>5, <2>1, <3>1, DefaultedKeeps
    <3>2. CASE s.do # "default"
      BY <1>2, <1>5, <2>1, <3>2
    <3>3. QED
      BY <3>1, <3>2
  <2>3. QED
    BY <2>2 DEF Range
<1>7. \A k \in Slot :
        /\ planning[k] \in Row \cup {NoRow}
        /\ planning'[k] \in {planning[k], Marked(planning[k])}
        /\ s.do = "mark" => planning'[k] = Marked(planning[k])
  BY <1>2 DEF IInv, TypeOK
<1>8. \A k \in Slot :
        /\ planning'[k] \in Row \cup {NoRow}
        /\ s.do = "mark" => (planning'[k] # NoRow /\ planning'[k].text => planning'[k].flag)
        /\ (planning[k] # NoRow /\ planning[k].text => planning[k].flag)
             => planning'[k] = planning[k]
  <2>1. TAKE k \in Slot
  <2>2. PICK row : row = planning[k]
    OBVIOUS
  <2>3. QED
    BY <1>7, <2>2, MarkedAgain
<1>9. planning' \in [Slot -> Row \cup {NoRow}]
  BY <1>2, <1>8 DEF IInv, TypeOK
<1>10. TypeOK'
  <2>1. schema' \subseteq Objects(Whole) /\ DOMAIN settings' \subseteq Keys(Whole)
    BY <1>2, <1>5, <1>6 DEF IInv, TypeOK
  <2>2. pc' \in {"migrating", "read"} /\ at' \in 1..Len(Statements)
    BY <1>1, <1>3
  <2>3. QED
    BY <1>2, <1>6, <1>9, <2>1, <2>2 DEF IInv, TypeOK
<1>11. Done(at)'
       <=> /\ Objects(AllOf(at')) \subseteq schema'
           /\ Keys(AllOf(at')) \subseteq DOMAIN settings'
           /\ MarkIncidents \in AllOf(at') =>
                \A k \in Slot : planning'[k] # NoRow /\ planning'[k].text => planning'[k].flag
  BY DEF Done
<1>12. /\ Objects(AllOf(at)) \subseteq schema'
       /\ Keys(AllOf(at)) \subseteq DOMAIN settings'
       /\ MarkIncidents \in AllOf(at) =>
            \A k \in Slot : planning'[k] # NoRow /\ planning'[k].text => planning'[k].flag
  <2>1. CASE MarkIncidents = s
    <3>1. s.do = "mark"
      BY <2>1 DEF MarkIncidents
    <3>2. QED
      BY <1>2, <1>4, <1>5, <1>6, <1>8, <3>1 DEF Done
  <2>2. CASE MarkIncidents # s
    BY <1>2, <1>4, <1>5, <1>6, <1>8, <2>2 DEF Done
  <2>3. QED
    BY <2>1, <2>2
<1>13. Progress'
  <2>1. CASE at = Len(Statements)
    <3>1. Done(Len(Statements))'
      BY <1>12, <2>1 DEF Done
    <3>2. QED
      BY <1>3, <2>1, <3>1 DEF Progress
  <2>2. CASE at # Len(Statements)
    <3>1. at' - 1 = at
      BY <1>1, <1>3, <2>2
    <3>2. Done(at - 1)'
      BY <1>12, <3>1 DEF Done
    <3>3. QED
      BY <1>3, <2>2, <3>2 DEF Progress
  <2>3. QED
    BY <2>1, <2>2
<1>14. \A k \in Slot : stored[k] # "old" => planning'[k] = planning[k]
  BY <1>8 DEF IInv, RowsAreMarked
<1>15. RowsAreMarked' /\ RestartKeepsPlanning'
  BY <1>2, <1>14 DEF IInv, RowsAreMarked, RestartKeepsPlanning
<1>16. BackfillSound' /\ OldEventsLackMeta'
  BY <1>1, <1>2, <1>3 DEF IInv, BackfillSound, OldEventsLackMeta
<1>17. QED
  BY <1>6, <1>10, <1>13, <1>15, <1>16 DEF IInv

\* The rows without a meta that can be read are put on the list.
LEMMA ReadKeeps ==
  ASSUME IInv, BackfillRead PROVE IInv'
<1>1. /\ pc = "read" /\ pc' = "update"
      /\ DOMAIN pending' =
           {id \in DOMAIN audit : audit[id].meta = Blank /\ Readable(audit[id].event)}
      /\ \A id \in DOMAIN pending' : pending'[id] = MetaOf(audit[id].event)
      /\ UNCHANGED <<schema, settings, planning, audit, at, stored, count>>
  BY DEF BackfillRead, Lacking
<1>2. TypeOK'
  <2>1. \A id \in DOMAIN pending' : pending'[id] \in ParsedMeta
    BY <1>1 DEF IInv, OldEventsLackMeta, ParsedMeta
  <2>2. Range(pending') \subseteq ParsedMeta
    BY <2>1 DEF Range
  <2>3. QED
    BY <1>1, <2>2 DEF IInv, TypeOK
<1>3. BackfillSound'
  BY <1>1 DEF BackfillSound
<1>4. Done(Len(Statements))'
  BY <1>1 DEF IInv, Progress, Done
<1>5. QED
  BY <1>1, <1>2, <1>3, <1>4
     DEF IInv, Progress, OldEventsLackMeta, RowsAreMarked, RestartKeepsPlanning
\* A row gets a meta, and leaves the list.
LEMMA UpdateKeeps ==
  ASSUME IInv, NEW id \in DOMAIN pending, BackfillUpdate(id) PROVE IInv'
<1>1. /\ pc = "update" /\ DOMAIN pending' = DOMAIN pending \ {id}
      /\ \A i \in DOMAIN pending \ {id} : pending'[i] = pending[i]
      /\ audit' = [audit EXCEPT ![id].meta = MetaOf(audit[id].event)]
      /\ UNCHANGED <<schema, settings, planning, pc, at, stored, count>>
  BY DEF BackfillUpdate, Restrict, IInv, BackfillSound
<1>2. /\ audit \in Seq(AuditRow) /\ id \in DOMAIN audit
      /\ audit[id].meta = Blank /\ Readable(audit[id].event)
      /\ audit[id].event \in LegacyEvent
  BY DEF IInv, TypeOK, BackfillSound, OldEventsLackMeta
<1>3. MetaOf(audit[id].event) # Blank
  BY <1>2, ParsedIsNotBlank DEF MetaOf, Readable
<1>4. PICK row : row = [event |-> audit[id].event, meta |-> MetaOf(audit[id].event)]
  OBVIOUS
<1>5. row \in AuditRow
  BY <1>2, <1>4 DEF AuditRow, ParsedMeta
<1>6. audit[id] \in AuditRow
  BY <1>2
<1>7. [audit[id] EXCEPT !.meta = MetaOf(audit[id].event)] = row
  BY <1>4, <1>6 DEF AuditRow
<1>8. audit' = [audit EXCEPT ![id] = row]
  BY <1>1, <1>7
<1>9. audit' \in Seq(AuditRow) /\ DOMAIN audit' = DOMAIN audit
  BY <1>2, <1>5, <1>8
<1>10. \A i \in DOMAIN audit : audit'[i] = IF i = id THEN row ELSE audit[i]
  BY <1>2, <1>8
<1>11. TypeOK'
  <2>1. \A i \in DOMAIN pending : pending[i] \in ParsedMeta
    BY DEF IInv, TypeOK, Range
  <2>2. Range(pending') \subseteq ParsedMeta
    BY <1>1, <2>1 DEF Range
  <2>3. QED
    BY <1>1, <1>9, <2>2 DEF IInv, TypeOK
<1>12. row.event = audit[id].event /\ row.meta # Blank
  BY <1>3, <1>4
<1>13. /\ BackfillSound
       /\ DOMAIN pending \subseteq DOMAIN audit
  BY DEF IInv, TypeOK
<1>14. \A i \in DOMAIN pending' :
         /\ audit'[i].meta = Blank /\ Readable(audit'[i].event)
         /\ pending'[i] = MetaOf(audit'[i].event)
  <2>1. TAKE i \in DOMAIN pending'
  <2>2. i \in DOMAIN pending /\ i # id /\ pending'[i] = pending[i]
    BY <1>1
  <2>3. audit'[i] = audit[i]
    BY <1>10, <1>13, <2>2
  <2>4. QED
    BY <1>13, <2>2, <2>3 DEF BackfillSound
<1>15. \A i \in DOMAIN audit' :
         audit'[i].meta = Blank /\ Readable(audit'[i].event) => i \in DOMAIN pending'
  <2>1. SUFFICES ASSUME NEW i \in DOMAIN audit',
                        audit'[i].meta = Blank, Readable(audit'[i].event)
                 PROVE  i \in DOMAIN pending'
    OBVIOUS
  <2>2. i # id /\ audit'[i] = audit[i] /\ i \in DOMAIN audit
    BY <1>9, <1>10, <1>12, <2>1
  <2>3. QED
    BY <1>1, <1>13, <2>1, <2>2 DEF BackfillSound
<1>16. BackfillSound'
  BY <1>1, <1>14, <1>15 DEF BackfillSound
<1>17. OldEventsLackMeta'
  <2>1. \A i \in DOMAIN audit' : audit'[i].meta = Blank => audit'[i].event \in LegacyEvent
    BY <1>9, <1>10, <1>12 DEF IInv, OldEventsLackMeta
  <2>2. QED
    BY <2>1 DEF OldEventsLackMeta
<1>18. QED
  BY <1>1, <1>11, <1>16, <1>17
     DEF IInv, Progress, Done, RowsAreMarked, RestartKeepsPlanning

\* Requests are served when the list is empty.
LEMMA ReadyKeeps ==
  ASSUME IInv, Ready PROVE IInv'
<1>1. /\ pc = "update" /\ pending = << >> /\ pc' = "running"
      /\ UNCHANGED <<schema, settings, planning, audit, at, pending, stored, count>>
  BY DEF Ready
<1>2. TypeOK'
  BY <1>1 DEF IInv, TypeOK
<1>3. QED
  BY <1>1, <1>2
     DEF IInv, Progress, Done, BackfillSound, OldEventsLackMeta, RowsAreMarked,
         RestartKeepsPlanning

\* A process that dies leaves the database as it is.
LEMMA StopKeeps ==
  ASSUME IInv, Stop PROVE IInv'
<1>1. /\ pc' = "down" /\ at' = 1 /\ pending' = << >>
      /\ UNCHANGED <<schema, settings, planning, audit, stored>>
      /\ count' = count \/ (count.stops < MaxStops /\ count' = [count EXCEPT !.stops = @ + 1])
  BY DEF Stop
<1>2. count \in [stops : 0..MaxStops, writes : 0..MaxWrites, events : 0..MaxEvents]
  BY DEF IInv, TypeOK
<1>3. count' \in [stops : 0..MaxStops, writes : 0..MaxWrites, events : 0..MaxEvents]
  <2>1. CASE count.stops < MaxStops /\ count' = [count EXCEPT !.stops = @ + 1]
    <3>1. count.stops + 1 \in 0..MaxStops
      BY <1>2, <2>1, MigrateAssumption DEF MigrateAssumption
    <3>2. QED
      BY <1>2, <2>1, <3>1
  <2>2. QED
    BY <1>1, <1>2, <2>1
<1>4. 1 \in 1..Len(Statements)
  BY StatementsType
<1>5. TypeOK'
  BY <1>1, <1>3, <1>4, NothingPending DEF IInv, TypeOK
<1>6. QED
  BY <1>1, <1>5, NothingPending
     DEF IInv, Progress, BackfillSound, OldEventsLackMeta, RowsAreMarked, RestartKeepsPlanning
\* What is written and recorded while requests are served keeps the bounds.
LEMMA CountsKept ==
  ASSUME IInv
  PROVE  /\ Write => count' \in [stops : 0..MaxStops, writes : 0..MaxWrites, events : 0..MaxEvents]
         /\ count.events < MaxEvents /\ count' = [count EXCEPT !.events = @ + 1]
              => count' \in [stops : 0..MaxStops, writes : 0..MaxWrites, events : 0..MaxEvents]
<1>1. count \in [stops : 0..MaxStops, writes : 0..MaxWrites, events : 0..MaxEvents]
  BY DEF IInv, TypeOK
<1>2. /\ count.writes < MaxWrites => count.writes + 1 \in 0..MaxWrites
      /\ count.events < MaxEvents => count.events + 1 \in 0..MaxEvents
  BY <1>1, MigrateAssumption DEF MigrateAssumption
<1>3. ASSUME NEW new \in 0..MaxWrites
      PROVE  [count EXCEPT !.writes = new]
               \in [stops : 0..MaxStops, writes : 0..MaxWrites, events : 0..MaxEvents]
  BY <1>1
<1>4. ASSUME NEW new \in 0..MaxEvents
      PROVE  [count EXCEPT !.events = new]
               \in [stops : 0..MaxStops, writes : 0..MaxWrites, events : 0..MaxEvents]
  BY <1>1
<1>5. QED
  BY <1>2, <1>3, <1>4 DEF Write

\* SetSlot replaces the row: what it stores reads as what it was asked to.
LEMMA SetSlotKeeps ==
  ASSUME IInv, NEW k \in Slot, SetSlot(k) PROVE IInv'
<1>1. PICK what \in {"plain", "incident", "textless"} :
        /\ planning' = [planning EXCEPT ![k] = RowFor(k, what)]
        /\ stored' = [stored EXCEPT ![k] = what]
  BY DEF SetSlot
<1>2. Write /\ pc = "running" /\ UNCHANGED <<schema, settings, audit, pc, at, pending>>
  BY DEF SetSlot, Write
<1>3. PICK row : row = RowFor(k, what)
  OBVIOUS
<1>4. row = [text |-> what = "incident", flag |-> what \in {"incident", "textless"}]
  BY <1>3 DEF RowFor
<1>5. row \in Row /\ row # NoRow /\ (row.text => row.flag) /\ Reads(row) = what
  <2>1. row \in Row /\ row # NoRow
    BY <1>4 DEF Row, NoRow
  <2>2. (row.text <=> what = "incident") /\ (row.flag <=> what \in {"incident", "textless"})
    BY <1>4
  <2>3. QED
    BY <2>1, <2>2 DEF Reads
<1>6. planning \in [Slot -> Row \cup {NoRow}] /\ stored \in [Slot -> Stored]
  BY DEF IInv, TypeOK
<1>7. planning' \in [Slot -> Row \cup {NoRow}] /\ stored' \in [Slot -> Stored]
  BY <1>1, <1>3, <1>5, <1>6 DEF Stored
<1>8. \A j \in Slot : /\ planning'[j] = IF j = k THEN row ELSE planning[j]
                      /\ stored'[j] = IF j = k THEN what ELSE stored[j]
  BY <1>1, <1>3, <1>6
<1>9. TypeOK'
  BY <1>2, <1>7, CountsKept DEF IInv, TypeOK
<1>10. Done(Len(Statements))'
  BY <1>2, <1>5, <1>8 DEF IInv, Progress, Done
<1>11. RowsAreMarked' /\ RestartKeepsPlanning'
  <2>1. \A j \in Slot :
          /\ stored'[j] # "old" /\ planning'[j] # NoRow /\ planning'[j].text => planning'[j].flag
          /\ stored'[j] # "old" => Reads(planning'[j]) = stored'[j]
    BY <1>5, <1>8 DEF IInv, RowsAreMarked, RestartKeepsPlanning
  <2>2. QED
    BY <2>1 DEF RowsAreMarked, RestartKeepsPlanning, Reads
<1>12. QED
  BY <1>2, <1>9, <1>10, <1>11 DEF IInv, Progress, BackfillSound, OldEventsLackMeta

\* So does ClearSlot.
LEMMA ClearSlotKeeps ==
  ASSUME IInv, NEW k \in Slot, ClearSlot(k) PROVE IInv'
<1>1. /\ Write /\ pc = "running" /\ UNCHANGED <<schema, settings, audit, pc, at, pending>>
      /\ planning' = [planning EXCEPT ![k] = NoRow]
      /\ stored' = [stored EXCEPT ![k] = "nothing"]
  BY DEF ClearSlot, Write
<1>2. planning \in [Slot -> Row \cup {NoRow}] /\ stored \in [Slot -> Stored]
  BY DEF IInv, TypeOK
<1>3. planning' \in [Slot -> Row \cup {NoRow}] /\ stored' \in [Slot -> Stored]
  BY <1>1, <1>2 DEF Stored
<1>4. \A j \in Slot : /\ planning'[j] = IF j = k THEN NoRow ELSE planning[j]
                      /\ stored'[j] = IF j = k THEN "nothing" ELSE stored[j]
  BY <1>1, <1>2
<1>5. TypeOK'
  BY <1>1, <1>3, CountsKept DEF IInv, TypeOK
<1>6. Done(Len(Statements))'
  BY <1>1, <1>4 DEF IInv, Progress, Done
<1>7. RowsAreMarked' /\ RestartKeepsPlanning'
  <2>1. \A j \in Slot :
          /\ stored'[j] # "old" /\ planning'[j] # NoRow /\ planning'[j].text => planning'[j].flag
          /\ stored'[j] # "old" => Reads(planning'[j]) = stored'[j]
    BY <1>4 DEF IInv, RowsAreMarked, RestartKeepsPlanning, Reads
  <2>2. QED
    BY <2>1 DEF RowsAreMarked, RestartKeepsPlanning, Reads
<1>8. QED
  BY <1>1, <1>5, <1>6, <1>7 DEF IInv, Progress, BackfillSound, OldEventsLackMeta

\* A setting that is changed had a value.
LEMMA SetSettingKeeps ==
  ASSUME IInv, SetSetting PROVE IInv'
<1>1. PICK key \in Keys(Whole) : settings' = [settings EXCEPT ![key] = "chosen"]
  BY DEF SetSetting
<1>2. /\ Write /\ pc = "running"
      /\ UNCHANGED <<schema, planning, audit, pc, at, pending, stored>>
  BY DEF SetSetting, Write
<1>3. settings \in [DOMAIN settings -> {"default", "chosen"}]
  BY DEF IInv
<1>4. settings' \in [DOMAIN settings -> {"default", "chosen"}] /\ DOMAIN settings' = DOMAIN settings
  BY <1>1, <1>3
<1>5. Range(settings') \subseteq {"default", "chosen"}
  BY <1>4 DEF Range
<1>6. TypeOK'
  BY <1>2, <1>4, <1>5, CountsKept DEF IInv, TypeOK
<1>7. QED
  BY <1>2, <1>4, <1>6
     DEF IInv, Progress, Done, BackfillSound, OldEventsLackMeta, RowsAreMarked,
         RestartKeepsPlanning

\* What is recorded has its meta.
LEMMA RecordEventKeeps ==
  ASSUME IInv, RecordEvent PROVE IInv'
<1>1. PICK e \in NewEvent : audit' = Append(audit, [event |-> e, meta |-> Recorded(e)])
  BY DEF RecordEvent
<1>2. /\ pc = "running" /\ count.events < MaxEvents
      /\ count' = [count EXCEPT !.events = @ + 1]
      /\ UNCHANGED <<schema, settings, planning, pc, at, pending, stored>>
  BY DEF RecordEvent
<1>3. PICK row : row = [event |-> e, meta |-> Rich(e)]
  OBVIOUS
<1>4. audit' = Append(audit, row)
  BY <1>1, <1>3 DEF Recorded
<1>5. row \in AuditRow
  BY <1>3 DEF AuditRow
<1>6. row.meta # Blank
  BY <1>3, RecordedIsNotBlank
<1>7. audit \in Seq(AuditRow)
  BY DEF IInv, TypeOK
<1>8. audit' \in Seq(AuditRow) /\ DOMAIN audit' = DOMAIN audit \cup {Len(audit) + 1}
  BY <1>4, <1>5, <1>7
<1>9. \A i \in DOMAIN audit' : audit'[i] = row \/ (i \in DOMAIN audit /\ audit'[i] = audit[i])
  BY <1>4, <1>5, <1>7
<1>10. TypeOK'
  BY <1>2, <1>8, CountsKept DEF IInv, TypeOK
<1>11. DOMAIN pending = {}
  BY <1>2 DEF IInv, BackfillSound
<1>12. \A i \in DOMAIN audit' :
         /\ audit'[i].meta = Blank => audit'[i].event \in LegacyEvent
         /\ ~(audit'[i].meta = Blank /\ Readable(audit'[i].event))
  BY <1>2, <1>6, <1>9, <1>11 DEF IInv, BackfillSound, OldEventsLackMeta
<1>13. BackfillSound' /\ OldEventsLackMeta'
  BY <1>2, <1>11, <1>12 DEF BackfillSound, OldEventsLackMeta
<1>14. QED
  BY <1>2, <1>10, <1>13 DEF IInv, Progress, Done, RowsAreMarked, RestartKeepsPlanning
-----------------------------------------------------------------------------
(* What follows, for databases of every age, however often a start dies and *)
(* whatever is written between two starts.                                  *)

\* Every reachable state satisfies the invariant.
LEMMA Inductive == Spec => []IInv
<1>1. IInv /\ [Next]_vars => IInv'
  <2>1. SUFFICES ASSUME IInv, [Next]_vars PROVE IInv'
    OBVIOUS
  <2>2. CASE Start
    BY <2>1, <2>2, StartKeeps
  <2>3. CASE Migrate
    BY <2>1, <2>3, MigrateKeeps
  <2>4. CASE BackfillRead
    BY <2>1, <2>4, ReadKeeps
  <2>5. CASE Ready
    BY <2>1, <2>5, ReadyKeeps
  <2>6. CASE \E id \in DOMAIN pending : BackfillUpdate(id)
    BY <2>1, <2>6, UpdateKeeps
  <2>7. CASE Stop
    BY <2>1, <2>7, StopKeeps
  <2>8. CASE RecordEvent
    BY <2>1, <2>8, RecordEventKeeps
  <2>9. CASE SetSetting
    BY <2>1, <2>9, SetSettingKeeps
  <2>10. CASE \E k \in Slot : SetSlot(k) \/ ClearSlot(k)
    BY <2>1, <2>10, SetSlotKeeps, ClearSlotKeeps
  <2>11. CASE UNCHANGED vars
    BY <2>1, <2>11
       DEF vars, IInv, TypeOK, Progress, Done, BackfillSound, OldEventsLackMeta, RowsAreMarked,
           RestartKeepsPlanning
  <2>12. QED
    BY <2>1, <2>2, <2>3, <2>4, <2>5, <2>6, <2>7, <2>8, <2>9, <2>10, <2>11 DEF Next, Startup
<1>2. QED
  BY InitInvariant, <1>1, PTL DEF Spec

\* Every variable keeps its type (store.go, New): whatever the texts of the old
\* events are, a meta is only ever one that parseLegacyAuditMeta or a handler made.
THEOREM TypeCorrect == Spec => []TypeOK
<1>1. IInv => TypeOK
  BY DEF IInv
<1>2. QED
  BY Inductive, <1>1, PTL

\* The statement that a start is at can be run: the tables and columns it speaks of are
\* there, and one that it adds a second time is let pass.
NoStatementFails == pc = "migrating" => ~Fails(Statements[at])

\* However old the database and however often starts were stopped, no statement of a
\* start fails (store.go, migrate): a start never speaks of what it has not yet made
\* sure of.
THEOREM EveryStatementSucceeds == Spec => []NoStatementFails
<1>1. IInv => NoStatementFails
  <2>1. SUFFICES ASSUME IInv, pc = "migrating" PROVE ~Fails(Statements[at])
    BY DEF NoStatementFails
  <2>2. Done(at - 1) /\ at \in DOMAIN Statements /\ at \in Nat
    BY <2>1, StatementsType DEF IInv, Progress, TypeOK
  <2>3. Supported({}, Statements)
    BY StatementsType
  <2>4. ASSUME NEW o \in Needs(Statements[at]) PROVE o \in schema
    <3>1. PICK i \in 1..(at - 1) : o \in Objects({Statements[i]})
      BY <2>2, <2>3, <2>4 DEF Supported
    <3>2. Statements[i] \in AllOf(at - 1)
      BY <3>1 DEF AllOf
    <3>3. o \in Objects(AllOf(at - 1))
      BY <3>1, <3>2, ObjectsOfSome
    <3>4. QED
      BY <2>2, <3>3 DEF Done
  <2>5. QED
    BY <2>4 DEF Fails, Duplicate, Tolerated
<1>2. QED
  BY Inductive, <1>1, PTL

\* Requests are served on the whole schema, with every default, every incident marked
\* and no readable event without a meta (store.go, migrate and backfillAuditMeta).
THEOREM OnlyMigratedDataIsServed == Spec => []ServesMigratedData
<1>1. IInv => ServesMigratedData
  <2>1. SUFFICES ASSUME IInv, pc = "running" PROVE ServesMigratedData
    BY DEF ServesMigratedData
  <2>2. Done(Len(Statements)) /\ TypeOK /\ BackfillSound
    BY <2>1 DEF IInv, Progress
  <2>3. schema = Objects(Whole) /\ DOMAIN settings = Keys(Whole)
    BY <2>2 DEF Done, TypeOK, Whole
  <2>4. \A k \in Slot : planning[k] # NoRow /\ planning[k].text => planning[k].flag
    BY <2>2, StatementsType DEF Done, Whole
  <2>5. \A id \in DOMAIN audit : audit[id].meta = Blank => ~Readable(audit[id].event)
    BY <2>1, <2>2 DEF BackfillSound
  <2>6. QED
    BY <2>3, <2>4, <2>5 DEF ServesMigratedData
<1>2. QED
  BY Inductive, <1>1, PTL

\* Migration 008 runs at every start, and what this release stored in a half-day still
\* reads the same (migrations/008, Store.SetSlot).
THEOREM PlanningSurvivesRestarts == Spec => []RestartKeepsPlanning
<1>1. IInv => RestartKeepsPlanning
  BY DEF IInv
<1>2. QED
  BY Inductive, <1>1, PTL

\* No step of a start changes a setting that has a value or a meta that a row has: the
\* INSERTs of migration 001 ignore the keys that exist, and backfillAuditMeta updates
\* the rows it read only.
THEOREM ChoicesSurviveRestarts == Spec => RestartKeepsChoices
<1>1. ASSUME IInv, Startup
      PROVE  /\ \A key \in DOMAIN settings : settings'[key] = settings[key]
             /\ \A id \in DOMAIN audit :
                  audit[id].meta # Blank => audit'[id].meta = audit[id].meta
  <2>1. CASE Start
    BY <2>1 DEF Start
  <2>2. CASE Migrate
    <3>1. settings' \in {Defaulted(Statements[at].column), settings} /\ audit' = audit
      BY <2>2 DEF Migrate
    <3>2. settings \in [DOMAIN settings -> {"default", "chosen"}]
      BY <1>1 DEF IInv
    <3>3. QED
      BY <3>1, <3>2, DefaultedKeeps
  <2>3. CASE BackfillRead
    BY <2>3 DEF BackfillRead
  <2>4. CASE Ready
    BY <2>4 DEF Ready
  <2>5. CASE \E id \in DOMAIN pending : BackfillUpdate(id)
    <3>1. PICK id \in DOMAIN pending : BackfillUpdate(id)
      BY <2>5
    <3>2. audit[id].meta = Blank
      BY <1>1 DEF IInv, BackfillSound
    <3>3. /\ settings' = settings
          /\ audit' = [audit EXCEPT ![id].meta = pending[id]]
      BY <3>1 DEF BackfillUpdate
    <3>4. QED
      BY <3>2, <3>3
  <2>6. QED
    BY <1>1, <2>1, <2>2, <2>3, <2>4, <2>5 DEF Startup
<1>2. IInv /\ [Next]_vars
        => [Startup => /\ \A key \in DOMAIN settings : settings'[key] = settings[key]
                       /\ \A id \in DOMAIN audit :
                            audit[id].meta # Blank => audit'[id].meta = audit[id].meta]_vars
  BY <1>1
<1>3. QED
  BY Inductive, <1>2, PTL DEF Spec, RestartKeepsChoices

-----------------------------------------------------------------------------
(* What the metas say.                                                      *)

\* A meta is the default, what the handler recorded with the event, or what is read out
\* of the texts of that event and of no other.
OwnMetas ==
  \A id \in DOMAIN audit :
    LET e == audit[id].event IN
    \/ audit[id].meta \in {Blank, Rich(e)}
    \/ Readable(e) /\ audit[id].meta = MetaOf(e)

\* An update is for the row that it was read from, however long ago.
LEMMA OwnMetasKept == Spec => []OwnMetas
<1>1. Init => OwnMetas
  <2>1. SUFFICES ASSUME Init PROVE OwnMetas
    OBVIOUS
  <2>2. PICK old : audit = [i \in DOMAIN old |-> [event |-> old[i], meta |-> Blank]]
    BY <2>1 DEF Init
  <2>3. QED
    BY <2>2 DEF OwnMetas
<1>2. OwnMetas /\ IInv /\ [Next]_vars => OwnMetas'
  <2>1. SUFFICES ASSUME OwnMetas, IInv, [Next]_vars PROVE OwnMetas'
    OBVIOUS
  <2>2. ASSUME UNCHANGED audit PROVE OwnMetas'
    BY <2>1, <2>2 DEF OwnMetas
  <2>3. ASSUME NEW id \in DOMAIN pending, BackfillUpdate(id) PROVE OwnMetas'
    <3>1. /\ audit' = [audit EXCEPT ![id].meta = pending[id]]
          /\ pending[id] = MetaOf(audit[id].event) /\ Readable(audit[id].event)
          /\ id \in DOMAIN audit /\ audit \in Seq(AuditRow)
      BY <2>1, <2>3 DEF BackfillUpdate, IInv, BackfillSound, TypeOK
    <3>2. PICK row : row = [audit[id] EXCEPT !.meta = pending[id]]
      OBVIOUS
    <3>3. /\ DOMAIN audit' = DOMAIN audit
          /\ \A i \in DOMAIN audit : audit'[i] = IF i = id THEN row ELSE audit[i]
      BY <3>1, <3>2
    <3>4. row.event = audit[id].event /\ row.meta = MetaOf(audit[id].event)
      <4>1. audit[id] \in AuditRow
        BY <3>1
      <4>2. QED
        BY <3>1, <3>2, <4>1 DEF AuditRow
    <3>5. SUFFICES ASSUME NEW i \in DOMAIN audit'
                   PROVE  LET e == audit'[i].event IN
                          \/ audit'[i].meta \in {Blank, Rich(e)}
                          \/ Readable(e) /\ audit'[i].meta = MetaOf(e)
      BY DEF OwnMetas
    <3>6. CASE i = id
      BY <3>1, <3>3, <3>4, <3>6
    <3>7. CASE i # id
      BY <2>1, <3>3, <3>7 DEF OwnMetas
    <3>8. QED
      BY <3>6, <3>7
  <2>4. CASE RecordEvent
    <3>1. PICK e \in NewEvent : audit' = Append(audit, [event |-> e, meta |-> Rich(e)])
      BY <2>4 DEF RecordEvent, Recorded
    <3>2. PICK row : row = [event |-> e, meta |-> Rich(e)]
      OBVIOUS
    <3>3. audit \in Seq(AuditRow)
      BY <2>1 DEF IInv, TypeOK
    <3>4. \A i \in DOMAIN audit' : audit'[i] = row \/ (i \in DOMAIN audit /\ audit'[i] = audit[i])
      BY <3>1, <3>2, <3>3
    <3>5. row.event = e /\ row.meta = Rich(e)
      BY <3>2
    <3>6. QED
      BY <2>1, <3>4, <3>5 DEF OwnMetas
  <2>5. CASE Stop \/ SetSetting \/ \E k \in Slot : SetSlot(k) \/ ClearSlot(k)
    <3>1. UNCHANGED audit
      BY <2>5 DEF Stop, SetSetting, SetSlot, ClearSlot
    <3>2. QED
      BY <2>2, <3>1
  <2>6. CASE Start \/ Migrate \/ BackfillRead \/ Ready \/ UNCHANGED vars
    <3>1. UNCHANGED audit
      BY <2>6 DEF Start, Migrate, BackfillRead, Ready, vars
    <3>2. QED
      BY <2>2, <3>1
  <2>7. QED
    BY <2>1, <2>3, <2>4, <2>5, <2>6 DEF Next, Startup
<1>3. QED
  BY Inductive, <1>1, <1>2, PTL DEF Spec

\* The backfill reads out of the texts of an old event, however its fields were joined,
\* what the handler of this release records beside them (store.go, parseLegacyAuditMeta;
\* writes.go): the parts of a text are split where they were joined.
THEOREM BackfilledMetasAgree == Spec => []BackfillAgrees
<1>1. OwnMetas /\ IInv => BackfillAgrees
  <2>1. SUFFICES ASSUME OwnMetas, IInv, NEW id \in DOMAIN audit, NEW e, e = audit[id].event,
                        audit[id].meta # Blank, Separable(e), e.action \notin RangeActions, ~Bare(e)
                 PROVE  Agree(audit[id].meta, Rich(e))
    BY DEF BackfillAgrees
  <2>2. e \in Event
    <3>1. audit[id] \in AuditRow
      BY <2>1 DEF IInv, TypeOK
    <3>2. QED
      BY <2>1, <3>1, MigrateAssumption DEF AuditRow, MigrateAssumption
  <2>3. CASE audit[id].meta = Rich(e)
    BY <2>2, <2>3, RichAgrees
  <2>4. CASE Readable(e) /\ audit[id].meta = MetaOf(e)
    BY <2>1, <2>2, <2>4, MetaAgrees
  <2>5. QED
    BY <2>1, <2>3, <2>4 DEF OwnMetas
<1>2. QED
  BY Inductive, OwnMetasKept, <1>1, PTL
=============================================================================
