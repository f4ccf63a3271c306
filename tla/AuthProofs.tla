----------------------------- MODULE AuthProofs -----------------------------
(***************************************************************************)
(* Proofs about Auth: its types, that roles and sessions are never older   *)
(* than the caches and cookies allow, and that only members are stored and *)
(* no known member is refused.                                             *)
(*                                                                         *)
(* The first part shows that mapGroupsToRole finds the highest role of a   *)
(* list, in whatever order.  The invariant then says of every place that   *)
(* keeps a role (cache entries, rows, requests, session tokens) when the   *)
(* directory gave it; its one hard part is FetchSound, for the row that    *)
(* UpsertUser reads back after other requests may have written it.  Steps  *)
(* on a request share what they keep to (Behaves), so that each action is  *)
(* shown to behave once and the invariant is carried across such steps     *)
(* once.                                                                   *)
(***************************************************************************)
EXTENDS Auth, FiniteSetTheorems, WellFoundedInduction, TLAPS

-----------------------------------------------------------------------------
(* The role that some groups give.                                          *)

\* One step of the loop of mapGroupsToRole.
Step(role, g) ==
  IF g = "admin" THEN "admin"
  ELSE IF g = "normal" /\ role # "admin" THEN "normal"
  ELSE IF g = "readonly" /\ role = "none" THEN "readonly"
  ELSE role

\* The highest role of some groups, case by case.
LEMMA HighestIs ==
  ASSUME NEW gs
  PROVE  Highest(gs) = IF "admin" \in gs THEN "admin" ELSE IF "normal" \in gs THEN "normal"
                       ELSE IF "readonly" \in gs THEN "readonly" ELSE "none"
<1>1. /\ Level["none"] = 0 /\ Level["readonly"] = 1 /\ Level["normal"] = 2 /\ Level["admin"] = 3
  BY DEF Level
<1> DEFINE H == IF "admin" \in gs THEN "admin" ELSE IF "normal" \in gs THEN "normal"
                       ELSE IF "readonly" \in gs THEN "readonly" ELSE "none"
<1>2. \A role \in Role \cup {"none"} :
        (role = "none" \/ role \in gs) /\ (\A g \in gs \cap Role : Level[g] <= Level[role])
        <=> role = H
  BY <1>1 DEF Role
<1>3. H \in Role \cup {"none"}
  BY DEF Role
<1> HIDE DEF H
<1>5. Highest(gs) = H
  BY <1>2, <1>3 DEF Highest
<1>6. QED
  BY <1>5 DEF H

\* One more group after some: the loop's step finds the higher role.
LEMMA StepIsHighest ==
  ASSUME NEW gs, NEW g
  PROVE  Highest(gs \cup {g}) = Step(Highest(gs), g)
<1>1. \A r : r \in gs \cup {g} <=> r \in gs \/ r = g
  OBVIOUS
<1>2. \A hs : Highest(hs) = IF "admin" \in hs THEN "admin" ELSE IF "normal" \in hs THEN "normal"
                           ELSE IF "readonly" \in hs THEN "readonly" ELSE "none"
  BY HighestIs
<1>3. QED
  BY <1>1, <1>2 DEF Step

\* A non-empty set of numbers has a least one.
LEMMA LeastNumber ==
  ASSUME NEW T \in SUBSET Nat, T # {}
  PROVE  \E x \in T : \A y \in T : x <= y
<1>1. \E x \in T : \A y \in T : ~(<<y, x>> \in OpToRel(<, Nat))
  BY NatLessThanWellFounded, WFMin, Zenon
<1>2. \E x \in T : \A y \in T : ~(y < x)
  BY <1>1, Zenon DEF OpToRel
<1>3. QED
  BY <1>2

\* ... and, up to some number, a greatest.
LEMMA GreatestNumber ==
  ASSUME NEW n \in Nat, NEW S \in SUBSET (1..n), S # {}
  PROVE  Max(S) \in S /\ \A y \in S : y <= Max(S)
<1> DEFINE T == {n - x : x \in S}
<1>1. T \in SUBSET Nat /\ T # {}
  <2>1. \A x \in S : n - x \in Nat
    OBVIOUS
  <2>2. QED
    BY <2>1
<1>2. \E x \in T : \A y \in T : x <= y
  BY <1>1, LeastNumber
<1>3. \E x \in S : \A y \in S : x >= y
  BY <1>2
<1>4. QED
  BY <1>3 DEF Max

\* mapGroupsToRole, one pass over a list in any order, finds the highest role in it.
\* The fold is a function on the sets of positions, so it is found by giving it, and by
\* a smallest set of positions where another one would differ.
LEMMA MappedIsHighest ==
  ASSUME NEW T, NEW list \in Seq(T)
  PROVE  Mapped(list) = Highest(ToSet(list))
<1> DEFINE D == DOMAIN list
           Recursion(f) == [s \in SUBSET D |->
              IF s = {} THEN "none" ELSE Step(f[s \ {Max(s)}], list[Max(s)])]
           G == [s \in SUBSET D |-> Highest({list[i] : i \in s})]
<1>1. D = 1..Len(list) /\ Len(list) \in Nat
  OBVIOUS
<1>2. IsFiniteSet(D)
  BY <1>1, FS_Interval
<1>3. \A s \in SUBSET D : s # {} => Max(s) \in s
  BY <1>1, GreatestNumber
<1>4. Mapped(list) = (CHOOSE f : f = Recursion(f))[D]
  BY Zenon DEF Mapped, FoldLeft, MapThenFoldSet, Step
<1> HIDE DEF D
<1>5. ASSUME NEW s \in SUBSET D
      PROVE  G[s] = IF s = {} THEN "none" ELSE Step(G[s \ {Max(s)}], list[Max(s)])
  <2>1. CASE s = {}
    <3>1. {list[i] : i \in s} = {}
      BY <2>1
    <3>2. Highest({}) = "none"
      BY HighestIs
    <3>3. QED
      BY <2>1, <3>1, <3>2
  <2>2. CASE s # {}
    <3>1. Max(s) \in s
      BY <1>3, <2>2
    <3>2. {list[i] : i \in s} = {list[i] : i \in s \ {Max(s)}} \cup {list[Max(s)]}
      BY <3>1
    <3>3. G[s] = Step(Highest({list[i] : i \in s \ {Max(s)}}), list[Max(s)])
      BY <3>2, StepIsHighest
    <3>4. s \ {Max(s)} \in SUBSET D
      OBVIOUS
    <3>5. QED
      BY <2>2, <3>3, <3>4
  <2>3. QED
    BY <2>1, <2>2
<1>6. G = Recursion(G)
  BY <1>5
<1> HIDE DEF G
<1>7. ASSUME NEW f, f = Recursion(f)
      PROVE  f[D] = G[D]
  <2> DEFINE Bad == {s \in SUBSET D : f[s] # G[s]}
             Sizes == {Cardinality(s) : s \in Bad}
  <2>1. SUFFICES ASSUME Bad # {} PROVE FALSE
    OBVIOUS
  <2>2. \A s \in SUBSET D : IsFiniteSet(s) /\ Cardinality(s) \in Nat
    BY <1>2, FS_Subset, FS_CardinalityType
  <2>3. Sizes \in SUBSET Nat /\ Sizes # {}
    BY <2>1, <2>2
  <2>4. PICK n \in Sizes : \A m \in Sizes : n <= m
    BY <2>3, LeastNumber
  <2>5. PICK s \in Bad : n = Cardinality(s)
    BY <2>4
  <2>6. f[s] = IF s = {} THEN "none" ELSE Step(f[s \ {Max(s)}], list[Max(s)])
    BY <1>7
  <2>7. s # {}
    BY <1>5, <2>5, <2>6
  <2>8. Max(s) \in s /\ s \ {Max(s)} \in SUBSET D
    BY <1>3, <2>7
  <2>9. Cardinality(s \ {Max(s)}) = Cardinality(s) - 1
    BY <2>2, <2>8, FS_RemoveElement
  <2>10. s \ {Max(s)} \notin Bad
    <3>1. ~(n <= Cardinality(s \ {Max(s)}))
      BY <2>2, <2>5, <2>9
    <3>2. QED
      BY <2>4, <3>1
  <2>11. f[s \ {Max(s)}] = G[s \ {Max(s)}]
    BY <2>8, <2>10
  <2>12. f[s] = G[s]
    BY <1>5, <2>6, <2>7, <2>11
  <2>13. QED
    BY <2>5, <2>12
<1> HIDE DEF Recursion
<1>8. (CHOOSE f : f = Recursion(f)) = Recursion(CHOOSE f : f = Recursion(f))
  BY <1>6, Zenon
<1>9. Mapped(list) = G[D]
  BY <1>4, <1>7, <1>8
<1>10. QED
  BY <1>9 DEF G, D, ToSet
-----------------------------------------------------------------------------
(* The lists of groups.                                                     *)

\* The elements of two lists put together.
LEMMA ConcatElements ==
  ASSUME NEW T, NEW s \in Seq(T), NEW t \in Seq(T)
  PROVE  /\ s \o t \in Seq(T)
         /\ ToSet(s \o t) = ToSet(s) \cup ToSet(t)
<1>1. s \o t \in Seq(T) /\ DOMAIN (s \o t) = 1..(Len(s) + Len(t))
  OBVIOUS
<1>2. \A i \in DOMAIN s : i \in DOMAIN (s \o t) /\ (s \o t)[i] = s[i]
  OBVIOUS
<1>3. \A i \in DOMAIN t : i + Len(s) \in DOMAIN (s \o t) /\ (s \o t)[i + Len(s)] = t[i]
  OBVIOUS
<1>4. \A i \in DOMAIN (s \o t) : i \in DOMAIN s \/ i - Len(s) \in DOMAIN t
  OBVIOUS
<1>5. \A i \in DOMAIN (s \o t) :
        \/ i \in DOMAIN s /\ (s \o t)[i] = s[i]
        \/ i - Len(s) \in DOMAIN t /\ (s \o t)[i] = t[i - Len(s)]
  OBVIOUS
<1> DEFINE u == s \o t
<1>6. /\ \A i \in DOMAIN s : i \in DOMAIN u /\ u[i] = s[i]
      /\ \A i \in DOMAIN t : \E j \in DOMAIN u : u[j] = t[i]
      /\ \A i \in DOMAIN u : (i \in DOMAIN s /\ u[i] = s[i]) \/ \E j \in DOMAIN t : u[i] = t[j]
  BY <1>2, <1>3, <1>5
<1> HIDE DEF u
<1>7. ToSet(u) = ToSet(s) \cup ToSet(t)
  BY <1>6 DEF ToSet
<1>8. QED
  BY <1>1, <1>7 DEF u

\* What map_groups hands on has the roles of the user's groups, and nothing else.
LEMMA ProxyFindsHighest ==
  ASSUME NEW gs
  PROVE  MapGroups(gs) \in Seq(Role) /\ Mapped(MapGroups(gs)) = Highest(gs)
<1> DEFINE entry(g) == IF g \in gs THEN <<g>> ELSE <<>>
           list == entry("admin") \o entry("normal") \o entry("readonly")
<1>1. list \in Seq(Role) /\ ToSet(list) = gs \cap Role
  <2>1. \A g \in Role : /\ entry(g) \in Seq(Role)
                        /\ ToSet(entry(g)) = gs \cap {g}
    BY DEF ToSet
  <2>2. {"admin", "normal", "readonly"} = Role
    BY DEF Role
  <2> HIDE DEF entry
  <2> DEFINE two == entry("admin") \o entry("normal")
  <2>3. two \in Seq(Role) /\ ToSet(two) = gs \cap {"admin", "normal"}
    BY <2>1, <2>2, ConcatElements
  <2> HIDE DEF two
  <2>4. /\ two \o entry("readonly") \in Seq(Role)
        /\ ToSet(two \o entry("readonly")) = gs \cap Role
    BY <2>1, <2>2, <2>3, ConcatElements
  <2>5. QED
    BY <2>4 DEF two
<1>2. MapGroups(gs) = list
  BY DEF MapGroups
<1> HIDE DEF list
<1>3. Highest(gs \cap Role) = Highest(gs)
  BY HighestIs DEF Role
<1>4. QED
  BY <1>1, <1>2, <1>3, MappedIsHighest

\* Whatever the order in which the provider claims them.
LEMMA ProviderFindsHighest ==
  ASSUME NEW gs \in Memberships, NEW list \in Claims(gs)
  PROVE  Mapped(list) = Highest(gs)
<1> DEFINE n == Cardinality(gs)
           named == ToSet(list)
<1>1. IsFiniteSet(gs) /\ n \in Nat
  BY AuthAssumption, FS_CardinalityType
<1>2. list \in [1..n -> gs] /\ \A i, j \in 1..n : i # j => list[i] # list[j]
  BY DEF Claims, SetToSeqs
<1> HIDE DEF n
<1>3. list \in Seq(gs)
  BY <1>1, <1>2
<1>4. list \in Injection(1..n, gs)
  BY <1>2 DEF Injection, IsInjective
<1>5. Cardinality(1..n) = n
  BY <1>1, FS_Interval
<1>6. list \in Surjection(1..n, gs)
  BY <1>1, <1>4, <1>5, FS_Injection DEF n
<1>7. named = gs
  BY <1>2, <1>6 DEF Surjection, ToSet
<1>8. QED
  BY <1>3, <1>7, MappedIsHighest

-----------------------------------------------------------------------------
(* The inductive invariant.                                                 *)

\* The history of the directory: what it says now is in it, and nothing of the future.
DirectorySound ==
  /\ \A u \in User : Highest(groups[u]) \in held[u][now]
  /\ \A u \in User, t \in 0..MaxTime : now < t => held[u][t] = {}

\* A cache entry gives the role that the directory gave when it was made.
CacheSound ==
  \A w \in Worker, u \in User :
    cache[w][u] # NoEntry => Mapped(cache[w][u].list) \in held[u][cache[w][u].ts]

\* The session tokens there are: in the browser, in requests and in answers.
Tokens ==
  {t \in {session} \cup
         UNION {{req[r].token, req[r].reply} : r \in {r \in Request : req[r] # Free}} :
     t # NoToken /\ t # Keep}

\* A token was issued for somebody in the table, for a role the directory gave recently.
TokenSound(t) ==
  LET issued == t.exp - SessionTTL IN
  /\ issued <= now
  /\ Held(t.user, t.role, issued - CacheTTL, issued)
  /\ users[t.user] # "none"

\* What the table says of anybody the directory said before.
UsersSound == \A u \in User : users[u] # "none" => Held(u, users[u], 0, now)

\* How much older than the request the role may be under which it is served.
Age(via) == CASE via = "callback" -> 0
              [] via = "proxy"    -> CacheTTL - 1
              [] via = "session"  -> CacheTTL + SessionTTL - 1

\* A request whose user is identified.
Known(r) == req[r] # Free /\ req[r].pc \in {"select", "insert", "update", "fetch"}

RequestSound(r) ==
  LET q == req[r] IN
  /\ q.start <= now /\ now <= q.start + 1
  /\ q.pc \in {"proxy", "session", "callback"} => q.via = q.pc /\ q.role = "none"
  /\ Known(r) => /\ q.via # "logout" /\ q.role # "none"
                 /\ Held(q.user, q.role, q.start - Age(q.via), now)
  /\ q.pc # "answered" => q.status = "" /\ q.reply = Keep
  /\ q.via = "session" => /\ q.token # NoToken => q.token.user = q.user
                          /\ Known(r) => q.token # NoToken
  /\ q.known => users[q.user] # "none" /\ q.pc # "insert" /\ q.via = "proxy"
  /\ q.known => q.status # "unauthorized"
  /\ q.via = "logout" => q.status = "left"

\* Another request may update the row between the two statements of an insert: with a
\* role no older than that of the request that inserted it, because every session of
\* this user began after it.
FetchSound(r) ==
  LET since == req[r].start IN
  req[r] # Free /\ req[r].pc = "fetch" =>
    /\ Held(req[r].user, users[req[r].user], since - CacheTTL, now)
    /\ users[req[r].user] # "none"
    /\ \A t \in Tokens : t.user = req[r].user => since <= t.exp - SessionTTL
    /\ \A other \in Request :
         Known(other) /\ req[other].user = req[r].user
           => Held(req[r].user, req[other].role, since - CacheTTL, now)

IInv ==
  /\ TypeOK /\ DirectorySound /\ CacheSound /\ UsersSound /\ RolesAreRecent
  /\ \A t \in Tokens : TokenSound(t)
  /\ \A r \in Request : (req[r] # Free => RequestSound(r)) /\ FetchSound(r)

-----------------------------------------------------------------------------
(* Types.                                                                   *)

\* The bounds are numbers, and nothing expires at once.
LEMMA Constants ==
  /\ CacheTTL \in Nat /\ CacheTTL >= 1 /\ SessionTTL \in Nat /\ SessionTTL >= 1
  /\ MaxTime \in Nat /\ MaxChanges \in Nat /\ MaxLogins \in Nat
BY AuthAssumption

\* A request under way has the fields of one.
LEMMA Busy ==
  ASSUME TypeOK, NEW r \in Request, req[r] # Free
  PROVE  req[r] \in RequestState
BY DEF TypeOK

\* ... of their types.
LEMMA Fields ==
  ASSUME NEW q \in RequestState
  PROVE  /\ q.via \in {"proxy", "session", "callback", "logout"} /\ q.user \in User
         /\ q.pc \in {"proxy", "session", "callback", "insert", "update", "fetch", "select",
                      "answered"}
         /\ q.token \in Token \cup {NoToken} /\ q.reply \in Token \cup {NoToken, Keep}
         /\ q.role \in Role \cup {"none"} /\ q.status \in Status
         /\ q.start \in 0..MaxTime /\ q.start \in Int
         /\ q.login \in 0..MaxLogins /\ q.code \in 0..MaxLogins
<1>1. q.start \in 0..MaxTime
  BY DEF RequestState
<1>2. QED
  BY <1>1 DEF RequestState

\* An answer is a request in its last state.
LEMMA AnsweredType ==
  ASSUME NEW q \in RequestState, NEW s \in Status, NEW t \in Token \cup {NoToken, Keep}
  PROVE  LET a == Answered(q, s, t) IN
         /\ a \in RequestState
         /\ a.pc = "answered" /\ a.status = s /\ a.reply = t /\ a.token = NoToken
         /\ a.via = q.via /\ a.user = q.user /\ a.role = q.role
         /\ a.start = q.start /\ a.known = q.known
<1> DEFINE q1 == [q EXCEPT !.pc = "answered"]
           q2 == [q1 EXCEPT !.status = s]
           q3 == [q2 EXCEPT !.reply = t]
           q4 == [q3 EXCEPT !.token = NoToken]
           q5 == [q4 EXCEPT !.login = 0]
           q6 == [q5 EXCEPT !.code = 0]
           Kept(x) == /\ x \in RequestState
                      /\ x.via = q.via /\ x.user = q.user /\ x.role = q.role
                      /\ x.start = q.start /\ x.known = q.known
<1>1. 0 \in 0..MaxLogins
  BY Constants
<1>2. Answered(q, s, t) = q6
  BY DEF Answered
<1>3. Kept(q1) /\ q1.pc = "answered"
  BY DEF RequestState
<1> HIDE DEF q1
<1>4. Kept(q2) /\ q2.pc = "answered" /\ q2.status = s
  BY <1>3 DEF RequestState
<1> HIDE DEF q2
<1>5. Kept(q3) /\ q3.pc = "answered" /\ q3.status = s /\ q3.reply = t
  BY <1>4 DEF RequestState
<1> HIDE DEF q3
<1>6. Kept(q4) /\ q4.pc = "answered" /\ q4.status = s /\ q4.reply = t /\ q4.token = NoToken
  BY <1>5 DEF RequestState
<1> HIDE DEF q4
<1>7. Kept(q5) /\ q5.pc = "answered" /\ q5.status = s /\ q5.reply = t /\ q5.token = NoToken
  BY <1>1, <1>6 DEF RequestState
<1> HIDE DEF q5
<1>8. Kept(q6) /\ q6.pc = "answered" /\ q6.status = s /\ q6.reply = t /\ q6.token = NoToken
  BY <1>1, <1>7 DEF RequestState
<1>9. QED
  BY <1>2, <1>8

\* A request that goes on to a statement on the table.
LEMMA StepType ==
  ASSUME NEW q \in RequestState, NEW pc \in {"select", "insert", "update", "fetch"}
  PROVE  LET a == [q EXCEPT !.pc = pc] IN
         /\ a \in RequestState
         /\ a.pc = pc /\ a.via = q.via /\ a.user = q.user /\ a.token = q.token /\ a.role = q.role
         /\ a.start = q.start /\ a.known = q.known /\ a.status = q.status /\ a.reply = q.reply
BY DEF RequestState

\* ... under the role that was found out.
LEMMA RoleType ==
  ASSUME NEW q \in RequestState, NEW role \in Role \cup {"none"}
  PROVE  LET a == [q EXCEPT !.role = role] IN
         /\ a \in RequestState
         /\ a.pc = q.pc /\ a.via = q.via /\ a.user = q.user /\ a.token = q.token /\ a.role = role
         /\ a.start = q.start /\ a.known = q.known /\ a.status = q.status /\ a.reply = q.reply
BY DEF RequestState

\* A request as it is sent.
LEMMA NewRequestType ==
  ASSUME TypeOK, NEW via \in {"proxy", "session", "callback"}, NEW u \in User
  PROVE  NewRequest(via, u) \in RequestState
<1>1. 0 \in 0..MaxLogins /\ now \in 0..MaxTime
  BY Constants DEF TypeOK
<1>2. QED
  BY <1>1 DEF NewRequest, RequestState, Status

\* The roles that lists of groups give.
LEMMA MappedRole ==
  ASSUME NEW gs
  PROVE  Highest(gs) \in Role \cup {"none"}
BY HighestIs DEF Role

-----------------------------------------------------------------------------
(* The directory, the clock and the table.                                  *)

\* A step on r: the other requests are where they were.
Moves(r) ==
  /\ req' \in [Request -> {Free} \cup RequestState]
  /\ \A other \in Request \ {r} : req'[other] = req[other]

\* What is known stays known: history is only added to, and nobody leaves the table.
Grows ==
  /\ \A u \in User, t \in 0..MaxTime : held[u][t] \subseteq held'[u][t]
  /\ \A u \in User : users[u] # "none" => users'[u] # "none"

\* A record in the history at some time is there for every interval around it.
LEMMA HeldAt ==
  ASSUME NEW u, NEW role, NEW t \in 0..MaxTime, role \in held[u][t],
         NEW from \in Int, NEW to \in Int, from <= t, t <= to
  PROVE  Held(u, role, from, to)
BY DEF Held

\* Time passes: the history gets its next line.
LEMMA TickEffect ==
  ASSUME TypeOK, DirectorySound, Tick
  PROVE  /\ now' = now + 1 /\ now' \in 0..MaxTime
         /\ held' \in [User -> [0..MaxTime -> SUBSET (Role \cup {"none"})]]
         /\ DirectorySound' /\ Grows
<1>1. now \in 0..MaxTime /\ now' = now + 1 /\ now' \in 0..MaxTime
  BY Constants DEF TypeOK, Tick
<1>2. ASSUME NEW u \in User
      PROVE  held'[u] = [held[u] EXCEPT ![now + 1] = {Highest(groups[u])}]
  BY <1>2 DEF Tick
<1>3. \A u \in User : Highest(groups[u]) \in Role \cup {"none"}
  BY MappedRole
<1>4. held' \in [User -> [0..MaxTime -> SUBSET (Role \cup {"none"})]]
  BY <1>1, <1>3 DEF Tick, TypeOK
<1>5. \A u \in User, t \in 0..MaxTime : now < t => held[u][t] = {}
  BY DEF DirectorySound
<1>6. \A u \in User, t \in 0..MaxTime :
        held'[u][t] = IF t = now + 1 THEN {Highest(groups[u])} ELSE held[u][t]
  <2>1. SUFFICES ASSUME NEW u \in User
                 PROVE  \A t \in 0..MaxTime :
                          held'[u][t] = IF t = now + 1 THEN {Highest(groups[u])} ELSE held[u][t]
    OBVIOUS
  <2>2. held[u] \in [0..MaxTime -> SUBSET (Role \cup {"none"})]
    BY DEF TypeOK
  <2>3. QED
    BY <1>2, <2>2
<1>7. groups' = groups /\ users' = users
  BY DEF Tick
<1> DEFINE Times == 0..MaxTime
<1>8. now' \in Times /\ \A t \in Times : t \in Int
  BY <1>1, Constants
<1>9. \A u \in User, t \in Times :
        /\ held[u][t] \subseteq held'[u][t]
        /\ t = now' => held'[u][t] = {Highest(groups[u])}
        /\ now' < t => held'[u][t] = {}
  <2>1. ASSUME NEW u \in User, NEW t \in Times
        PROVE  /\ held[u][t] \subseteq held'[u][t]
               /\ t = now' => held'[u][t] = {Highest(groups[u])}
               /\ now' < t => held'[u][t] = {}
    <3>1. held'[u][t] = IF t = now + 1 THEN {Highest(groups[u])} ELSE held[u][t]
      BY <1>6
    <3>2. now < t => held[u][t] = {}
      BY <1>5
    <3>3. t \in Int
      BY <1>8
    <3>4. QED
      BY <1>1, <3>1, <3>2, <3>3
  <2>2. QED
    BY <2>1
<1>10. QED
  BY <1>1, <1>4, <1>7, <1>8, <1>9 DEF DirectorySound, Grows

\* Something more is recorded now.
LEMMA RecordEffect ==
  ASSUME TypeOK, DirectorySound, NEW u \in User, NEW role \in Role \cup {"none"},
         held' = [held EXCEPT ![u][now] = @ \cup {role}], now' = now
  PROVE  /\ held' \in [User -> [0..MaxTime -> SUBSET (Role \cup {"none"})]]
         /\ \A v \in User, t \in 0..MaxTime : held[v][t] \subseteq held'[v][t]
         /\ \A v \in User, t \in 0..MaxTime : now < t => held'[v][t] = {}
         /\ role \in held'[u][now]
<1>1. now \in 0..MaxTime
  BY DEF TypeOK
<1>2. held' = [held EXCEPT ![u] = [held[u] EXCEPT ![now] = held[u][now] \cup {role}]]
  OBVIOUS
<1> DEFINE h == [held[u] EXCEPT ![now] = held[u][now] \cup {role}]
<1>3. held[u] \in [0..MaxTime -> SUBSET (Role \cup {"none"})]
  BY DEF TypeOK
<1>4. /\ h \in [0..MaxTime -> SUBSET (Role \cup {"none"})]
      /\ \A t \in 0..MaxTime : h[t] = IF t = now THEN held[u][t] \cup {role} ELSE held[u][t]
  BY <1>1, <1>3
<1> HIDE DEF h
<1>5. \A v \in User : held'[v] = IF v = u THEN h ELSE held[v]
  BY <1>2 DEF TypeOK, h
<1>6. \A v \in User, t \in 0..MaxTime :
        held'[v][t] = IF v = u /\ t = now THEN held[v][t] \cup {role} ELSE held[v][t]
  <2>1. ASSUME NEW v \in User, NEW t \in 0..MaxTime
        PROVE  held'[v][t] = IF v = u /\ t = now THEN held[v][t] \cup {role} ELSE held[v][t]
    <3>1. CASE v = u
      <4>1. held'[v] = h
        BY <1>5, <3>1
      <4>2. QED
        BY <1>4, <3>1, <4>1
    <3>2. CASE v # u
      BY <1>5, <3>2
    <3>3. QED
      BY <3>1, <3>2
  <2>2. QED
    BY <2>1
<1>7. held' \in [User -> [0..MaxTime -> SUBSET (Role \cup {"none"})]]
  BY <1>2, <1>4 DEF TypeOK, h
<1>8. QED
  BY <1>1, <1>6, <1>7 DEF DirectorySound

\* The groups of a user change: the history has the old role and the new one.
LEMMA ChangeGroupsEffect ==
  ASSUME TypeOK, DirectorySound, NEW u \in User, ChangeGroups(u)
  PROVE  /\ groups' \in [User -> Memberships]
         /\ held' \in [User -> [0..MaxTime -> SUBSET (Role \cup {"none"})]]
         /\ DirectorySound' /\ Grows
<1>1. PICK gs \in Memberships \ {groups[u]} :
        /\ groups' = [groups EXCEPT ![u] = gs]
        /\ held' = [held EXCEPT ![u][now] = @ \cup {Highest(gs)}]
  BY DEF ChangeGroups
<1>2. now' = now /\ users' = users
  BY DEF ChangeGroups
<1>3. Highest(gs) \in Role \cup {"none"}
  BY MappedRole
<1>4. /\ held' \in [User -> [0..MaxTime -> SUBSET (Role \cup {"none"})]]
      /\ \A v \in User, t \in 0..MaxTime : held[v][t] \subseteq held'[v][t]
      /\ \A v \in User, t \in 0..MaxTime : now < t => held'[v][t] = {}
      /\ Highest(gs) \in held'[u][now]
  BY <1>1, <1>2, <1>3, RecordEffect
<1>5. groups' \in [User -> Memberships]
  BY <1>1 DEF TypeOK
<1>6. \A v \in User : Highest(groups'[v]) \in held'[v][now]
  <2>1. now \in 0..MaxTime
    BY DEF TypeOK
  <2>2. \A v \in User : groups'[v] = IF v = u THEN gs ELSE groups[v]
    BY <1>1 DEF TypeOK
  <2>3. QED
    BY <1>4, <2>1, <2>2 DEF DirectorySound
<1>7. QED
  BY <1>2, <1>4, <1>5, <1>6 DEF DirectorySound, Grows

-----------------------------------------------------------------------------
(* What a step does to its request.                                         *)

\* A step that answers is a step on its request alone.
LEMMA AnswersEffect ==
  ASSUME TypeOK, NEW r \in Request, req[r] # Free,
         NEW s \in Status, NEW t \in Token \cup {NoToken, Keep}, Answers(r, s, t)
  PROVE  /\ Moves(r)
         /\ req'[r] = Answered(req[r], s, t) /\ req'[r] # Free
<1>1. Answered(req[r], s, t) \in RequestState /\ Answered(req[r], s, t).pc = "answered"
  BY Busy, AnsweredType
<1>2. req \in [Request -> {Free} \cup RequestState]
  BY DEF TypeOK
<1>3. req' = [req EXCEPT ![r] = Answered(req[r], s, t)]
  BY DEF Answers
<1>4. Answered(req[r], s, t) # Free
  BY <1>1 DEF Free
<1>5. QED
  BY <1>1, <1>2, <1>3, <1>4 DEF Moves

\* ... and so is one that goes on to the table.
LEMMA StepsEffect ==
  ASSUME TypeOK, NEW r \in Request, req[r] # Free,
         NEW pc \in {"select", "insert", "update", "fetch"}, NEW role \in Role \cup {"none"},
         req' = [req EXCEPT ![r].role = role, ![r].pc = pc]
  PROVE  /\ Moves(r)
         /\ req'[r] = [[req[r] EXCEPT !.role = role] EXCEPT !.pc = pc] /\ req'[r] # Free
<1> DEFINE q == [req[r] EXCEPT !.role = role]
           p == [q EXCEPT !.pc = pc]
<1>1. q \in RequestState
  BY Busy, RoleType
<1> HIDE DEF q
<1>2. p \in RequestState /\ p.pc = pc
  BY <1>1, StepType
<1> HIDE DEF p
<1>3. req \in [Request -> {Free} \cup RequestState]
  BY DEF TypeOK
<1>4. req' = [req EXCEPT ![r] = p]
  BY <1>3 DEF p, q
<1>5. p # Free
  BY <1>2 DEF Free
<1>6. QED
  BY <1>2, <1>3, <1>4, <1>5 DEF Moves, p, q

\* A token as the end of the middleware, or a login, makes it.
Issued(r, t) ==
  /\ Known(r) /\ req[r].via \in {"proxy", "callback"}
  /\ t = [user |-> req[r].user, role |-> req[r].role, exp |-> now + SessionTTL]

\* What every step of a handler keeps to: the request stays the same person's, in order,
\* and gets no tokens but its own and one issued now.
Moved(r) ==
  /\ Moves(r) /\ req'[r] # Free
  /\ req'[r].user = req[r].user /\ req'[r].start = req[r].start
  /\ Known(r)' => \/ Known(r) /\ req'[r].role = req[r].role
                  \/ req'[r].via # "session"
                  \/ req[r].token # NoToken /\ req'[r].role = req[r].token.role
  /\ req'[r].token \in {req[r].token, NoToken}
  /\ req'[r].reply \in {NoToken, Keep} \/ Issued(r, req'[r].reply)
  /\ RequestSound(r)' /\ RoleIsRecent(r)'

\* How old the role of a request may be, by its listener.
LEMMA Ages ==
  /\ Age("callback") = 0 /\ Age("proxy") = CacheTTL - 1
  /\ Age("session") = CacheTTL + SessionTTL - 1
BY DEF Age

\* An identified request had a role no older than the entry of a cache may be, or a session.
LEMMA KnownIsRecent ==
  ASSUME TypeOK, NEW r \in Request, Known(r), RequestSound(r)
  PROVE  /\ req[r].via \in {"proxy", "session", "callback"} /\ req[r].start \in Int
         /\ Age(req[r].via) \in Int
         /\ req[r].via # "session" => Held(req[r].user, req[r].role, now - CacheTTL, now)
         /\ req[r].user \in User /\ now \in 0..MaxTime
<1>1. req[r] \in RequestState /\ now \in 0..MaxTime
  BY Busy DEF Known, TypeOK
<1>2. /\ req[r].via \in {"proxy", "session", "callback"}
      /\ req[r].start \in Int /\ req[r].user \in User
  BY <1>1, Fields DEF RequestSound, Known
<1>3. Age(req[r].via) \in Int
  BY <1>2, Ages, Constants
<1>4. ASSUME req[r].via # "session"
      PROVE  Held(req[r].user, req[r].role, now - CacheTTL, now)
  <2>1. now - CacheTTL <= req[r].start - Age(req[r].via)
    <3>1. now \in Int /\ now <= req[r].start + 1
      <4>1. now \in Int
        BY <1>1
      <4>2. now <= req[r].start + 1
        BY DEF RequestSound
      <4>3. QED
        BY <4>1, <4>2
    <3>2. Age(req[r].via) <= CacheTTL - 1
      BY <1>2, <1>4, Ages, Constants
    <3>3. QED
      BY <1>2, <1>3, <3>1, <3>2, Constants
  <2>2. Held(req[r].user, req[r].role, req[r].start - Age(req[r].via), now)
    BY DEF RequestSound
  <2>3. now - CacheTTL \in Int /\ req[r].start - Age(req[r].via) \in Int
    BY <1>1, <1>2, <1>3, Constants
  <2>4. QED
    BY <1>1, <1>3, <2>1, <2>2, <2>3, Constants DEF Held
<1>5. QED
  BY <1>1, <1>2, <1>3, <1>4

\* A role found out in time: the request goes on, or is denied.
LEMMA IdentifiedEffect ==
  ASSUME TypeOK, NEW r \in Request, req[r] # Free, RequestSound(r),
         req[r].pc \in {"proxy", "session", "callback"}, now' = now, Grows,
         NEW role \in Role \cup {"none"}, NEW reply \in {NoToken, Keep},
         IF role = "none" THEN Answers(r, "denied", reply)
         ELSE req' = [req EXCEPT ![r].role = role, ![r].pc = "select"],
         NEW u, u = req[r].user, NEW from, from = req[r].start - Age(req[r].via),
         Held(u, role, from, now)',
         req[r].via = "session" => req[r].token # NoToken /\ role = req[r].token.role
  PROVE  Moved(r) /\ req'[r].pc # "fetch"
<1> DEFINE q == req[r]
<1>1. q \in RequestState /\ now \in 0..MaxTime
  BY Busy DEF TypeOK
<1>2. q.via \in {"proxy", "session", "callback"} /\ q.via = q.pc /\ q.role = "none"
  BY DEF RequestSound
<1>3. q.start \in Int /\ q.start <= now /\ now <= q.start + 1 /\ q.user \in User
  BY <1>1, Fields DEF RequestSound
<1>4. q.status = "" /\ q.reply = Keep
  BY <1>2 DEF RequestSound
<1>5. CASE role = "none"
  <2>1. Answers(r, "denied", reply)
    BY <1>5
  <2>2. Moves(r) /\ req'[r] = Answered(q, "denied", reply) /\ req'[r] # Free
    BY <2>1, AnswersEffect DEF Status
  <2>3. /\ req'[r].pc = "answered" /\ req'[r].status = "denied" /\ req'[r].reply = reply
        /\ req'[r].token = NoToken /\ req'[r].via = q.via /\ req'[r].user = q.user
        /\ req'[r].role = q.role /\ req'[r].start = q.start /\ req'[r].known = q.known
    <3>1. "denied" \in Status /\ reply \in Token \cup {NoToken, Keep}
      BY DEF Status
    <3>2. QED
      BY <1>1, <2>2, <3>1, AnsweredType
  <2>4. RequestSound(r)'
    BY <1>2, <1>3, <2>3 DEF RequestSound, Known, Grows
  <2>5. RoleIsRecent(r)'
    <3> DEFINE age == CASE q.via = "callback" -> 0
                        [] q.via = "proxy"    -> CacheTTL
                        [] q.via = "session"  -> CacheTTL + SessionTTL - 1
    <3>1. age \in Int /\ Age(q.via) \in Int /\ Age(q.via) <= age
      BY <1>2, Ages, Constants
    <3>2. q.start - age \in Int /\ from \in Int /\ q.start - age <= from
      <4> HIDE DEF age
      <4>1. QED
        BY <1>3, <3>1
    <3> HIDE DEF age
    <3>3. PICK t \in 0..MaxTime : from <= t /\ t <= now' /\ role \in held'[u][t]
      BY DEF Held
    <3>4. q.start - age <= t
      BY <3>2, <3>3, Constants
    <3>5. \E x \in 0..MaxTime : q.start - age <= x /\ x <= now' /\ role \in held'[u][x]
      BY <3>3, <3>4
    <3>6. QED
      BY <1>2, <1>5, <2>3, <3>5 DEF RoleIsRecent, Held, age
  <2>6. ~Known(r)'
    BY <2>3 DEF Known
  <2>7. QED
    BY <2>2, <2>3, <2>4, <2>5, <2>6 DEF Moved
<1>6. CASE role # "none"
  <2> DEFINE p == [q EXCEPT !.role = role]
  <2>1. req' = [req EXCEPT ![r].role = role, ![r].pc = "select"]
    BY <1>6
  <2>2. Moves(r) /\ req'[r] = [p EXCEPT !.pc = "select"] /\ req'[r] # Free
    BY <2>1, StepsEffect
  <2> DEFINE p2 == [p EXCEPT !.pc = "select"]
  <2>3. /\ p \in RequestState /\ p.via = q.via /\ p.user = q.user /\ p.token = q.token
        /\ p.role = role /\ p.start = q.start /\ p.known = q.known /\ p.status = q.status
        /\ p.reply = q.reply
    BY <1>1, RoleType
  <2> HIDE DEF p
  <2>4. /\ req'[r].pc = "select" /\ req'[r].status = "" /\ req'[r].reply = Keep
        /\ req'[r].token = q.token /\ req'[r].via = q.via /\ req'[r].user = q.user
        /\ req'[r].role = role /\ req'[r].start = q.start /\ req'[r].known = q.known
    <3>1. /\ p2.pc = "select" /\ p2.via = p.via /\ p2.user = p.user /\ p2.token = p.token
          /\ p2.role = p.role /\ p2.start = p.start /\ p2.known = p.known
          /\ p2.status = p.status /\ p2.reply = p.reply
      BY <2>3, StepType
    <3> HIDE DEF p2
    <3>2. req'[r] = p2
      BY <2>2 DEF p2
    <3>3. QED
      BY <1>4, <2>3, <3>1, <3>2
  <2>5. RequestSound(r)'
    BY <1>2, <1>3, <1>6, <2>4 DEF RequestSound, Known, Grows
  <2>6. RoleIsRecent(r)'
    BY <2>4 DEF RoleIsRecent
  <2>7. QED
    BY <2>2, <2>4, <2>5, <2>6 DEF Moved
<1>7. QED
  BY <1>5, <1>6
\* A request that is refused before its user is identified, or that loses the race of
\* two first requests.
LEMMA RefusedEffect ==
  ASSUME TypeOK, NEW r \in Request, req[r] # Free, RequestSound(r),
         NEW s \in {"unauthorized", "failed"}, Answers(r, s, Keep), now' = now, Grows,
         req[r].known => s # "unauthorized", req[r].via # "logout"
  PROVE  Moved(r) /\ req'[r].pc # "fetch"
<1>1. s \in Status
  BY DEF Status
<1>2. Moves(r) /\ req'[r] = Answered(req[r], s, Keep) /\ req'[r] # Free
  BY <1>1, AnswersEffect
<1>3. /\ req'[r].pc = "answered" /\ req'[r].status = s /\ req'[r].reply = Keep
      /\ req'[r].token = NoToken /\ req'[r].via = req[r].via /\ req'[r].user = req[r].user
      /\ req'[r].role = req[r].role /\ req'[r].start = req[r].start
      /\ req'[r].known = req[r].known
  BY <1>1, <1>2, Busy, AnsweredType
<1>4. req[r].user \in User
  BY Busy, Fields
<1>5. RequestSound(r)' /\ RoleIsRecent(r)' /\ ~Known(r)'
  BY <1>3, <1>4 DEF RequestSound, RoleIsRecent, Known, Grows
<1>6. QED
  BY <1>2, <1>3, <1>5 DEF Moved

\* The cache of some worker: what it gives was said less than CacheTTL ago.
LEMMA ProxyCachedMoves ==
  ASSUME IInv, NEW r \in Request, ProxyCached(r)
  PROVE  Moved(r) /\ Grows /\ req'[r].pc # "fetch"
<1>1. PICK w \in Worker :
        /\ At(r, "proxy") /\ Fresh(cache[w][req[r].user])
        /\ Identified(r, Mapped(cache[w][req[r].user].list))
        /\ UNCHANGED <<now, groups, held, cache, users, session, login, codes, count>>
  BY DEF ProxyCached
<1> DEFINE u    == req[r].user
           from == req[r].start - Age("proxy")
           ts   == cache[w][u].ts
           role == Mapped(cache[w][u].list)
<1>2. req[r] # Free /\ req[r].pc = "proxy"
  BY <1>1 DEF At
<1>3. TypeOK /\ RequestSound(r) /\ CacheSound
  BY <1>2 DEF IInv
<1>4. u \in User /\ req[r].start \in Int /\ req[r].via = "proxy"
  BY <1>2, <1>3, Busy, Fields DEF RequestSound
<1>5. Grows
  BY <1>1 DEF Grows
<1>6. cache[w][u] # NoEntry /\ now - ts < CacheTTL
  BY <1>1 DEF Fresh
<1>7. /\ cache[w][u] \in [list : {MapGroups(gs) : gs \in Memberships \cup {{}}}, ts : 0..now]
      /\ now \in 0..MaxTime
  BY <1>3, <1>4, <1>6 DEF TypeOK
<1>8. ts \in 0..now /\ \E gs : cache[w][u].list = MapGroups(gs)
  BY <1>7
<1>9. role \in Role \cup {"none"} /\ role \in held[u][ts]
  <2>1. role \in Role \cup {"none"}
    BY <1>8, ProxyFindsHighest, MappedRole
  <2>2. QED
    BY <1>3, <1>4, <1>6, <2>1 DEF CacheSound
<1>10. Held(u, role, from, now)
  <2>1. ts \in 0..now /\ now \in 0..MaxTime
    BY <1>7, <1>8
  <2>2. req[r].start <= now
    BY <1>3 DEF RequestSound
  <2> HIDE DEF ts
  <2>3. ts \in 0..MaxTime /\ ts <= now /\ ts \in Int /\ now \in Int
    BY <2>1, Constants
  <2>4. from \in Int /\ from <= ts
    <3>1. now - ts < CacheTTL
      BY <1>6 DEF ts
    <3>2. QED
      BY <1>4, <2>2, <2>3, <3>1, Ages, Constants
  <2> HIDE DEF from, role, u
  <2>5. QED
    BY <1>4, <1>9, <2>3, <2>4, HeldAt DEF ts
<1>11. PICK v, since, found : v = u /\ since = from /\ found = role
  OBVIOUS
<1> HIDE DEF u, role, from
<1>12. Held(v, found, since, now)'
  BY <1>1, <1>10, <1>11 DEF Held
<1>13. IF found = "none" THEN Answers(r, "denied", Keep)
       ELSE req' = [req EXCEPT ![r].role = found, ![r].pc = "select"]
  BY <1>1, <1>11 DEF Identified, u, role
<1>14. found \in Role \cup {"none"} /\ since = req[r].start - Age(req[r].via) /\ v = req[r].user
  BY <1>4, <1>9, <1>11 DEF u, from
<1>15. now' = now /\ req[r].via # "session" /\ req[r].pc \in {"proxy", "session", "callback"}
  BY <1>1, <1>2, <1>4
<1>16. Moved(r) /\ req'[r].pc # "fetch"
  BY <1>2, <1>3, <1>5, <1>12, <1>13, <1>14, <1>15, IdentifiedEffect
<1>17. QED
  BY <1>5, <1>16
\* The directory: the role is the one it gives now, or none if the query fails, and
\* the cache says so.
LEMMA ProxyLookupMoves ==
  ASSUME IInv, NEW r \in Request, ProxyLookup(r)
  PROVE  /\ Moved(r) /\ Grows /\ req'[r].pc # "fetch"
         /\ held' \in [User -> [0..MaxTime -> SUBSET (Role \cup {"none"})]]
         /\ cache' \in [Worker -> [User -> {NoEntry} \cup
              [list : {MapGroups(gs) : gs \in Memberships \cup {{}}}, ts : 0..now]]]
         /\ DirectorySound' /\ CacheSound'
<1> DEFINE u == req[r].user
<1>1. PICK w \in Worker, fails \in BOOLEAN :
        LET list == MapGroups(IF fails THEN {} ELSE groups[u]) IN
        /\ At(r, "proxy") /\ ~Fresh(cache[w][u])
        /\ cache' = [cache EXCEPT ![w][u] = [list |-> list, ts |-> now]]
        /\ Identified(r, Mapped(list))
        /\ held' = IF fails THEN [held EXCEPT ![u][now] = @ \cup {"none"}] ELSE held
        /\ UNCHANGED <<now, groups, users, session, login, codes, count>>
  BY DEF ProxyLookup
<1>2. PICK gs \in Memberships \cup {{}} :
        /\ gs = IF fails THEN {} ELSE groups[u]
        /\ cache' = [cache EXCEPT ![w][u] = [list |-> MapGroups(gs), ts |-> now]]
        /\ Identified(r, Mapped(MapGroups(gs)))
  <2>1. u \in User
    BY <1>1, Busy, Fields DEF At, IInv
  <2>2. groups[u] \in Memberships
    BY <2>1 DEF IInv, TypeOK
  <2>3. QED
    BY <1>1, <2>2
<1>3. req[r] # Free /\ req[r].pc = "proxy"
  BY <1>1 DEF At
<1>4. TypeOK /\ RequestSound(r) /\ CacheSound /\ DirectorySound
  BY <1>3 DEF IInv
<1>5. /\ u \in User /\ req[r].start \in Int /\ req[r].via = "proxy"
      /\ now \in 0..MaxTime /\ now \in Int /\ req[r].start <= now
  <2>1. now \in 0..MaxTime
    BY <1>4 DEF TypeOK
  <2>2. now \in Int
    BY <2>1
  <2>3. u \in User /\ req[r].start \in Int
    BY <1>3, <1>4, Busy, Fields
  <2>4. req[r].via = "proxy" /\ req[r].start <= now
    BY <1>3, <1>4 DEF RequestSound
  <2>5. QED
    BY <2>1, <2>2, <2>3, <2>4
<1>6. PICK v : v = u
  OBVIOUS
<1>7. PICK role : role = Mapped(MapGroups(gs))
  OBVIOUS
<1>8. role = Highest(gs) /\ role \in Role \cup {"none"}
  BY <1>7, ProxyFindsHighest, MappedRole
<1>9. now' = now /\ users' = users /\ groups' = groups
  BY <1>1
<1>10. /\ held' \in [User -> [0..MaxTime -> SUBSET (Role \cup {"none"})]]
       /\ \A x \in User, t \in 0..MaxTime : held[x][t] \subseteq held'[x][t]
       /\ \A x \in User, t \in 0..MaxTime : now < t => held'[x][t] = {}
       /\ role \in held'[v][now]
  <2>1. CASE fails
    <3>1. role = "none"
      BY <1>2, <1>8, <2>1, HighestIs
    <3>2. held' = [held EXCEPT ![v][now] = @ \cup {role}]
      BY <1>1, <1>6, <2>1, <3>1
    <3>3. QED
      BY <1>4, <1>5, <1>6, <1>8, <1>9, <3>2, RecordEffect
  <2>2. CASE ~fails
    <3>1. held' = held /\ gs = groups[v]
      BY <1>1, <1>2, <1>6, <2>2
    <3>2. Highest(groups[v]) \in held[v][now]
      BY <1>4, <1>5, <1>6 DEF DirectorySound
    <3>3. held \in [User -> [0..MaxTime -> SUBSET (Role \cup {"none"})]]
      BY <1>4 DEF TypeOK
    <3>4. \A x \in User, t \in 0..MaxTime : now < t => held[x][t] = {}
      BY <1>4 DEF DirectorySound
    <3>5. QED
      BY <1>8, <3>1, <3>2, <3>3, <3>4
  <2>3. QED
    BY <2>1, <2>2
<1>11. Grows
  BY <1>9, <1>10 DEF Grows
<1>12. DirectorySound'
  <2>1. \A x \in User : Highest(groups[x]) \in held'[x][now]
    BY <1>4, <1>5, <1>10 DEF DirectorySound
  <2>2. QED
    BY <1>9, <1>10, <2>1 DEF DirectorySound
<1> DEFINE entry == [list |-> MapGroups(gs), ts |-> now]
           Entry == {NoEntry} \cup
                      [list : {MapGroups(hs) : hs \in Memberships \cup {{}}}, ts : 0..now]
<1>13. cache \in [Worker -> [User -> Entry]]
  BY <1>4 DEF TypeOK
<1>14. entry \in Entry /\ entry.list = MapGroups(gs) /\ entry.ts = now
  <2>1. now \in 0..now
    BY <1>5, Constants
  <2>2. QED
    BY <2>1
<1>15. cache' = [cache EXCEPT ![w] = [cache[w] EXCEPT ![v] = entry]]
  BY <1>2, <1>6
<1>16. \A e \in Entry : e # NoEntry => e.ts \in 0..now
  OBVIOUS
<1> HIDE DEF entry, Entry
<1>17. /\ cache' \in [Worker -> [User -> Entry]]
       /\ \A x \in Worker, y \in User :
            cache'[x][y] = cache[x][y] \/ (y = v /\ cache'[x][y] = entry)
  BY <1>5, <1>6, <1>13, <1>14, <1>15
<1>18. CacheSound'
  <2>1. ASSUME NEW x \in Worker, NEW y \in User, cache'[x][y] # NoEntry
        PROVE  Mapped(cache'[x][y].list) \in held'[y][cache'[x][y].ts]
    <3>1. CASE cache'[x][y] = cache[x][y]
      <4>1. Mapped(cache[x][y].list) \in held[y][cache[x][y].ts]
        BY <1>4, <2>1, <3>1 DEF CacheSound
      <4>2. cache[x][y].ts \in 0..now
        BY <1>13, <1>16, <2>1, <3>1
      <4>3. cache[x][y].ts \in 0..MaxTime
        BY <1>5, <4>2, Constants
      <4>4. QED
        BY <1>10, <3>1, <4>1, <4>3
    <3>2. CASE y = v /\ cache'[x][y] = entry
      BY <1>7, <1>10, <1>14, <3>2
    <3>3. QED
      BY <1>17, <3>1, <3>2
  <2>2. QED
    BY <2>1 DEF CacheSound
<1>19. PICK since : since = req[r].start - Age("proxy")
  OBVIOUS
<1>20. Held(v, role, since, now)'
  <2>1. since \in Int /\ since <= now
    BY <1>5, <1>19, Ages, Constants
  <2>2. QED
    BY <1>5, <1>9, <1>10, <2>1 DEF Held
<1>21. IF role = "none" THEN Answers(r, "denied", Keep)
       ELSE req' = [req EXCEPT ![r].role = role, ![r].pc = "select"]
  BY <1>2, <1>7 DEF Identified
<1>22. since = req[r].start - Age(req[r].via) /\ v = req[r].user /\ req[r].via # "session"
  BY <1>5, <1>6, <1>19
<1>23. Moved(r) /\ req'[r].pc # "fetch"
  BY <1>3, <1>4, <1>8, <1>9, <1>11, <1>20, <1>21, <1>22, IdentifiedEffect
<1>24. QED
  BY <1>10, <1>11, <1>12, <1>17, <1>18, <1>23 DEF Entry
\* What a token says of the time at which it was issued.
LEMMA TokenFields ==
  ASSUME NEW t \in Token
  PROVE  /\ t.user \in User /\ t.role \in Role /\ t.exp \in Int /\ t # NoToken /\ t # Keep
         /\ t.exp \in 1..(MaxTime + SessionTTL)
BY Constants DEF Token, NoToken, Keep

\* The token that a request brought is one of the tokens there are.
LEMMA BroughtToken ==
  ASSUME TypeOK, NEW r \in Request, req[r] # Free, req[r].token # NoToken
  PROVE  req[r].token \in Token /\ req[r].token \in Tokens
<1>1. req[r].token \in Token
  BY Busy, Fields
<1>2. req[r].token # Keep
  BY <1>1, TokenFields
<1>3. QED
  BY <1>1, <1>2 DEF Tokens

\* The cookie: its token is still valid, so it was issued less than SessionTTL ago, for a
\* role that the directory gave at most CacheTTL before.
LEMMA TakeSessionMoves ==
  ASSUME IInv, NEW r \in Request, TakeSession(r)
  PROVE  Moved(r) /\ Grows /\ req'[r].pc # "fetch"
<1>1. /\ At(r, "session")
      /\ IF Valid(req[r].token) THEN Identified(r, req[r].token.role)
                                ELSE Answers(r, "unauthorized", Keep)
      /\ UNCHANGED <<now, groups, held, cache, users, session, login, codes, count>>
  BY DEF TakeSession
<1>2. req[r] # Free /\ req[r].pc = "session"
  BY <1>1 DEF At
<1>3. TypeOK /\ RequestSound(r) /\ \A t \in Tokens : TokenSound(t)
  BY <1>2 DEF IInv
<1>4. req[r].user \in User /\ req[r].start \in Int /\ req[r].via = "session"
  BY <1>2, <1>3, Busy, Fields DEF RequestSound
<1>5. Grows /\ now' = now
  BY <1>1 DEF Grows
<1>6. now \in 0..MaxTime /\ now \in Int
  <2>1. now \in 0..MaxTime
    BY <1>3 DEF TypeOK
  <2>2. QED
    BY <2>1
<1>7. req[r].start <= now /\ now <= req[r].start + 1
  BY <1>3 DEF RequestSound
<1>8. CASE Valid(req[r].token)
  <2>1. PICK token : token = req[r].token
    OBVIOUS
  <2>2. token # NoToken /\ now < token.exp
    BY <1>8, <2>1 DEF Valid
  <2>3. token \in Token /\ TokenSound(token)
    BY <1>2, <1>3, <2>1, <2>2, BroughtToken
  <2>4. token.role \in Role /\ token.exp \in Int
    BY <2>3, TokenFields
  <2>5. token.user = req[r].user
    BY <1>3, <1>4, <2>1, <2>2 DEF RequestSound
  <2>6. PICK since, v, role :
          since = req[r].start - Age("session") /\ v = req[r].user /\ role = token.role
    OBVIOUS
  <2>7. Held(v, role, since, now)
    <3>1. PICK t \in 0..MaxTime :
            /\ token.exp - SessionTTL - CacheTTL <= t /\ t <= token.exp - SessionTTL
            /\ role \in held[v][t]
      BY <2>3, <2>5, <2>6 DEF TokenSound, Held
    <3>2. token.exp - SessionTTL <= now
      BY <2>3 DEF TokenSound
    <3>3. t \in Int
      BY <3>1
    <3>4. since <= t /\ t <= now
      BY <1>4, <1>6, <1>7, <2>2, <2>4, <2>6, <3>1, <3>2, <3>3, Ages, Constants
    <3>5. QED
      BY <3>1, <3>4 DEF Held
  <2>8. Held(v, role, since, now)'
    BY <1>1, <2>7 DEF Held
  <2>9. IF role = "none" THEN Answers(r, "denied", Keep)
        ELSE req' = [req EXCEPT ![r].role = role, ![r].pc = "select"]
    BY <1>1, <1>8, <2>1, <2>6 DEF Identified
  <2>10. QED
    BY <1>2, <1>3, <1>4, <1>5, <2>1, <2>2, <2>4, <2>6, <2>8, <2>9, IdentifiedEffect
<1>9. CASE ~Valid(req[r].token)
  <2>1. Answers(r, "unauthorized", Keep)
    BY <1>1, <1>9
  <2>2. ~(req[r].known /\ req[r].via = "session")
    BY <1>3 DEF RequestSound
  <2>3. QED
    BY <1>2, <1>3, <1>4, <1>5, <2>1, <2>2, RefusedEffect
<1>10. QED
  BY <1>5, <1>8, <1>9
\* The callback without the cookies of its login.
LEMMA RefuseStateMoves ==
  ASSUME IInv, NEW r \in Request, RefuseState(r)
  PROVE  Moved(r) /\ Grows /\ req'[r].pc # "fetch"
<1>1. /\ req[r] # Free /\ req[r].pc = "callback" /\ Answers(r, "failed", Keep)
      /\ UNCHANGED <<now, groups, held, cache, users, session, login, codes, count>>
  BY DEF RefuseState, At
<1>2. TypeOK /\ RequestSound(r)
  BY <1>1 DEF IInv
<1>3. Grows /\ now' = now
  BY <1>1 DEF Grows
<1>4. req[r].via # "logout"
  BY <1>1, <1>2 DEF RequestSound
<1>5. QED
  BY <1>1, <1>2, <1>3, <1>4, RefusedEffect

\* The callback: the ID token claims the groups of this moment.
LEMMA ExchangeMoves ==
  ASSUME IInv, NEW r \in Request, Exchange(r)
  PROVE  Moved(r) /\ Grows /\ req'[r].pc # "fetch"
<1>1. /\ req[r] # Free /\ req[r].pc = "callback"
      /\ IF req[r].code \notin codes THEN Answers(r, "failed", Keep)
         ELSE \E list \in Claims(groups[req[r].user]) :
                IF Mapped(list) # "none" THEN Identified(r, Mapped(list))
                                         ELSE Answers(r, "denied", NoToken)
      /\ UNCHANGED <<now, groups, held, cache, users, session, login, count>>
  BY DEF Exchange, At
<1>2. TypeOK /\ RequestSound(r) /\ DirectorySound
  BY <1>1 DEF IInv
<1>3. Grows /\ now' = now
  BY <1>1 DEF Grows
<1>4. req[r].via = "callback"
  BY <1>1, <1>2 DEF RequestSound
<1>5. CASE req[r].code \notin codes
  <2>1. Answers(r, "failed", Keep)
    BY <1>1, <1>5
  <2>2. QED
    BY <1>1, <1>2, <1>3, <1>4, <2>1, RefusedEffect
<1>6. CASE req[r].code \in codes
  <2>1. PICK list \in Claims(groups[req[r].user]) :
          IF Mapped(list) # "none" THEN Identified(r, Mapped(list))
                                   ELSE Answers(r, "denied", NoToken)
    BY <1>1, <1>6
  <2>2. PICK u, role, since :
          u = req[r].user /\ role = Mapped(list) /\ since = req[r].start - Age("callback")
    OBVIOUS
  <2>3. u \in User /\ req[r].start \in Int
    BY <1>1, <1>2, <2>2, Busy, Fields
  <2>4. groups[u] \in Memberships /\ now \in 0..MaxTime
    BY <1>2, <2>3 DEF TypeOK
  <2>5. role = Highest(groups[u]) /\ role \in Role \cup {"none"}
    BY <2>1, <2>2, <2>4, ProviderFindsHighest, MappedRole
  <2>6. Held(u, role, since, now)
    <3>1. role \in held[u][now]
      BY <1>2, <2>3, <2>5 DEF DirectorySound
    <3>2. now \in Int
      BY <2>4
    <3>3. req[r].start <= now
      BY <1>2 DEF RequestSound
    <3>4. since \in Int /\ since <= now
      BY <2>2, <2>3, <3>2, <3>3, Ages
    <3>5. QED
      BY <2>3, <2>4, <3>1, <3>2, <3>4, HeldAt
  <2>7. Held(u, role, since, now)'
    BY <1>1, <2>6 DEF Held
  <2>8. PICK reply \in {NoToken, Keep} :
          IF role = "none" THEN Answers(r, "denied", reply)
          ELSE req' = [req EXCEPT ![r].role = role, ![r].pc = "select"]
    BY <2>1, <2>2 DEF Identified
  <2>9. since = req[r].start - Age(req[r].via) /\ req[r].via # "session"
    BY <1>4, <2>2
  <2>10. QED
    BY <1>1, <1>2, <1>3, <2>2, <2>5, <2>7, <2>8, <2>9, IdentifiedEffect
<1>7. QED
  BY <1>5, <1>6

\* A step to another statement leaves the rest of the request alone.
LEMMA StatementMoves ==
  ASSUME TypeOK, NEW r \in Request, Known(r), RequestSound(r), now' = now, Grows,
         NEW pc \in {"insert", "update", "fetch"}, req' = [req EXCEPT ![r].pc = pc],
         req[r].known => pc # "insert",
         Held(req[r].user, req[r].role, req[r].start - Age(req[r].via), now)
  PROVE  Moved(r) /\ Moves(r) /\ req'[r].pc = pc
<1> DEFINE q == req[r]
           p == [q EXCEPT !.pc = pc]
<1>1. q \in RequestState /\ q # Free
  BY Busy DEF Known
<1>2. /\ p \in RequestState
      /\ p.pc = pc /\ p.via = q.via /\ p.user = q.user /\ p.token = q.token /\ p.role = q.role
      /\ p.start = q.start /\ p.known = q.known /\ p.status = q.status /\ p.reply = q.reply
  <2>1. pc \in {"select", "insert", "update", "fetch"}
    OBVIOUS
  <2> HIDE DEF p
  <2>2. p = [q EXCEPT !.pc = pc]
    BY DEF p
  <2>3. QED
    BY <1>1, <2>1, <2>2, StepType
<1> HIDE DEF p
<1>3. req \in [Request -> {Free} \cup RequestState]
  BY DEF TypeOK
<1>4. req' = [req EXCEPT ![r] = p]
  BY <1>3 DEF p
<1>5. p # Free
  BY <1>2 DEF Free
<1>6. Moves(r) /\ req'[r] = p
  BY <1>2, <1>3, <1>4 DEF Moves
<1>7. q.status = "" /\ q.reply = Keep
  BY DEF RequestSound, Known
<1>8. PICK u, role, since : u = q.user /\ role = q.role /\ since = q.start - Age(q.via)
  OBVIOUS
<1>9. u \in User /\ now \in 0..MaxTime /\ since \in Int
  <2>1. now \in 0..MaxTime /\ q.user \in User /\ q.start \in Int /\ Age(q.via) \in Int
    BY KnownIsRecent
  <2>2. QED
    BY <1>8, <2>1
<1>10. Held(u, role, since, now)'
  BY <1>8, <1>9 DEF Held, Grows
<1>11. RequestSound(r)'
  BY <1>2, <1>6, <1>7, <1>8, <1>9, <1>10 DEF RequestSound, Known, Grows
<1>12. RoleIsRecent(r)'
  BY <1>2, <1>6, <1>7 DEF RoleIsRecent
<1>13. QED
  BY <1>2, <1>5, <1>6, <1>7, <1>11, <1>12 DEF Moved
\* The first statement: whether the user is in the table.
LEMMA SelectMoves ==
  ASSUME IInv, NEW r \in Request, Select(r)
  PROVE  Moved(r) /\ Grows /\ req'[r].pc \notin {"fetch", "answered"}
<1>1. /\ Known(r) /\ req[r] # Free /\ req' = [req EXCEPT ![r].pc = AfterSelect(req[r].user)]
      /\ UNCHANGED <<now, groups, held, cache, users, session, login, codes, count>>
  BY DEF Select, At, Known
<1>2. TypeOK /\ RequestSound(r)
  BY <1>1 DEF IInv
<1>3. PICK pc : pc = AfterSelect(req[r].user)
  OBVIOUS
<1>4. /\ pc \in {"insert", "update", "fetch"} /\ pc \notin {"fetch", "answered"}
      /\ req[r].known => pc # "insert"
  BY <1>2, <1>3 DEF AfterSelect, RequestSound
<1>5. Grows /\ now' = now
  BY <1>1 DEF Grows
<1>6. Held(req[r].user, req[r].role, req[r].start - Age(req[r].via), now)
  BY <1>1, <1>2 DEF RequestSound
<1>7. req' = [req EXCEPT ![r].pc = pc]
  BY <1>1, <1>3
<1>8. QED
  BY <1>1, <1>2, <1>4, <1>5, <1>6, <1>7, StatementMoves

\* The role that an identified request writes into the table.
Writes(r) ==
  /\ Known(r) /\ users' = [users EXCEPT ![req[r].user] = req[r].role]

\* Writing it keeps what the table says sound.
LEMMA WritesEffect ==
  ASSUME TypeOK, UsersSound, NEW r \in Request, RequestSound(r), Writes(r),
         held' = held, now' = now
  PROVE  /\ users' \in [User -> Role \cup {"none"}] /\ UsersSound' /\ Grows
         /\ req[r].user \in User /\ users'[req[r].user] = req[r].role
         /\ \A u \in User \ {req[r].user} : users'[u] = users[u]
<1>1. req[r].user \in User /\ req[r].role \in Role \cup {"none"} /\ req[r].role # "none"
  BY Busy, Fields DEF Writes, Known, RequestSound
<1>2. /\ users' \in [User -> Role \cup {"none"}]
      /\ users'[req[r].user] = req[r].role
      /\ \A u \in User \ {req[r].user} : users'[u] = users[u]
  BY <1>1 DEF Writes, TypeOK
<1>3. Held(req[r].user, req[r].role, 0, now)
  <2>1. Held(req[r].user, req[r].role, req[r].start - Age(req[r].via), now)
    BY DEF RequestSound, Writes
  <2>2. \A t \in 0..MaxTime : 0 <= t
    BY Constants
  <2>3. QED
    BY <2>1, <2>2 DEF Held
<1>4. ASSUME NEW u \in User, users'[u] # "none"
      PROVE  \E t \in 0..MaxTime : 0 <= t /\ t <= now /\ users'[u] \in held[u][t]
  <2>1. CASE u = req[r].user
    BY <1>2, <1>3, <2>1 DEF Held
  <2>2. CASE u # req[r].user
    BY <1>2, <1>4, <2>2 DEF UsersSound, Held
  <2>3. QED
    BY <2>1, <2>2
<1>5. UsersSound'
  BY <1>4 DEF UsersSound, Held
<1>6. Grows
  BY <1>1, <1>2 DEF Grows
<1>7. QED
  BY <1>1, <1>2, <1>5, <1>6

\* A session is only held by somebody in the table.
LEMMA SessionsAreInTheTable ==
  ASSUME IInv, NEW r \in Request, Known(r), users[req[r].user] = "none"
  PROVE  req[r].via # "session"
<1>1. TypeOK /\ RequestSound(r) /\ req[r] # Free
  BY DEF IInv, Known
<1>2. SUFFICES ASSUME req[r].via = "session" PROVE FALSE
  OBVIOUS
<1>3. req[r].token # NoToken /\ req[r].token.user = req[r].user
  BY <1>1, <1>2 DEF RequestSound
<1>4. TokenSound(req[r].token)
  BY <1>1, <1>3, BroughtToken DEF IInv
<1>5. QED
  BY <1>3, <1>4 DEF TokenSound

\* The second statement for a user who is not in the table: the row is the request's, and
\* there is no session of this user yet.  If another request was first, this one fails.
LEMMA InsertMoves ==
  ASSUME IInv, NEW r \in Request, Insert(r)
  PROVE  /\ Moved(r) /\ Grows
         /\ users' \in [User -> Role \cup {"none"}] /\ UsersSound'
         /\ \A u \in User : users'[u] = users[u] \/ (Writes(r) /\ u = req[r].user)
         /\ req'[r].pc = "fetch" => Writes(r) /\ users[req[r].user] = "none"
<1>1. /\ req[r] # Free /\ req[r].pc = "insert" /\ Known(r)
      /\ IF users[req[r].user] = "none"
         THEN /\ users' = [users EXCEPT ![req[r].user] = req[r].role]
              /\ req' = [req EXCEPT ![r].pc = "fetch"]
         ELSE /\ UNCHANGED users
              /\ Answers(r, IF req[r].via = "callback" THEN "failed" ELSE "unauthorized", Keep)
      /\ UNCHANGED <<now, groups, held, cache, session, login, codes, count>>
  BY DEF Insert, At, Known
<1>2. TypeOK /\ RequestSound(r) /\ UsersSound
  BY <1>1 DEF IInv
<1>3. ~req[r].known /\ req[r].via # "logout"
  BY <1>1, <1>2 DEF RequestSound
<1>4. CASE users[req[r].user] = "none"
  <2>1. Writes(r)
    BY <1>1, <1>4 DEF Writes
  <2>2. /\ users' \in [User -> Role \cup {"none"}] /\ UsersSound' /\ Grows
        /\ \A u \in User \ {req[r].user} : users'[u] = users[u]
    BY <1>1, <1>2, <2>1, WritesEffect
  <2>3. Held(req[r].user, req[r].role, req[r].start - Age(req[r].via), now)
    BY <1>1, <1>2 DEF RequestSound
  <2>4. Moved(r)
    BY <1>1, <1>2, <1>3, <1>4, <2>2, <2>3, StatementMoves
  <2>5. QED
    BY <1>4, <2>1, <2>2, <2>4
<1>5. CASE users[req[r].user] # "none"
  <2>1. PICK s \in {"unauthorized", "failed"} : Answers(r, s, Keep)
    BY <1>1, <1>5
  <2>2. Grows /\ now' = now /\ users' = users
    BY <1>1, <1>5 DEF Grows
  <2>3. Moved(r) /\ req'[r].pc # "fetch"
    BY <1>1, <1>2, <1>3, <2>1, <2>2, RefusedEffect
  <2>4. users' \in [User -> Role \cup {"none"}] /\ UsersSound'
    BY <1>1, <1>2, <2>2 DEF TypeOK, UsersSound, Held
  <2>5. QED
    BY <2>2, <2>3, <2>4
<1>6. QED
  BY <1>4, <1>5
\* The token that goes out with an answer, if any does.
LEMMA ReplyIs ==
  ASSUME TypeOK, NEW r \in Request, Known(r), RequestSound(r)
  PROVE  /\ Reply(r, req[r].role) \in Token \cup {Keep}
         /\ Reply(r, req[r].role) # Keep => Issued(r, Reply(r, req[r].role))
<1> DEFINE token == [user |-> req[r].user, role |-> req[r].role, exp |-> now + SessionTTL]
<1>1. Reply(r, req[r].role) = Keep
      \/ (req[r].via # "session" /\ Reply(r, req[r].role) = token)
  BY DEF Reply, Expiry
<1>2. req[r].user \in User /\ req[r].role \in Role /\ req[r].via # "logout"
  BY Busy, Fields DEF Known, RequestSound
<1>3. req[r].via \in {"proxy", "session", "callback"} /\ now \in 0..MaxTime
  BY KnownIsRecent
<1>4. now + SessionTTL \in 1..(MaxTime + SessionTTL)
  BY <1>3, Constants
<1>5. token \in Token
  BY <1>2, <1>4 DEF Token
<1>6. QED
  BY <1>1, <1>3, <1>5 DEF Issued

\* The end of the middleware: a role that was said recently enough, and a token for the
\* role of the identity.
LEMMA FinishesEffect ==
  ASSUME TypeOK, NEW r \in Request, Known(r), RequestSound(r), now' = now, Grows,
         NEW role \in Role \cup {"none"}, Finishes(r, role),
         NEW u, u = req[r].user, NEW from \in Int, Held(u, role, from, now)',
         req[r].start - CacheTTL <= from \/ req[r].via = "session",
         req[r].start - (CacheTTL + SessionTTL - 1) <= from
  PROVE  Moved(r) /\ req'[r].pc # "fetch"
<1> DEFINE q == req[r]
<1>1. PICK status \in Status :
        /\ status \in {"left", "served", "forbidden"} /\ (status = "left" <=> q.via = "callback")
        /\ req' = [req EXCEPT ![r] =
             [Answered(@, status, Reply(r, req[r].role)) EXCEPT !.role = role]]
  BY DEF Finishes, Status
<1>2. PICK t \in Token \cup {Keep} : t = Reply(r, q.role) /\ (t # Keep => Issued(r, t))
  BY ReplyIs
<1>3. q \in RequestState /\ q # Free
  BY Busy DEF Known
<1> DEFINE a == Answered(q, status, t)
<1>4. /\ a \in RequestState
      /\ a.pc = "answered" /\ a.status = status /\ a.reply = t /\ a.token = NoToken
      /\ a.via = q.via /\ a.user = q.user /\ a.start = q.start /\ a.known = q.known
  BY <1>1, <1>2, <1>3, AnsweredType
<1> HIDE DEF a
<1> DEFINE p == [a EXCEPT !.role = role]
<1>5. /\ p \in RequestState /\ p.role = role
      /\ p.pc = "answered" /\ p.status = status /\ p.reply = t /\ p.token = NoToken
      /\ p.via = q.via /\ p.user = q.user /\ p.start = q.start /\ p.known = q.known
  BY <1>4, RoleType
<1>6. req' = [req EXCEPT ![r] = p]
  BY <1>1, <1>2 DEF a
<1> HIDE DEF p
<1>7. p # Free
  BY <1>5 DEF Free
<1>8. Moves(r) /\ req'[r] = p
  BY <1>5, <1>6 DEF TypeOK, Moves
<1>9. q.user \in User /\ q.start \in Int /\ q.via \in {"proxy", "session", "callback"}
  BY KnownIsRecent
<1>10. RequestSound(r)' /\ ~Known(r)'
  <2>1. ~Known(r)'
    BY <1>5, <1>8 DEF Known
  <2>2. /\ q.start <= now /\ now <= q.start + 1
        /\ q.known => users[q.user] # "none" /\ q.via = "proxy"
    BY DEF RequestSound
  <2>3. status # "unauthorized" /\ q.via # "logout"
    BY <1>1, <1>9
  <2>4. QED
    BY <1>5, <1>8, <1>9, <2>1, <2>2, <2>3 DEF RequestSound, Grows
<1>11. RoleIsRecent(r)'
  <2>1. PICK x \in 0..MaxTime : from <= x /\ x <= now' /\ role \in held'[u][x]
    BY DEF Held
  <2>2. x \in Int
    BY <2>1
  <2>3. \A since \in Int : since <= from =>
          \E y \in 0..MaxTime : since <= y /\ y <= now' /\ role \in held'[u][y]
    BY <2>1, <2>2
  <2>4. CASE q.via = "callback"
    BY <1>1, <1>5, <1>8, <2>4 DEF RoleIsRecent
  <2>5. CASE q.via = "proxy"
    <3>1. q.start - CacheTTL \in Int
      BY <1>9, Constants
    <3>2. \E y \in 0..MaxTime :
            q.start - CacheTTL <= y /\ y <= now' /\ role \in held'[u][y]
      BY <2>3, <2>5, <3>1
    <3>3. QED
      BY <1>5, <1>8, <2>5, <3>2 DEF RoleIsRecent, Held
  <2>6. CASE q.via = "session"
    <3>1. q.start - (CacheTTL + SessionTTL - 1) \in Int
      BY <1>9, Constants
    <3>2. \E y \in 0..MaxTime :
            q.start - (CacheTTL + SessionTTL - 1) <= y /\ y <= now' /\ role \in held'[u][y]
      BY <2>3, <3>1
    <3>3. QED
      BY <1>5, <1>8, <2>6, <3>2 DEF RoleIsRecent, Held
  <2>7. QED
    BY <1>9, <2>4, <2>5, <2>6
<1>12. QED
  BY <1>2, <1>5, <1>7, <1>8, <1>10, <1>11 DEF Moved

\* The second statement for a user in the table.
LEMMA UpdateMoves ==
  ASSUME IInv, NEW r \in Request, Update(r)
  PROVE  /\ Moved(r) /\ Grows /\ Writes(r) /\ req'[r].pc # "fetch"
         /\ users' \in [User -> Role \cup {"none"}] /\ UsersSound'
         /\ \A u \in User : users'[u] = users[u] \/ (Writes(r) /\ u = req[r].user)
<1>1. /\ Known(r) /\ req[r] # Free /\ Writes(r) /\ Finishes(r, req[r].role)
      /\ UNCHANGED <<now, groups, held, cache, session, login, codes, count>>
  BY DEF Update, At, Known, Writes
<1>2. TypeOK /\ RequestSound(r) /\ UsersSound
  BY <1>1 DEF IInv
<1>3. /\ users' \in [User -> Role \cup {"none"}] /\ UsersSound' /\ Grows
      /\ \A u \in User \ {req[r].user} : users'[u] = users[u]
  BY <1>1, <1>2, WritesEffect
<1>4. PICK u, role, from :
        u = req[r].user /\ role = req[r].role /\ from = req[r].start - Age(req[r].via)
  OBVIOUS
<1>5. Held(u, role, from, now)'
  <2>1. Held(u, role, from, now)
    BY <1>1, <1>2, <1>4 DEF RequestSound
  <2>2. QED
    BY <1>1, <2>1 DEF Held
<1>6. /\ req[r].start \in Int /\ req[r].via \in {"proxy", "session", "callback"}
      /\ role \in Role \cup {"none"}
  BY <1>1, <1>2, <1>4, KnownIsRecent, Busy, Fields
<1>7. /\ from \in Int
      /\ req[r].start - CacheTTL <= from \/ req[r].via = "session"
      /\ req[r].start - (CacheTTL + SessionTTL - 1) <= from
  BY <1>4, <1>6, Ages, Constants
<1>8. Finishes(r, role)
  BY <1>1, <1>4
<1>9. Moved(r) /\ req'[r].pc # "fetch"
  BY <1>1, <1>2, <1>3, <1>4, <1>5, <1>6, <1>7, <1>8, FinishesEffect
<1>10. QED
  BY <1>1, <1>3, <1>9

\* The row that was inserted is read back.
LEMMA FetchMoves ==
  ASSUME IInv, NEW r \in Request, Fetch(r)
  PROVE  Moved(r) /\ Grows /\ req'[r].pc # "fetch"
<1>1. /\ Known(r) /\ req[r] # Free /\ req[r].pc = "fetch" /\ Finishes(r, users[req[r].user])
      /\ UNCHANGED <<now, groups, held, cache, users, session, login, codes, count>>
  BY DEF Fetch, At, Known
<1>2. TypeOK /\ RequestSound(r) /\ FetchSound(r)
  BY <1>1 DEF IInv
<1>3. Grows /\ now' = now
  BY <1>1 DEF Grows
<1>4. PICK u, role, from :
        u = req[r].user /\ role = users[u] /\ from = req[r].start - CacheTTL
  OBVIOUS
<1>5. Held(u, role, from, now)'
  <2>1. Held(u, role, from, now)
    BY <1>1, <1>2, <1>4 DEF FetchSound
  <2>2. QED
    BY <1>1, <2>1 DEF Held
<1>6. req[r].start \in Int /\ role \in Role \cup {"none"}
  <2>1. req[r].start \in Int /\ req[r].user \in User
    BY <1>1, <1>2, Busy, Fields
  <2>2. QED
    BY <1>2, <1>4, <2>1 DEF TypeOK
<1>7. /\ from \in Int /\ req[r].start - CacheTTL <= from
      /\ req[r].start - (CacheTTL + SessionTTL - 1) <= from
  BY <1>4, <1>6, Constants
<1>8. Finishes(r, role)
  BY <1>1, <1>4
<1>9. QED
  BY <1>1, <1>2, <1>3, <1>4, <1>5, <1>6, <1>7, <1>8, FinishesEffect
-----------------------------------------------------------------------------
(* The invariant across a step on one request.                              *)

\* What the steps of the handlers, and those of the browser, keep to.
Behaves(r) ==
  /\ Moves(r) /\ Grows /\ now' = now
  /\ \A t \in Tokens' : t \in Tokens \/ (Issued(r, t) /\ users'[req[r].user] # "none")
  /\ \A u \in User : users'[u] = users[u] \/ (Writes(r) /\ u = req[r].user)
  /\ req'[r] # Free => RequestSound(r)' /\ RoleIsRecent(r)'
  /\ Known(r)' => /\ req[r] # Free /\ req'[r].user = req[r].user
                  /\ \/ Known(r) /\ req'[r].role = req[r].role
                     \/ req'[r].via # "session"
                     \/ req[r].token # NoToken /\ req'[r].role = req[r].token.role
                  /\ req'[r].token \in {req[r].token, NoToken}
  /\ req'[r] # Free /\ req'[r].pc = "fetch" =>
       /\ Writes(r) /\ users[req[r].user] = "none"
       /\ req'[r].user = req[r].user /\ req'[r].start = req[r].start

\* Which tokens there are.
LEMMA TokensAre ==
  \A t : t \in Tokens <=> /\ t # NoToken /\ t # Keep
                          /\ \/ t = session
                             \/ \E x \in Request :
                                  req[x] # Free /\ t \in {req[x].token, req[x].reply}
BY DEF Tokens

\* ... and after a step.
LEMMA NextTokensAre ==
  \A t : t \in Tokens' <=> /\ t # NoToken /\ t # Keep
                           /\ \/ t = session'
                              \/ \E x \in Request :
                                   req'[x] # Free /\ t \in {req'[x].token, req'[x].reply}
BY DEF Tokens

\* They are all tokens.
LEMMA TokensType ==
  ASSUME TypeOK, NEW t \in Tokens
  PROVE  t \in Token
<1>1. \A x \in Request : req[x] # Free =>
        req[x].token \in Token \cup {NoToken} /\ req[x].reply \in Token \cup {NoToken, Keep}
  BY Busy, Fields
<1>2. QED
  BY <1>1, TokensAre DEF TypeOK

\* How old the role of a request may be, by the time at which it is looked at.
LEMMA AgeBound ==
  ASSUME NEW q \in RequestState, q.via \in {"proxy", "session", "callback"},
         NEW n \in 0..MaxTime, n <= q.start + 1
  PROVE  /\ q.start \in Int /\ Age(q.via) \in Int /\ n \in Int
         /\ q.via # "session" => n - CacheTTL <= q.start - Age(q.via)
<1>1. q.start \in Int /\ n \in Int
  BY Fields
<1>2. Age(q.via) \in Int /\ (q.via # "session" => Age(q.via) <= CacheTTL - 1)
  BY Ages, Constants
<1>3. QED
  BY <1>1, <1>2, Constants

\* A handler's step leaves no tokens but the ones there were and the one it issues.
LEMMA MovedTokens ==
  ASSUME NEW r \in Request, req[r] # Free, Moved(r), session' = session, NEW t \in Tokens'
  PROVE  t \in Tokens \/ (Issued(r, t) /\ t = req'[r].reply)
<1>1. CASE t = session
  BY <1>1, TokensAre, NextTokensAre
<1>2. CASE \E x \in Request : req'[x] # Free /\ t \in {req'[x].token, req'[x].reply}
  <2>1. PICK x \in Request : req'[x] # Free /\ t \in {req'[x].token, req'[x].reply}
    BY <1>2
  <2>2. t # NoToken /\ t # Keep
    BY NextTokensAre
  <2>3. CASE x = r
    BY <2>1, <2>2, <2>3, TokensAre DEF Moved
  <2>4. CASE x # r
    <3>1. req'[x] = req[x]
      BY <2>4 DEF Moved, Moves
    <3>2. QED
      BY <2>1, <2>2, <3>1, TokensAre
  <2>5. QED
    BY <2>3, <2>4
<1>3. QED
  BY <1>1, <1>2, NextTokensAre

\* A token that a step leaves was issued recently enough.
LEMMA TokensStaySound ==
  ASSUME IInv, NEW r \in Request, Behaves(r), NEW t \in Tokens'
  PROVE  TokenSound(t)'
<1>1. TypeOK /\ now \in 0..MaxTime /\ now' = now /\ now \in Int
  <2>1. TypeOK /\ now \in 0..MaxTime /\ now' = now
    BY DEF IInv, TypeOK, Behaves
  <2>2. QED
    BY <2>1
<1>2. Grows
  BY DEF Behaves
<1>3. CASE t \in Tokens
  <2>1. TokenSound(t) /\ t.user \in User /\ t.exp \in Int
    BY <1>1, <1>3, TokensType, TokenFields DEF IInv
  <2>2. QED
    BY <1>1, <1>2, <2>1 DEF TokenSound, Held, Grows
<1>4. CASE Issued(r, t) /\ users'[req[r].user] # "none"
  <2>1. Known(r) /\ RequestSound(r) /\ req[r].via # "session"
    BY <1>4 DEF Issued, IInv, Known
  <2>2. t.user = req[r].user /\ t.role = req[r].role /\ t.exp = now + SessionTTL
    BY <1>4 DEF Issued
  <2>3. Held(req[r].user, req[r].role, now - CacheTTL, now) /\ req[r].user \in User
    BY <1>1, <2>1, KnownIsRecent
  <2>4. t.exp - SessionTTL = now
    BY <1>1, <2>2, Constants
  <2>5. PICK x \in 0..MaxTime :
          now - CacheTTL <= x /\ x <= now /\ t.role \in held[t.user][x]
    BY <2>2, <2>3 DEF Held
  <2>6. t.role \in held'[t.user][x]
    BY <1>2, <2>2, <2>3, <2>5 DEF Grows
  <2>7. Held(t.user, t.role, t.exp - SessionTTL - CacheTTL, t.exp - SessionTTL)'
    BY <2>4, <2>5, <2>6 DEF Held
  <2>8. QED
    BY <1>1, <1>4, <2>2, <2>4, <2>7 DEF TokenSound
<1>5. QED
  BY <1>3, <1>4 DEF Behaves

\* A request that a step leaves alone stays sound.
LEMMA OthersStaySound ==
  ASSUME IInv, now' \in 0..MaxTime, now <= now', Grows,
         NEW x \in Request, req'[x] = req[x], req[x] # Free, now' <= req[x].start + 1
  PROVE  RequestSound(x)' /\ RoleIsRecent(x)'
<1>1. TypeOK /\ RequestSound(x) /\ RoleIsRecent(x)
  BY DEF IInv, RolesAreRecent
<1>2. PICK q : q = req[x]
  OBVIOUS
<1>3. q \in RequestState /\ q.user \in User /\ q.start \in Int /\ q # Free
  BY <1>1, <1>2, Busy, Fields
<1>4. now \in Int /\ now' \in Int
  <2>1. now \in 0..MaxTime
    BY <1>1 DEF TypeOK
  <2>2. QED
    BY <2>1
<1>5. \A role, from : Held(q.user, role, from, now) => Held(q.user, role, from, now)'
  BY <1>3, <1>4 DEF Held, Grows
<1>6. RequestSound(x)'
  <2>1. q.start <= now'
    <3>1. q.start <= now
      BY <1>1, <1>2 DEF RequestSound
    <3>2. QED
      BY <1>3, <1>4, <3>1
  <2>2. Known(x)' <=> Known(x)
    BY DEF Known
  <2>3. \A from : Held(q.user, q.role, from, now) => Held(q.user, q.role, from, now)'
    BY <1>5
  <2>4. users[q.user] # "none" => users'[q.user] # "none"
    BY <1>3 DEF Grows
  <2>5. QED
    BY <1>1, <1>2, <2>1, <2>2, <2>3, <2>4 DEF RequestSound
<1>7. RoleIsRecent(x)'
  BY <1>1, <1>2, <1>5 DEF RoleIsRecent
<1>8. QED
  BY <1>6, <1>7
\* What identified requests of a user were found out, after the step: at most CacheTTL
\* ago, or in a session that is no older than the row which is read back.
LEMMA NextIsRecent ==
  ASSUME IInv, NEW r \in Request, Behaves(r), TypeOK', NEW y \in Request, Known(y)',
         req'[y].via # "session"
  PROVE  \E t \in 0..MaxTime :
           now - CacheTTL <= t /\ t <= now /\ req'[y].role \in held'[req'[y].user][t]
<1>1. req'[y] \in RequestState /\ req'[y] # Free
  BY DEF TypeOK, Known
<1>2. RequestSound(y)'
  <2>1. now \in 0..MaxTime /\ now' = now /\ now \in Int
    <3>1. now \in 0..MaxTime /\ now' = now
      BY DEF IInv, TypeOK, Behaves
    <3>2. QED
      BY <3>1
  <2>2. CASE y = r
    BY <1>1, <2>2 DEF Behaves
  <2>3. CASE y # r
    <3>1. req'[y] = req[y]
      BY <2>3 DEF Behaves, Moves
    <3>2. req[y] # Free /\ now <= req[y].start + 1
      BY <1>1, <3>1 DEF IInv, RequestSound
    <3>3. Grows
      BY DEF Behaves
    <3>4. QED
      BY <2>1, <3>1, <3>2, <3>3, OthersStaySound
  <2>4. QED
    BY <2>2, <2>3
<1>3. PICK q : q = req'[y]
  OBVIOUS
<1>4. /\ q \in RequestState /\ q.via \in {"proxy", "session", "callback"}
      /\ now \in 0..MaxTime /\ now' = now /\ now <= q.start + 1
      /\ Held(q.user, q.role, q.start - Age(q.via), now)'
  <2>1. q.via \in {"proxy", "session", "callback"}
    BY <1>1, <1>2, <1>3, Fields DEF RequestSound
  <2>2. now \in 0..MaxTime /\ now' = now
    BY DEF IInv, TypeOK, Behaves
  <2>3. now <= q.start + 1
    BY <1>2, <1>3, <2>2 DEF RequestSound
  <2>4. Held(q.user, q.role, q.start - Age(q.via), now)'
    BY <1>2, <1>3 DEF RequestSound
  <2>5. QED
    BY <1>1, <1>3, <2>1, <2>2, <2>3, <2>4
<1>5. /\ q.start \in Int /\ Age(q.via) \in Int /\ now \in Int
      /\ now - CacheTTL <= q.start - Age(q.via)
  <2>1. PICK n : n = now
    OBVIOUS
  <2>2. n \in 0..MaxTime /\ n <= q.start + 1
    BY <1>4, <2>1
  <2>3. QED
    BY <1>3, <1>4, <2>1, <2>2, AgeBound
<1>6. PICK t \in 0..MaxTime :
        q.start - Age(q.via) <= t /\ t <= now /\ q.role \in held'[q.user][t]
  BY <1>4 DEF Held
<1>7. now - CacheTTL <= t
  <2>1. t \in Int
    BY <1>6
  <2>2. QED
    BY <1>5, <1>6, <2>1, Constants
<1>8. QED
  BY <1>3, <1>6, <1>7

\* A session that an identified request has.
LEMMA SessionOf ==
  ASSUME IInv, NEW r \in Request, Behaves(r), Known(r)', req'[r].via = "session",
         RequestSound(r)'
  PROVE  /\ req[r] # Free /\ req[r].token \in Tokens /\ req[r].token # NoToken
         /\ req[r].token.user = req'[r].user
<1>1. req'[r].token # NoToken /\ req'[r].token.user = req'[r].user
  BY DEF RequestSound
<1>2. req[r] # Free /\ req'[r].token = req[r].token
  BY <1>1 DEF Behaves
<1>3. QED
  BY <1>1, <1>2, BroughtToken DEF IInv

\* The reading back of a row, by another request than the one that steps.
LEMMA OtherFetchStaysSound ==
  ASSUME IInv, NEW r \in Request, Behaves(r), TypeOK', NEW x \in Request \ {r}
  PROVE  FetchSound(x)'
<1>1. SUFFICES ASSUME req'[x] # Free, req'[x].pc = "fetch"
               PROVE  FetchSound(x)'
  BY DEF FetchSound
<1>2. req'[x] = req[x] /\ Grows /\ now' = now
  BY DEF Behaves, Moves
<1>3. TypeOK /\ FetchSound(x) /\ RequestSound(x) /\ now \in 0..MaxTime
  BY <1>1, <1>2 DEF IInv, TypeOK
<1>4. PICK u, since : u = req[x].user /\ since = req[x].start
  OBVIOUS
<1>5. u \in User /\ since \in Int /\ now \in Int /\ since <= now
  <2>1. u \in User /\ since \in Int
    BY <1>1, <1>2, <1>3, <1>4, Busy, Fields
  <2>2. now \in Int
    BY <1>3
  <2>3. since <= now
    BY <1>3, <1>4 DEF RequestSound
  <2>4. QED
    BY <2>1, <2>2, <2>3
<1>6. /\ Held(u, users[u], since - CacheTTL, now)
      /\ users[u] # "none"
      /\ \A t \in Tokens : t.user = u => since <= t.exp - SessionTTL
      /\ \A other \in Request :
           Known(other) /\ req[other].user = u
             => Held(u, req[other].role, since - CacheTTL, now)
  BY <1>1, <1>2, <1>3, <1>4 DEF FetchSound
<1>7. \A role : Held(u, role, since - CacheTTL, now) => Held(u, role, since - CacheTTL, now)'
  BY <1>2, <1>5 DEF Held, Grows
<1>8. PICK written : written = users'[u]
  OBVIOUS
<1>9. Held(u, written, since - CacheTTL, now) /\ written # "none"
  <2>1. CASE users'[u] = users[u]
    BY <1>6, <1>8, <2>1
  <2>2. CASE Writes(r) /\ u = req[r].user
    <3>1. written = req[r].role
      BY <1>3, <1>5, <1>8, <2>2 DEF Writes, TypeOK
    <3>2. written # "none"
      BY <2>2, <3>1 DEF IInv, Writes, Known, RequestSound
    <3>3. QED
      BY <1>6, <2>2, <3>1, <3>2 DEF Writes
  <2>3. QED
    BY <1>5, <2>1, <2>2 DEF Behaves
<1>10. ASSUME NEW t \in Tokens', t.user = u
       PROVE  since <= t.exp - SessionTTL
  <2>1. CASE t \in Tokens
    BY <1>6, <1>10, <2>1
  <2>2. CASE Issued(r, t)
    BY <1>5, <2>2, Constants DEF Issued
  <2>3. QED
    BY <2>1, <2>2 DEF Behaves
<1>11. ASSUME NEW y \in Request, Known(y)', req'[y].user = u, NEW role, role = req'[y].role
       PROVE  Held(u, role, since - CacheTTL, now)'
  <2>1. CASE Known(y) /\ req[y].user = u /\ role = req[y].role
    <3>1. Held(u, role, since - CacheTTL, now)
      BY <1>6, <2>1
    <3>2. QED
      BY <1>7, <3>1
  <2>2. CASE req'[y].via # "session"
    <3>1. PICK t \in 0..MaxTime :
            now - CacheTTL <= t /\ t <= now /\ role \in held'[u][t]
      BY <1>11, <2>2, NextIsRecent
    <3>2. since - CacheTTL <= t
      <4>1. t \in Int
        BY <3>1
      <4>2. QED
        BY <1>5, <3>1, <4>1, Constants
    <3>3. QED
      BY <1>2, <3>1, <3>2 DEF Held
  <2>3. CASE y = r /\ req'[r].via = "session" /\ role = req[r].token.role
    <3>1. RequestSound(r)'
      BY <1>11, <2>3 DEF Behaves, Known
    <3>2. req[r].token \in Tokens /\ req[r].token.user = u
      BY <1>11, <2>3, <3>1, SessionOf
    <3>3. PICK token \in Tokens : token = req[r].token
      BY <3>2
    <3>4. TokenSound(token) /\ since <= token.exp - SessionTTL /\ token.exp \in Int
      BY <1>3, <1>6, <3>2, <3>3, TokensType, TokenFields DEF IInv
    <3>5. PICK t \in 0..MaxTime :
            /\ token.exp - SessionTTL - CacheTTL <= t /\ t <= token.exp - SessionTTL
            /\ role \in held[u][t]
      BY <2>3, <3>2, <3>3, <3>4 DEF TokenSound, Held
    <3>6. since - CacheTTL <= t /\ t <= now
      <4>1. t \in Int
        BY <3>5
      <4>2. token.exp - SessionTTL <= now
        BY <3>4 DEF TokenSound
      <4>3. QED
        BY <1>5, <3>4, <3>5, <4>1, <4>2, Constants
    <3>7. QED
      BY <1>7, <3>5, <3>6 DEF Held
  <2>4. CASE y # r
    <3>1. req'[y] = req[y]
      BY <2>4 DEF Behaves, Moves
    <3>2. Known(y) /\ req[y].user = u /\ role = req[y].role
      BY <1>11, <3>1 DEF Known
    <3>3. QED
      BY <2>1, <3>2
  <2>5. CASE y = r
    BY <1>11, <2>1, <2>2, <2>3, <2>5 DEF Behaves
  <2>6. QED
    BY <2>4, <2>5
<1>12. Held(u, written, since - CacheTTL, now)'
  BY <1>7, <1>9
<1>13. QED
  BY <1>2, <1>4, <1>8, <1>9, <1>10, <1>11, <1>12 DEF FetchSound
\* The reading back of a row that the step has inserted: nobody else knows its user but
\* by what the directory said a moment ago.
LEMMA NewFetchIsSound ==
  ASSUME IInv, NEW r \in Request, Behaves(r), TypeOK'
  PROVE  FetchSound(r)'
<1>1. SUFFICES ASSUME req'[r] # Free, req'[r].pc = "fetch"
               PROVE  FetchSound(r)'
  BY DEF FetchSound
<1>2. /\ Writes(r) /\ users[req[r].user] = "none" /\ Known(r) /\ RequestSound(r)'
      /\ req'[r].user = req[r].user /\ req'[r].start = req[r].start
  BY <1>1 DEF Behaves, Writes
<1>3. TypeOK /\ RequestSound(r) /\ now \in 0..MaxTime /\ Grows /\ now' = now
  BY <1>2 DEF IInv, TypeOK, Known, Behaves
<1>4. PICK u, since : u = req[r].user /\ since = req[r].start
  OBVIOUS
<1>5. u \in User /\ since \in Int /\ now \in Int /\ since <= now
  <2>1. u \in User /\ since \in Int
    BY <1>2, <1>3, <1>4, Busy, Fields DEF Known
  <2>2. now \in Int
    BY <1>3
  <2>3. since <= now
    BY <1>3, <1>4 DEF RequestSound
  <2>4. QED
    BY <2>1, <2>2, <2>3
<1>6. \A role, t : /\ t \in 0..MaxTime /\ now - CacheTTL <= t /\ t <= now /\ role \in held'[u][t]
                   => Held(u, role, since - CacheTTL, now)'
  <2>1. ASSUME NEW role, NEW t \in 0..MaxTime, now - CacheTTL <= t, t <= now,
               role \in held'[u][t]
        PROVE  Held(u, role, since - CacheTTL, now)'
    <3>1. t \in Int
      BY <2>1
    <3>2. since - CacheTTL <= t
      BY <1>5, <2>1, <3>1, Constants
    <3>3. QED
      BY <1>3, <2>1, <3>2 DEF Held
  <2>2. QED
    BY <2>1
<1>7. PICK written : written = users'[u]
  OBVIOUS
<1>8. written = req[r].role /\ written # "none"
  <2>1. written = req[r].role
    BY <1>2, <1>3, <1>4, <1>5, <1>7 DEF Writes, TypeOK
  <2>2. QED
    BY <1>2, <1>3, <2>1 DEF RequestSound
<1>9. Held(u, written, since - CacheTTL, now)'
  <2>1. req[r].via # "session"
    BY <1>2, SessionsAreInTheTable
  <2>2. Held(u, written, now - CacheTTL, now)
    BY <1>2, <1>3, <1>4, <1>8, <2>1, KnownIsRecent
  <2>3. PICK t \in 0..MaxTime : now - CacheTTL <= t /\ t <= now /\ written \in held[u][t]
    BY <2>2 DEF Held
  <2>4. written \in held'[u][t]
    BY <1>3, <1>5, <2>3 DEF Grows
  <2>5. QED
    BY <1>6, <2>3, <2>4
<1>10. ASSUME NEW t \in Tokens', t.user = u
       PROVE  since <= t.exp - SessionTTL
  <2>1. t \notin Tokens
    BY <1>2, <1>4, <1>10 DEF IInv, TokenSound
  <2>2. Issued(r, t)
    BY <2>1 DEF Behaves
  <2>3. QED
    BY <1>5, <2>2, Constants DEF Issued
<1>11. ASSUME NEW y \in Request, Known(y)', req'[y].user = u, NEW role, role = req'[y].role
       PROVE  Held(u, role, since - CacheTTL, now)'
  <2>1. req'[y].via # "session"
    <3>1. SUFFICES ASSUME req'[y].via = "session" PROVE FALSE
      OBVIOUS
    <3>2. CASE y = r
      <4>1. req[r].token \in Tokens /\ req[r].token.user = u
        BY <1>2, <1>11, <3>1, <3>2, SessionOf
      <4>2. TokenSound(req[r].token)
        BY <4>1 DEF IInv
      <4>3. QED
        BY <1>2, <1>4, <4>1, <4>2 DEF TokenSound
    <3>3. CASE y # r
      <4>1. req'[y] = req[y]
        BY <3>3 DEF Behaves, Moves
      <4>2. Known(y) /\ users[req[y].user] = "none" /\ req[y].via = "session"
        BY <1>2, <1>4, <1>11, <3>1, <4>1 DEF Known
      <4>3. QED
        BY <4>2, SessionsAreInTheTable
    <3>4. QED
      BY <3>2, <3>3
  <2>2. QED
    BY <1>6, <1>11, <2>1, NextIsRecent
<1>12. QED
  BY <1>2, <1>3, <1>4, <1>7, <1>8, <1>9, <1>10, <1>11 DEF FetchSound

\* So the invariant holds after every step that behaves.
LEMMA BehavesKeepsInvariant ==
  ASSUME IInv, NEW r \in Request, Behaves(r),
         TypeOK', DirectorySound', CacheSound', UsersSound'
  PROVE  IInv'
<1>1. /\ Grows /\ now' = now /\ now \in 0..MaxTime /\ now <= now'
      /\ \A x \in Request : x # r => req'[x] = req[x]
  <2>1. Grows /\ now' = now /\ now \in 0..MaxTime
    BY DEF IInv, TypeOK, Behaves
  <2>2. now \in Int
    BY <2>1
  <2>3. QED
    BY <2>1, <2>2 DEF Behaves, Moves
<1>2. ASSUME NEW x \in Request
      PROVE  (req'[x] # Free => RequestSound(x)') /\ RoleIsRecent(x)'
  <2>1. CASE x = r
    BY <2>1 DEF Behaves, RoleIsRecent
  <2>2. CASE x # r /\ req[x] # Free
    <3>1. now <= req[x].start + 1
      BY <2>2 DEF IInv, RequestSound
    <3>2. QED
      BY <1>1, <2>2, <3>1, OthersStaySound
  <2>3. CASE x # r /\ req[x] = Free
    BY <1>1, <2>3 DEF RoleIsRecent
  <2>4. QED
    BY <2>1, <2>2, <2>3
<1>3. \A x \in Request : FetchSound(x)'
  BY OtherFetchStaysSound, NewFetchIsSound
<1>4. \A t \in Tokens' : TokenSound(t)'
  BY TokensStaySound
<1>5. QED
  BY <1>2, <1>3, <1>4 DEF IInv, RolesAreRecent

\* The invariant across a step that touches no request: time, the directory, the login page.
LEMMA QuietKeepsInvariant ==
  ASSUME IInv, TypeOK', DirectorySound', Grows,
         req' = req, session' = session, users' = users, cache' = cache,
         now' = now \/ (now' = now + 1 /\ \A r \in Request : req[r] # Free => req[r].start = now)
  PROVE  IInv'
<1>1. /\ now \in 0..MaxTime /\ now' \in 0..MaxTime /\ now \in Int /\ now' \in Int /\ now <= now'
      /\ TypeOK
  <2>1. now \in 0..MaxTime /\ now' \in 0..MaxTime /\ TypeOK
    BY DEF IInv, TypeOK
  <2>2. now \in Int /\ now' \in Int
    BY <2>1
  <2>3. QED
    BY <2>1, <2>2
<1>2. \A u \in User : \A role, from, to : Held(u, role, from, to) => Held(u, role, from, to)'
  BY DEF Held, Grows
<1>3. \A u \in User : \A role, from : Held(u, role, from, now) => Held(u, role, from, now)'
  BY <1>1 DEF Held, Grows
<1>4. ASSUME NEW x \in Request
      PROVE  (req'[x] # Free => RequestSound(x)') /\ RoleIsRecent(x)'
  <2>1. CASE req[x] # Free
    <3>1. req[x].start <= now /\ now <= req[x].start + 1 /\ req[x].start \in Int
      BY <1>1, <2>1, Busy, Fields DEF IInv, RequestSound
    <3>2. now' <= req[x].start + 1
      BY <1>1, <2>1, <3>1
    <3>3. QED
      BY <1>1, <2>1, <3>2, OthersStaySound
  <2>2. CASE req[x] = Free
    BY <2>2 DEF RoleIsRecent
  <2>3. QED
    BY <2>1, <2>2
<1>5. Tokens' = Tokens
  BY DEF Tokens
<1>6. ASSUME NEW t \in Tokens
      PROVE  TokenSound(t)'
  <2>1. TokenSound(t) /\ t.user \in User /\ t.exp \in Int
    BY <1>1, TokensType, TokenFields DEF IInv
  <2>2. t.exp - SessionTTL <= now'
    BY <1>1, <2>1, Constants DEF TokenSound
  <2>3. Held(t.user, t.role, t.exp - SessionTTL - CacheTTL, t.exp - SessionTTL)'
    BY <1>2, <2>1 DEF TokenSound
  <2>4. QED
    BY <2>1, <2>2, <2>3 DEF TokenSound
<1>7. ASSUME NEW x \in Request
      PROVE  FetchSound(x)'
  <2>1. SUFFICES ASSUME req[x] # Free, req[x].pc = "fetch"
                 PROVE  FetchSound(x)'
    BY DEF FetchSound
  <2>2. req[x].user \in User /\ FetchSound(x)
    BY <1>1, <2>1, Busy, Fields DEF IInv
  <2>3. \A y : Known(y)' <=> Known(y)
    BY DEF Known
  <2>4. PICK u, since : u = req[x].user /\ since = req[x].start
    OBVIOUS
  <2>5. \A role : Held(u, role, since - CacheTTL, now) => Held(u, role, since - CacheTTL, now)'
    BY <1>3, <2>2, <2>4
  <2>6. Held(u, users[u], since - CacheTTL, now)'
    BY <2>1, <2>2, <2>4, <2>5 DEF FetchSound
  <2>7. \A y \in Request : Known(y) /\ req[y].user = u =>
          Held(u, req[y].role, since - CacheTTL, now)'
    BY <2>1, <2>2, <2>4, <2>5 DEF FetchSound
  <2>8. QED
    BY <1>5, <2>1, <2>2, <2>3, <2>4, <2>6, <2>7 DEF FetchSound
<1>8. UsersSound'
  BY <1>3 DEF IInv, UsersSound
<1>9. CacheSound'
  <2>1. ASSUME NEW w \in Worker, NEW u \in User, cache[w][u] # NoEntry
        PROVE  Mapped(cache[w][u].list) \in held'[u][cache[w][u].ts]
    <3>1. cache[w][u].ts \in 0..now
      BY <1>1, <2>1 DEF TypeOK
    <3>2. cache[w][u].ts \in 0..MaxTime
      BY <1>1, <3>1, Constants
    <3>3. QED
      BY <2>1, <3>2 DEF IInv, CacheSound, Grows
  <2>2. QED
    BY <2>1 DEF CacheSound
<1>10. QED
  BY <1>4, <1>5, <1>6, <1>7, <1>8, <1>9 DEF IInv, RolesAreRecent
-----------------------------------------------------------------------------
(* The steps of the handlers.                                               *)

\* A step of a handler behaves, given what it writes and gives out.
LEMMA MovedBehaves ==
  ASSUME IInv, NEW r \in Request, req[r] # Free, Moved(r), Grows, now' = now, session' = session,
         \A u \in User : users'[u] = users[u] \/ (Writes(r) /\ u = req[r].user),
         req'[r].reply \in {NoToken, Keep} \/ users'[req[r].user] # "none",
         req'[r].pc = "fetch" => Writes(r) /\ users[req[r].user] = "none"
  PROVE  Behaves(r)
<1>1. \A t \in Tokens' : t \in Tokens \/ (Issued(r, t) /\ users'[req[r].user] # "none")
  <2>1. ASSUME NEW t \in Tokens'
        PROVE  t \in Tokens \/ (Issued(r, t) /\ users'[req[r].user] # "none")
    <3>1. t # NoToken /\ t # Keep
      BY NextTokensAre
    <3>2. QED
      BY <3>1, MovedTokens
  <2>2. QED
    BY <2>1
<1>2. QED
  BY <1>1 DEF Moved, Behaves

\* What a step that only touches its request leaves as it was.
LEMMA RestStaysSound ==
  ASSUME IInv, UNCHANGED <<now, groups, held, cache, users>>
  PROVE  DirectorySound' /\ CacheSound' /\ UsersSound'
BY DEF IInv, DirectorySound, CacheSound, UsersSound, Held

\* It keeps the types.
LEMMA HandledType ==
  ASSUME TypeOK, NEW r \in Request, Moves(r),
         held' \in [User -> [0..MaxTime -> SUBSET (Role \cup {"none"})]],
         cache' \in [Worker -> [User -> {NoEntry} \cup
           [list : {MapGroups(gs) : gs \in Memberships \cup {{}}}, ts : 0..now]]],
         users' \in [User -> Role \cup {"none"}],
         codes' \subseteq codes, UNCHANGED <<now, groups, session, login, count>>
  PROVE  TypeOK'
BY DEF TypeOK, Moves

\* A step on a request that is not identified, or not done yet, gives out no session.
LEMMA NoReply ==
  ASSUME NEW r \in Request, Moved(r), ~Known(r) \/ req'[r].pc # "answered"
  PROVE  req'[r].reply \in {NoToken, Keep}
BY DEF Moved, Issued, RequestSound

\* Every step of a handler behaves.
LEMMA HandleKeeps ==
  ASSUME IInv, NEW r \in Request, Handle(r)
  PROVE  Behaves(r) /\ TypeOK' /\ DirectorySound' /\ CacheSound' /\ UsersSound'
<1>1. TypeOK
  BY DEF IInv
<1>2. ASSUME Moved(r), Grows, req[r] # Free, ~Known(r) \/ req'[r].pc # "answered",
             req'[r].pc # "fetch", codes' \subseteq codes,
             UNCHANGED <<now, groups, held, cache, users, session, login, count>>
      PROVE  Behaves(r) /\ TypeOK' /\ DirectorySound' /\ CacheSound' /\ UsersSound'
  <2>1. Behaves(r)
    BY <1>2, NoReply, MovedBehaves
  <2>2. TypeOK'
    <3>1. Moves(r)
      BY <1>2 DEF Moved
    <3>2. QED
      BY <1>1, <1>2, <3>1 DEF TypeOK, Moves
  <2>3. QED
    BY <1>2, <2>1, <2>2, RestStaysSound
<1>3. CASE ProxyCached(r)
  <2>1. /\ req[r] # Free /\ ~Known(r)
        /\ UNCHANGED <<now, groups, held, cache, users, session, login, codes, count>>
    BY <1>3 DEF ProxyCached, At, Known
  <2>2. QED
    BY <1>2, <1>3, <2>1, ProxyCachedMoves
<1>4. CASE ProxyLookup(r)
  <2>1. /\ req[r] # Free /\ ~Known(r)
        /\ UNCHANGED <<now, groups, users, session, login, codes, count>>
    BY <1>4 DEF ProxyLookup, At, Known
  <2>2. /\ Moved(r) /\ Moves(r) /\ Grows /\ req'[r].pc # "fetch"
        /\ held' \in [User -> [0..MaxTime -> SUBSET (Role \cup {"none"})]]
        /\ cache' \in [Worker -> [User -> {NoEntry} \cup
             [list : {MapGroups(gs) : gs \in Memberships \cup {{}}}, ts : 0..now]]]
        /\ DirectorySound' /\ CacheSound'
    BY <1>4, ProxyLookupMoves DEF Moved
  <2>3. Behaves(r)
    BY <2>1, <2>2, NoReply, MovedBehaves
  <2>4. users' \in [User -> Role \cup {"none"}] /\ codes' \subseteq codes
    BY <1>1, <2>1 DEF TypeOK
  <2>5. TypeOK'
    BY <1>1, <2>1, <2>2, <2>4, HandledType
  <2>6. UsersSound'
    BY <2>1, <2>2 DEF IInv, UsersSound, Held, Grows
  <2>7. QED
    BY <2>2, <2>3, <2>5, <2>6
<1>5. CASE TakeSession(r)
  <2>1. /\ req[r] # Free /\ ~Known(r)
        /\ UNCHANGED <<now, groups, held, cache, users, session, login, codes, count>>
    BY <1>5 DEF TakeSession, At, Known
  <2>2. QED
    BY <1>2, <1>5, <2>1, TakeSessionMoves
<1>6. CASE RefuseState(r)
  <2>1. /\ req[r] # Free /\ ~Known(r)
        /\ UNCHANGED <<now, groups, held, cache, users, session, login, codes, count>>
    BY <1>6 DEF RefuseState, At, Known
  <2>2. QED
    BY <1>2, <1>6, <2>1, RefuseStateMoves
<1>7. CASE Exchange(r)
  <2>1. /\ req[r] # Free /\ ~Known(r) /\ codes' \subseteq codes
        /\ UNCHANGED <<now, groups, held, cache, users, session, login, count>>
    BY <1>7 DEF Exchange, At, Known
  <2>2. QED
    BY <1>2, <1>7, <2>1, ExchangeMoves
<1>8. CASE Select(r)
  <2>1. /\ req[r] # Free
        /\ UNCHANGED <<now, groups, held, cache, users, session, login, codes, count>>
    BY <1>8 DEF Select, At
  <2>2. QED
    BY <1>2, <1>8, <2>1, SelectMoves
<1>9. CASE Insert(r)
  <2>1. /\ req[r] # Free /\ codes' \subseteq codes
        /\ UNCHANGED <<now, groups, held, cache, session, login, codes, count>>
    BY <1>9 DEF Insert, At
  <2>2. /\ Moved(r) /\ Moves(r) /\ Grows
        /\ users' \in [User -> Role \cup {"none"}] /\ UsersSound'
        /\ \A u \in User : users'[u] = users[u] \/ (Writes(r) /\ u = req[r].user)
        /\ req'[r].pc = "fetch" => Writes(r) /\ users[req[r].user] = "none"
    BY <1>9, InsertMoves DEF Moved
  <2>3. req'[r].reply \in {NoToken, Keep}
    <3>1. CASE users[req[r].user] = "none"
      <4>1. req' = [req EXCEPT ![r].pc = "fetch"] /\ req[r].pc = "insert"
        BY <1>9, <3>1 DEF Insert, At
      <4>2. req'[r].reply = req[r].reply
        BY <1>1, <2>1, <4>1, Busy DEF TypeOK, RequestState
      <4>3. req[r].reply = Keep
        BY <2>1, <4>1 DEF IInv, RequestSound
      <4>4. QED
        BY <4>2, <4>3
    <3>2. CASE users[req[r].user] # "none"
      <4>1. PICK s \in {"failed", "unauthorized"} : Answers(r, s, Keep)
        BY <1>9, <3>2 DEF Insert
      <4>2. s \in Status
        BY DEF Status
      <4>3. req'[r] = Answered(req[r], s, Keep)
        BY <1>1, <2>1, <4>1, <4>2, AnswersEffect
      <4>4. QED
        BY <1>1, <2>1, <4>2, <4>3, Busy, AnsweredType
    <3>3. QED
      BY <3>1, <3>2
  <2>4. Behaves(r)
    BY <2>1, <2>2, <2>3, MovedBehaves
  <2>6. TypeOK'
    BY <1>1, <2>1, <2>2 DEF TypeOK, Moves
  <2>7. DirectorySound' /\ CacheSound'
    BY <2>1 DEF IInv, DirectorySound, CacheSound
  <2>8. QED
    BY <2>2, <2>4, <2>6, <2>7
<1>10. CASE Update(r)
  <2>1. /\ req[r] # Free
        /\ UNCHANGED <<now, groups, held, cache, session, login, codes, count>>
    BY <1>10 DEF Update, At
  <2>2. /\ Moved(r) /\ Moves(r) /\ Grows /\ Writes(r) /\ req'[r].pc # "fetch"
        /\ users' \in [User -> Role \cup {"none"}] /\ UsersSound'
        /\ \A u \in User : users'[u] = users[u] \/ (Writes(r) /\ u = req[r].user)
    BY <1>10, UpdateMoves DEF Moved
  <2>3. users'[req[r].user] # "none"
    <3>1. req[r].user \in User /\ req[r].role # "none"
      BY <1>1, <2>1, <2>2, Busy, Fields DEF IInv, RequestSound, Writes
    <3>2. QED
      BY <1>1, <2>2, <3>1 DEF Writes, TypeOK
  <2>4. Behaves(r)
    BY <2>1, <2>2, <2>3, MovedBehaves
  <2>5. TypeOK'
    BY <1>1, <2>1, <2>2 DEF TypeOK, Moves
  <2>6. DirectorySound' /\ CacheSound'
    BY <2>1 DEF IInv, DirectorySound, CacheSound
  <2>7. QED
    BY <2>2, <2>4, <2>5, <2>6
<1>11. CASE Fetch(r)
  <2>1. /\ req[r] # Free /\ req[r].pc = "fetch"
        /\ UNCHANGED <<now, groups, held, cache, users, session, login, codes, count>>
    BY <1>11 DEF Fetch, At
  <2>2. Moved(r) /\ Moves(r) /\ Grows /\ req'[r].pc # "fetch"
    BY <1>11, FetchMoves DEF Moved
  <2>3. users'[req[r].user] # "none"
    BY <2>1 DEF IInv, FetchSound
  <2>4. Behaves(r)
    BY <2>1, <2>2, <2>3, MovedBehaves
  <2>5. TypeOK'
    BY <1>1, <2>1, <2>2 DEF TypeOK, Moves
  <2>6. QED
    BY <2>1, <2>4, <2>5, RestStaysSound
<1>12. QED
  BY <1>3, <1>4, <1>5, <1>6, <1>7, <1>8, <1>9, <1>10, <1>11 DEF Handle
-----------------------------------------------------------------------------
(* The steps of the browser, of the directory and of time.                  *)

\* A request as it arrives, with the cookie of the session or none.
Arriving(q) ==
  /\ q \in RequestState
  /\ q.start = now /\ q.token \in {session, NoToken} /\ q.reply \in {NoToken, Keep}
  /\ q.role = "none" /\ q.status \in {"", "left"}
  /\ \/ q.pc \in {"proxy", "session", "callback"} /\ q.via = q.pc /\ q.status = "" /\ q.reply = Keep
     \/ q.pc = "answered" /\ q.via = "logout" /\ q.status = "left"
  /\ q.via = "session" /\ q.token # NoToken => q.token.user = q.user
  /\ q.known => users[q.user] # "none" /\ q.via = "proxy"

\* A request that arrives behaves.
LEMMA ArrivesKeeps ==
  ASSUME IInv, NEW r \in Request, NEW q, Arriving(q), Arrives(r, q)
  PROVE  Behaves(r) /\ TypeOK' /\ DirectorySound' /\ CacheSound' /\ UsersSound'
<1>1. /\ req[r] = Free /\ req' = [req EXCEPT ![r] = q]
      /\ UNCHANGED <<now, groups, held, cache, users, session, login, codes, count>>
  BY DEF Arrives
<1>2. TypeOK /\ q \in RequestState
  BY DEF IInv, Arriving
<1>3. now \in 0..MaxTime /\ now \in Int /\ q # Free
  <2>1. now \in 0..MaxTime
    BY <1>2 DEF TypeOK
  <2>2. QED
    BY <1>2, <2>1 DEF RequestState, Free
<1>4. Moves(r) /\ req'[r] = q
  BY <1>1, <1>2 DEF Moves, TypeOK
<1>5. Grows /\ now' = now
  BY <1>1 DEF Grows
<1>6. q.start <= now' /\ now' <= q.start + 1
  <2>1. q.start = now
    BY DEF Arriving
  <2>2. QED
    BY <1>3, <1>5, <2>1
<1>7. ~Known(r)'
  BY <1>4 DEF Known, Arriving
<1>8. RequestSound(r)'
  BY <1>1, <1>4, <1>6, <1>7 DEF RequestSound, Arriving
<1>9. RoleIsRecent(r)'
  BY <1>4 DEF RoleIsRecent, Arriving
<1>10. ASSUME NEW t \in Tokens'
       PROVE  t \in Tokens
  <2>1. t # NoToken /\ t # Keep
    BY NextTokensAre
  <2>2. CASE t = session'
    BY <1>1, <2>1, <2>2, TokensAre
  <2>3. CASE \E x \in Request : req'[x] # Free /\ t \in {req'[x].token, req'[x].reply}
    <3>1. PICK x \in Request : req'[x] # Free /\ t \in {req'[x].token, req'[x].reply}
      BY <2>3
    <3>2. CASE x = r
      <4>1. t = session
        BY <1>4, <2>1, <3>1, <3>2 DEF Arriving
      <4>2. QED
        BY <2>1, <4>1, TokensAre
    <3>3. CASE x # r
      BY <1>4, <2>1, <3>1, <3>3, TokensAre DEF Moves
    <3>4. QED
      BY <3>2, <3>3
  <2>4. QED
    BY <2>2, <2>3, NextTokensAre
<1>11. Behaves(r)
  <2>1. q.pc # "fetch"
    BY DEF Arriving
  <2>2. QED
    BY <1>1, <1>4, <1>5, <1>7, <1>8, <1>9, <1>10, <2>1 DEF Behaves
<1>12. TypeOK'
  BY <1>1, <1>2, <1>4 DEF TypeOK, Moves
<1>13. QED
  BY <1>1, <1>11, <1>12, RestStaysSound

\* Requests behind the proxy arrive like that, ...
LEMMA SendProxyKeeps ==
  ASSUME IInv, NEW r \in Request, NEW u \in User, SendProxy(r, u)
  PROVE  \E q : Arriving(q) /\ Arrives(r, q)
<1> DEFINE n == NewRequest("proxy", u)
           p == [n EXCEPT !.token = session]
           q == [p EXCEPT !.known = users[u] # "none"]
<1>1. TypeOK
  BY DEF IInv
<1>2. n \in RequestState
  BY <1>1, NewRequestType
<1>3. /\ n.pc = "proxy" /\ n.via = "proxy" /\ n.user = u /\ n.role = "none" /\ n.start = now
      /\ n.status = "" /\ n.reply = Keep
  BY DEF NewRequest
<1> HIDE DEF n
<1>4. p \in RequestState
  BY <1>1, <1>2 DEF TypeOK, RequestState
<1>5. /\ p.pc = "proxy" /\ p.via = "proxy" /\ p.user = u /\ p.role = "none" /\ p.start = now
      /\ p.status = "" /\ p.reply = Keep /\ p.token = session
  BY <1>2, <1>3 DEF RequestState
<1>6. [n EXCEPT !.token = session, !.known = users[u] # "none"] = q
  OBVIOUS
<1> HIDE DEF p
<1>7. q \in RequestState
  BY <1>4 DEF RequestState
<1>8. /\ q.pc = "proxy" /\ q.via = "proxy" /\ q.user = u /\ q.role = "none" /\ q.start = now
      /\ q.status = "" /\ q.reply = Keep /\ q.token = session
      /\ (q.known <=> users[u] # "none")
  BY <1>4, <1>5 DEF RequestState
<1> HIDE DEF q
<1>9. Arriving(q)
  BY <1>7, <1>8 DEF Arriving
<1>10. Arrives(r, q)
  BY <1>6 DEF SendProxy, n
<1>11. QED
  BY <1>9, <1>10

\* ... those with a session cookie, ...
LEMMA SendSessionKeeps ==
  ASSUME IInv, NEW r \in Request, SendSession(r)
  PROVE  \E q : Arriving(q) /\ Arrives(r, q)
<1> DEFINE u == IF session = NoToken THEN CHOOSE u \in User : TRUE ELSE session.user
           n == NewRequest("session", u)
           q == [n EXCEPT !.token = session]
<1>1. TypeOK
  BY DEF IInv
<1>2. u \in User
  <2>1. (CHOOSE x \in User : TRUE) \in User
    BY AuthAssumption
  <2>2. session # NoToken => session.user \in User
    BY <1>1, TokenFields DEF TypeOK
  <2>3. QED
    BY <2>1, <2>2
<1>3. session # NoToken => session.user = u
  OBVIOUS
<1>4. Arrives(r, q)
  BY DEF SendSession
<1> HIDE DEF u
<1>5. n \in RequestState
  BY <1>1, <1>2, NewRequestType
<1>6. /\ n.pc = "session" /\ n.via = "session" /\ n.user = u /\ n.role = "none" /\ n.start = now
      /\ n.status = "" /\ n.reply = Keep /\ n.known = FALSE
  BY DEF NewRequest
<1> HIDE DEF n
<1>7. q \in RequestState
  BY <1>1, <1>5 DEF TypeOK, RequestState
<1>8. /\ q.pc = "session" /\ q.via = "session" /\ q.user = u /\ q.role = "none" /\ q.start = now
      /\ q.status = "" /\ q.reply = Keep /\ q.known = FALSE /\ q.token = session
  BY <1>5, <1>6 DEF RequestState
<1> HIDE DEF q
<1>9. Arriving(q)
  BY <1>3, <1>7, <1>8 DEF Arriving
<1>10. QED
  BY <1>4, <1>9

\* ... the redirect of the provider ...
LEMMA SendCallbackKeeps ==
  ASSUME IInv, NEW r \in Request, NEW u \in User, SendCallback(r, u)
  PROVE  \E q : Arriving(q) /\ Arrives(r, q)
<1> DEFINE n == NewRequest("callback", u)
           p == [n EXCEPT !.login = login]
<1>1. TypeOK
  BY DEF IInv
<1>2. PICK code \in 1..count.logins : Arrives(r, [n EXCEPT !.login = login, !.code = code])
  BY DEF SendCallback
<1>3. count.logins \in 0..MaxLogins /\ login \in 0..MaxLogins
  BY <1>1 DEF TypeOK
<1>4. code \in 0..MaxLogins
  <2>1. PICK m \in 0..MaxLogins : m = count.logins
    BY <1>3
  <2>2. code \in 1..m
    BY <2>1
  <2>3. QED
    BY <2>2, Constants
<1> DEFINE q == [p EXCEPT !.code = code]
<1>5. [n EXCEPT !.login = login, !.code = code] = q
  OBVIOUS
<1>6. n \in RequestState
  BY <1>1, NewRequestType
<1>7. /\ n.pc = "callback" /\ n.via = "callback" /\ n.user = u /\ n.role = "none"
      /\ n.start = now /\ n.status = "" /\ n.reply = Keep /\ n.known = FALSE /\ n.token = NoToken
  BY DEF NewRequest
<1> HIDE DEF n
<1>8. p \in RequestState
  BY <1>3, <1>6 DEF RequestState
<1>9. /\ p.pc = "callback" /\ p.via = "callback" /\ p.user = u /\ p.role = "none"
      /\ p.start = now /\ p.status = "" /\ p.reply = Keep /\ p.known = FALSE /\ p.token = NoToken
  BY <1>6, <1>7 DEF RequestState
<1> HIDE DEF p
<1>10. q \in RequestState
  BY <1>4, <1>8 DEF RequestState
<1>11. /\ q.pc = "callback" /\ q.via = "callback" /\ q.user = u /\ q.role = "none"
       /\ q.start = now /\ q.status = "" /\ q.reply = Keep /\ q.known = FALSE /\ q.token = NoToken
  BY <1>8, <1>9 DEF RequestState
<1> HIDE DEF q
<1>12. Arriving(q)
  BY <1>10, <1>11 DEF Arriving
<1>13. QED
  BY <1>2, <1>5, <1>12

\* ... and the request to log out.
LEMMA SendLogoutKeeps ==
  ASSUME IInv, NEW r \in Request, NEW u \in User, SendLogout(r, u)
  PROVE  \E q : Arriving(q) /\ Arrives(r, q)
<1> DEFINE n == NewRequest("logout", u)
           m == [n EXCEPT !.pc = "answered"]
           p == [m EXCEPT !.status = "left"]
           q == [p EXCEPT !.reply = NoToken]
           Logout == [pc : {"logout", "answered"}, via : {"logout"}, user : User, token : {NoToken},
                      login : {0}, code : {0}, role : {"none"}, start : {now}, known : {FALSE},
                      status : Status, reply : {NoToken, Keep}]
<1>1. n \in Logout
  BY DEF NewRequest, Status
<1>2. [n EXCEPT !.pc = "answered", !.status = "left", !.reply = NoToken] = q
  OBVIOUS
<1> HIDE DEF n
<1>3. m \in Logout /\ m.pc = "answered"
  BY <1>1
<1> HIDE DEF m
<1>4. p \in Logout /\ p.pc = "answered" /\ p.status = "left"
  BY <1>3 DEF Status
<1> HIDE DEF p
<1>5. q \in Logout /\ q.pc = "answered" /\ q.status = "left" /\ q.reply = NoToken
  BY <1>4
<1> HIDE DEF q
<1>6. 0 \in 0..MaxLogins /\ now \in 0..MaxTime
  BY Constants DEF IInv, TypeOK
<1>7. q \in RequestState
  BY <1>5, <1>6 DEF RequestState
<1>8. Arriving(q)
  BY <1>5, <1>7 DEF Arriving
<1>9. Arrives(r, q)
  BY <1>2 DEF SendLogout, n
<1>10. QED
  BY <1>8, <1>9

\* An answer that reaches the browser.
LEMMA DeliverKeeps ==
  ASSUME IInv, NEW r \in Request, Deliver(r)
  PROVE  Behaves(r) /\ TypeOK' /\ DirectorySound' /\ CacheSound' /\ UsersSound'
<1>1. /\ req[r] # Free /\ req' = [req EXCEPT ![r] = Free]
      /\ (session' \in {session, req[r].reply} /\ session' # Keep) \/ session' = session
      /\ login' \in {0, login}
      /\ UNCHANGED <<now, groups, held, cache, users, codes, count>>
  BY DEF Deliver, At
<1>2. TypeOK
  BY DEF IInv
<1>3. Moves(r) /\ req'[r] = Free
  BY <1>1, <1>2 DEF Moves, TypeOK
<1>4. Grows
  BY <1>1 DEF Grows
<1>5. ASSUME NEW t \in Tokens'
      PROVE  t \in Tokens
  <2>1. t # NoToken /\ t # Keep
    BY NextTokensAre
  <2>2. CASE t = session'
    BY <1>1, <2>1, <2>2, TokensAre
  <2>3. CASE \E x \in Request : req'[x] # Free /\ t \in {req'[x].token, req'[x].reply}
    BY <1>3, <2>1, <2>3, TokensAre DEF Moves
  <2>4. QED
    BY <2>2, <2>3, NextTokensAre
<1>6. ~Known(r)'
  BY <1>3 DEF Known
<1>7. Behaves(r)
  BY <1>1, <1>3, <1>4, <1>5, <1>6 DEF Behaves
<1>8. session' \in Token \cup {NoToken}
  <2>1. session \in Token \cup {NoToken}
    BY <1>2 DEF TypeOK
  <2>2. req[r].reply \in Token \cup {NoToken, Keep}
    BY <1>1, <1>2, Busy, Fields
  <2>3. session # Keep
    BY <2>1, TokenFields DEF NoToken, Keep
  <2>4. QED
    BY <1>1, <2>1, <2>2, <2>3
<1>9. login' \in 0..MaxLogins
  <2>1. 0 \in 0..MaxLogins /\ login \in 0..MaxLogins
    BY <1>2, Constants DEF TypeOK
  <2>2. QED
    BY <1>1, <2>1
<1>10. TypeOK'
  BY <1>1, <1>2, <1>3, <1>8, <1>9 DEF TypeOK, Moves
<1>11. QED
  BY <1>1, <1>7, <1>10, RestStaysSound

\* The login page touches no request and no session.
LEMMA LoginKeeps ==
  ASSUME IInv, Login
  PROVE  IInv'
<1>1. /\ count.logins < MaxLogins /\ count' = [count EXCEPT !.logins = @ + 1]
      /\ login' = count'.logins /\ codes' = codes \cup {count'.logins}
      /\ UNCHANGED <<now, groups, held, cache, users, session, req>>
  BY DEF Login
<1>2. TypeOK
  BY DEF IInv
<1>3. PICK m : m = count.logins
  OBVIOUS
<1>4. m \in 0..MaxLogins
  BY <1>2, <1>3 DEF TypeOK
<1>5. m + 1 \in 1..MaxLogins /\ m + 1 \in 0..MaxLogins
  BY <1>1, <1>3, <1>4, Constants
<1>6. count' \in [changes : 0..MaxChanges, logins : 0..MaxLogins] /\ count'.logins = m + 1
  BY <1>1, <1>2, <1>3, <1>5 DEF TypeOK
<1>7. TypeOK'
  <2>1. codes' \subseteq 1..MaxLogins
    BY <1>1, <1>2, <1>5, <1>6 DEF TypeOK
  <2>2. login' \in 0..MaxLogins
    BY <1>1, <1>5, <1>6
  <2>3. QED
    BY <1>1, <1>2, <1>6, <2>1, <2>2 DEF TypeOK
<1>8. Grows
  BY <1>1 DEF Grows
<1>9. DirectorySound'
  BY <1>1 DEF IInv, DirectorySound
<1>10. QED
  BY <1>1, <1>7, <1>8, <1>9, QuietKeepsInvariant

\* Its cookies may expire.
LEMMA LoginExpiresKeeps ==
  ASSUME IInv, LoginExpires
  PROVE  IInv'
<1>1. /\ login' = 0
      /\ UNCHANGED <<now, groups, held, cache, users, session, codes, req, count>>
  BY DEF LoginExpires
<1>2. 0 \in 0..MaxLogins
  BY Constants
<1>3. TypeOK' /\ DirectorySound' /\ Grows
  BY <1>1, <1>2 DEF IInv, TypeOK, DirectorySound, Grows
<1>4. QED
  BY <1>1, <1>3, QuietKeepsInvariant

\* Time passes no faster than requests are answered.
LEMMA TickKeeps ==
  ASSUME IInv, Tick
  PROVE  IInv'
<1>1. /\ TypeOK /\ DirectorySound
      /\ \A r \in Request : req[r] # Free => req[r].start = now
      /\ UNCHANGED <<groups, cache, users, session, login, codes, req, count>>
  BY DEF IInv, Tick
<1>2. /\ now' = now + 1 /\ now' \in 0..MaxTime
      /\ held' \in [User -> [0..MaxTime -> SUBSET (Role \cup {"none"})]]
      /\ DirectorySound' /\ Grows
  BY <1>1, TickEffect
<1>3. cache' \in [Worker -> [User -> {NoEntry} \cup
        [list : {MapGroups(gs) : gs \in Memberships \cup {{}}}, ts : 0..now']]]
  <2> DEFINE List == {MapGroups(gs) : gs \in Memberships \cup {{}}}
  <2> HIDE DEF List
  <2>1. now \in 0..MaxTime
    BY <1>1 DEF TypeOK
  <2>2. 0..now \subseteq 0..now'
    BY <1>2, <2>1
  <2>3. cache \in [Worker -> [User -> {NoEntry} \cup [list : List, ts : 0..now]]]
    BY <1>1 DEF TypeOK, List
  <2>4. [list : List, ts : 0..now] \subseteq [list : List, ts : 0..now']
    BY <2>2
  <2>5. cache' \in [Worker -> [User -> {NoEntry} \cup [list : List, ts : 0..now']]]
    BY <1>1, <2>3, <2>4
  <2>6. QED
    BY <2>5 DEF List
<1>4. TypeOK'
  BY <1>1, <1>2, <1>3 DEF TypeOK
<1>5. QED
  BY <1>1, <1>2, <1>4, QuietKeepsInvariant

\* Groups change at any time.
LEMMA ChangeGroupsKeeps ==
  ASSUME IInv, NEW u \in User, ChangeGroups(u)
  PROVE  IInv'
<1>1. /\ TypeOK /\ DirectorySound
      /\ count.changes < MaxChanges /\ count' = [count EXCEPT !.changes = @ + 1]
      /\ UNCHANGED <<now, cache, users, session, login, codes, req>>
  BY DEF IInv, ChangeGroups
<1>2. /\ groups' \in [User -> Memberships]
      /\ held' \in [User -> [0..MaxTime -> SUBSET (Role \cup {"none"})]]
      /\ DirectorySound' /\ Grows
  BY <1>1, ChangeGroupsEffect
<1>3. count' \in [changes : 0..MaxChanges, logins : 0..MaxLogins]
  <2>1. PICK m : m = count.changes
    OBVIOUS
  <2>2. m \in 0..MaxChanges
    BY <1>1, <2>1 DEF TypeOK
  <2>3. m + 1 \in 0..MaxChanges
    BY <1>1, <2>1, <2>2, Constants
  <2>4. QED
    BY <1>1, <2>1, <2>3 DEF TypeOK
<1>4. TypeOK'
  BY <1>1, <1>2, <1>3 DEF TypeOK
<1>5. QED
  BY <1>1, <1>2, <1>4, QuietKeepsInvariant
-----------------------------------------------------------------------------
(* The theorems.                                                            *)

\* The initial states: nobody is known, nothing is cached.
LEMMA InitIInv ==
  Init => IInv
<1> SUFFICES ASSUME Init PROVE IInv
  OBVIOUS
<1>2. /\ now = 0 /\ 0 \in 0..MaxTime /\ 0 \in 0..MaxLogins /\ 0 \in 0..MaxChanges
      /\ \A r \in Request : req[r] = Free
      /\ session = NoToken
  BY Constants DEF Init
<1>3. TypeOK
  <2>1. held \in [User -> [0..MaxTime -> SUBSET (Role \cup {"none"})]]
    BY MappedRole DEF Init
  <2>2. cache \in [Worker -> [User -> {NoEntry} \cup
          [list : {MapGroups(gs) : gs \in Memberships \cup {{}}}, ts : 0..now]]]
    BY DEF Init
  <2>3. users \in [User -> Role \cup {"none"}] /\ req \in [Request -> {Free} \cup RequestState]
    BY DEF Init
  <2>4. count \in [changes : 0..MaxChanges, logins : 0..MaxLogins]
    BY <1>2 DEF Init
  <2>5. QED
    BY <1>2, <2>1, <2>2, <2>3, <2>4 DEF Init, TypeOK
<1>4. DirectorySound
  <2>1. \A u \in User, t \in 0..MaxTime :
          held[u][t] = IF t = 0 THEN {Highest(groups[u])} ELSE {}
    BY DEF Init
  <2>2. \A u \in User : Highest(groups[u]) \in held[u][now]
    BY <1>2, <2>1
  <2>3. \A u \in User, t \in 0..MaxTime : now < t => held[u][t] = {}
    <3>1. \A t \in 0..MaxTime : now < t => t # 0
      BY <1>2
    <3>2. QED
      BY <2>1, <3>1
  <2>4. QED
    BY <2>2, <2>3 DEF DirectorySound
<1>5. CacheSound /\ UsersSound
  BY DEF Init, CacheSound, UsersSound
<1>6. Tokens = {}
  BY <1>2, TokensAre
<1>7. QED
  BY <1>2, <1>3, <1>4, <1>5, <1>6 DEF IInv, RolesAreRecent, RoleIsRecent, FetchSound

\* Every step keeps the invariant.
LEMMA NextIInv ==
  IInv /\ [Next]_vars => IInv'
<1> SUFFICES ASSUME IInv, [Next]_vars PROVE IInv'
  OBVIOUS
<1>2. ASSUME NEW r \in Request, NEW q, Arriving(q), Arrives(r, q)
      PROVE  IInv'
  BY <1>2, ArrivesKeeps, BehavesKeepsInvariant
<1>3. CASE Tick
  BY <1>3, TickKeeps
<1>4. CASE LoginExpires
  BY <1>4, LoginExpiresKeeps
<1>5. CASE Login
  BY <1>5, LoginKeeps
<1>6. ASSUME NEW u \in User, ChangeGroups(u)
      PROVE  IInv'
  BY <1>6, ChangeGroupsKeeps
<1>7. ASSUME NEW r \in Request, NEW u \in User, SendProxy(r, u)
      PROVE  IInv'
  BY <1>2, <1>7, SendProxyKeeps
<1>8. ASSUME NEW r \in Request, NEW u \in User, SendCallback(r, u)
      PROVE  IInv'
  BY <1>2, <1>8, SendCallbackKeeps
<1>9. ASSUME NEW r \in Request, NEW u \in User, SendLogout(r, u)
      PROVE  IInv'
  BY <1>2, <1>9, SendLogoutKeeps
<1>10. ASSUME NEW r \in Request, SendSession(r)
       PROVE  IInv'
  BY <1>2, <1>10, SendSessionKeeps
<1>11. ASSUME NEW r \in Request, Deliver(r)
       PROVE  IInv'
  BY <1>11, DeliverKeeps, BehavesKeepsInvariant
<1>12. ASSUME NEW r \in Request, Handle(r)
       PROVE  IInv'
  BY <1>12, HandleKeeps, BehavesKeepsInvariant
<1>13. CASE UNCHANGED vars
  <2>1. TypeOK' /\ DirectorySound' /\ Grows
    BY <1>13 DEF vars, IInv, TypeOK, DirectorySound, Grows
  <2>2. QED
    BY <1>13, <2>1, QuietKeepsInvariant DEF vars
<1>14. QED
  BY <1>3, <1>4, <1>5, <1>6, <1>7, <1>8, <1>9, <1>10, <1>11, <1>12, <1>13 DEF Next

\* So it holds in every reachable state.
LEMMA Invariant ==
  Spec => []IInv
BY InitIInv, NextIInv, PTL DEF Spec

\* Every variable has its type in every state, and every request that is under way has its
\* fields: the cookies, codes and cache entries are ones that the code makes.
THEOREM TypeCorrect ==
  Spec => []TypeOK
<1>1. IInv => TypeOK
  BY DEF IInv
<1>2. QED
  BY <1>1, Invariant, PTL

\* A request is served, forbidden or denied under a role that the directory gave its user
\* within the life of a cache entry before the request (and of a session, where it used
\* one), for any number of users, workers and requests that interleave at every statement:
\* also where UpsertUser reads back a row that another request wrote.
THEOREM ServesRecentRoles ==
  Spec => []RolesAreRecent
<1>1. IInv => RolesAreRecent
  BY DEF IInv
<1>2. QED
  BY <1>1, Invariant, PTL

\* The cookie of a session ends SessionTTL after the directory's word on its user, give or
\* take a cache entry: no renewal behind the proxy and no other listener prolongs it.
THEOREM SessionsEnd ==
  Spec => []SessionsAreRecent
<1>1. IInv => SessionsAreRecent
  <2>1. SUFFICES ASSUME IInv, session # NoToken PROVE SessionsAreRecent
    BY DEF SessionsAreRecent
  <2>2. session # Keep
    BY <2>1, TokenFields DEF IInv, TypeOK
  <2>3. TokenSound(session)
    BY <2>1, <2>2, TokensAre DEF IInv
  <2>4. QED
    BY <2>3 DEF TokenSound, SessionsAreRecent
<1>2. QED
  BY <1>1, Invariant, PTL

\* UpsertUser stores a user only with a role that the directory gave this user before.
THEOREM OnlyMembersAreStored ==
  Spec => []OnlyMembersAreKnown
<1>1. IInv => OnlyMembersAreKnown
  BY DEF IInv, UsersSound, OnlyMembersAreKnown
<1>2. QED
  BY <1>1, Invariant, PTL

\* The middleware never answers 401 to a user of the proxy who is in the table when the
\* request starts: only the insert of a first request can fail.
THEOREM MembersAreServed ==
  Spec => []KnownMembersAreServed
<1>1. IInv => KnownMembersAreServed
  BY DEF IInv, RequestSound, KnownMembersAreServed
<1>2. QED
  BY <1>1, Invariant, PTL
=============================================================================
