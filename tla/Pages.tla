------------------------------- MODULE Pages -------------------------------
(***************************************************************************)
(* The pages of web/assets/app.js that fetch what they show when they are  *)
(* rendered - the on-call table of a year and the activity feed - next to  *)
(* the grid, whose reloads and messages replace the same State.oncall by   *)
(* the assignments of the visible weeks alone.                             *)
(*                                                                         *)
(* Requests are served and answered in any order; messages arrive in the   *)
(* order the server sent them.  An answer acts on the page as it is by     *)
(* then: it takes the current year, not the year it was asked for, and it  *)
(* paints the container whichever tab is open.                             *)
(***************************************************************************)
EXTENDS Calendar, SequencesExt

CONSTANTS
  None,
  People,        \* the active people, in order
  Week,          \* the weeks somebody may be on call in
  Comment,       \* comments of an assignment
  NoText,        \* the empty one
  Today,         \* the day it is
  Rosters,       \* the on-call tables to start from
  Contested,     \* the assignments other users may change
  WindowWeeks,   \* settings.window_weeks
  Habits,        \* the sets of tabs a user may keep to (a bound)
  Limit, Cap,    \* events a fetch returns (50) and the feed keeps (100)
  MaxOwn, MaxOthers,  \* bounds on the user's assignments and the changes others make
  MaxEvents, MaxMoves, \* to what is read here, on the events and the user's moves, and on
  MaxUnderWay    \* the reads and messages under way when others make theirs

Person == {People[i] : i \in DOMAIN People}
Assignment == [person : Person, comment : Comment]
Tabs == {"team", "oncall", "activity"}

\* A change of the user's: who leaves a week and who joins it, and with which comment; whether
\* it is of two requests, whether the one under way was served, and whether the page is
\* rendered at the end (addOncall).
Tasks == [week : Week, leaves : Person \cup {None}, joins : Person \cup {None},
          comment : Comment, both : BOOLEAN, stored : BOOLEAN, repaints : BOOLEAN]

ASSUME PagesAssumption ==
  /\ NoText \in Comment
  /\ None \notin Comment \cup Person \cup Int \cup Tasks
  /\ People \in Seq(Person)
  /\ Today \in YearStart(2024)..YearStart(2100) - 1
  /\ Rosters \subseteq [Week -> [Person -> Comment \cup {None}]]
  /\ Contested \subseteq Week \X Person
  /\ \A tabs \in Habits : "team" \in tabs /\ tabs \subseteq Tabs
  /\ IsFiniteSet(Week)
  /\ \A w \in Week : w \in YearStart(2024)..YearStart(2100) - 1 /\ GetDay(w) = 1
  /\ Limit \in Nat \ {0} /\ Cap \in Nat /\ Limit <= Cap
  /\ {MaxOwn, MaxOthers, MaxEvents, MaxMoves, MaxUnderWay} \subseteq Nat

VARIABLES
  db,          \* the oncall table: each week's comment for each person, None if not on call
  log,         \* the number of audit events
  inbox,       \* messages on their way
  fetches,     \* the reads under way, in the order they were asked for
  task,        \* the user's assignment under way, None without one
  habit,       \* the tabs the user opens
  tab,         \* currentView
  screen,      \* what the main container shows
  scroll,      \* scrollOffset
  year, tri,   \* oncallYear and oncallTri
  loadedYear,  \* oncallLoadedYear, None for null
  oncall,      \* State.oncall: each week's assignments
  feed,        \* State.activity: the numbers of the events, newest first
  spoiled,     \* history: State.oncall was replaced by a window's behind the page's back
  late,        \* history: an answer was overtaken by a later one, or painted over another tab
  count        \* how often the bounded things happened

server == <<db, log, habit>>
page   == <<tab, scroll, year, tri>>
vars   == <<db, log, inbox, fetches, task, habit, tab, screen, scroll, year, tri, loadedYear, oncall,
            feed, spoiled, late, count>>

----------------------------------------------------------------------------
(* What is read, and what is shown of it. *)

WeeksOf(y) == {w \in Week : YearOf(w) = y}
WindowOf(offset) == Week \cap Fetched(Today, WindowWeeks, offset)

\* GET /api/oncall for some weeks (a query without an order), and GET /api/activity.
ReadOncall(weeks) ==
  [w \in Week |->
     IF w \notin weeks THEN <<>>
     ELSE LET on == SetToSeq({p \in Person : db[w][p] # None})
          IN [i \in DOMAIN on |-> [person |-> on[i], comment |-> db[w][on[i]]]]]
ReadFeed == [i \in 1..(IF log < Limit THEN log ELSE Limit) |-> log - i + 1]

\* oncallCounts: the assignments in a range of weeks.  (A week lists no more than everybody
\* and those the user's own assignments appended.)
oncallCounts(oc, from, to) ==
  [p \in Person |-> Cardinality({c \in Week \X (1..Len(People) + MaxOwn) :
                       /\ from <= c[1] /\ c[1] <= to
                       /\ c[2] \in DOMAIN oc[c[1]] /\ oc[c[1]][c[2]].person = p})]

\* The two tables of statistics: the shares of a year and of one of its trimesters.
YearCounts(y) == oncallCounts(oncall, YearStart(y), YearStart(y + 1) - 1)
TrimesterCounts(y, t) ==
  oncallCounts(oncall, MonthStart(y, 3 * t), MonthStart(y, 3 * t + 3) - 1)

\* What renderOnCallBuild and renderActivityList paint.
OncallPage(oc, y)  == [tab |-> "oncall", loading |-> FALSE,
                       shown |-> [w \in WeeksOf(y) |-> oc[w]]]
ActivityPage(f)    == [tab |-> "activity", loading |-> FALSE, shown |-> f]
Loading(t)         == [tab |-> t, loading |-> TRUE, shown |-> <<>>]
TeamPage           == [tab |-> "team", loading |-> FALSE, shown |-> <<>>]

Fetch(kind, arg) == [kind |-> kind, arg |-> arg, served |-> FALSE, read |-> <<>>]

\* render(), after the other variables have changed: what it paints and asks for, beside
\* the reads `under way`.
renderOnCall(underway) ==
  IF loadedYear' # year'
  THEN screen' = Loading("oncall") /\ fetches' = Append(underway, Fetch("year", year'))
  ELSE screen' = OncallPage(oncall', year') /\ fetches' = underway
renderActivity(underway) ==
  /\ screen' = IF feed' = <<>> THEN Loading("activity") ELSE ActivityPage(feed')
  /\ fetches' = Append(underway, Fetch("feed", 0))
render(underway) ==
  CASE tab' = "team"     -> screen' = TeamPage /\ fetches' = underway
    [] tab' = "oncall"   -> renderOnCall(underway)
    [] tab' = "activity" -> renderActivity(underway)

Init ==
  /\ db \in Rosters
  /\ log = 0
  /\ habit \in Habits
  /\ inbox = <<>> /\ fetches = <<>> /\ task = None
  /\ tab = "team" /\ screen = TeamPage
  /\ scroll = 0
  /\ year = YearOf(Today)
  /\ tri = 3 - Cardinality({t \in 1..3 : Today < MonthStart(YearOf(Today), 3 * t)})
  /\ loadedYear = None
  /\ oncall = ReadOncall(WindowOf(0))
  /\ feed = <<>>
  /\ spoiled = FALSE /\ late = FALSE
  /\ count = [own |-> 0, others |-> 0, moves |-> 0]

----------------------------------------------------------------------------
(* The user moves about: tabs, trimesters, the year, the grid's weeks.  (A *)
(* bound: after an answer that came late nobody begins anything new.)      *)

Move ==
  /\ ~late
  /\ count.moves < MaxMoves
  /\ count' = [count EXCEPT !.moves = @ + 1]
  /\ UNCHANGED <<server, inbox, task, oncall, feed, late>>

OpenTab(t) ==
  /\ Move
  /\ tab' = t
  /\ UNCHANGED <<scroll, year, tri, loadedYear, spoiled>>
  /\ render(fetches)

\* oncallTriPrev and oncallTriNext: past the year's end the year is no longer loaded.
Turned(t) == IF t < 0 THEN [tri |-> 3, year |-> year - 1, loaded |-> None]
             ELSE IF t > 3 THEN [tri |-> 0, year |-> year + 1, loaded |-> None]
             ELSE [tri |-> t, year |-> year, loaded |-> loadedYear]
OncallTri(step) ==
  /\ Move
  /\ screen.tab = "oncall" /\ ~screen.loading
  /\ tri' = Turned(tri + step).tri
  /\ year' = Turned(tri + step).year
  /\ loadedYear' = Turned(tri + step).loaded
  /\ spoiled' = (spoiled /\ loadedYear' # None)
  /\ UNCHANGED <<tab, scroll>>
  /\ render(fetches)

SelectYear(y) ==
  /\ Move
  /\ screen.tab = "oncall" /\ ~screen.loading
  /\ y # year
  /\ year' = y /\ loadedYear' = None /\ spoiled' = FALSE
  /\ UNCHANGED <<tab, scroll, tri>>
  /\ render(fetches)

\* The grid's buttons reload the new window; the page is rendered when it is there.
Scroll(step) ==
  /\ Move
  /\ screen.tab = "team"
  /\ scroll' = scroll + step
  /\ fetches' = Append(fetches, Fetch("reload", scroll'))
  /\ UNCHANGED <<tab, screen, year, tri, loadedYear, spoiled>>

----------------------------------------------------------------------------
(* The server: changes and their messages, and reads. *)

Stored(w, p, c) == db' = [db EXCEPT ![w][p] = c]
\* The feed of a user who never opens it is not followed.
Announced(m) ==
  /\ log' = log + 1
  /\ inbox' = inbox \o <<[type |-> m, event |-> 0]>>
                   \o (IF "activity" \in habit
                       THEN <<[type |-> "activity_new", event |-> log + 1]>> ELSE <<>>)

\* Another user puts somebody on call, or off it, or saves a range of half-days; or a
\* single half-day, which only matters here to the feed.
OtherUser ==
  /\ ~late /\ Len(fetches) + Len(inbox) <= MaxUnderWay
  /\ \/ /\ count.others < MaxOthers
        /\ count' = [count EXCEPT !.others = @ + 1]
        /\ \/ \E a \in Contested, c \in Comment \cup {None} :
                db[a[1]][a[2]] # c /\ Stored(a[1], a[2], c) /\ Announced("oncall_changed")
           \/ UNCHANGED db /\ Announced("planning_range")
     \/ /\ "activity" \in habit /\ log < MaxEvents
        /\ Announced("planning_updated")
        /\ UNCHANGED <<db, count>>
  /\ UNCHANGED habit
  /\ UNCHANGED <<fetches, task, page, screen, loadedYear, oncall, feed, spoiled, late>>

ReadFor(f) ==
  CASE f.kind = "year" -> ReadOncall(WeeksOf(f.arg))
    [] f.kind \in {"window", "reload"} -> ReadOncall(WindowOf(f.arg))
    [] f.kind = "feed" -> ReadFeed

Serve(i) ==
  /\ ~fetches[i].served
  /\ fetches' = [fetches EXCEPT ![i].served = TRUE, ![i].read = ReadFor(fetches[i])]
  /\ UNCHANGED <<server, inbox, task, page, screen, loadedYear, oncall, feed, spoiled, late, count>>

----------------------------------------------------------------------------
(* The browser: answers and messages. *)

\* The variable an answer replaces.
Target(kind) == IF kind = "feed" THEN "feed" ELSE "oncall"
Overtaken(i) == \E j \in 1..i - 1 : Target(fetches[j].kind) = Target(fetches[i].kind)

\* Some of the user's own write was read by an answer before its own answer came.
OwnOvertaken(kind) == kind # "feed" /\ task # None /\ task.stored

\* Mutant: a year without assignments is not painted.
AnswerYearUnlessEmpty(read) ==
  /\ oncall' = read
  /\ loadedYear' = year
  /\ screen' = IF \E w \in Week : read[w] # <<>> THEN OncallPage(read, year) ELSE screen
  /\ spoiled' = FALSE
  /\ UNCHANGED feed

AnswerYear(read) ==
  /\ oncall' = read
  /\ loadedYear' = year
  /\ screen' = OncallPage(read, year)
  /\ spoiled' = FALSE
  /\ UNCHANGED feed

\* Mutant: the window's assignments pass for the year's.
AfterWindowKept == loadedYear

\* oncall_changed: on the on-call tab the year is asked for anew.
AfterWindow == IF tab = "oncall" THEN None ELSE loadedYear
AnswerWindow(kind, read, underway) ==
  /\ oncall' = read
  /\ loadedYear' = IF kind = "window" THEN AfterWindow ELSE loadedYear
  /\ spoiled' = (loadedYear # None /\ (kind = "reload" \/ tab # "oncall"))
  /\ UNCHANGED <<feed, tab, year>>
  /\ render(underway)

\* Mutant: the events of the answer are put before those shown.
AnswerFeedAdds(read) ==
  /\ feed' = read \o SelectSeq(feed, LAMBDA e : \A i \in DOMAIN read : read[i] # e)
  /\ screen' = ActivityPage(feed')
  /\ UNCHANGED <<oncall, loadedYear, spoiled>>

AnswerFeed(read) ==
  /\ feed' = read
  /\ screen' = ActivityPage(read)
  /\ UNCHANGED <<oncall, loadedYear, spoiled>>

Answer(i) ==
  LET f == fetches[i] rest == RemoveAt(fetches, i) IN
  /\ f.served
  /\ \/ f.kind = "year" /\ AnswerYear(f.read) /\ fetches' = rest
     \/ f.kind \in {"window", "reload"} /\ AnswerWindow(f.kind, f.read, rest)
     \/ f.kind = "feed" /\ AnswerFeed(f.read) /\ fetches' = rest
  /\ late' = (late \/ Overtaken(i) \/ OwnOvertaken(f.kind)
                   \/ (f.kind = "year" /\ tab # "oncall") \/ (f.kind = "feed" /\ tab # "activity"))
  /\ UNCHANGED <<server, inbox, task, page, count>>

\* Mutant: the feed grows by one event at a time for ever.
CappedLate(f) == SubSeq(f, 1, IF Len(f) > Cap + 1 THEN Len(f) - 1 ELSE Len(f))

Capped(f) == SubSeq(f, 1, IF Len(f) > Cap THEN Len(f) - 1 ELSE Len(f))

ReceiveMessage ==
  /\ inbox # <<>>
  /\ inbox' = Tail(inbox)
  /\ LET m == Head(inbox) IN
     CASE m.type = "oncall_changed" ->
            fetches' = Append(fetches, Fetch("window", scroll)) /\ UNCHANGED <<feed, screen>>
       [] m.type = "planning_range" ->
            fetches' = Append(fetches, Fetch("reload", scroll)) /\ UNCHANGED <<feed, screen>>
       [] m.type = "planning_updated" -> UNCHANGED <<feed, tab>> /\ render(fetches)
       [] m.type = "activity_new" ->
            /\ feed' = Capped(<<m.event>> \o feed)
            /\ IF tab = "activity" THEN UNCHANGED <<tab>> /\ render(fetches)
               ELSE UNCHANGED <<screen, fetches>>
  /\ UNCHANGED <<server, task, page, loadedYear, oncall, spoiled, late, count>>

----------------------------------------------------------------------------
(* The user assigns: setOnCallAssignment, removeOnCallAssignment, addOncall *)
(* and changeOnCallPerson are a request, or two, each with a local update   *)
(* of State.oncall when it is answered.                                     *)

\* Some numbers in their order.
InOrder(S) == CHOOSE f \in [1..Cardinality(S) -> S] : \A i, j \in DOMAIN f : i < j => f[i] < f[j]

Without(es, p) ==
  LET kept == {i \in DOMAIN es : es[i].person # p}
  IN [j \in 1..Cardinality(kept) |-> es[InOrder(kept)[j]]]
Position(es, p) ==
  CHOOSE i \in DOMAIN es : es[i].person = p /\ \A j \in 1..i - 1 : es[j].person # p
IsOn(es, p) == \E i \in DOMAIN es : es[i].person = p

\* setOnCallAssignment's update; changeOnCallPerson appends without looking.
PutLocally(es, p, c, looks) ==
  IF looks /\ IsOn(es, p) THEN [es EXCEPT ![Position(es, p)].comment = c]
  ELSE Append(es, [person |-> p, comment |-> c])

Task(w, leaves, joins, c, repaints) ==
  [week |-> w, leaves |-> leaves, joins |-> joins, comment |-> c,
   both |-> leaves # None /\ joins # None, stored |-> FALSE, repaints |-> repaints]

onCallComment(p, w) ==
  IF IsOn(oncall[w], p) THEN oncall[w][Position(oncall[w], p)].comment ELSE NoText

Begin(t) ==
  /\ task = None /\ ~late
  /\ count.own < MaxOwn
  /\ count' = [count EXCEPT !.own = @ + 1]
  /\ screen.tab = "oncall" /\ ~screen.loading /\ t.week \in DOMAIN screen.shown
  /\ task' = t
  /\ UNCHANGED <<server, inbox, page, loadedYear, oncall, feed, spoiled, late>>
  /\ IF t.repaints THEN UNCHANGED <<screen, fetches>> ELSE render(fetches)

Assign(w) ==
  LET shown == IF w \in DOMAIN screen.shown
               THEN {screen.shown[w][i].person : i \in DOMAIN screen.shown[w]} ELSE {}
      assigned(i) == IsOn(oncall[w], People[i])
  IN \/ \E p \in shown, c \in Comment : Begin(Task(w, None, p, c, FALSE))
     \/ \E p \in shown : Begin(Task(w, p, None, NoText, FALSE))
     \/ \E p \in shown : \E q \in Person \ {p} :
          Begin(Task(w, p, q, onCallComment(p, w), FALSE))
     \/ \E i \in DOMAIN People : /\ ~assigned(i) /\ \A j \in 1..i - 1 : assigned(j)
                                 /\ Begin(Task(w, None, People[i], NoText, TRUE))

ServeTask ==
  /\ task # None /\ ~task.stored
  /\ IF task.leaves # None THEN Stored(task.week, task.leaves, None)
     ELSE Stored(task.week, task.joins, task.comment)
  /\ Announced("oncall_changed")
  /\ UNCHANGED habit
  /\ task' = [task EXCEPT !.stored = TRUE]
  /\ UNCHANGED <<fetches, page, screen, loadedYear, oncall, feed, spoiled, late, count>>

\* The DELETE of a change is answered: the PUT follows.  Otherwise the task is over.
AnswerTask ==
  /\ task # None /\ task.stored
  /\ oncall' = [oncall EXCEPT ![task.week] =
       IF task.leaves # None THEN Without(@, task.leaves)
       ELSE PutLocally(@, task.joins, task.comment, ~task.both)]
  /\ task' = IF task.leaves # None /\ task.joins # None
             THEN [task EXCEPT !.leaves = None, !.stored = FALSE] ELSE None
  /\ UNCHANGED <<server, inbox, page, loadedYear, feed, spoiled, late, count>>
  /\ IF task.repaints THEN render(fetches) ELSE UNCHANGED <<screen, fetches>>

----------------------------------------------------------------------------
UserStep ==
  \/ \E t \in habit : OpenTab(t)
  \/ \E s \in {-1, 1} : OncallTri(s) \/ Scroll(s)
  \/ \E y \in {YearOf(w) : w \in Week} : SelectYear(y)
  \/ \E w \in Week : Assign(w)

ServerStep == OtherUser \/ ServeTask \/ \E i \in DOMAIN fetches : Serve(i)
BrowserStep == AnswerTask \/ ReceiveMessage \/ \E i \in DOMAIN fetches : Answer(i)

Next == UserStep \/ ServerStep \/ BrowserStep

\* Requests are served and answered, messages arrive.
Fairness ==
  /\ WF_vars(\E i \in DOMAIN fetches : Serve(i))
  /\ WF_vars(\E i \in DOMAIN fetches : Answer(i))
  /\ WF_vars(ReceiveMessage) /\ WF_vars(ServeTask) /\ WF_vars(AnswerTask)

Spec == Init /\ [][Next]_vars /\ Fairness

----------------------------------------------------------------------------
(* Correctness. *)

\* Every variable keeps its type, the feed its bound; a year is loaded only when it is selected.
TypeOK ==
  /\ db \in [Week -> [Person -> Comment \cup {None}]]
  /\ log \in Nat /\ habit \in Habits /\ tab \in habit /\ scroll \in Int
  /\ inbox \in Seq([type : {"oncall_changed", "planning_range", "planning_updated",
                            "activity_new"}, event : Nat])
  /\ \A i \in DOMAIN inbox : inbox[i].type = "activity_new" => inbox[i].event \in 1..log
  /\ \A i \in DOMAIN fetches : fetches[i].served =>
       IF fetches[i].kind = "feed" THEN /\ fetches[i].read \in Seq(1..log)
                                      /\ Len(fetches[i].read) <= Limit
       ELSE fetches[i].read \in [Week -> Seq(Assignment)]
  /\ task \in Tasks \cup {None} /\ task # None => task.leaves # None \/ task.joins # None
  /\ year \in Int /\ tri \in 0..3 /\ loadedYear \in {None, year}
  /\ oncall \in [Week -> Seq(Assignment)]
  /\ feed \in Seq(1..log) /\ Len(feed) <= Cap
  /\ screen.tab \in Tabs /\ screen.loading \in BOOLEAN
  /\ {spoiled, late} \subseteq BOOLEAN

Quiet == inbox = <<>> /\ fetches = <<>> /\ task = None

\* Some assignments say of a week what the table says.
Agrees(es, w) ==
  /\ Len(es) = Cardinality({p \in Person : db[w][p] # None})
  /\ \A i \in DOMAIN es : db[w][es[i].person] = es[i].comment
  /\ \A i, j \in DOMAIN es : es[i].person = es[j].person => i = j

\* Once nothing is under way the on-call tab shows its year as it is stored, whatever the
\* user and others assigned and wherever the user went meanwhile - unless the answers came
\* out of order, or a window's assignments replaced the year's while oncallLoadedYear
\* still named it (renderOnCall, WS.onMessage).
OncallTabIsComplete ==
  Quiet /\ tab = "oncall" /\ ~late /\ ~spoiled
    => /\ screen.tab = "oncall" /\ ~screen.loading /\ loadedYear = year
       /\ DOMAIN screen.shown = WeeksOf(year)
       /\ \A w \in WeeksOf(year) : Agrees(screen.shown[w], w) /\ Agrees(oncall[w], w)

\* Once nothing is under way the activity tab shows the newest events, newest first, each
\* once, although every event comes by message and by the fetch that message causes
\* (renderActivity, activity_new).
FeedIsComplete ==
  Quiet /\ tab = "activity" /\ ~late => screen = ActivityPage(ReadFeed)

\* The shares of on-call add up: every week of a year is a row of one trimester's table
\* and of no other year's, and somebody's weeks in the year are the sum of those in its
\* trimesters (trimesterWeeks, oncallCounts).
SharesAddUp ==
  \A y \in {YearOf(w) : w \in Week} :
    /\ \A w \in Week : Cardinality({t \in 0..3 : w \in trimesterWeeks(y, t, 0, 0)})
                         = (IF YearOf(w) = y THEN 1 ELSE 0)
    /\ \A p \in Person :
         YearCounts(y)[p] = TrimesterCounts(y, 0)[p] + TrimesterCounts(y, 1)[p]
                            + TrimesterCounts(y, 2)[p] + TrimesterCounts(y, 3)[p]

\* No page shows "Loading..." for ever, if requests are answered.
LoadingEnds == screen.loading ~> ~screen.loading
=============================================================================
