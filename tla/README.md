# Team Visualizer: specifications, checks and proofs

TLA+ modules that model Team Visualizer (a Go server with a SQLite store, a
WebSocket hub and a browser application), configurations that check them with
TLC, and theorems about them checked by TLAPS.

## The system

| component | source | state | operations |
|-----------|--------|-------|------------|
| WebSocket hub | `internal/ws` | the set of clients, three channels, one send channel per client | register, unregister, broadcast, fan-out, reading, writing and pinging a connection |
| store | `internal/store` | SQLite tables people, planning, rotation, oncall, projects, holidays, settings, users, audit_log | one method per query or write; transactions for ranges, reset and holidays |
| migrations | `store.go` | the schema | run at every start, statement by statement |
| HTTP API | `internal/api` | none of its own | decode, validate, store, broadcast, record the event, answer |
| authentication | `internal/auth` | JWTs in cookies, users table | OIDC callback, header and development modes, role checks |
| reverse proxy | `apache/group_lookup.lua` | a per-user cache of groups | LDAP lookup with a time to live |
| browser: planning | `web/assets/app.js` | `State` (a copy of the visible schedule), undo and redo stacks, recent own edits | edit, undo, redo, reload, apply messages |
| browser: grid and editor | `web/assets/app.js` | the drag, the open editor's form, filter, weekend switch | select half-days, edit them on one of five tabs, apply, show and count what half-days hold |
| browser: pages | `web/assets/app.js` | the open tab, the on-call year and trimester, what was fetched for them, the feed | open a tab, assign on-call, fetch, paint answers |
| TOML import and export | `internal/toml`, `read.go`, `write.go` | the file | import (merge, replace), export with a counter |
| configuration | `internal/config` | listeners | defaults, interpolation, validation |

How they interact: a request goes through the role middleware to a handler,
which runs one or more store statements, then hands a message to
`Hub.Broadcast` (which blocks while the broadcast channel is full), then inserts
an audit event and broadcasts it, then answers.  `Hub.Run` fans every message
out to the send channel of each client and skips those that are full; a writer
goroutine per connection writes it to the browser, which patches its copy of
the schedule or reads it anew.

What is hard in it:

- goroutines and bounded channels: who waits for whom, and sends on channels
  that another goroutine closes;
- a pool of one connection: a statement is atomic, a transaction holds
  everybody up, and an operation of several statements interleaves with others;
- the write, the broadcast and the audit event of one request are separate steps;
- browsers apply messages, answers and reloads in whatever order they come,
  suppress the echo of their own edits, and undo into a schedule others change;
- an editor is filled from one half-day and written to many, later, with toggles
  that may mean "leave it alone", while others write to the same half-days and
  the rows move under the pointer;
- what a half-day holds is decided anew in a dozen places, by chains of
  conditions in different orders;
- pages share one `State.oncall`, and an answer acts on whatever page is open by
  the time it comes.

## The modules

| module | models | kind |
|--------|--------|------|
| `Hub` | `internal/ws` | specification |
| `HubProofs` | | theorems about `Hub` |
| `MCHub` | | instances of `Hub` for TLC |
| `ScheduleData` | the tables of a schedule | vocabulary shared by the next two |
| `Schedule` | what the store promises | abstract specification |
| `Server` | write handlers of `internal/api`, `internal/store/write.go` | specification, shown to implement `Schedule` |
| `MCServer` | | instances of `Server` for TLC |
| `ServerProofs` | | theorems about `Server`: types, the connection, foreign keys, broadcasts, audit log, feed; that it implements `Schedule` |
| `Spa` | planning, undo and messages in `app.js` | specification |
| `SpaProofs` | | theorems about `Spa` |
| `MCSpa` | | instances of `Spa` for TLC |
| `Calendar` | weeks, trimesters and half-days (`app.js`) | pure functions |
| `Cells` | how `app.js` reads and counts half-days | pure functions |
| `Editor` | the grid, dragging, the slot editor and Apply (`app.js`) | specification, uses `Calendar` and `Cells` |
| `MCEditor` | | instance of `Editor` for TLC |
| `Pages` | the on-call page, the activity feed, their fetches and messages (`app.js`) | specification, uses `Calendar` |
| `MCPages` | | instance of `Pages` for TLC |
| `CalendarProofs` | | theorems about `Calendar` |
| `EditorProofs` | | theorems about `Editor`: types, entries, selection, marks; about `Cells` in its states |
| `PagesProofs` | | theorems about `Pages`: types, the activity tab, the on-call tab and its shares |
| `AuditText` | the texts of audit events and their parser (`writes.go`, `store.go`) | pure functions |
| `Migrate` | opening and migrating the database (`store.go`, `migrations`) | specification, uses `AuditText` |
| `MigrateProofs` | | theorems about `Migrate` |
| `MCMigrate` | | instances of `Migrate` for TLC |
| `Auth` | `internal/auth`, `Store.UpsertUser`, `apache/group_lookup.lua` | specification |
| `AuthProofs` | | theorems about `Auth` |
| `MCAuth` | | instances of `Auth` for TLC |

### Hub

One action per step of a goroutine between two channel or network operations.
`handler[c]` is the request goroutine of a connection (`ServeWS`, then
`readPump`), `writer[c]` its `writePump`; `HubRegister`, `HubUnregister` and
`HubBroadcast` are the three cases of the select in `Hub.Run`, which alone
touches `clients`, so an iteration of its loop is one step and the mutex is left
out.  A goroutine inside `Broadcast`, be it a request handler or the goroutine of
`broadcastPresence`, is a count in `waiting[m]` until its message fits.  A
connection is `open`, `broken` (the peer left, or a deadline passed) or `closed`
by the server.  The payload of a change is left out; a presence message carries
the set of users.

### Schedule and Server

`Schedule` has every operation as a single step: a save (or clear) of a set of
half-days as a whole, a fill of one empty half-day (never with an absence or an
incident), people who join or leave with everything about them, forgetting old
weeks, wiping, a duty given or taken.

`Server` has the handlers.  `pc[r]` is how far the handler of request `r` is; one
action per statement it sends to the database.  `conn` is the one connection of
the pool: nobody's, or that of the request in a transaction; a statement needs
it (`Statement`).  Foreign keys and their cascades are part of the statements
(`CanWrite`, `Cascade`).  After its change a handler goes through `Announce`
(the broadcast), `Record` (the audit event, which may fail silently), `Activity`
(the feed message) and `Reply`.  `DiskError` lets any statement be refused,
`Crash` stops the process, which rolls an open transaction back and loses the
requests in flight.  `told[r]` are the tables the messages of a request are
about, `changed[r]` the tables it changed.

The data of a row is one entry of `Kind`: what distinguishes entries for the
properties is only whether a copy of a week carries them over.  A person is an
id.  An update of a person changes no variable but counts as a change of
`people`.

`Server` implements `Schedule` with `planning` mapped to `Committed`, the planning
without the open transaction: a range becomes one `Save` at its `Commit`, a
copied week a series of `Fill`s, a run person's week a `Duty` and `Save`s, an
import a `Wipe` and a series of `Join`s and `Save`s.

### Spa

An edit, an undo and a redo are tasks: one write per half-day, all under way at
once, then a reload, then the end of the function, each a step of its own
(`phase`).  A write is stored, told to the connected browsers and answered in
three steps; a reload is read on the server and received in two.  `view[b]` is
`State.planning`, `window[b]` the half-days in the visible weeks, `recent[b]`
those whose messages are ignored (`recentSelfFlash`), `undoing[b]`
`State.undoing`.  Only messages keep their order.  A write may fail quietly
(500, which `API.call` takes for an answer) or loudly (it throws, the task ends,
its other writes go on); the hub may skip a browser; a connection may be lost
with what is on its way, and the browser connects again without reloading.  An
answered range or copy makes a browser reload without a task (`Scroll`).

The history variable `asked[b]` is the document of an ideal editor that does the
edits, undos and redos of user `b` at once; `UndoReverts` compares the database
with it.  Two assumptions about time are stated where they are used: the 2.5
seconds of the suppression outlast the echoes of the browser's own writes
(`Expire`), and users wait for a task and for its echoes before the next one
(`Patient`; without it `UndoRevertsUndisturbed` and `OwnEditsAreShown` fail, because
an undo compares its snapshot with a view that has not caught up).

### Calendar, Cells and Editor

A day is an integer, day 0 the Monday 2024-01-01, and a half-day is two times its day, plus one
for pm: dates of the code are strings that sort the same way.  What the code takes from
JavaScript's `Date` is defined for the years 2024 to 2099 and marked external.

`Cells` has one operator for each chain of conditions that decides what a half-day holds:
the classes, labels and merge keys of the grid, both tooltips, My Week, the overwrite
warning's categories, the availability page, the day summary, the calendar file, the run
coverage, the workload, and the counters over them.  A wording is the set of the things it
mentions; markup and the texts themselves are left out.

`Editor` has `dragState` as `drag`, the modal as `editor` (its form, the tab, the three-valued
toggles with `data-grey`, the date fields as the range `from` to `to`), `teamFilter` and
`_showWeekend`.  `StartDrag`, `ExtendDrag` and `EndDrag` are the mouse handlers; they know
rows by number, and `Rows` is what the filter leaves of the people at that moment, so rows
come and go under a drag when somebody else's write arrives (`OtherWrites`).
`openUnifiedEditor` fills the form from the first half-day that holds something;
`applyUnifiedEditor` writes `Written(editor, sd)` for each half-day of the range, where `sd` is
what it holds by then, and either all writes succeed or one fails and the editor stays open.
The database and the browser's copy are one variable here, as their differences are the
subject of `Spa`.  History: the rows at the start of a drag, the toggles that were clicked,
whether the range was moved, and whether anybody wrote since the editor opened.

Left out: arrow keys during a drag, filters by name and sub-team (they do not depend on what
others write), undo (`Spa`), the overwrite warning, and guests.

### Pages

`screen` is what the main container shows, `tab` is `currentView`; they differ when an answer
paints over another tab.  A read is asked for (`render`, `ReceiveMessage`, `Scroll`), served
by the server (`Serve`) and answered (`Answer`), each of these a step, the answers in any
order; messages arrive in theirs.  `Assign` is the user's changes of on-call, of one
request or, for another person in the same week, of a DELETE and then a PUT (`ServeTask`,
`AnswerTask`); other users do the same and save half-days.  An answer of the year is
taken for the year selected by then (`AnswerYear`), an answer of the visible weeks replaces
the year's assignments (`AnswerWindow`) and forgets `oncallLoadedYear` only on the on-call tab.

Two history variables name what the properties leave out: `late`, an answer was overtaken by a
later one of the same data or by the user's own write, or it painted another tab; `spoiled`, the
window's assignments replaced the year's while `oncallLoadedYear` still named it.
Failing requests, the extra weeks and the filters of the feed are left out.

### AuditText and Migrate

Every start runs the statements of the eleven migrations one after the other
(`M001_init` to `M011_tentative_away`, `Migrate`), each committed by itself, and
takes "already exists" and "duplicate column" for success (`Tolerated`).  Then it reads
all audit rows without a meta and what their texts say (`BackfillRead`), and updates them one by
one with what it read (`BackfillUpdate`).  `Stop` may end the process between any two statements; a statement
that fails, because a table or column it speaks of (`Needs`) is not there, ends it.  `Init` is a new file or what any number of statements of an older
release left behind.  While it runs, half-days, settings and events are written.

`AuditText` has what a handler writes about an event, as target and detail
(`Target`, `Detail`) and as a meta (`Rich`), and the function that reads the meta out of the
texts (`Parsed`).  A text is a sequence of tokens with the separators as tokens (`Words`), since what
can go wrong in the parser is where it splits; a number is one token.  A meta is the set of its
fields with their values.  `BackfillAgrees` compares the two
metas; the dates of a range are excepted (`migrate_range`), and so is a half-day that holds
only a bare state such as "filled", which the parser takes for the name of a project.  Nothing
is said of texts that cannot be taken apart again (`Separable` says which can): an identifier or a date
with a space in it, a project whose name has a comma or "+run" in it, begins with "away:" or
"incident:", or is "run".  The handlers write such fields as they are.

### Auth

A request is a record: which listener it came through, the cookies it brought, where its
handler is and what its answer will do to the cookies.  Behind the proxy the groups come
out of the cache of some Apache worker or of the directory (`ProxyCached`, `ProxyLookup`);
on the other listener a session cookie names the user (`TakeSession`), and a login at the
provider ends in a callback (`Exchange`).  `Select`, `Insert`, `Fetch` and `Update` are the
statements of `UpsertUser`, between which other requests run.  `Deliver` is the browser
applying an answer's cookies, in any order.

`held[u][t]` records what the directory said of user `u` at time `t`, and the properties
compare answers and sessions with it.  The documentation's role of a set of groups
(`Highest`) is a definition of its own; `Mapped` is the loop of the code over a list, and
the provider lists groups in any order.  A request takes at most one unit of time (`Tick`),
which stands for the timeouts of the server; statements do not fail.

## The runs

| run | shows | bounds |
|-----|-------|--------|
| `hub` | types, `ConnectionProtocol`, `NeverSendOnClosed`; nobody waits for ever in `Broadcast`; a client the hub knows is cleaned up; what is buffered is written | two connections, capacities 1, their presence messages and one change |
| `hub_ghost` | violated: a connection may stay in the map after its end | capacities 2, roomy buffers |
| `server` | types, `NoStrangers`, `AtomicChangesAreAnnounced`, `FeedFollowsAudit`, `ImplementsSchedule`, `EveryRequestIsAnswered` | two requests out of twenty operations, two people, two weeks of two half-days, one crash |
| `server_unannounced` | violated: a run person's week changes the planning unannounced | three operations, no disk errors |
| `spa` | types and the bound of the stacks, `UndoRevertsUndisturbed`, `OwnEditsAreShown` | one patient user, two half-days, three tasks, one failure, one loss, one reload of another origin |
| `spa_watch` | `WatchersAreCurrent`, `UndoingIsReset` | two impatient users, one half-day, two tasks, one failure |
| `spa_scroll` | violated: an undo out of sight writes nothing | one user, two weeks of one half-day |
| `editor` | types, `EntriesAreWellFormed`, `ViewsAgree`, `MergedCellsReadAlike`, `UntouchedFlagsStay`, `UnchangedFormIsHarmless`, `DragSelects` | two people, six half-days from a Friday to a Monday, two inputs to an editor, one Apply, one write by others or one that fails |
| `pages` | types and the bound of the feed, `OncallTabIsComplete`, `FeedIsComplete`, `SharesAddUp`, `LoadingEnds` | two people, the last week of 2026 and the first of 2027, two moves, one own assignment, one change by others, three events, a feed of two |
| `migrate` | types, `ServesMigratedData`, `RestartKeepsPlanning`, `RestartKeepsChoices`, `BackfillAgrees`, `StartSucceeds` | one half-day, at most one old event, of eighteen that the texts tell apart, two stops, two writes, one new event |
| `migrate_range` | violated: a backfilled range keeps its dates | one old range, no stops |
| `auth` | types, `RolesAreRecent`, `SessionsAreRecent`, `OnlyMembersAreKnown`, `KnownMembersAreServed` | one person with no, one or two groups, two requests at a time, three times, one change of groups, one login |

Why the bounds are enough.  In `Hub` every protection is about one connection
against the hub, and every hazard needs one sender that waits behind one
queued message: capacity 1 and two connections give both, and each channel is
full in some state.  Larger capacities only postpone the waiting.  The real
capacities are 64, 64, 256 and 64; nothing depends on their values but that
they are positive, and the theorems hold for all of them.  In `Server` a hazard
needs two handlers on one person or one half-day; two half-days in a week are the
least for which a loop can be interrupted between its iterations, two people the
least for which a range fails halfway.  Two requests go through any pair of
handlers in any interleaving.

In `Spa` three tasks are an edit, its undo and its redo, or two edits
and an undo; two half-days make an undo that writes one of them; the depth of two
levels is exceeded by a third edit.

In `Migrate` half-days and events do not meet, so one of each will do; the events are one
for every branch of the parser.  Two stops interrupt a start that already repeats
an interrupted one.  In `Auth` each lifetime is one unit and time has three values, the
least for which something can be used after it is too old; users and workers meet only in
rows and cache entries of their own, so one of each is enough, and two requests give every race
of `UpsertUser`.

In `Editor` a range needs two half-days that differ, a first one to be filled from and one
more, and a drag over hidden days a weekend between them; two people make rows that move.  Two
inputs are a toggle and a tab, a range and a tab, or a toggle cycled twice; a second Apply finds
nothing a seed could not hold, since `EntriesAreWellFormed` is inductive and proved.  In
`Pages` the two weeks are on both sides of a year's and a trimester's end; the window of one week
shows one of them at a time.  Two moves open a tab and turn the page or leave it while
its answer is under way.  A feed that keeps two events of fetches of one is past its bound with three
events.  `MaxUnderWay` bounds what others do while reads and messages are under way, not
the order in which these are answered.

Fairness.  `Hub`: each goroutine that can go on does; reads, writes and pings on a
connection that is no longer open fail within their deadlines.  Nothing makes a browser
connect, leave or edit.  `Server`: handlers that can go on do; the connection is free
between the statements of others.  `Migrate`: the process goes on, and whoever runs it
starts it again.  `Pages`: requests are served and answered and messages arrive, as long as the
connection and the server live; the user does nothing of necessity.  The other modules have safety properties only.  The system may stop when
every connection or request is over, or when a bound is reached: deadlock is not checked
where that is so.

### Where the documentation and the code differ

The runs that expect a violation check what `README.md` or a comment says:
the list of online users (`hub_ghost`), that all changes are broadcast
(`server_unannounced`), that an undo reverts to the server (`spa_scroll`), and the format of
a range's target in the audit log (`migrate_range`).

More were met and are described here only.  On the server:

- `README.md` and `group_lookup.lua` say that users without groups get the readonly role;
  `mapGroupsToRole` denies them, and a failed LDAP query, which looks the same, denies a
  member until its cache entry expires.
- `middleware.go:18` says every request is authenticated by its headers; of two
  overlapping first requests of a user the later INSERT of `UpsertUser` (`store.go:399`)
  fails on the unique name and is answered 401.
- A client whose buffer fills up between its registration and its welcome blocks
  `ServeWS` for good, since nothing drains the buffer yet; with the real capacity that takes
  64 broadcasts in that gap.  Presence messages are enqueued by goroutines in any order, so
  the last list a browser gets may be older than the map.

In the browser (lines of `app.js`):

- `isRecentSelf` (552) is there "to suppress the author's own WS echo" and drops every message
  about a half-day edited here in the last 2.5 seconds, another user's later change included.
- An undo writes its snapshot over what another user stored in the same half-days since (216).
- `oncallLoadedYear` "tracks which year's data is currently held in State.oncall" (456);
  reloads (138) and `oncall_changed` on another tab (175) put the visible weeks there instead, so
  that the on-call tab then shows the rest of the year as unassigned.
- Answers that come late paint the container whatever tab is open by then (846, 1330), and the
  year's is taken for the year selected by then.
- Changing who is on call deletes first (395): if the PUT fails, nobody is on call; if a fetch is
  answered in between, the appended person is listed twice until the next fetch (399).
- A request that fails has no handler: "Loading..." stays.
- `README.md:187` calls remote and off-site exclusive; the editor's toggles allow both, and
  everywhere remote is the one shown.
- The Clear tab keeps run duty when the toggle, which is on the project tab, is ticked or grey.
- When a range that had no mark grows in the date fields, the toggle is empty and not grey, and clears
  the marks of the half-days that were added (1751).
- A half-day that is only remote or off-site counts as "project" in the day summary (1000).
- The calendar file ends at the Monday of the last visible week (2083).

## The proofs

`HubProofs` proves, for any set of connections and any positive capacities:

- `TypeCorrect`: types, and no channel exceeds its capacity;
- `ProtocolHolds`: `ConnectionProtocol`;
- `NoSendOnClosed`: nobody sends on a closed channel.

`NeverSendOnClosed` is not inductive: that a client in the map has an open
channel depends on its being registered once and on its asking for removal only
after its last send.  `ConnectionProtocol` says so for every place a connection
can be in (the register queue, the map, the unregister queue, closed) and is
inductive together with the types; the hub may serve unregister before register,
so the protocol does not say that a closed or dead client is out of the map.
The only assumptions are the capacities' (`CapacityAssumption`).

`ServerProofs` proves, for any team, weeks, operations, number of
concurrent requests and number of crashes, and for a disk that fails or does not:

- `TypeCorrect`: types, and only the request in a transaction holds the connection;
- `NothingForStrangers`: `NoStrangers`;
- `ChangesOfOneStatementAreAnnounced`: `AtomicChangesAreAnnounced`;
- `FeedFollows`: `FeedFollowsAudit`;
- `Refinement`: `ImplementsSchedule`.

They rest on one inductive invariant, `IInv`, in three parts.  `TypeOK` ties the connection
to the handlers in a transaction: a handler outside one runs a statement only while
`conn` is nobody's, which is why people change only between transactions
(`FreeConnection`).  `HandlersFit` says that a handler works on an operation of its kind and
that the index of its loop is inside its list; without it nothing could be said of
what a statement writes.  `TablesSound` has the foreign keys for the tables and, while
a transaction is open, for the planning a rollback would restore.  Each action is
shown to move one handler (`Moves`) and to keep the tables sound, by lemmas about what
it writes (`WriteSound`, `LeaveSound`, `JoinSound`, `WipeSound`, `DutySound`).

The announcements add what each handler has changed and said at each of its steps
(`ChangesSound`, `FeedSound`).  The refinement adds that an open transaction has written
exactly a prefix of its range over what it saved (`TransactionSound`), so that its commit
is one `Save`, and that a copied entry is not an absence (`CopySound`); then each action
becomes one action of `Schedule` or a stutter, where deleting a person who is already
gone is a stutter only because nothing is known of strangers.  The assumptions are
`ScheduleAssumption` and `ServerAssumption`: what operations are made of, at least one
working half-day, and an initial planning of people in the team.  `IInv` and the two strengthenings were
checked with TLC as invariants of the `server` run's instance before they were proved.

`EditorProofs` proves, for any people, half-days, inputs and writes of others:

- `TypeCorrect`, `HalfDaysAreWellFormed`, `SelectionIsDragged`, `MarksStay` and `UnchangedForm`:
  `TypeOK`, `EntriesAreWellFormed`, `DragSelects`, `UntouchedFlagsStay`, `UnchangedFormIsHarmless`;
- `MergedCells` and `EveryViewAgrees`: `MergedCellsReadAlike` and `ViewsAgree`.

`TypeOK` and `EntriesAreWellFormed` are inductive together: whatever `Written` makes of the form is
well-formed when the form is of its type and was not refused, which takes `sumPct` apart no
further than the guard does.  `DragSelects` needs `DragStarted` (a drag begins in a
row of the grid as it was then), that a row is a person and a person one row, and that the first and the last of a rectangle are its corners.  The
action properties need what the form and the toggles still say of the half-days they were read
from: `OpenedSound` for an editor nobody has given input to, and `Unmoved` for a toggle that is
not grey, as long as nobody wrote in between.  The views are a property of well-formed
half-days alone, and the counts follow because the same half-days are counted.  The
assumption is `EditorAssumption`: people listed once, initial plannings and others' writes that
are well-formed, and no project called "Run", which the availability page could not tell from
run duty.

`CalendarProofs` proves that the days fetched are those of the weeks shown (`WindowIsShown`) and that a
jump shows the week it jumps to (`JumpShowsTheDay`), and gives the lemmas about
trimesters on which `PagesProofs` builds `Shares` (`SharesAddUp` for any set of weeks, people and
assignments): a Monday between 2024 and 2099 is in exactly the trimester its day is in, and the
assignments counted from one day to another split at any day between.  What the code takes from
`Date` is given by definitions there, for these years.

`PagesProofs` also proves, for any weeks, people, habits, limits and bounds on moves, changes and events:

- `TypeCorrect`, `FeedShown` and `OncallTabShown`: `TypeOK`, `FeedIsComplete` and
  `OncallTabIsComplete`.

The two tabs need what is under way, not only what is there when all is over.  On the activity tab
the last fetch has read the whole feed unless the message of an event is still to come, whose
fetch will then be the last (`FeedComes`).  `OncallSound` says the same of the last read of
on-call, if it is a year's (`YearIsLast`): it is of the selected year, since whatever changes
the year on that tab asks for the new one, and it has read what is stored unless a message
of a change is still to come, which makes the tab ask again.  A change of the user's own is
put into `State.oncall` before anything is read again, rightly or not, and that does no harm because its own
message, or the read it caused, is still under way by then (`OwnComesBack`).  `PaintsItsTab` ties the page
to its tab.  `late` and `spoiled` are hypotheses, as in the properties.  The parts were checked with
TLC as invariants of the `pages` run's instance before they were proved.

`AuthProofs` proves, for any users, groups, Apache workers, lifetimes and requests at a time:

- `TypeCorrect`, `ServesRecentRoles`, `SessionsEnd`, `OnlyMembersAreStored` and `MembersAreServed`:
  `TypeOK`, `RolesAreRecent`, `SessionsAreRecent`, `OnlyMembersAreKnown` and
  `KnownMembersAreServed`.

They speak of what the directory said at some earlier time, so the invariant says of every
place that keeps a role when that was: of a cache entry (`CacheSound`), of a session token
(`TokenSound`), of a row of the table (`UsersSound`) and of a request (`RequestSound`).  The hard part is
`FetchSound`: between the INSERT of `UpsertUser` and the SELECT after it another request may
update the row, so the role read back is not the one inserted.  It is recent all the
same, because the user had no row before, hence no session, and so every other request of this user
that is under way got its role from the directory lately.  `DirectorySound` says that the
history has what the directory says now.  That the loop of `mapGroupsToRole` finds the highest role, in whatever order the
provider lists the groups, is `MappedIsHighest`, an induction over a finite set of groups.  The
assumptions are `AuthAssumption`: lifetimes of at least one unit, somebody who can log in, and
finitely many groups for each person.

`MigrateProofs` proves, for any half-days, old databases and texts, and any number of stops,
writes and new events:

- `TypeCorrect`, `OnlyMigratedDataIsServed` and `PlanningSurvivesRestarts`: `TypeOK`,
  `ServesMigratedData` and `RestartKeepsPlanning`;
- `EveryStatementSucceeds`: no statement of a start fails (`NoStatementFails`), the safety
  half of the liveness property `StartSucceeds`;
- `ChoicesSurviveRestarts`: the action property `RestartKeepsChoices`;
- `MetaAgrees` and `BackfilledMetasAgree`: for every event, and in every state, `BackfillAgrees`.

The invariant says that a start that is at statement n finds done what the statements
before it do, whatever stopped starts and older releases left (`Progress`), that the rows the backfill
has yet to update are those that lack a meta (`BackfillSound`), that only old events lack one, and that a row
which this release wrote is as migration 008 would leave it (`RowsAreMarked`), which is why the
UPDATE may run at every start.  That each statement of the list speaks of what earlier ones add
(`StatementsType`) goes through the eleven migrations one by one.  That no meta is the blank one (`ParsedIsNotBlank`,
`RecordedIsNotBlank`) needs a look at every branch of the parser; a row with a blank meta would be
updated at every start.

For `BackfillAgrees` the state matters little: a meta is blank, what was recorded, or what the texts of
its own row say (`OwnMetas`), although the update is made from a list read before it.  The work is in
`MetaAgrees`, for texts of any tokens and any length.  `SplitN` goes through a text token
by token and `Joined` through a list of texts.  The library's induction cannot be used, so
both are shown to find the end of a function of steps that exists (`RecursionExists`), and facts about
such functions are shown for the least place where they would fail (`UpTo`).  A token more makes the last part longer
or begins one (`SplitAppend`), a text without separators makes the last part longer
(`SplitMore`), hence splitting undoes joining (`SplitOfJoined`).  What remains is a case for each kind of event;
for a half-day with projects, that the joined names do not look like another kind
(`ProjectText`).  The assumptions are `TokenAssumption`, that the words the texts are written with are tokens
and not numbers, and `MigrateAssumption`, that the events are events.

`SpaProofs` proves, for any browsers, half-days, windows, depth of the stacks, and number of tasks,
failures and losses:

- `TypeCorrect`: `TypeOK`, with the bound of the two stacks together;
- `UndoingEnds`: `UndoingIsReset`;
- `WatchersFollow`: `WatchersAreCurrent`;
- `UndoingReverts` and `EditorsSeeTheirEdits`, for patient users: `UndoRevertsUndisturbed` and
  `OwnEditsAreShown`.

The invariant has four parts, each inductive with the ones before it.

- `Typed`: the types, and the lengths of the stacks.
- `Owned`: tasks are numbered, a write belongs to a task that is there, and so does
  `State.undoing`.
- `Watched`: in a half-day on which no two handlers raced there is at most one write that is
  stored and not told yet, and the database holds it (`OneUntold`, `UntoldIsStored`); when there is
  none, the last message to a browser about the half-day, or its view if there is none, has what
  the database holds (`NewsArrive`).  A browser that never edits has nothing under way and ignores
  no message (`WatchersDoNothing`).
- `Calm`, of patient users while no window moves and no request fails: a browser
  has one task, and what is under way belongs to its phase (`Waiting`); in the half-days that one
  user alone writes, writes, echoes and the database hold what that user asked for (`Agreed`), what is
  read and shown after the reload is what the database holds (`Shown`), and the two stacks
  hold what the ideal editor's do (`Mirrored`).

`Calm` is needed as a whole: an undo writes only the half-days whose snapshot differs from what is
shown, so that the database is right after it depends on the view being right before it,
and that on the messages and reloads under way.  `Patient` is a hypothesis of the last two theorems
because without it they are false, as TLC shows.  The other assumptions are `SpaAssumption`:
finitely many browsers, a window to start from, a positive depth.  The four parts
were checked with TLC with one and two browsers before they were proved.

Only model-checked is liveness (`EveryRequestIsAnswered`, `StartSucceeds`, `LoadingEnds` and those
of `Hub`), which is out of the provers' reach.

## Not modelled, and the plan

Not modelled: the pages of people, projects, settings, administration, users, incidents, archived
people and My Week, which paint a list and send single requests; the Gantt chart; preferences,
markup and styles; projects, settings and holidays on the server, which are single statements
on tables of their own; the export, which reads table by table, and the file format; the
calendar feed (a rendering of rows); configuration, which is read once; the legacy single-file
application; TLS and certificates, process start and deployment scripts.

What would come next:

1. the export against concurrent writes and the replacing import after a crash;
2. `Pages` with failing requests, and with its tabs for run coverage and My Week.
