-------------------------------- MODULE Spa --------------------------------
(***************************************************************************)
(* Browsers that edit one schedule (web/assets/app.js against the server): *)
(* each shows a copy of the half-days in its window, patched by messages   *)
(* and replaced by reloads, and keeps undo and redo stacks of snapshots of *)
(* that copy.  Requests, their answers and messages all overtake one       *)
(* another, except that messages reach a browser in the order in which the *)
(* hub took them.                                                          *)
(*                                                                         *)
(* An edit, an undo and a redo are tasks: an async function that sends one *)
(* write per half-day, awaits them all, awaits a reload, and ends.         *)
(***************************************************************************)
EXTENDS Naturals, Sequences, FiniteSets, Functions

CONSTANTS
  Browser, Slot,
  Kind, NoEntry,    \* what a half-day holds, or nothing
  Window,           \* the sets of half-days a browser can show
  Home,             \* the one it starts with
  UndoDepth,        \* levels of undo (20)
  Patient,          \* whether users wait for a task to end, and for its echoes,
                    \* before they start the next one
  MaxTasks, MaxScrolls, MaxFailures, MaxLosses   \* bounds

ASSUME SpaAssumption ==
  /\ NoEntry \notin Kind
  /\ Home \in Window /\ \A w \in Window : w \subseteq Slot
  /\ UndoDepth \in Nat \ {0}
  /\ Patient \in BOOLEAN
  /\ {MaxTasks, MaxScrolls, MaxFailures, MaxLosses} \subseteq Nat
  /\ IsFiniteSet(Browser)

Entry == Kind \cup {NoEntry}
Planning == [Slot -> Entry]

\* Snapshots of some half-days.
Snapshot == UNION {[S -> Entry] : S \in SUBSET Slot}
At(plan, S) == [k \in S |-> plan[k]]
Over(plan, snap) == [k \in Slot |-> IF k \in DOMAIN snap THEN snap[k] ELSE plan[k]]

VARIABLES
  db,         \* the planning table
  authors,    \* history: who ever stored each half-day
  raced,      \* history: the half-days stored again before a browser was told
  requests,   \* the writes under way
  reloads,    \* the reads of the planning under way
  inbox,      \* messages on their way to each browser
  connected,  \* the browsers with a WebSocket
  view,       \* State.planning
  window,     \* the half-days in the visible weeks
  undoStack, redoStack,
  undoing,    \* State.undoing
  recent,     \* recentSelfFlash: the half-days whose messages are ignored
  tasks,      \* the async functions under way
  asked,      \* history: what each user asked for so far (see Asked below)
  count       \* how often the bounded things happened

browser == <<view, window, undoStack, redoStack, undoing, recent, tasks, asked>>
server  == <<db, authors, raced>>
network == <<requests, reloads, inbox, connected>>
vars    == <<db, authors, raced, requests, reloads, inbox, connected, view, window, undoStack,
             redoStack, undoing, recent, tasks, asked, count>>

Task     == [id : 1..MaxTasks, by : Browser, type : {"edit", "undo", "redo"},
             snap : Snapshot, phase : {"writing", "reloading", "ending"}]
Request  == [task : 1..MaxTasks, by : Browser, slot : Slot, entry : Entry,
             stage : {"sent", "stored", "told"}]
\* The reload of a task, or (task = 0) one of its own.
Reload   == [task : 0..MaxTasks, by : Browser, window : Window,
             read : {<<>>} \cup {<<p>> : p \in Planning}]
Message  == [by : Browser, slot : Slot, entry : Entry]
Asked    == [doc : Planning, past : Seq(Snapshot), future : Seq(Snapshot)]

\* The types.  A redo pushes its snapshot without making room (app.js:234): the
\* stacks together stay within the depth because an undo or a redo only moves one.
TypeOK ==
  /\ db \in Planning /\ authors \in [Slot -> SUBSET Browser] /\ raced \subseteq Slot
  /\ requests \subseteq Request /\ reloads \subseteq Reload
  /\ inbox \in [Browser -> Seq(Message)] /\ connected \subseteq Browser
  /\ view \in [Browser -> Planning] /\ window \in [Browser -> Window]
  /\ undoStack \in [Browser -> Seq(Snapshot)] /\ redoStack \in [Browser -> Seq(Snapshot)]
  /\ \A b \in Browser : Len(undoStack[b]) + Len(redoStack[b]) <= UndoDepth
  /\ undoing \in [Browser -> BOOLEAN] /\ recent \in [Browser -> SUBSET Slot]
  /\ tasks \subseteq Task
  /\ asked \in [Browser -> Asked]
  /\ count \in [tasks : 0..MaxTasks, scrolls : 0..MaxScrolls, failures : 0..MaxFailures,
                losses : 0..MaxLosses]

Empty == [k \in Slot |-> NoEntry]

Init ==
  /\ db = Empty /\ authors = [k \in Slot |-> {}] /\ raced = {}
  /\ requests = {} /\ reloads = {} /\ tasks = {}
  /\ inbox = [b \in Browser |-> <<>>] /\ connected = Browser
  /\ view = [b \in Browser |-> Empty] /\ window = [b \in Browser |-> Home]
  /\ undoStack = [b \in Browser |-> <<>>] /\ redoStack = [b \in Browser |-> <<>>]
  /\ undoing = [b \in Browser |-> FALSE] /\ recent = [b \in Browser |-> {}]
  /\ asked = [b \in Browser |-> [doc |-> Empty, past |-> <<>>, future |-> <<>>]]
  /\ count = [tasks |-> 0, scrolls |-> 0, failures |-> 0, losses |-> 0]

-----------------------------------------------------------------------------
(* Starting a task.                                                         *)

TasksOf(b) == {t \in tasks : t.by = b}
\* What browser b wrote and was not told of yet.
EchoesOf(b) == {q \in requests : q.by = b} \cup {m \in Range(inbox[b]) : m.by = b}
CanStart(b) ==
  /\ count.tasks < MaxTasks
  /\ Patient => TasksOf(b) = {} /\ EchoesOf(b) = {}

Front(stack) == SubSeq(stack, 1, Len(stack) - 1)
Last(stack)  == stack[Len(stack)]

\* A mutant of PushBounded: the oldest snapshot is kept.
PushUnbounded(stack, snap) == Append(stack, snap)

\* The oldest snapshot makes room (shift).
PushBounded(stack, snap) ==
  IF Len(stack) = UndoDepth THEN Append(Tail(stack), snap) ELSE Append(stack, snap)

\* The task of b writes the half-days of S, from the planning `to`.
Start(b, type, snap, S, to) ==
  LET id == count.tasks + 1 IN
  /\ count' = [count EXCEPT !.tasks = id]
  /\ tasks' = tasks \cup
       {[id |-> id, by |-> b, type |-> type, snap |-> snap, phase |-> "writing"]}
  /\ requests' = requests \cup
       {[task |-> id, by |-> b, slot |-> k, entry |-> to[k], stage |-> "sent"] : k \in S}
  /\ undoing' = [undoing EXCEPT ![b] = @ \/ type # "edit"]

\* applyUnifiedEditor: pushUndo takes a snapshot of what the browser shows.
Edit(b) == \E S \in (SUBSET window[b]) \ {{}}, e \in Entry :
  /\ CanStart(b)
  /\ undoStack' = [undoStack EXCEPT ![b] = PushBounded(@, At(view[b], S))]
  /\ redoStack' = [redoStack EXCEPT ![b] = <<>>]
  /\ Start(b, "edit", At(view[b], S), S, [k \in S |-> e])
  /\ asked' = [asked EXCEPT ![b] =
       [doc |-> Over(@.doc, [k \in S |-> e]),
        past |-> PushBounded(@.past, At(@.doc, S)), future |-> <<>>]]
  /\ UNCHANGED <<server, reloads, inbox, connected, view, window, recent>>

\* A mutant of Differs: an undo only writes what it fills, and clears nothing.
DiffersFilled(b, snap) == {k \in DOMAIN snap : snap[k] # view[b][k] /\ snap[k] # NoEntry}

\* Only the half-days that the browser shows otherwise are written.
Differs(b, snap) == {k \in DOMAIN snap : snap[k] # view[b][k]}

\* What undo and redo share: restore a snapshot, or do nothing at all when the
\* browser already shows it.
Restore(b, type, snap) ==
  IF Differs(b, snap) # {}
  THEN Start(b, type, snap, Differs(b, snap), snap)
  ELSE /\ count' = [count EXCEPT !.tasks = @ + 1]
       /\ undoing' = [undoing EXCEPT ![b] = FALSE]
       /\ UNCHANGED <<tasks, requests>>

Undo(b) ==
  /\ CanStart(b) /\ undoStack[b] # <<>>
  /\ LET snap == Last(undoStack[b]) IN
     /\ undoStack' = [undoStack EXCEPT ![b] = Front(@)]
     /\ redoStack' = [redoStack EXCEPT ![b] = Append(@, At(view[b], DOMAIN snap))]
     /\ Restore(b, "undo", snap)
  /\ LET a == asked[b] IN
     asked' = [asked EXCEPT ![b] =
       [doc |-> Over(a.doc, Last(a.past)), past |-> Front(a.past),
        future |-> Append(a.future, At(a.doc, DOMAIN Last(a.past)))]]
  /\ UNCHANGED <<server, reloads, inbox, connected, view, window, recent>>

Redo(b) ==
  /\ CanStart(b) /\ redoStack[b] # <<>>
  /\ LET snap == Last(redoStack[b]) IN
     /\ redoStack' = [redoStack EXCEPT ![b] = Front(@)]
     /\ undoStack' = [undoStack EXCEPT ![b] = Append(@, At(view[b], DOMAIN snap))]
     /\ Restore(b, "redo", snap)
  /\ LET a == asked[b] IN
     asked' = [asked EXCEPT ![b] =
       [doc |-> Over(a.doc, Last(a.future)), future |-> Front(a.future),
        past |-> Append(a.past, At(a.doc, DOMAIN Last(a.future)))]]
  /\ UNCHANGED <<server, reloads, inbox, connected, view, window, recent>>

-----------------------------------------------------------------------------
(* A write on the server: stored, told to the connected browsers, answered. *)

Advance(q, stage) == requests' = (requests \ {q}) \cup {[q EXCEPT !.stage = stage]}

Store(q) ==
  /\ q.stage = "sent"
  /\ db' = [db EXCEPT ![q.slot] = q.entry]
  /\ authors' = [authors EXCEPT ![q.slot] = @ \cup {q.by}]
  /\ raced' = raced \cup
       {k \in {q.slot} : \E o \in requests : o.slot = k /\ o.stage = "stored"}
  /\ Advance(q, "stored")
  /\ UNCHANGED <<reloads, inbox, connected, browser, count>>

\* The hub skips clients whose buffer is full.
Tell(q) == \E skipped \in SUBSET connected :
  /\ q.stage = "stored"
  /\ count.losses + Cardinality(skipped) <= MaxLosses
  /\ count' = [count EXCEPT !.losses = @ + Cardinality(skipped)]
  /\ inbox' = [b \in Browser |->
       IF b \in connected \ skipped
       THEN Append(inbox[b], [by |-> q.by, slot |-> q.slot, entry |-> q.entry])
       ELSE inbox[b]]
  /\ Advance(q, "told")
  /\ UNCHANGED <<server, reloads, connected, browser>>

Answer(q) ==
  /\ q.stage = "told"
  /\ requests' = requests \ {q}
  /\ UNCHANGED <<server, reloads, inbox, connected, browser, count>>

\* A mutant of AfterThrow: without its finally, undo leaves State.undoing set.
AfterThrowStuck(flag) == flag
AfterThrow(flag) == FALSE

Fail(q) ==
  /\ count.failures < MaxFailures
  /\ count' = [count EXCEPT !.failures = @ + 1]
  /\ requests' = requests \ {q}

\* The server fails to store it and answers 500, which API.call does not tell
\* from a success.
FailQuietly(q) ==
  /\ q.stage = "sent"
  /\ Fail(q)
  /\ UNCHANGED <<server, reloads, inbox, connected, browser>>

\* The request is refused (401, 403), or it or its answer is lost: API.call
\* throws, and the task ends.  Its other writes go on.
FailLoudly(q) ==
  /\ q.stage \in {"sent", "told"}
  /\ Fail(q)
  /\ tasks' = {t \in tasks : t.id # q.task}
  /\ undoing' = IF \E t \in tasks : t.id = q.task /\ t.type # "edit"
                THEN [undoing EXCEPT ![q.by] = AfterThrow(@)] ELSE undoing
  /\ UNCHANGED <<server, reloads, inbox, connected, view, window, undoStack, redoStack,
                 recent, asked>>

-----------------------------------------------------------------------------
(* The rest of a task.                                                      *)

Phase(t, phase) == tasks' = (tasks \ {t}) \cup {[t EXCEPT !.phase = phase]}

\* A mutant of Written: nothing is awaited before the reload.
WrittenUnawaited(t) == TRUE
Written(t) == \A q \in requests : q.task # t.id

\* All writes are answered: reloadPlanning.
AskReload(t) ==
  /\ t.phase = "writing" /\ Written(t)
  /\ reloads' = reloads \cup
       {[task |-> t.id, by |-> t.by, window |-> window[t.by], read |-> <<>>]}
  /\ Phase(t, "reloading")
  /\ UNCHANGED <<server, requests, inbox, connected, view, window, undoStack, redoStack,
                 undoing, recent, asked, count>>

\* The user moves the window, or a message about a range makes the browser
\* reload the one it shows.
Scroll(b) == \E w \in Window :
  /\ count.scrolls < MaxScrolls
  /\ count' = [count EXCEPT !.scrolls = @ + 1]
  /\ window' = [window EXCEPT ![b] = w]
  /\ reloads' = reloads \cup {[task |-> 0, by |-> b, window |-> w, read |-> <<>>]}
  /\ UNCHANGED <<server, requests, inbox, connected, view, undoStack, redoStack, undoing,
                 recent, tasks, asked>>

ServeReload(l) ==
  /\ l.read = <<>>
  /\ reloads' = (reloads \ {l}) \cup {[l EXCEPT !.read = <<db>>]}
  /\ UNCHANGED <<server, requests, inbox, connected, browser, count>>

\* State.planning is replaced.  The function goes on when the on-call and
\* rotation lists have come, too: a step later.
ReceiveReload(l) ==
  /\ l.read # <<>>
  /\ view' = [view EXCEPT ![l.by] =
       [k \in Slot |-> IF k \in l.window THEN l.read[1][k] ELSE NoEntry]]
  /\ reloads' = reloads \ {l}
  /\ tasks' = {IF t.id = l.task THEN [t EXCEPT !.phase = "ending"] ELSE t : t \in tasks}
  /\ UNCHANGED <<server, requests, inbox, connected, window, undoStack, redoStack,
                 undoing, recent, asked, count>>

\* An undo or redo marks the half-days that hold something now or held it.
Flashed(t) ==
  IF t.type = "edit" THEN DOMAIN t.snap
  ELSE {k \in DOMAIN t.snap : t.snap[k] # NoEntry \/ view[t.by][k] # NoEntry}

End(t) ==
  /\ t.phase = "ending"
  /\ tasks' = tasks \ {t}
  /\ undoing' = [undoing EXCEPT ![t.by] = IF t.type = "edit" THEN @ ELSE FALSE]
  /\ recent' = [recent EXCEPT ![t.by] = @ \cup Flashed(t)]
  /\ UNCHANGED <<server, network, view, window, undoStack, redoStack, asked, count>>

-----------------------------------------------------------------------------
(* Messages.                                                                *)

\* A mutant of Ignored: a cleared half-day is not taken over (planning_cleared).
IgnoredCleared(b, m) == undoing[b] \/ m.slot \in recent[b] \/ m.entry = NoEntry

\* Dropped during an undo, and shortly after an own edit of that half-day.
Ignored(b, m) == undoing[b] \/ m.slot \in recent[b]

ReceiveMessage(b) ==
  /\ inbox[b] # <<>>
  /\ inbox' = [inbox EXCEPT ![b] = Tail(@)]
  /\ LET m == Head(inbox[b]) IN
     view' = IF Ignored(b, m) THEN view ELSE [view EXCEPT ![b][m.slot] = m.entry]
  /\ UNCHANGED <<server, requests, reloads, connected, window, undoStack, redoStack,
                 undoing, recent, tasks, asked, count>>

\* The suppression of a half-day runs out.  Its 2.5 seconds are taken to be
\* long enough for the echo of the browser's own writes to arrive.
Expire(b) == \E k \in recent[b] :
  /\ \A e \in EchoesOf(b) : e.slot # k
  /\ recent' = [recent EXCEPT ![b] = @ \ {k}]
  /\ UNCHANGED <<server, network, view, window, undoStack, redoStack, undoing, tasks,
                 asked, count>>

\* What is on its way is lost; the browser connects again and reloads nothing.
Disconnect(b) ==
  /\ b \in connected /\ count.losses < MaxLosses
  /\ count' = [count EXCEPT !.losses = @ + 1]
  /\ connected' = connected \ {b}
  /\ inbox' = [inbox EXCEPT ![b] = <<>>]
  /\ UNCHANGED <<server, requests, reloads, browser>>

Reconnect(b) ==
  /\ b \notin connected
  /\ connected' = connected \cup {b}
  /\ UNCHANGED <<server, requests, reloads, inbox, browser, count>>

-----------------------------------------------------------------------------
UserStep(b) == Edit(b) \/ Undo(b) \/ Redo(b) \/ Scroll(b)
ServerStep ==
  \/ \E q \in requests : Store(q) \/ Tell(q) \/ Answer(q)
  \/ \E l \in reloads : ServeReload(l)
BrowserStep(b) ==
  \/ \E t \in TasksOf(b) : AskReload(t) \/ End(t)
  \/ \E l \in reloads : l.by = b /\ ReceiveReload(l)
  \/ ReceiveMessage(b)

Next ==
  \/ ServerStep
  \/ \E q \in requests : FailQuietly(q) \/ FailLoudly(q)
  \/ \E b \in Browser :
       UserStep(b) \/ BrowserStep(b) \/ Expire(b) \/ Disconnect(b) \/ Reconnect(b)

Spec == Init /\ [][Next]_vars

-----------------------------------------------------------------------------
(* What the browsers promise.                                               *)

Idle(b) == TasksOf(b) = {}
OnlyAuthor(b, k) == authors[k] \subseteq {b}
Watcher(b) == undoStack[b] = <<>> /\ redoStack[b] = <<>>
Quiet(b) == requests = {} /\ reloads = {} /\ inbox[b] = <<>>
Undisturbed == count.scrolls = 0 /\ count.failures = 0

\* README.md: undo and redo are "reverting to the server (not just visual)".  When
\* a user's tasks are over, the database holds what the user's edits, undos and
\* redos amount to, in every half-day that only this user writes.
UndoReverts ==
  \A b \in Browser, k \in Slot :
    Idle(b) /\ OnlyAuthor(b, k) => db[k] = asked[b].doc[k]

\* It holds while the user does not move the window and no request fails, although
\* messages are lost, late, or about other half-days of the same edit.
UndoRevertsUndisturbed == Undisturbed => UndoReverts

\* Whoever edits sees what the database holds once all is quiet, in the half-days
\* that nobody else writes, although the browser ignores its own echoes.
OwnEditsAreShown ==
  Undisturbed =>
    \A b \in Browser : \A k \in window[b] :
      Idle(b) /\ Quiet(b) /\ OnlyAuthor(b, k) => view[b][k] = db[k]

\* Whoever only watches sees what the database holds once all is quiet, if no
\* message was lost, and unless two handlers raced on the half-day.
WatchersAreCurrent ==
  count.losses = 0 /\ count.scrolls = 0 =>
    \A b \in Browser, k \in Slot \ raced :
      Watcher(b) /\ Quiet(b) => view[b][k] = db[k]

\* State.undoing, which makes a browser deaf to changes, is set only while an
\* undo or a redo is under way, also when it throws.
UndoingIsReset ==
  \A b \in Browser : undoing[b] => \E t \in TasksOf(b) : t.type # "edit"
=============================================================================
