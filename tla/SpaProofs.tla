----------------------------- MODULE SpaProofs -----------------------------
(***************************************************************************)
(* What holds of every instance of Spa: any number of browsers, half-days, *)
(* kinds and levels of undo.                                               *)
(*                                                                         *)
(* The invariant has four parts.  Typed: the types, and the stacks are as  *)
(* high as those of what users ask for.  Owned: what is under way belongs  *)
(* to the browser of its task.  Watched: where no two handlers raced, the  *)
(* last message about a half-day says what the database holds.  Calm, of   *)
(* users who wait: one task at a time, whose writes are over before its    *)
(* reload is read, so that what is shown, stored and asked for agree in    *)
(* the half-days of one author.                                            *)
(***************************************************************************)
EXTENDS Spa, FiniteSetTheorems, TLAPS

\* The bounds are numbers, for the provers of arithmetic.
LEMMA Bounds ==
  /\ UndoDepth \in Nat \ {0}
  /\ MaxTasks \in Nat /\ MaxScrolls \in Nat /\ MaxFailures \in Nat /\ MaxLosses \in Nat
BY SpaAssumption DEF SpaAssumption

-----------------------------------------------------------------------------
(* Snapshots and stacks of them.                                            *)

\* Parts of plannings are snapshots, and a snapshot over a planning is a planning.
LEMMA Snapshots ==
  /\ \A plan \in Planning, S \in SUBSET Slot : At(plan, S) \in Snapshot /\ DOMAIN At(plan, S) = S
  /\ \A S \in SUBSET Slot, e \in Entry :
       [k \in S |-> e] \in Snapshot /\ DOMAIN [k \in S |-> e] = S
  /\ \A snap \in Snapshot : DOMAIN snap \subseteq Slot /\ \A k \in DOMAIN snap : snap[k] \in Entry
  /\ \A plan \in Planning, snap \in Snapshot :
       /\ Over(plan, snap) \in Planning
       /\ \A k \in Slot : Over(plan, snap)[k] = IF k \in DOMAIN snap THEN snap[k] ELSE plan[k]
<1>1. ASSUME NEW S \in SUBSET Slot, NEW f \in [S -> Entry]
      PROVE  f \in Snapshot
  BY <1>1 DEF Snapshot
<1>2. ASSUME NEW plan \in Planning, NEW S \in SUBSET Slot
      PROVE  At(plan, S) \in Snapshot /\ DOMAIN At(plan, S) = S
  <2>1. At(plan, S) \in [S -> Entry]
    BY DEF At, Planning
  <2>2. QED
    BY <1>1, <2>1
<1>3. ASSUME NEW S \in SUBSET Slot, NEW e \in Entry
      PROVE  [k \in S |-> e] \in Snapshot /\ DOMAIN [k \in S |-> e] = S
  <2>1. [k \in S |-> e] \in [S -> Entry]
    OBVIOUS
  <2>2. QED
    BY <1>1, <2>1
<1>4. ASSUME NEW snap \in Snapshot
      PROVE  DOMAIN snap \subseteq Slot /\ \A k \in DOMAIN snap : snap[k] \in Entry
  <2>1. PICK S \in SUBSET Slot : snap \in [S -> Entry]
    BY DEF Snapshot
  <2>2. QED
    BY <2>1
<1>5. ASSUME NEW plan \in Planning, NEW snap \in Snapshot
      PROVE  /\ Over(plan, snap) \in Planning
             /\ \A k \in Slot :
                  Over(plan, snap)[k] = IF k \in DOMAIN snap THEN snap[k] ELSE plan[k]
  BY <1>4 DEF Over, Planning
<1>6. QED
  BY <1>2, <1>3, <1>4, <1>5

\* A stack without its last snapshot.
LEMMA Popped ==
  ASSUME NEW stack \in Seq(Snapshot), stack # <<>>
  PROVE  /\ Len(stack) \in Nat \ {0} /\ Last(stack) = stack[Len(stack)] /\ Last(stack) \in Snapshot
         /\ Front(stack) \in Seq(Snapshot) /\ Len(Front(stack)) = Len(stack) - 1
         /\ \A i \in 1..(Len(stack) - 1) : Front(stack)[i] = stack[i]
<1>1. Len(stack) \in Nat \ {0}
  OBVIOUS
<1>2. Len(stack) \in 1..Len(stack) /\ Len(stack) - 1 \in Nat
  BY <1>1
<1>3. Front(stack) \in Seq(Snapshot) /\ Len(Front(stack)) = Len(stack) - 1
  BY <1>1, <1>2 DEF Front
<1>4. \A i \in 1..(Len(stack) - 1) : Front(stack)[i] = stack[i]
  BY <1>1, <1>2 DEF Front
<1>5. Last(stack) = stack[Len(stack)] /\ Last(stack) \in Snapshot
  BY <1>2 DEF Last
<1>6. QED
  BY <1>1, <1>3, <1>4, <1>5

\* A stack with one snapshot more, and with room made for it.
LEMMA Pushed ==
  ASSUME NEW stack \in Seq(Snapshot), NEW snap \in Snapshot
  PROVE  /\ Append(stack, snap) \in Seq(Snapshot) /\ Len(Append(stack, snap)) = Len(stack) + 1
         /\ \A i \in 1..Len(stack) : Append(stack, snap)[i] = stack[i]
         /\ Append(stack, snap)[Len(stack) + 1] = snap
OBVIOUS

\* A push that makes room: the stack grows, or loses its oldest snapshot.
LEMMA PushedBounded ==
  ASSUME NEW stack \in Seq(Snapshot), NEW snap \in Snapshot, Len(stack) <= UndoDepth
  PROVE  /\ PushBounded(stack, snap) \in Seq(Snapshot)
         /\ Len(PushBounded(stack, snap)) =
              IF Len(stack) = UndoDepth THEN UndoDepth ELSE Len(stack) + 1
         /\ Len(PushBounded(stack, snap)) \in 1..UndoDepth
         /\ PushBounded(stack, snap)[Len(PushBounded(stack, snap))] = snap
         /\ \A i \in 1..(Len(PushBounded(stack, snap)) - 1) :
              PushBounded(stack, snap)[i] =
                IF Len(stack) = UndoDepth THEN stack[i + 1] ELSE stack[i]
<1> USE Bounds
<1>1. CASE Len(stack) = UndoDepth
  <2>1. stack # <<>>
    BY <1>1
  <2>2. /\ Tail(stack) \in Seq(Snapshot) /\ Len(Tail(stack)) = Len(stack) - 1
        /\ \A i \in 1..(Len(stack) - 1) : Tail(stack)[i] = stack[i + 1]
    BY <2>1
  <2>3. PICK rest \in Seq(Snapshot) : rest = Tail(stack)
    BY <2>2
  <2>4. /\ Append(rest, snap) \in Seq(Snapshot) /\ Len(Append(rest, snap)) = Len(rest) + 1
        /\ \A i \in 1..Len(rest) : Append(rest, snap)[i] = rest[i]
        /\ Append(rest, snap)[Len(rest) + 1] = snap
    BY Pushed
  <2>5. PushBounded(stack, snap) = Append(rest, snap)
    BY <1>1, <2>3 DEF PushBounded
  <2>6. Len(rest) = UndoDepth - 1
    BY <1>1, <2>2, <2>3
  <2>7. QED
    BY <1>1, <2>2, <2>3, <2>4, <2>5, <2>6
<1>2. CASE Len(stack) # UndoDepth
  <2>1. PushBounded(stack, snap) = Append(stack, snap) /\ Len(stack) < UndoDepth
    BY <1>2 DEF PushBounded
  <2>2. QED
    BY <1>2, <2>1, Pushed
<1>3. QED
  BY <1>1, <1>2

-----------------------------------------------------------------------------
(* The types.                                                               *)

\* What a user asked for has as many levels as what the browser keeps.
Lengths ==
  \A b \in Browser :
    Len(asked[b].past) = Len(undoStack[b]) /\ Len(asked[b].future) = Len(redoStack[b])

Typed == TypeOK /\ Lengths

Counts == [tasks : 0..MaxTasks, scrolls : 0..MaxScrolls, failures : 0..MaxFailures,
           losses : 0..MaxLosses]

\* The counters stay in their bounds.
LEMMA Counted ==
  ASSUME count \in Counts
  PROVE  /\ count.tasks < MaxTasks =>
              /\ count.tasks + 1 \in 1..MaxTasks
              /\ [count EXCEPT !.tasks = count.tasks + 1] \in Counts
         /\ count.scrolls < MaxScrolls => [count EXCEPT !.scrolls = @ + 1] \in Counts
         /\ count.failures < MaxFailures => [count EXCEPT !.failures = @ + 1] \in Counts
         /\ \A n \in Nat : count.losses + n <= MaxLosses =>
              [count EXCEPT !.losses = @ + n] \in Counts
<1> USE Bounds
<1>1. ASSUME NEW n \in 0..MaxTasks PROVE [count EXCEPT !.tasks = n] \in Counts
  BY DEF Counts
<1>2. ASSUME NEW n \in 0..MaxScrolls PROVE [count EXCEPT !.scrolls = n] \in Counts
  BY DEF Counts
<1>3. ASSUME NEW n \in 0..MaxFailures PROVE [count EXCEPT !.failures = n] \in Counts
  BY DEF Counts
<1>4. ASSUME NEW n \in 0..MaxLosses PROVE [count EXCEPT !.losses = n] \in Counts
  BY DEF Counts
<1>5. /\ count.tasks \in 0..MaxTasks /\ count.scrolls \in 0..MaxScrolls
      /\ count.failures \in 0..MaxFailures /\ count.losses \in 0..MaxLosses
  BY DEF Counts
<1>6. /\ count.tasks < MaxTasks =>
           count.tasks + 1 \in 1..MaxTasks /\ count.tasks + 1 \in 0..MaxTasks
      /\ count.scrolls < MaxScrolls => count.scrolls + 1 \in 0..MaxScrolls
      /\ count.failures < MaxFailures => count.failures + 1 \in 0..MaxFailures
      /\ \A n \in Nat : count.losses + n <= MaxLosses => count.losses + n \in 0..MaxLosses
  BY <1>5
<1>7. QED
  BY <1>1, <1>2, <1>3, <1>4, <1>6

\* What a new task adds.
NewTask(b, type, snap) ==
  [id |-> count.tasks + 1, by |-> b, type |-> type, snap |-> snap, phase |-> "writing"]
NewWrites(b, S, to) ==
  {[task |-> count.tasks + 1, by |-> b, slot |-> k, entry |-> to[k], stage |-> "sent"] : k \in S}

\* What starting a task changes.
Starts(b, type, snap, S, to) ==
  /\ tasks' = tasks \cup {NewTask(b, type, snap)} /\ NewTask(b, type, snap) \in Task
  /\ requests' = requests \cup NewWrites(b, S, to) /\ NewWrites(b, S, to) \subseteq Request
  /\ undoing' = [undoing EXCEPT ![b] = @ \/ type # "edit"]
  /\ undoing' \in [Browser -> BOOLEAN]
  /\ count' = [count EXCEPT !.tasks = count.tasks + 1] /\ count' \in Counts

\* A task that starts, with its writes.
LEMMA Started ==
  ASSUME Typed, NEW b \in Browser, NEW type \in {"edit", "undo", "redo"}, NEW snap \in Snapshot,
         NEW S \in SUBSET Slot, NEW to, \A k \in S : to[k] \in Entry,
         count.tasks < MaxTasks, Start(b, type, snap, S, to)
  PROVE  Starts(b, type, snap, S, to)
<1>1. count \in Counts
  BY DEF Typed, TypeOK, Counts
<1>2. count.tasks + 1 \in 1..MaxTasks /\ [count EXCEPT !.tasks = count.tasks + 1] \in Counts
  BY <1>1, Counted
<1>3. NewTask(b, type, snap) \in Task
  BY <1>2 DEF NewTask, Task
<1>4. NewWrites(b, S, to) \subseteq Request
  <2>1. ASSUME NEW k \in S
        PROVE  [task |-> count.tasks + 1, by |-> b, slot |-> k, entry |-> to[k], stage |-> "sent"]
                 \in Request
    BY <1>2 DEF Request
  <2>2. QED
    BY <2>1 DEF NewWrites
<1>5. undoing \in [Browser -> BOOLEAN]
  BY DEF Typed, TypeOK
<1>6. QED
  BY <1>2, <1>3, <1>4, <1>5 DEF Starts, Start, NewTask, NewWrites

\* What the stacks of a browser are, and what its user asked for.
LEMMA Kept ==
  ASSUME Typed, NEW b \in Browser
  PROVE  /\ view[b] \in Planning /\ window[b] \in Window /\ window[b] \subseteq Slot
         /\ undoStack[b] \in Seq(Snapshot) /\ redoStack[b] \in Seq(Snapshot)
         /\ Len(undoStack[b]) \in Nat /\ Len(redoStack[b]) \in Nat
         /\ Len(undoStack[b]) + Len(redoStack[b]) <= UndoDepth
         /\ Len(undoStack[b]) <= UndoDepth /\ Len(redoStack[b]) <= UndoDepth
         /\ asked[b] \in Asked
         /\ asked[b].doc \in Planning
         /\ asked[b].past \in Seq(Snapshot) /\ asked[b].future \in Seq(Snapshot)
         /\ Len(asked[b].past) = Len(undoStack[b]) /\ Len(asked[b].future) = Len(redoStack[b])
<1>1. asked[b] \in Asked
  BY DEF Typed, TypeOK
<1>2. /\ asked[b].doc \in Planning
      /\ asked[b].past \in Seq(Snapshot) /\ asked[b].future \in Seq(Snapshot)
  BY <1>1 DEF Asked
<1>3. view[b] \in Planning /\ window[b] \in Window /\ window[b] \subseteq Slot
  BY SpaAssumption DEF Typed, TypeOK, SpaAssumption
<1>4. /\ undoStack[b] \in Seq(Snapshot) /\ redoStack[b] \in Seq(Snapshot)
      /\ Len(undoStack[b]) + Len(redoStack[b]) <= UndoDepth
  BY DEF Typed, TypeOK
<1>5. Len(undoStack[b]) \in Nat /\ Len(redoStack[b]) \in Nat
  BY <1>4
<1>6. Len(asked[b].past) = Len(undoStack[b]) /\ Len(asked[b].future) = Len(redoStack[b])
  BY DEF Typed, Lengths
<1>7. Len(undoStack[b]) <= UndoDepth /\ Len(redoStack[b]) <= UndoDepth
  <2>1. PICK m, n : m = Len(undoStack[b]) /\ n = Len(redoStack[b])
    OBVIOUS
  <2>2. m \in Nat /\ n \in Nat /\ m + n <= UndoDepth
    BY <1>4, <1>5, <2>1
  <2>3. m <= UndoDepth /\ n <= UndoDepth
    BY <2>2, Bounds
  <2>4. QED
    BY <2>1, <2>3
<1>8. QED
  BY <1>1, <1>2, <1>3, <1>4, <1>5, <1>6, <1>7

\* The variables that a step of a user changes, for one browser each.
LEMMA UserTypes ==
  ASSUME Typed, NEW b \in Browser, NEW undo \in Seq(Snapshot), NEW redo \in Seq(Snapshot),
         NEW doc \in Planning, NEW past \in Seq(Snapshot), NEW future \in Seq(Snapshot),
         Len(undo) + Len(redo) <= UndoDepth, Len(past) = Len(undo), Len(future) = Len(redo),
         undoStack' = [undoStack EXCEPT ![b] = undo],
         redoStack' = [redoStack EXCEPT ![b] = redo],
         asked' = [asked EXCEPT ![b] = [doc |-> doc, past |-> past, future |-> future]]
  PROVE  /\ undoStack' \in [Browser -> Seq(Snapshot)] /\ redoStack' \in [Browser -> Seq(Snapshot)]
         /\ \A c \in Browser : Len(undoStack'[c]) + Len(redoStack'[c]) <= UndoDepth
         /\ asked' \in [Browser -> Asked]
         /\ Lengths'
<1>1. /\ undoStack \in [Browser -> Seq(Snapshot)] /\ redoStack \in [Browser -> Seq(Snapshot)]
      /\ asked \in [Browser -> Asked]
      /\ \A c \in Browser : Len(undoStack[c]) + Len(redoStack[c]) <= UndoDepth
  BY DEF Typed, TypeOK
<1>2. PICK new : new = [doc |-> doc, past |-> past, future |-> future]
  OBVIOUS
<1>3. new \in Asked /\ new.past = past /\ new.future = future
  BY <1>2 DEF Asked
<1>4. asked' = [asked EXCEPT ![b] = new]
  BY <1>2
<1>5. \A c \in Browser : /\ undoStack'[c] = IF c = b THEN undo ELSE undoStack[c]
                         /\ redoStack'[c] = IF c = b THEN redo ELSE redoStack[c]
                         /\ asked'[c] = IF c = b THEN new ELSE asked[c]
  BY <1>1, <1>4
<1>6. \A c \in Browser : Len(undoStack'[c]) + Len(redoStack'[c]) <= UndoDepth
  BY <1>1, <1>5
<1>7. Lengths'
  <2>1. \A c \in Browser : /\ Len(asked'[c].past) = Len(undoStack'[c])
                           /\ Len(asked'[c].future) = Len(redoStack'[c])
    BY <1>3, <1>5 DEF Typed, Lengths
  <2>2. QED
    BY <2>1 DEF Lengths
<1>8. QED
  BY <1>1, <1>3, <1>4, <1>6, <1>7

\* An edit: what is pushed, sent and asked for.
LEMMA EditDoes ==
  ASSUME Typed, NEW b \in Browser, Edit(b)
  PROVE  \E S \in SUBSET Slot, e \in Entry :
           /\ CanStart(b) /\ count.tasks < MaxTasks /\ S # {} /\ S \subseteq window[b]
           /\ undoStack' = [undoStack EXCEPT ![b] = PushBounded(undoStack[b], At(view[b], S))]
           /\ redoStack' = [redoStack EXCEPT ![b] = <<>>]
           /\ Start(b, "edit", At(view[b], S), S, [k \in S |-> e])
           /\ asked' = [asked EXCEPT ![b] =
                [doc |-> Over(asked[b].doc, [k \in S |-> e]),
                 past |-> PushBounded(asked[b].past, At(asked[b].doc, S)), future |-> <<>>]]
           /\ UNCHANGED <<server, reloads, inbox, connected, view, window, recent>>
<1>1. PICK S \in (SUBSET window[b]) \ {{}}, e \in Entry :
        /\ CanStart(b)
        /\ undoStack' = [undoStack EXCEPT ![b] = PushBounded(@, At(view[b], S))]
        /\ redoStack' = [redoStack EXCEPT ![b] = <<>>]
        /\ Start(b, "edit", At(view[b], S), S, [k \in S |-> e])
        /\ asked' = [asked EXCEPT ![b] =
             [doc |-> Over(@.doc, [k \in S |-> e]),
              past |-> PushBounded(@.past, At(@.doc, S)), future |-> <<>>]]
        /\ UNCHANGED <<server, reloads, inbox, connected, view, window, recent>>
  BY DEF Edit
<1>2. undoStack \in [Browser -> Seq(Snapshot)] /\ asked \in [Browser -> Asked]
  BY DEF Typed, TypeOK
<1>3. S \in SUBSET Slot /\ S # {} /\ S \subseteq window[b]
  <2>1. S \in (SUBSET window[b]) \ {{}}
    OBVIOUS
  <2>2. window[b] \subseteq Slot
    BY Kept
  <2>3. QED
    BY <2>1, <2>2
<1>4. undoStack' = [undoStack EXCEPT ![b] = PushBounded(undoStack[b], At(view[b], S))]
  BY <1>1, <1>2
<1>5. asked' = [asked EXCEPT ![b] =
        [doc |-> Over(asked[b].doc, [k \in S |-> e]),
         past |-> PushBounded(asked[b].past, At(asked[b].doc, S)), future |-> <<>>]]
  BY <1>1, <1>2
<1>6. count.tasks < MaxTasks
  BY <1>1 DEF CanStart
<1>7. QED
  BY <1>1, <1>3, <1>4, <1>5, <1>6

\* Edits keep the types.
LEMMA EditTyped ==
  ASSUME Typed, NEW b \in Browser, Edit(b) PROVE Typed'
<1>1. PICK S \in SUBSET Slot, e \in Entry :
        /\ CanStart(b) /\ count.tasks < MaxTasks /\ S # {} /\ S \subseteq window[b]
        /\ undoStack' = [undoStack EXCEPT ![b] = PushBounded(undoStack[b], At(view[b], S))]
        /\ redoStack' = [redoStack EXCEPT ![b] = <<>>]
        /\ Start(b, "edit", At(view[b], S), S, [k \in S |-> e])
        /\ asked' = [asked EXCEPT ![b] =
             [doc |-> Over(asked[b].doc, [k \in S |-> e]),
              past |-> PushBounded(asked[b].past, At(asked[b].doc, S)), future |-> <<>>]]
        /\ UNCHANGED <<server, reloads, inbox, connected, view, window, recent>>
  BY EditDoes
<1>2. PICK snap, mirror, to : /\ snap = At(view[b], S) /\ mirror = At(asked[b].doc, S)
                              /\ to = [k \in S |-> e]
  OBVIOUS
<1>3. snap \in Snapshot /\ mirror \in Snapshot /\ to \in Snapshot /\ \A k \in S : to[k] \in Entry
  BY <1>2, Kept, Snapshots
<1>4. PICK undo, past, doc : /\ undo = PushBounded(undoStack[b], snap)
                             /\ past = PushBounded(asked[b].past, mirror)
                             /\ doc = Over(asked[b].doc, to)
  OBVIOUS
<1>5. /\ undo \in Seq(Snapshot) /\ past \in Seq(Snapshot) /\ Len(past) = Len(undo)
      /\ Len(undo) <= UndoDepth /\ Len(undo) \in Nat /\ doc \in Planning
  <2>1. /\ undoStack[b] \in Seq(Snapshot) /\ asked[b].past \in Seq(Snapshot)
        /\ Len(undoStack[b]) <= UndoDepth /\ Len(asked[b].past) = Len(undoStack[b])
    BY Kept
  <2>2. /\ undo \in Seq(Snapshot) /\ past \in Seq(Snapshot) /\ Len(past) = Len(undo)
        /\ Len(undo) \in 1..UndoDepth
    <3>1. PICK old, oldPast : old = undoStack[b] /\ oldPast = asked[b].past
      OBVIOUS
    <3>2. /\ undo \in Seq(Snapshot) /\ Len(undo) \in 1..UndoDepth
          /\ Len(undo) = IF Len(old) = UndoDepth THEN UndoDepth ELSE Len(old) + 1
      BY <1>3, <1>4, <2>1, <3>1, PushedBounded
    <3>3. /\ past \in Seq(Snapshot)
          /\ Len(past) = IF Len(oldPast) = UndoDepth THEN UndoDepth ELSE Len(oldPast) + 1
      BY <1>3, <1>4, <2>1, <3>1, PushedBounded
    <3>4. QED
      BY <2>1, <3>1, <3>2, <3>3
  <2>3. doc \in Planning
    BY <1>3, <1>4, Kept, Snapshots
  <2>4. QED
    BY <2>2, <2>3, SpaAssumption DEF SpaAssumption
<1>6. /\ undoStack' = [undoStack EXCEPT ![b] = undo]
      /\ redoStack' = [redoStack EXCEPT ![b] = <<>>]
      /\ asked' = [asked EXCEPT ![b] = [doc |-> doc, past |-> past, future |-> <<>>]]
  BY <1>1, <1>2, <1>4
<1>7. /\ <<>> \in Seq(Snapshot) /\ Len(<<>>) = 0 /\ Len(undo) + Len(<<>>) <= UndoDepth
  BY <1>5
<1>8. /\ undoStack' \in [Browser -> Seq(Snapshot)] /\ redoStack' \in [Browser -> Seq(Snapshot)]
      /\ \A c \in Browser : Len(undoStack'[c]) + Len(redoStack'[c]) <= UndoDepth
      /\ asked' \in [Browser -> Asked]
      /\ Lengths'
  BY <1>5, <1>6, <1>7, UserTypes
<1>9. Start(b, "edit", snap, S, to)
  BY <1>1, <1>2
<1>10. tasks' \subseteq Task /\ requests' \subseteq Request /\ undoing' \in [Browser -> BOOLEAN]
       /\ count' \in Counts
  <2>1. tasks \subseteq Task /\ requests \subseteq Request
    BY DEF Typed, TypeOK
  <2>2. count.tasks < MaxTasks
    BY <1>1
  <2>3. /\ tasks' = tasks \cup {NewTask(b, "edit", snap)} /\ NewTask(b, "edit", snap) \in Task
        /\ requests' = requests \cup NewWrites(b, S, to) /\ NewWrites(b, S, to) \subseteq Request
        /\ undoing' \in [Browser -> BOOLEAN] /\ count' \in Counts
    <3>1. Starts(b, "edit", snap, S, to)
      BY <1>3, <1>9, <2>2, Started
    <3>2. QED
      BY <3>1 DEF Starts
  <2>4. QED
    BY <2>1, <2>3
<1>11. QED
  BY <1>1, <1>8, <1>10 DEF Typed, TypeOK, Counts, server

\* What undo and redo share: writes for what differs, or nothing.
LEMMA Restored ==
  ASSUME Typed, NEW b \in Browser, NEW type \in {"undo", "redo"}, NEW snap \in Snapshot,
         CanStart(b), Restore(b, type, snap)
  PROVE  /\ \/ /\ tasks' = tasks \cup {NewTask(b, type, snap)}
               /\ NewTask(b, type, snap) \in Task
               /\ requests' = requests \cup NewWrites(b, Differs(b, snap), snap)
               /\ NewWrites(b, Differs(b, snap), snap) \subseteq Request
               /\ undoing' = [undoing EXCEPT ![b] = @ \/ type # "edit"]
            \/ /\ Differs(b, snap) = {} /\ tasks' = tasks /\ requests' = requests
               /\ undoing' = [undoing EXCEPT ![b] = FALSE]
         /\ undoing' \in [Browser -> BOOLEAN]
         /\ count' = [count EXCEPT !.tasks = count.tasks + 1] /\ count' \in Counts
         /\ tasks' \subseteq Task /\ requests' \subseteq Request
<1>1. /\ Differs(b, snap) \in SUBSET Slot /\ \A k \in Differs(b, snap) : snap[k] \in Entry
  BY Snapshots DEF Differs
<1>2. tasks \subseteq Task /\ requests \subseteq Request /\ undoing \in [Browser -> BOOLEAN]
  BY DEF Typed, TypeOK
<1>3. count.tasks < MaxTasks
  BY DEF CanStart
<1>4. CASE Differs(b, snap) # {}
  <2>1. Start(b, type, snap, Differs(b, snap), snap)
    BY <1>4 DEF Restore
  <2>2. PICK S \in SUBSET Slot : S = Differs(b, snap)
    BY <1>1
  <2>3. /\ type \in {"edit", "undo", "redo"} /\ \A k \in S : snap[k] \in Entry
        /\ Start(b, type, snap, S, snap)
    BY <1>1, <2>1, <2>2
  <2>4. /\ tasks' = tasks \cup {NewTask(b, type, snap)} /\ NewTask(b, type, snap) \in Task
        /\ requests' = requests \cup NewWrites(b, S, snap)
        /\ NewWrites(b, S, snap) \subseteq Request
        /\ undoing' = [undoing EXCEPT ![b] = @ \/ type # "edit"]
        /\ undoing' \in [Browser -> BOOLEAN]
        /\ count' = [count EXCEPT !.tasks = count.tasks + 1] /\ count' \in Counts
    <3>1. Starts(b, type, snap, S, snap)
      BY <1>3, <2>3, Started
    <3>2. QED
      BY <3>1 DEF Starts
  <2>5. /\ requests' = requests \cup NewWrites(b, Differs(b, snap), snap)
        /\ NewWrites(b, Differs(b, snap), snap) \subseteq Request
    BY <2>2, <2>4
  <2>6. tasks' \subseteq Task /\ requests' \subseteq Request
    BY <1>2, <2>4
  <2>7. QED
    BY <2>4, <2>5, <2>6, Zenon
<1>5. CASE Differs(b, snap) = {}
  <2>1. /\ count' = [count EXCEPT !.tasks = @ + 1]
        /\ undoing' = [undoing EXCEPT ![b] = FALSE]
        /\ UNCHANGED <<tasks, requests>>
    BY <1>5 DEF Restore
  <2>2. count \in Counts
    BY DEF Typed, TypeOK, Counts
  <2>3. count' = [count EXCEPT !.tasks = count.tasks + 1]
    BY <2>1, <2>2 DEF Counts
  <2>4. count' \in Counts
    BY <1>3, <2>2, <2>3, Counted
  <2>5. undoing' \in [Browser -> BOOLEAN]
    BY <1>2, <2>1
  <2>6. QED
    BY <1>2, <1>5, <2>1, <2>3, <2>4, <2>5
<1>6. QED
  BY <1>4, <1>5

\* An undo: what is popped, pushed, sent and asked for.
LEMMA UndoDoes ==
  ASSUME Typed, NEW b \in Browser, Undo(b)
  PROVE  /\ CanStart(b) /\ undoStack[b] # <<>> /\ asked[b].past # <<>>
         /\ undoStack' = [undoStack EXCEPT ![b] = Front(undoStack[b])]
         /\ redoStack' = [redoStack EXCEPT ![b] =
              Append(redoStack[b], At(view[b], DOMAIN Last(undoStack[b])))]
         /\ Restore(b, "undo", Last(undoStack[b]))
         /\ asked' = [asked EXCEPT ![b] =
              [doc |-> Over(asked[b].doc, Last(asked[b].past)), past |-> Front(asked[b].past),
               future |-> Append(asked[b].future, At(asked[b].doc, DOMAIN Last(asked[b].past)))]]
         /\ UNCHANGED <<server, reloads, inbox, connected, view, window, recent>>
<1>1. undoStack \in [Browser -> Seq(Snapshot)] /\ redoStack \in [Browser -> Seq(Snapshot)]
  BY DEF Typed, TypeOK
<1>2. undoStack[b] # <<>> /\ CanStart(b)
  BY DEF Undo
<1>3. asked[b].past # <<>>
  <2>1. PICK stack, past : stack = undoStack[b] /\ past = asked[b].past
    OBVIOUS
  <2>2. stack \in Seq(Snapshot) /\ past \in Seq(Snapshot) /\ Len(past) = Len(stack) /\ stack # <<>>
    BY <1>2, <2>1, Kept
  <2>3. past # <<>>
    BY <2>2
  <2>4. QED
    BY <2>1, <2>3
<1>4. undoStack' = [undoStack EXCEPT ![b] = Front(undoStack[b])]
  BY <1>1 DEF Undo
<1>5. redoStack' = [redoStack EXCEPT ![b] =
        Append(redoStack[b], At(view[b], DOMAIN Last(undoStack[b])))]
  BY <1>1 DEF Undo
<1>6. QED
  BY <1>2, <1>3, <1>4, <1>5 DEF Undo

\* A redo: the same the other way round.
LEMMA RedoDoes ==
  ASSUME Typed, NEW b \in Browser, Redo(b)
  PROVE  /\ CanStart(b) /\ redoStack[b] # <<>> /\ asked[b].future # <<>>
         /\ redoStack' = [redoStack EXCEPT ![b] = Front(redoStack[b])]
         /\ undoStack' = [undoStack EXCEPT ![b] =
              Append(undoStack[b], At(view[b], DOMAIN Last(redoStack[b])))]
         /\ Restore(b, "redo", Last(redoStack[b]))
         /\ asked' = [asked EXCEPT ![b] =
              [doc |-> Over(asked[b].doc, Last(asked[b].future)),
               past |-> Append(asked[b].past, At(asked[b].doc, DOMAIN Last(asked[b].future))),
               future |-> Front(asked[b].future)]]
         /\ UNCHANGED <<server, reloads, inbox, connected, view, window, recent>>
<1>1. undoStack \in [Browser -> Seq(Snapshot)] /\ redoStack \in [Browser -> Seq(Snapshot)]
  BY DEF Typed, TypeOK
<1>2. redoStack[b] # <<>> /\ CanStart(b)
  BY DEF Redo
<1>3. asked[b].future # <<>>
  <2>1. PICK stack, future : stack = redoStack[b] /\ future = asked[b].future
    OBVIOUS
  <2>2. /\ stack \in Seq(Snapshot) /\ future \in Seq(Snapshot)
        /\ Len(future) = Len(stack) /\ stack # <<>>
    BY <1>2, <2>1, Kept
  <2>3. future # <<>>
    BY <2>2
  <2>4. QED
    BY <2>1, <2>3
<1>4. redoStack' = [redoStack EXCEPT ![b] = Front(redoStack[b])]
  BY <1>1 DEF Redo
<1>5. undoStack' = [undoStack EXCEPT ![b] =
        Append(undoStack[b], At(view[b], DOMAIN Last(redoStack[b])))]
  BY <1>1 DEF Redo
<1>6. asked' = [asked EXCEPT ![b] =
        [doc |-> Over(asked[b].doc, Last(asked[b].future)),
         past |-> Append(asked[b].past, At(asked[b].doc, DOMAIN Last(asked[b].future))),
         future |-> Front(asked[b].future)]]
  BY DEF Redo
<1>7. QED
  BY <1>2, <1>3, <1>4, <1>5, <1>6 DEF Redo

\* So do undos: one snapshot leaves a stack, and one enters the other.
LEMMA UndoTyped ==
  ASSUME Typed, NEW b \in Browser, Undo(b) PROVE Typed'
<1>1. PICK undo, redo, past, future, doc :
        /\ undo = undoStack[b] /\ redo = redoStack[b]
        /\ past = asked[b].past /\ future = asked[b].future /\ doc = asked[b].doc
  OBVIOUS
<1>2. /\ undo \in Seq(Snapshot) /\ redo \in Seq(Snapshot) /\ Len(undo) + Len(redo) <= UndoDepth
      /\ past \in Seq(Snapshot) /\ future \in Seq(Snapshot) /\ doc \in Planning
      /\ Len(past) = Len(undo) /\ Len(future) = Len(redo)
      /\ view[b] \in Planning
  BY <1>1, Kept
<1>3. undo # <<>> /\ past # <<>>
  BY <1>1, UndoDoes
<1>4. PICK snap, mirror : snap = Last(undo) /\ mirror = Last(past)
  OBVIOUS
<1>5. /\ snap \in Snapshot /\ mirror \in Snapshot
      /\ Front(undo) \in Seq(Snapshot) /\ Len(Front(undo)) = Len(undo) - 1
      /\ Front(past) \in Seq(Snapshot) /\ Len(Front(past)) = Len(past) - 1
  BY <1>2, <1>3, <1>4, Popped
<1>6. PICK shown, was : shown = At(view[b], DOMAIN snap) /\ was = At(doc, DOMAIN mirror)
  OBVIOUS
<1>7. shown \in Snapshot /\ was \in Snapshot /\ Over(doc, mirror) \in Planning
  BY <1>2, <1>5, <1>6, Snapshots
<1>8. /\ Append(redo, shown) \in Seq(Snapshot) /\ Len(Append(redo, shown)) = Len(redo) + 1
      /\ Append(future, was) \in Seq(Snapshot) /\ Len(Append(future, was)) = Len(future) + 1
  BY <1>2, <1>7, Pushed
<1>9. /\ Len(Front(undo)) + Len(Append(redo, shown)) <= UndoDepth
      /\ Len(Front(past)) = Len(Front(undo)) /\ Len(Append(future, was)) = Len(Append(redo, shown))
  BY <1>2, <1>5, <1>8, Bounds
<1>10. /\ undoStack' = [undoStack EXCEPT ![b] = Front(undo)]
       /\ redoStack' = [redoStack EXCEPT ![b] = Append(redo, shown)]
       /\ asked' = [asked EXCEPT ![b] =
            [doc |-> Over(doc, mirror), past |-> Front(past), future |-> Append(future, was)]]
  BY <1>1, <1>4, <1>6, UndoDoes
<1>11. /\ undoStack' \in [Browser -> Seq(Snapshot)] /\ redoStack' \in [Browser -> Seq(Snapshot)]
       /\ \A c \in Browser : Len(undoStack'[c]) + Len(redoStack'[c]) <= UndoDepth
       /\ asked' \in [Browser -> Asked]
       /\ Lengths'
  BY <1>5, <1>7, <1>8, <1>9, <1>10, UserTypes
<1>12. CanStart(b) /\ Restore(b, "undo", snap)
  BY <1>1, <1>4, UndoDoes
<1>13. /\ undoing' \in [Browser -> BOOLEAN] /\ count' \in Counts
       /\ tasks' \subseteq Task /\ requests' \subseteq Request
  BY <1>5, <1>12, Restored
<1>14. UNCHANGED <<server, reloads, inbox, connected, view, window, recent>>
  BY UndoDoes
<1>15. QED
  BY <1>11, <1>13, <1>14 DEF Typed, TypeOK, Counts, server

\* And redos, although they push without making room.
LEMMA RedoTyped ==
  ASSUME Typed, NEW b \in Browser, Redo(b) PROVE Typed'
<1>1. PICK undo, redo, past, future, doc :
        /\ undo = undoStack[b] /\ redo = redoStack[b]
        /\ past = asked[b].past /\ future = asked[b].future /\ doc = asked[b].doc
  OBVIOUS
<1>2. /\ undo \in Seq(Snapshot) /\ redo \in Seq(Snapshot) /\ Len(undo) + Len(redo) <= UndoDepth
      /\ past \in Seq(Snapshot) /\ future \in Seq(Snapshot) /\ doc \in Planning
      /\ Len(past) = Len(undo) /\ Len(future) = Len(redo)
      /\ view[b] \in Planning
  BY <1>1, Kept
<1>3. redo # <<>> /\ future # <<>>
  BY <1>1, RedoDoes
<1>4. PICK snap, mirror : snap = Last(redo) /\ mirror = Last(future)
  OBVIOUS
<1>5. /\ snap \in Snapshot /\ mirror \in Snapshot
      /\ Front(redo) \in Seq(Snapshot) /\ Len(Front(redo)) = Len(redo) - 1
      /\ Front(future) \in Seq(Snapshot) /\ Len(Front(future)) = Len(future) - 1
  BY <1>2, <1>3, <1>4, Popped
<1>6. PICK shown, was : shown = At(view[b], DOMAIN snap) /\ was = At(doc, DOMAIN mirror)
  OBVIOUS
<1>7. shown \in Snapshot /\ was \in Snapshot /\ Over(doc, mirror) \in Planning
  BY <1>2, <1>5, <1>6, Snapshots
<1>8. /\ Append(undo, shown) \in Seq(Snapshot) /\ Len(Append(undo, shown)) = Len(undo) + 1
      /\ Append(past, was) \in Seq(Snapshot) /\ Len(Append(past, was)) = Len(past) + 1
  BY <1>2, <1>7, Pushed
<1>9. /\ Len(Append(undo, shown)) + Len(Front(redo)) <= UndoDepth
      /\ Len(Append(past, was)) = Len(Append(undo, shown)) /\ Len(Front(future)) = Len(Front(redo))
  BY <1>2, <1>5, <1>8, Bounds
<1>10. /\ undoStack' = [undoStack EXCEPT ![b] = Append(undo, shown)]
       /\ redoStack' = [redoStack EXCEPT ![b] = Front(redo)]
       /\ asked' = [asked EXCEPT ![b] =
            [doc |-> Over(doc, mirror), past |-> Append(past, was), future |-> Front(future)]]
  BY <1>1, <1>4, <1>6, RedoDoes
<1>11. /\ undoStack' \in [Browser -> Seq(Snapshot)] /\ redoStack' \in [Browser -> Seq(Snapshot)]
       /\ \A c \in Browser : Len(undoStack'[c]) + Len(redoStack'[c]) <= UndoDepth
       /\ asked' \in [Browser -> Asked]
       /\ Lengths'
  BY <1>5, <1>7, <1>8, <1>9, <1>10, UserTypes
<1>12. CanStart(b) /\ Restore(b, "redo", snap)
  BY <1>1, <1>4, RedoDoes
<1>13. /\ undoing' \in [Browser -> BOOLEAN] /\ count' \in Counts
       /\ tasks' \subseteq Task /\ requests' \subseteq Request
  BY <1>5, <1>12, Restored
<1>14. UNCHANGED <<server, reloads, inbox, connected, view, window, recent>>
  BY RedoDoes
<1>15. QED
  BY <1>11, <1>13, <1>14 DEF Typed, TypeOK, Counts, server

\* At first, everything is empty.
LEMMA InitTyped == Init => Typed
<1> SUFFICES ASSUME Init PROVE Typed
  OBVIOUS
<1>1. Empty \in Planning /\ <<>> \in Seq(Snapshot) /\ <<>> \in Seq(Message) /\ Len(<<>>) = 0
  BY DEF Empty, Planning, Entry
<1>2. PICK a : a = [doc |-> Empty, past |-> <<>>, future |-> <<>>]
  OBVIOUS
<1>3. a \in Asked /\ a.past = <<>> /\ a.future = <<>>
  BY <1>1, <1>2 DEF Asked
<1>4. asked = [b \in Browser |-> a]
  BY <1>2 DEF Init
<1>5. /\ asked \in [Browser -> Asked]
      /\ \A b \in Browser : asked[b].past = <<>> /\ asked[b].future = <<>>
  BY <1>3, <1>4
<1>6. /\ undoStack \in [Browser -> Seq(Snapshot)] /\ redoStack \in [Browser -> Seq(Snapshot)]
      /\ \A b \in Browser : undoStack[b] = <<>> /\ redoStack[b] = <<>>
  BY <1>1 DEF Init
<1>7. Lengths
  BY <1>5, <1>6 DEF Lengths
<1>8. \A b \in Browser : Len(undoStack[b]) + Len(redoStack[b]) <= UndoDepth
  BY <1>1, <1>6, Bounds
<1>9. count \in [tasks : 0..MaxTasks, scrolls : 0..MaxScrolls, failures : 0..MaxFailures,
                 losses : 0..MaxLosses]
  BY Bounds DEF Init
<1>10. view \in [Browser -> Planning] /\ db \in Planning /\ inbox \in [Browser -> Seq(Message)]
  BY <1>1 DEF Init
<1>11. window \in [Browser -> Window]
  BY SpaAssumption DEF Init, SpaAssumption
<1>12. QED
  BY <1>5, <1>6, <1>7, <1>8, <1>9, <1>10, <1>11 DEF Typed, TypeOK, Init

\* A write that is at another stage.
LEMMA Advanced ==
  ASSUME Typed, NEW q \in requests, NEW stage \in {"sent", "stored", "told"}, Advance(q, stage)
  PROVE  \E r \in Request :
           /\ r = [q EXCEPT !.stage = stage] /\ requests' = (requests \ {q}) \cup {r}
           /\ r.task = q.task /\ r.by = q.by /\ r.slot = q.slot /\ r.entry = q.entry
           /\ r.stage = stage
           /\ q \in Request /\ requests' \subseteq Request
<1>1. q \in Request /\ requests \subseteq Request
  BY DEF Typed, TypeOK
<1>2. PICK r : r = [q EXCEPT !.stage = stage]
  OBVIOUS
<1>3. /\ r \in Request /\ r.task = q.task /\ r.by = q.by /\ r.slot = q.slot /\ r.entry = q.entry
      /\ r.stage = stage
  BY <1>1, <1>2 DEF Request
<1>4. requests' = (requests \ {q}) \cup {r}
  BY <1>2 DEF Advance
<1>5. QED
  BY <1>1, <1>2, <1>3, <1>4

\* Steps that leave alone what Lengths speaks of.
LEMMA LengthsStay ==
  ASSUME Lengths, UNCHANGED <<undoStack, redoStack, asked>> PROVE Lengths'
BY DEF Lengths

\* The server keeps the types.
LEMMA StoreTyped ==
  ASSUME Typed, NEW q \in requests, Store(q) PROVE Typed'
<1>1. q \in Request
  BY DEF Typed, TypeOK
<1>2. q.slot \in Slot /\ q.entry \in Entry /\ q.by \in Browser
  BY <1>1 DEF Request
<1>3. db' \in Planning
  <2>1. db \in [Slot -> Entry] /\ db' = [db EXCEPT ![q.slot] = q.entry]
    BY DEF Typed, TypeOK, Store, Planning
  <2>2. QED
    BY <1>2, <2>1 DEF Planning
<1>4. authors' \in [Slot -> SUBSET Browser] /\ raced' \subseteq Slot
  BY <1>2 DEF Typed, TypeOK, Store
<1>5. requests' \subseteq Request
  BY Advanced DEF Store
<1>6. UNCHANGED <<reloads, inbox, connected, view, window, undoStack, redoStack, undoing, recent,
                  tasks, asked, count>>
  BY DEF Store, browser
<1>7. Lengths'
  BY <1>6, LengthsStay DEF Typed
<1>8. QED
  BY <1>3, <1>4, <1>5, <1>6, <1>7 DEF Typed, TypeOK

\* Messages are appended to the boxes of those who are connected.
LEMMA TellTyped ==
  ASSUME Typed, NEW q \in requests, Tell(q) PROVE Typed'
<1>1. PICK skipped \in SUBSET connected :
        /\ count.losses + Cardinality(skipped) <= MaxLosses
        /\ count' = [count EXCEPT !.losses = @ + Cardinality(skipped)]
        /\ inbox' = [b \in Browser |->
             IF b \in connected \ skipped
             THEN Append(inbox[b], [by |-> q.by, slot |-> q.slot, entry |-> q.entry])
             ELSE inbox[b]]
        /\ Advance(q, "told")
  BY DEF Tell
<1>2. q \in Request
  BY DEF Typed, TypeOK
<1>3. PICK m : m = [by |-> q.by, slot |-> q.slot, entry |-> q.entry]
  OBVIOUS
<1>4. m \in Message
  BY <1>2, <1>3 DEF Message, Request
<1>5. inbox' \in [Browser -> Seq(Message)]
  <2>1. inbox' = [b \in Browser |->
          IF b \in connected \ skipped THEN Append(inbox[b], m) ELSE inbox[b]]
    BY <1>1, <1>3
  <2>2. inbox \in [Browser -> Seq(Message)]
    BY DEF Typed, TypeOK
  <2>3. \A b \in Browser : Append(inbox[b], m) \in Seq(Message)
    BY <1>4, <2>2
  <2>4. QED
    BY <2>1, <2>2, <2>3
<1>6. count' \in Counts
  <2>1. skipped \subseteq Browser
    BY DEF Typed, TypeOK
  <2>2. IsFiniteSet(skipped)
    BY <2>1, SpaAssumption, FS_Subset DEF SpaAssumption
  <2>3. Cardinality(skipped) \in Nat
    BY <2>2, FS_CardinalityType
  <2>4. count \in Counts
    BY DEF Typed, TypeOK, Counts
  <2>5. QED
    BY <1>1, <2>3, <2>4, Counted
<1>7. requests' \subseteq Request
  BY <1>1, Advanced
<1>8. UNCHANGED <<db, authors, raced, reloads, connected, view, window, undoStack, redoStack,
                  undoing, recent, tasks, asked>>
  BY DEF Tell, browser, server
<1>9. Lengths'
  BY <1>8, LengthsStay DEF Typed
<1>10. QED
  BY <1>5, <1>6, <1>7, <1>8, <1>9 DEF Typed, TypeOK, Counts

\* A write that is over, in either way.
LEMMA AnswerTyped ==
  ASSUME Typed, NEW q \in requests, Answer(q) PROVE Typed'
<1>1. UNCHANGED <<db, authors, raced, reloads, inbox, connected, view, window, undoStack, redoStack,
                  undoing, recent, tasks, asked, count>>
  BY DEF Answer, browser, server
<1>2. requests' \subseteq requests
  BY DEF Answer
<1>3. Lengths'
  BY <1>1, LengthsStay DEF Typed
<1>4. QED
  BY <1>1, <1>2, <1>3 DEF Typed, TypeOK

\* A failure ends a write, or its task too.
LEMMA FailTyped ==
  ASSUME Typed, NEW q \in requests, FailQuietly(q) \/ FailLoudly(q) PROVE Typed'
<1>1. /\ count.failures < MaxFailures /\ count' = [count EXCEPT !.failures = @ + 1]
      /\ requests' = requests \ {q}
      /\ UNCHANGED <<db, authors, raced, reloads, inbox, connected, view, window, undoStack,
                     redoStack, recent, asked>>
  BY DEF FailQuietly, FailLoudly, Fail, browser, server
<1>2. count' \in Counts
  <2>1. count \in Counts
    BY DEF Typed, TypeOK, Counts
  <2>2. QED
    BY <1>1, <2>1, Counted
<1>3. tasks' \subseteq tasks
  BY DEF FailQuietly, FailLoudly, browser
<1>4. undoing' \in [Browser -> BOOLEAN]
  <2>1. undoing \in [Browser -> BOOLEAN]
    BY DEF Typed, TypeOK
  <2>2. undoing' = undoing \/ undoing' = [undoing EXCEPT ![q.by] = FALSE]
    BY DEF FailQuietly, FailLoudly, AfterThrow, browser
  <2>3. QED
    BY <2>1, <2>2
<1>5. Lengths'
  BY <1>1, LengthsStay DEF Typed
<1>6. QED
  BY <1>1, <1>2, <1>3, <1>4, <1>5 DEF Typed, TypeOK, Counts

\* A task in another phase.
LEMMA Rephased ==
  ASSUME Typed, NEW t \in tasks, NEW phase \in {"writing", "reloading", "ending"}
  PROVE  \E u \in Task :
           /\ u = [t EXCEPT !.phase = phase]
           /\ t \in Task
           /\ u.id = t.id /\ u.by = t.by /\ u.type = t.type /\ u.snap = t.snap /\ u.phase = phase
<1>1. t \in Task
  BY DEF Typed, TypeOK
<1>2. PICK u : u = [t EXCEPT !.phase = phase]
  OBVIOUS
<1>3. /\ u \in Task /\ u.id = t.id /\ u.by = t.by /\ u.type = t.type /\ u.snap = t.snap
      /\ u.phase = phase
  BY <1>1, <1>2 DEF Task
<1>4. QED
  BY <1>1, <1>2, <1>3

\* What is asked for when all writes are answered.
NewReload(n, b, w) == [task |-> n, by |-> b, window |-> w, read |-> <<>>]

\* A reload that is asked for.
LEMMA AskedReload ==
  ASSUME NEW n \in 0..MaxTasks, NEW b \in Browser, NEW w \in Window
  PROVE  /\ NewReload(n, b, w) \in Reload
         /\ NewReload(n, b, w).task = n /\ NewReload(n, b, w).by = b
         /\ NewReload(n, b, w).window = w /\ NewReload(n, b, w).read = <<>>
BY DEF NewReload, Reload

\* A task that asks for its reload keeps the types.
LEMMA AskReloadTyped ==
  ASSUME Typed, NEW t \in tasks, AskReload(t) PROVE Typed'
<1>1. PICK u \in Task : u = [t EXCEPT !.phase = "reloading"] /\ t \in Task
  BY Rephased
<1>2. t.id \in 0..MaxTasks /\ t.by \in Browser
  BY <1>1, Bounds DEF Task
<1>3. window[t.by] \in Window
  BY <1>2 DEF Typed, TypeOK
<1>4. NewReload(t.id, t.by, window[t.by]) \in Reload
  BY <1>2, <1>3, AskedReload
<1>5. /\ reloads' = reloads \cup {NewReload(t.id, t.by, window[t.by])}
      /\ tasks' = (tasks \ {t}) \cup {u}
  BY <1>1 DEF AskReload, Phase, NewReload
<1>6. UNCHANGED <<db, authors, raced, requests, inbox, connected, view, window, undoStack,
                  redoStack, undoing, recent, asked, count>>
  BY DEF AskReload, server
<1>7. Lengths'
  BY <1>6, LengthsStay DEF Typed
<1>8. QED
  BY <1>1, <1>4, <1>5, <1>6, <1>7 DEF Typed, TypeOK

\* So does a move of the window.
LEMMA ScrollTyped ==
  ASSUME Typed, NEW b \in Browser, Scroll(b) PROVE Typed'
<1>1. PICK w \in Window :
        /\ count.scrolls < MaxScrolls /\ count' = [count EXCEPT !.scrolls = @ + 1]
        /\ window' = [window EXCEPT ![b] = w]
        /\ reloads' = reloads \cup {NewReload(0, b, w)}
  BY DEF Scroll, NewReload
<1>2. NewReload(0, b, w) \in Reload
  BY AskedReload, Bounds
<1>3. count' \in Counts
  <2>1. count \in Counts
    BY DEF Typed, TypeOK, Counts
  <2>2. QED
    BY <1>1, <2>1, Counted
<1>4. UNCHANGED <<db, authors, raced, requests, inbox, connected, view, undoStack, redoStack,
                  undoing, recent, tasks, asked>>
  BY DEF Scroll, server
<1>5. window' \in [Browser -> Window]
  BY <1>1 DEF Typed, TypeOK
<1>6. Lengths'
  BY <1>4, LengthsStay DEF Typed
<1>7. QED
  BY <1>1, <1>2, <1>3, <1>4, <1>5, <1>6 DEF Typed, TypeOK, Counts

\* A reload that was read.
LEMMA Served ==
  ASSUME Typed, NEW l \in reloads, ServeReload(l)
  PROVE  \E r \in Reload :
           /\ l \in Reload
           /\ r.task = l.task /\ r.by = l.by /\ r.window = l.window /\ r.read = <<db>>
           /\ reloads' = (reloads \ {l}) \cup {r}
<1>1. l \in Reload /\ db \in Planning
  BY DEF Typed, TypeOK
<1>2. PICK r : r = [l EXCEPT !.read = <<db>>]
  OBVIOUS
<1>3. /\ r \in Reload
      /\ r.task = l.task /\ r.by = l.by /\ r.window = l.window /\ r.read = <<db>>
  BY <1>1, <1>2 DEF Reload
<1>4. reloads' = (reloads \ {l}) \cup {r}
  BY <1>2 DEF ServeReload
<1>5. QED
  BY <1>1, <1>3, <1>4

\* So does a reload that is read.
LEMMA ServeReloadTyped ==
  ASSUME Typed, NEW l \in reloads, ServeReload(l) PROVE Typed'
<1>1. reloads' \subseteq Reload
  BY Served DEF Typed, TypeOK
<1>2. UNCHANGED <<db, authors, raced, requests, inbox, connected, view, window, undoStack,
                  redoStack, undoing, recent, tasks, asked, count>>
  BY DEF ServeReload, server, browser
<1>3. Lengths'
  BY <1>2, LengthsStay DEF Typed
<1>4. QED
  BY <1>1, <1>2, <1>3 DEF Typed, TypeOK

\* A task as it goes on once its reload has come.
GoesOn(t, u, l) ==
  /\ u \in Task /\ u.id = t.id /\ u.by = t.by /\ u.type = t.type /\ u.snap = t.snap
  /\ t.id = l.task => u.phase = "ending"
  /\ t.id # l.task => u = t

\* A reload that has come: what the browser shows, and the tasks.
LEMMA Received ==
  ASSUME Typed, NEW l \in reloads, ReceiveReload(l)
  PROVE  /\ l \in Reload /\ l.read # <<>> /\ l.read[1] \in Planning
         /\ view' = [view EXCEPT ![l.by] =
              [k \in Slot |-> IF k \in l.window THEN l.read[1][k] ELSE NoEntry]]
         /\ view' \in [Browser -> Planning]
         /\ \A u \in tasks' : \E t \in tasks : GoesOn(t, u, l)
         /\ \A t \in tasks : \E u \in tasks' : GoesOn(t, u, l)
<1>1. l \in Reload /\ l.read # <<>>
  BY DEF Typed, TypeOK, ReceiveReload
<1>2. l.read[1] \in Planning /\ l.by \in Browser
  <2>1. PICK p \in Planning : l.read = <<p>>
    BY <1>1 DEF Reload
  <2>2. QED
    BY <1>1, <2>1 DEF Reload
<1>3. PICK shown : shown = [k \in Slot |-> IF k \in l.window THEN l.read[1][k] ELSE NoEntry]
  OBVIOUS
<1>4. shown \in Planning
  BY <1>2, <1>3 DEF Planning, Entry
<1>5. view' = [view EXCEPT ![l.by] = shown]
  BY <1>3 DEF ReceiveReload
<1>6. view' \in [Browser -> Planning]
  BY <1>4, <1>5 DEF Typed, TypeOK
<1> DEFINE on(t) == IF t.id = l.task THEN [t EXCEPT !.phase = "ending"] ELSE t
<1>7. ASSUME NEW t \in tasks
      PROVE  GoesOn(t, on(t), l)
  <2>1. PICK u \in Task :
          /\ u = [t EXCEPT !.phase = "ending"]
          /\ t \in Task
          /\ u.id = t.id /\ u.by = t.by /\ u.type = t.type /\ u.snap = t.snap /\ u.phase = "ending"
    BY Rephased
  <2>2. CASE t.id = l.task
    <3>1. on(t) = u
      BY <2>1, <2>2
    <3>2. QED
      BY <2>1, <2>2, <3>1 DEF GoesOn
  <2>3. CASE t.id # l.task
    <3>1. on(t) = t
      BY <2>3
    <3>2. QED
      BY <2>1, <2>3, <3>1 DEF GoesOn
  <2>4. QED
    BY <2>2, <2>3
<1>8. tasks' = {on(t) : t \in tasks}
  BY DEF ReceiveReload
<1> HIDE DEF on
<1>9. /\ \A u \in tasks' : \E t \in tasks : GoesOn(t, u, l)
      /\ \A t \in tasks : \E u \in tasks' : GoesOn(t, u, l)
  BY <1>7, <1>8
<1>10. QED
  BY <1>1, <1>2, <1>3, <1>5, <1>6, <1>9

\* So does a reload that comes.
LEMMA ReceiveReloadTyped ==
  ASSUME Typed, NEW l \in reloads, ReceiveReload(l) PROVE Typed'
<1>1. view' \in [Browser -> Planning] /\ \A u \in tasks' : \E t \in tasks : GoesOn(t, u, l)
  BY Received
<1>2. tasks' \subseteq Task
  BY <1>1 DEF GoesOn
<1>3. reloads' \subseteq reloads
  BY DEF ReceiveReload
<1>4. UNCHANGED <<db, authors, raced, requests, inbox, connected, window, undoStack, redoStack,
                  undoing, recent, asked, count>>
  BY DEF ReceiveReload, server
<1>5. Lengths'
  BY <1>4, LengthsStay DEF Typed
<1>6. QED
  BY <1>1, <1>2, <1>3, <1>4, <1>5 DEF Typed, TypeOK

\* So does the end of a task.
LEMMA EndTyped ==
  ASSUME Typed, NEW t \in tasks, End(t) PROVE Typed'
<1>1. t \in Task
  BY DEF Typed, TypeOK
<1>2. t.by \in Browser /\ Flashed(t) \subseteq Slot
  <2>1. t.by \in Browser /\ t.snap \in Snapshot
    BY <1>1 DEF Task
  <2>2. QED
    BY <2>1, Snapshots DEF Flashed
<1>3. undoing' \in [Browser -> BOOLEAN] /\ recent' \in [Browser -> SUBSET Slot]
  <2>1. undoing \in [Browser -> BOOLEAN] /\ recent \in [Browser -> SUBSET Slot]
    BY DEF Typed, TypeOK
  <2>2. undoing' = undoing \/ undoing' = [undoing EXCEPT ![t.by] = FALSE]
    BY <2>1 DEF End
  <2>3. recent' = [recent EXCEPT ![t.by] = recent[t.by] \cup Flashed(t)]
    BY <2>1 DEF End
  <2>4. recent[t.by] \cup Flashed(t) \in SUBSET Slot
    BY <1>2, <2>1
  <2>5. QED
    BY <2>1, <2>2, <2>3, <2>4
<1>4. UNCHANGED <<db, authors, raced, requests, reloads, inbox, connected, view, window, undoStack,
                  redoStack, asked, count>>
  BY DEF End, server, network
<1>5. tasks' \subseteq tasks
  BY DEF End
<1>6. Lengths'
  BY <1>4, LengthsStay DEF Typed
<1>7. QED
  BY <1>3, <1>4, <1>5, <1>6 DEF Typed, TypeOK

\* The first message: it is taken over or not.
LEMMA Taken ==
  ASSUME Typed, NEW b \in Browser, ReceiveMessage(b)
  PROVE  /\ inbox[b] \in Seq(Message) /\ inbox[b] # <<>> /\ Head(inbox[b]) \in Message
         /\ inbox' = [inbox EXCEPT ![b] = Tail(inbox[b])] /\ Tail(inbox[b]) \in Seq(Message)
         /\ \/ Ignored(b, Head(inbox[b])) /\ view' = view
            \/ /\ ~Ignored(b, Head(inbox[b]))
               /\ view' = [view EXCEPT ![b] =
                    [view[b] EXCEPT ![Head(inbox[b]).slot] = Head(inbox[b]).entry]]
         /\ view' \in [Browser -> Planning]
<1>1. inbox \in [Browser -> Seq(Message)] /\ view \in [Browser -> Planning]
  BY DEF Typed, TypeOK
<1>2. inbox[b] \in Seq(Message) /\ inbox[b] # <<>>
  BY <1>1 DEF ReceiveMessage
<1>3. PICK box : box = inbox[b]
  OBVIOUS
<1>4. box \in Seq(Message) /\ box # <<>>
  BY <1>2, <1>3
<1>5. Head(box) \in Message /\ Tail(box) \in Seq(Message)
  BY <1>4
<1>6. inbox' = [inbox EXCEPT ![b] = Tail(box)]
  BY <1>1, <1>3 DEF ReceiveMessage
<1>7. PICK m : m = Head(box)
  OBVIOUS
<1>8. m.slot \in Slot /\ m.entry \in Entry
  BY <1>5, <1>7 DEF Message
<1>9. PICK shown : shown = [view[b] EXCEPT ![m.slot] = m.entry]
  OBVIOUS
<1>10. shown \in Planning
  BY <1>1, <1>8, <1>9 DEF Planning
<1>11. (Ignored(b, m) /\ view' = view) \/ (~Ignored(b, m) /\ view' = [view EXCEPT ![b] = shown])
  BY <1>1, <1>3, <1>7, <1>9 DEF ReceiveMessage
<1>12. view' \in [Browser -> Planning]
  BY <1>1, <1>10, <1>11
<1>13. QED
  BY <1>2, <1>3, <1>5, <1>6, <1>7, <1>9, <1>11, <1>12

\* So does a message that comes.
LEMMA ReceiveMessageTyped ==
  ASSUME Typed, NEW b \in Browser, ReceiveMessage(b) PROVE Typed'
<1>1. inbox' \in [Browser -> Seq(Message)] /\ view' \in [Browser -> Planning]
  <2>1. inbox \in [Browser -> Seq(Message)]
    BY DEF Typed, TypeOK
  <2>2. /\ inbox' = [inbox EXCEPT ![b] = Tail(inbox[b])] /\ Tail(inbox[b]) \in Seq(Message)
        /\ view' \in [Browser -> Planning]
    BY Taken
  <2>3. PICK rest \in Seq(Message) : rest = Tail(inbox[b])
    BY <2>2
  <2>4. inbox' = [inbox EXCEPT ![b] = rest]
    BY <2>2, <2>3
  <2>5. QED
    BY <2>1, <2>2, <2>4
<1>2. UNCHANGED <<db, authors, raced, requests, reloads, connected, window, undoStack, redoStack,
                  undoing, recent, tasks, asked, count>>
  BY DEF ReceiveMessage, server
<1>3. Lengths'
  BY <1>2, LengthsStay DEF Typed
<1>4. QED
  BY <1>1, <1>2, <1>3 DEF Typed, TypeOK

\* So does a suppression that runs out.
LEMMA ExpireTyped ==
  ASSUME Typed, NEW b \in Browser, Expire(b) PROVE Typed'
<1>1. PICK k \in recent[b] : recent' = [recent EXCEPT ![b] = @ \ {k}]
  BY DEF Expire
<1>2. recent' \in [Browser -> SUBSET Slot]
  BY <1>1 DEF Typed, TypeOK
<1>3. UNCHANGED <<db, authors, raced, requests, reloads, inbox, connected, view, window, undoStack,
                  redoStack, undoing, tasks, asked, count>>
  BY DEF Expire, server, network
<1>4. Lengths'
  BY <1>3, LengthsStay DEF Typed
<1>5. QED
  BY <1>2, <1>3, <1>4 DEF Typed, TypeOK

\* So does a lost connection.
LEMMA DisconnectTyped ==
  ASSUME Typed, NEW b \in Browser, Disconnect(b) PROVE Typed'
<1>1. /\ count.losses < MaxLosses /\ count' = [count EXCEPT !.losses = @ + 1]
      /\ connected' = connected \ {b} /\ inbox' = [inbox EXCEPT ![b] = <<>>]
      /\ UNCHANGED <<db, authors, raced, requests, reloads, view, window, undoStack, redoStack,
                     undoing, recent, tasks, asked>>
  BY DEF Disconnect, server, browser
<1>2. count' \in Counts
  <2>1. count \in Counts
    BY DEF Typed, TypeOK, Counts
  <2>2. count.losses + 1 <= MaxLosses
    BY <1>1, <2>1, Bounds DEF Counts
  <2>3. QED
    BY <1>1, <2>1, <2>2, Counted
<1>3. inbox' \in [Browser -> Seq(Message)]
  BY <1>1 DEF Typed, TypeOK
<1>4. Lengths'
  BY <1>1, LengthsStay DEF Typed
<1>5. QED
  BY <1>1, <1>2, <1>3, <1>4 DEF Typed, TypeOK, Counts

\* And a new one.
LEMMA ReconnectTyped ==
  ASSUME Typed, NEW b \in Browser, Reconnect(b) PROVE Typed'
<1>1. /\ connected' = connected \cup {b}
      /\ UNCHANGED <<db, authors, raced, requests, reloads, inbox, view, window, undoStack,
                     redoStack, undoing, recent, tasks, asked, count>>
  BY DEF Reconnect, server, browser
<1>2. Lengths'
  BY <1>1, LengthsStay DEF Typed
<1>3. QED
  BY <1>1, <1>2 DEF Typed, TypeOK

\* The steps, one by one: what a proof about every step goes through.
LEMMA Steps ==
  ASSUME [Next]_vars
  PROVE  \/ \E b \in Browser : Edit(b)
         \/ \E b \in Browser : Undo(b)
         \/ \E b \in Browser : Redo(b)
         \/ \E b \in Browser : Scroll(b)
         \/ \E q \in requests : Store(q)
         \/ \E q \in requests : Tell(q)
         \/ \E q \in requests : Answer(q)
         \/ \E q \in requests : FailQuietly(q) \/ FailLoudly(q)
         \/ \E t \in tasks : AskReload(t)
         \/ \E t \in tasks : End(t)
         \/ \E l \in reloads : ServeReload(l)
         \/ \E l \in reloads : ReceiveReload(l)
         \/ \E b \in Browser : ReceiveMessage(b)
         \/ \E b \in Browser : Expire(b)
         \/ \E b \in Browser : Disconnect(b)
         \/ \E b \in Browser : Reconnect(b)
         \/ UNCHANGED vars
BY DEF Next, UserStep, ServerStep, BrowserStep, TasksOf

\* The types hold.
LEMMA AlwaysTyped == Spec => []Typed
<1>1. Typed /\ [Next]_vars => Typed'
  <2>1. SUFFICES ASSUME Typed, [Next]_vars PROVE Typed'
    OBVIOUS
  <2>2. CASE UNCHANGED vars
    <3>1. Lengths'
      BY <2>1, <2>2, LengthsStay DEF vars, Typed
    <3>2. QED
      BY <2>1, <2>2, <3>1 DEF vars, Typed, TypeOK
  <2>3. CASE \E b \in Browser : Edit(b) \/ Undo(b) \/ Redo(b) \/ Scroll(b)
    BY <2>1, <2>3, EditTyped, UndoTyped, RedoTyped, ScrollTyped
  <2>4. CASE \E q \in requests : \/ Store(q) \/ Tell(q) \/ Answer(q)
                                 \/ FailQuietly(q) \/ FailLoudly(q)
    BY <2>1, <2>4, StoreTyped, TellTyped, AnswerTyped, FailTyped
  <2>5. CASE \E t \in tasks : AskReload(t) \/ End(t)
    BY <2>1, <2>5, AskReloadTyped, EndTyped
  <2>6. CASE \E l \in reloads : ServeReload(l) \/ ReceiveReload(l)
    BY <2>1, <2>6, ServeReloadTyped, ReceiveReloadTyped
  <2>7. CASE \E b \in Browser : ReceiveMessage(b) \/ Expire(b) \/ Disconnect(b) \/ Reconnect(b)
    BY <2>1, <2>7, ReceiveMessageTyped, ExpireTyped, DisconnectTyped, ReconnectTyped
  <2>8. QED
    BY <2>1, <2>2, <2>3, <2>4, <2>5, <2>6, <2>7, Steps, Zenon
<1>2. QED
  BY InitTyped, <1>1, PTL DEF Spec

\* Every variable keeps its type; in particular the two stacks of a browser together
\* never hold more than UndoDepth snapshots, although redo pushes without making room
\* (app.js, pushUndo, undo and redo).
THEOREM TypeCorrect == Spec => []TypeOK
<1>1. Typed => TypeOK
  BY DEF Typed
<1>2. QED
  BY AlwaysTyped, <1>1, PTL

-----------------------------------------------------------------------------
(* Whose tasks, writes and reloads there are.                               *)

\* The counters that a new task leaves alone.
SameButTasks ==
  /\ count'.tasks = count.tasks + 1
  /\ count'.scrolls = count.scrolls /\ count'.failures = count.failures
  /\ count'.losses = count.losses

\* What edits, undos and redos have in common: a task with its writes, or nothing.
LEMMA Begins ==
  ASSUME Typed, NEW b \in Browser, Edit(b) \/ Undo(b) \/ Redo(b)
  PROVE  /\ CanStart(b) /\ SameButTasks
         /\ \/ \E type \in {"edit", "undo", "redo"}, snap \in Snapshot, S \in SUBSET Slot : \E to :
                 /\ tasks' = tasks \cup {NewTask(b, type, snap)} /\ NewTask(b, type, snap) \in Task
                 /\ requests' = requests \cup NewWrites(b, S, to)
                 /\ NewWrites(b, S, to) \subseteq Request
                 /\ undoing' = [undoing EXCEPT ![b] = @ \/ type # "edit"]
            \/ /\ tasks' = tasks /\ requests' = requests
               /\ undoing' = [undoing EXCEPT ![b] = FALSE]
         /\ UNCHANGED <<db, authors, raced, reloads, inbox, connected, view, window, recent>>
<1>1. count \in Counts
  BY DEF Typed, TypeOK, Counts
<1>2. count' = [count EXCEPT !.tasks = count.tasks + 1] => SameButTasks
  BY <1>1 DEF Counts, SameButTasks
<1>3. CASE Edit(b)
  <2>1. PICK S \in SUBSET Slot, e \in Entry :
          /\ CanStart(b) /\ count.tasks < MaxTasks /\ S \subseteq window[b]
          /\ Start(b, "edit", At(view[b], S), S, [k \in S |-> e])
          /\ UNCHANGED <<server, reloads, inbox, connected, view, window, recent>>
    BY <1>3, EditDoes
  <2>2. PICK snap, to : snap = At(view[b], S) /\ to = [k \in S |-> e]
    OBVIOUS
  <2>3. snap \in Snapshot /\ \A k \in S : to[k] \in Entry
    BY <2>2, Kept, Snapshots
  <2>4. Start(b, "edit", snap, S, to)
    BY <2>1, <2>2
  <2>5. /\ tasks' = tasks \cup {NewTask(b, "edit", snap)} /\ NewTask(b, "edit", snap) \in Task
        /\ requests' = requests \cup NewWrites(b, S, to) /\ NewWrites(b, S, to) \subseteq Request
        /\ undoing' = [undoing EXCEPT ![b] = @ \/ "edit" # "edit"]
        /\ count' = [count EXCEPT !.tasks = count.tasks + 1]
    <3>1. count.tasks < MaxTasks
      BY <2>1
    <3>2. Starts(b, "edit", snap, S, to)
      BY <2>3, <2>4, <3>1, Started
    <3>3. QED
      BY <3>2 DEF Starts
  <2>6. QED
    BY <1>2, <2>1, <2>3, <2>5 DEF server
<1>4. ASSUME NEW type \in {"undo", "redo"}, NEW snap \in Snapshot, CanStart(b),
             Restore(b, type, snap)
      PROVE  /\ SameButTasks
             /\ \/ \E S \in SUBSET Slot : \E to :
                     /\ tasks' = tasks \cup {NewTask(b, type, snap)}
                     /\ NewTask(b, type, snap) \in Task
                     /\ requests' = requests \cup NewWrites(b, S, to)
                     /\ NewWrites(b, S, to) \subseteq Request
                     /\ undoing' = [undoing EXCEPT ![b] = @ \/ type # "edit"]
                \/ /\ tasks' = tasks /\ requests' = requests
                   /\ undoing' = [undoing EXCEPT ![b] = FALSE]
  <2>1. Differs(b, snap) \in SUBSET Slot
    BY Snapshots DEF Differs
  <2>2. /\ \/ /\ tasks' = tasks \cup {NewTask(b, type, snap)}
              /\ NewTask(b, type, snap) \in Task
              /\ requests' = requests \cup NewWrites(b, Differs(b, snap), snap)
              /\ NewWrites(b, Differs(b, snap), snap) \subseteq Request
              /\ undoing' = [undoing EXCEPT ![b] = @ \/ type # "edit"]
           \/ /\ tasks' = tasks /\ requests' = requests
              /\ undoing' = [undoing EXCEPT ![b] = FALSE]
        /\ count' = [count EXCEPT !.tasks = count.tasks + 1]
    BY <1>4, Restored
  <2>3. QED
    BY <1>2, <2>1, <2>2
<1>5. CASE Undo(b)
  <2>1. PICK snap : snap = Last(undoStack[b])
    OBVIOUS
  <2>2. CanStart(b) /\ Restore(b, "undo", snap) /\ undoStack[b] # <<>>
    BY <1>5, <2>1, UndoDoes
  <2>3. snap \in Snapshot
    BY <2>1, <2>2, Kept, Popped
  <2>4. UNCHANGED <<server, reloads, inbox, connected, view, window, recent>>
    BY <1>5, UndoDoes
  <2>5. QED
    BY <1>4, <2>2, <2>3, <2>4 DEF server
<1>6. CASE Redo(b)
  <2>1. PICK snap : snap = Last(redoStack[b])
    OBVIOUS
  <2>2. CanStart(b) /\ Restore(b, "redo", snap) /\ redoStack[b] # <<>>
    BY <1>6, <2>1, RedoDoes
  <2>3. snap \in Snapshot
    BY <2>1, <2>2, Kept, Popped
  <2>4. UNCHANGED <<server, reloads, inbox, connected, view, window, recent>>
    BY <1>6, RedoDoes
  <2>5. QED
    BY <1>4, <2>2, <2>3, <2>4 DEF server
<1>7. QED
  BY <1>3, <1>5, <1>6

\* Tasks have numbers of their own, and a write belongs to the browser of its task.
TasksAreNumbered ==
  /\ \A t \in tasks : t.id <= count.tasks
  /\ \A q \in requests : q.task <= count.tasks
  /\ \A l \in reloads : l.task <= count.tasks
  /\ \A t, u \in tasks : t.id = u.id => t = u
  /\ \A q \in requests, t \in tasks : q.task = t.id => q.by = t.by

Owned == TasksAreNumbered /\ UndoingIsReset

\* The new task's number is new, and so are those of its writes.
LEMMA NewNumbers ==
  ASSUME Typed, NEW b \in Browser, NEW type, NEW snap, NEW S, NEW to
  PROVE  /\ count.tasks \in Nat
         /\ NewTask(b, type, snap).id = count.tasks + 1 /\ NewTask(b, type, snap).by = b
         /\ NewTask(b, type, snap).type = type /\ NewTask(b, type, snap).phase = "writing"
         /\ \A q \in NewWrites(b, S, to) : /\ q.task = count.tasks + 1 /\ q.by = b
                                           /\ q.slot \in S /\ q.entry = to[q.slot]
                                           /\ q.stage = "sent"
         /\ \A q, r \in NewWrites(b, S, to) : q.slot = r.slot => q = r
<1>1. count.tasks \in Nat
  BY Bounds DEF Typed, TypeOK
<1>2. PICK n : n = count.tasks + 1
  OBVIOUS
<1>3. NewTask(b, type, snap) =
        [id |-> n, by |-> b, type |-> type, snap |-> snap, phase |-> "writing"]
  BY <1>2 DEF NewTask
<1>4. \A q \in NewWrites(b, S, to) : \E k \in S :
        q = [task |-> n, by |-> b, slot |-> k, entry |-> to[k], stage |-> "sent"]
  BY <1>2 DEF NewWrites
<1>5. QED
  BY <1>1, <1>2, <1>3, <1>4

\* A new task owns its writes.
LEMMA UserOwned ==
  ASSUME Typed, Owned, NEW b \in Browser, Edit(b) \/ Undo(b) \/ Redo(b) PROVE Owned'
<1>1. /\ SameButTasks
      /\ \/ \E type \in {"edit", "undo", "redo"}, snap \in Snapshot, S \in SUBSET Slot : \E to :
              /\ tasks' = tasks \cup {NewTask(b, type, snap)} /\ NewTask(b, type, snap) \in Task
              /\ requests' = requests \cup NewWrites(b, S, to)
              /\ NewWrites(b, S, to) \subseteq Request
              /\ undoing' = [undoing EXCEPT ![b] = @ \/ type # "edit"]
         \/ /\ tasks' = tasks /\ requests' = requests
            /\ undoing' = [undoing EXCEPT ![b] = FALSE]
      /\ reloads' = reloads
  BY Begins
<1>2. /\ count.tasks \in Nat /\ count'.tasks = count.tasks + 1
      /\ tasks \subseteq Task /\ requests \subseteq Request /\ reloads \subseteq Reload
      /\ undoing \in [Browser -> BOOLEAN]
  BY <1>1, Bounds DEF Typed, TypeOK, SameButTasks
<1>3. /\ \A t \in tasks : t.id \in Nat /\ t.id <= count.tasks
      /\ \A q \in requests : q.task \in Nat /\ q.task <= count.tasks
      /\ \A l \in reloads : l.task \in Nat /\ l.task <= count.tasks
  BY <1>2, Bounds DEF Owned, TasksAreNumbered, Task, Request, Reload
<1>4. CASE /\ tasks' = tasks /\ requests' = requests
           /\ undoing' = [undoing EXCEPT ![b] = FALSE]
  <2>1. TasksAreNumbered'
    BY <1>1, <1>2, <1>3, <1>4 DEF Owned, TasksAreNumbered
  <2>2. \A c \in Browser : undoing'[c] => undoing[c]
    BY <1>2, <1>4
  <2>3. UndoingIsReset'
    BY <1>4, <2>2 DEF Owned, UndoingIsReset, TasksOf
  <2>4. QED
    BY <2>1, <2>3 DEF Owned
<1>5. CASE \E type \in {"edit", "undo", "redo"}, snap \in Snapshot, S \in SUBSET Slot : \E to :
              /\ tasks' = tasks \cup {NewTask(b, type, snap)} /\ NewTask(b, type, snap) \in Task
              /\ requests' = requests \cup NewWrites(b, S, to)
              /\ NewWrites(b, S, to) \subseteq Request
              /\ undoing' = [undoing EXCEPT ![b] = @ \/ type # "edit"]
  <2>1. PICK type, snap, S, to :
              /\ type \in {"edit", "undo", "redo"} /\ snap \in Snapshot /\ S \in SUBSET Slot
              /\ tasks' = tasks \cup {NewTask(b, type, snap)} /\ NewTask(b, type, snap) \in Task
              /\ requests' = requests \cup NewWrites(b, S, to)
              /\ NewWrites(b, S, to) \subseteq Request
              /\ undoing' = [undoing EXCEPT ![b] = @ \/ type # "edit"]
    BY <1>5
  <2>2. PICK new, writes, n :
          new = NewTask(b, type, snap) /\ writes = NewWrites(b, S, to) /\ n = count.tasks
    OBVIOUS
  <2>3. /\ new.id = n + 1 /\ new.by = b /\ new.type = type
        /\ \A q \in writes : q.task = n + 1 /\ q.by = b
    BY <2>2, NewNumbers
  <2>4. tasks' = tasks \cup {new} /\ requests' = requests \cup writes
    BY <2>1, <2>2
  <2>5. n \in Nat /\ count'.tasks = n + 1 /\ reloads' = reloads
    BY <1>1, <1>2, <2>2
  <2>6. /\ \A t \in tasks : t.id \in Nat /\ t.id <= n
        /\ \A q \in requests : q.task \in Nat /\ q.task <= n
        /\ \A l \in reloads : l.task \in Nat /\ l.task <= n
    BY <1>3, <2>2
  <2>7. TasksAreNumbered'
    <3>1. /\ \A t \in tasks' : t.id <= count'.tasks
          /\ \A q \in requests' : q.task <= count'.tasks
          /\ \A l \in reloads' : l.task <= count'.tasks
      BY <2>3, <2>4, <2>5, <2>6
    <3>2. \A t, u \in tasks' : t.id = u.id => t = u
      BY <2>3, <2>4, <2>5, <2>6 DEF Owned, TasksAreNumbered
    <3>3. \A q \in requests', t \in tasks' : q.task = t.id => q.by = t.by
      BY <2>3, <2>4, <2>5, <2>6 DEF Owned, TasksAreNumbered
    <3>4. QED
      BY <3>1, <3>2, <3>3 DEF TasksAreNumbered
  <2>8. UndoingIsReset'
    <3>1. ASSUME NEW c \in Browser, undoing'[c]
          PROVE  \E t \in tasks' : t.by = c /\ t.type # "edit"
      <4>1. undoing[c] \/ (c = b /\ type # "edit")
        BY <1>2, <2>1, <3>1
      <4>2. undoing[c] => \E t \in tasks : t.by = c /\ t.type # "edit"
        BY DEF Owned, UndoingIsReset, TasksOf
      <4>3. QED
        BY <2>3, <2>4, <4>1, <4>2
    <3>2. QED
      BY <3>1 DEF UndoingIsReset, TasksOf
  <2>9. QED
    BY <2>7, <2>8 DEF Owned
<1>6. QED
  BY <1>1, <1>4, <1>5

\* A write goes on: the number and the browser stay.
LEMMA WriteOwned ==
  ASSUME Typed, Owned, NEW q \in requests, Store(q) \/ Tell(q) PROVE Owned'
<1>1. PICK stage \in {"sent", "stored", "told"} : Advance(q, stage)
  BY DEF Store, Tell
<1>2. PICK r \in Request : /\ requests' = (requests \ {q}) \cup {r}
                           /\ r.task = q.task /\ r.by = q.by
  BY <1>1, Advanced
<1>3. /\ UNCHANGED <<tasks, reloads, undoing>> /\ count'.tasks = count.tasks
  BY DEF Store, Tell, browser, Typed, TypeOK
<1>4. TasksAreNumbered'
  BY <1>2, <1>3 DEF Owned, TasksAreNumbered
<1>5. QED
  BY <1>3, <1>4 DEF Owned, UndoingIsReset, TasksOf

\* An answered write leaves its task.
LEMMA AnswerOwned ==
  ASSUME Typed, Owned, NEW q \in requests, Answer(q) PROVE Owned'
<1>1. requests' \subseteq requests /\ UNCHANGED <<tasks, reloads, undoing, count>>
  BY DEF Answer, browser
<1>2. QED
  BY <1>1 DEF Owned, TasksAreNumbered, UndoingIsReset, TasksOf

\* A throw ends the task, and takes State.undoing back.
LEMMA FailOwned ==
  ASSUME Typed, Owned, NEW q \in requests, FailQuietly(q) \/ FailLoudly(q) PROVE Owned'
<1>1. /\ requests' \subseteq requests /\ tasks' \subseteq tasks /\ reloads' = reloads
      /\ count'.tasks = count.tasks
  BY DEF FailQuietly, FailLoudly, Fail, browser, Typed, TypeOK
<1>2. TasksAreNumbered'
  BY <1>1 DEF Owned, TasksAreNumbered
<1>3. CASE FailQuietly(q)
  BY <1>2, <1>3 DEF FailQuietly, browser, Owned, UndoingIsReset, TasksOf
<1>4. CASE FailLoudly(q)
  <2>1. ASSUME NEW c \in Browser, undoing'[c]
        PROVE  \E t \in tasks' : t.by = c /\ t.type # "edit"
    <3>1. undoing \in [Browser -> BOOLEAN]
      BY DEF Typed, TypeOK
    <3>2. /\ tasks' = {t \in tasks : t.id # q.task}
          /\ undoing' = IF \E t \in tasks : t.id = q.task /\ t.type # "edit"
                        THEN [undoing EXCEPT ![q.by] = FALSE] ELSE undoing
      BY <1>4 DEF FailLoudly, AfterThrow
    <3>3. undoing[c]
      BY <2>1, <3>1, <3>2
    <3>4. PICK t \in tasks : t.by = c /\ t.type # "edit"
      BY <3>3 DEF Owned, UndoingIsReset, TasksOf
    <3>5. CASE t.id = q.task
      <4>1. q.by = c
        BY <3>4, <3>5 DEF Owned, TasksAreNumbered
      <4>2. ~undoing'[c]
        BY <3>1, <3>2, <3>4, <3>5, <4>1
      <4>3. QED
        BY <2>1, <4>2
    <3>6. CASE t.id # q.task
      BY <3>2, <3>4, <3>6
    <3>7. QED
      BY <3>5, <3>6
  <2>2. QED
    BY <1>2, <2>1 DEF Owned, UndoingIsReset, TasksOf
<1>5. QED
  BY <1>3, <1>4

\* A reload has the number of its task.
LEMMA AskReloadOwned ==
  ASSUME Typed, Owned, NEW t \in tasks, AskReload(t) PROVE Owned'
<1>1. PICK u \in Task : /\ u = [t EXCEPT !.phase = "reloading"] /\ t \in Task
                        /\ u.id = t.id /\ u.by = t.by /\ u.type = t.type
  BY Rephased
<1>2. tasks' = (tasks \ {t}) \cup {u}
  BY <1>1 DEF AskReload, Phase
<1>3. PICK l : l = NewReload(t.id, t.by, window[t.by])
  OBVIOUS
<1>4. l.task = t.id /\ reloads' = reloads \cup {l}
  BY <1>3 DEF AskReload, NewReload
<1>5. UNCHANGED <<requests, undoing, count>>
  BY DEF AskReload
<1>6. TasksAreNumbered'
  <2>1. \A v \in tasks' : \E w \in tasks : v.id = w.id /\ v.by = w.by /\ (w # t => v = w)
    BY <1>1, <1>2
  <2>2. /\ \A v \in tasks' : v.id <= count'.tasks
        /\ \A q \in requests', v \in tasks' : q.task = v.id => q.by = v.by
    BY <1>5, <2>1 DEF Owned, TasksAreNumbered
  <2>3. \A v, w \in tasks' : v.id = w.id => v = w
    <3>1. \A v \in tasks' : v = u \/ (v \in tasks /\ v # t)
      BY <1>2
    <3>2. \A v \in tasks : v.id = u.id => v = t
      BY <1>1 DEF Owned, TasksAreNumbered
    <3>3. \A v, w \in tasks : v.id = w.id => v = w
      BY DEF Owned, TasksAreNumbered
    <3>4. QED
      BY <3>1, <3>2, <3>3
  <2>4. \A r \in reloads' : r.task <= count'.tasks
    BY <1>4, <1>5 DEF Owned, TasksAreNumbered
  <2>5. QED
    BY <1>5, <2>2, <2>3, <2>4 DEF Owned, TasksAreNumbered
<1>7. UndoingIsReset'
  BY <1>1, <1>2, <1>5 DEF Owned, UndoingIsReset, TasksOf
<1>8. QED
  BY <1>6, <1>7 DEF Owned

\* An undo or a redo that ends resets State.undoing.
LEMMA EndOwned ==
  ASSUME Typed, Owned, NEW t \in tasks, End(t) PROVE Owned'
<1>1. tasks' = tasks \ {t} /\ UNCHANGED <<requests, reloads, count>>
  BY DEF End, network
<1>2. TasksAreNumbered'
  BY <1>1 DEF Owned, TasksAreNumbered
<1>3. undoing \in [Browser -> BOOLEAN] /\ t.by \in Browser
  BY DEF Typed, TypeOK, Task
<1>4. ASSUME NEW c \in Browser, undoing'[c]
      PROVE  \E u \in tasks' : u.by = c /\ u.type # "edit"
  <2>1. undoing[c] /\ (c = t.by => t.type = "edit")
    BY <1>3, <1>4 DEF End
  <2>2. PICK u \in tasks : u.by = c /\ u.type # "edit"
    BY <2>1 DEF Owned, UndoingIsReset, TasksOf
  <2>3. u # t
    BY <2>1, <2>2
  <2>4. QED
    BY <1>1, <2>2, <2>3
<1>5. QED
  BY <1>2, <1>4 DEF Owned, UndoingIsReset, TasksOf

\* Reloads of their own have number 0.
LEMMA ReloadOwned ==
  ASSUME Typed, Owned,
         \/ \E b \in Browser : Scroll(b)
         \/ \E l \in reloads : ServeReload(l)
  PROVE  Owned'
<1>1. /\ UNCHANGED <<requests, tasks, undoing>> /\ count'.tasks = count.tasks
  BY DEF Scroll, ServeReload, browser, Typed, TypeOK
<1>2. \A l \in reloads' : l.task <= count'.tasks
  <2>1. CASE \E b \in Browser : Scroll(b)
    <3>1. PICK b \in Browser, w \in Window : reloads' = reloads \cup {NewReload(0, b, w)}
      BY <2>1 DEF Scroll, NewReload
    <3>2. NewReload(0, b, w).task = 0
      BY DEF NewReload
    <3>3. count.tasks \in Nat
      BY Bounds DEF Typed, TypeOK
    <3>4. PICK r : r = NewReload(0, b, w)
      OBVIOUS
    <3>5. r.task = 0 /\ reloads' = reloads \cup {r} /\ 0 <= count.tasks
      BY <3>1, <3>2, <3>3, <3>4
    <3>6. QED
      BY <1>1, <3>5 DEF Owned, TasksAreNumbered
  <2>2. CASE \E l \in reloads : ServeReload(l)
    <3>1. PICK l \in reloads, r \in Reload :
            r.task = l.task /\ reloads' = (reloads \ {l}) \cup {r}
      BY <2>2, Served
    <3>2. QED
      BY <1>1, <3>1 DEF Owned, TasksAreNumbered
  <2>3. QED
    BY <2>1, <2>2
<1>3. TasksAreNumbered'
  BY <1>1, <1>2 DEF Owned, TasksAreNumbered
<1>4. QED
  BY <1>1, <1>3 DEF Owned, UndoingIsReset, TasksOf

\* A reload that comes changes the phase of its task only.
LEMMA ReceiveReloadOwned ==
  ASSUME Typed, Owned, NEW l \in reloads, ReceiveReload(l) PROVE Owned'
<1>1. /\ \A u \in tasks' : \E t \in tasks : GoesOn(t, u, l)
      /\ \A t \in tasks : \E u \in tasks' : GoesOn(t, u, l)
  BY Received
<1>2. reloads' \subseteq reloads /\ UNCHANGED <<requests, undoing, count>>
  BY DEF ReceiveReload
<1>3. \A t, u \in tasks' : t.id = u.id => t = u
  <2>1. SUFFICES ASSUME NEW t \in tasks', NEW u \in tasks', t.id = u.id PROVE t = u
    OBVIOUS
  <2>2. tasks' = {IF v.id = l.task THEN [v EXCEPT !.phase = "ending"] ELSE v : v \in tasks}
    BY DEF ReceiveReload
  <2>3. PICK v \in tasks, w \in tasks :
          /\ t = IF v.id = l.task THEN [v EXCEPT !.phase = "ending"] ELSE v
          /\ u = IF w.id = l.task THEN [w EXCEPT !.phase = "ending"] ELSE w
    BY <2>2
  <2>4. t.id = v.id /\ u.id = w.id
    BY <2>3 DEF Typed, TypeOK, Task
  <2>5. v = w
    BY <2>1, <2>4 DEF Owned, TasksAreNumbered
  <2>6. QED
    BY <2>3, <2>5
<1>4. TasksAreNumbered'
  BY <1>1, <1>2, <1>3 DEF Owned, TasksAreNumbered, GoesOn
<1>5. UndoingIsReset'
  BY <1>1, <1>2 DEF Owned, UndoingIsReset, TasksOf, GoesOn
<1>6. QED
  BY <1>4, <1>5 DEF Owned

\* What is under way is owned.
LEMMA AlwaysOwned == Spec => []Owned
<1>1. Init => Owned
  BY DEF Init, Owned, TasksAreNumbered, UndoingIsReset
<1>2. Typed /\ Owned /\ [Next]_vars => Owned'
  <2>1. SUFFICES ASSUME Typed, Owned, [Next]_vars PROVE Owned'
    OBVIOUS
  <2>2. CASE \/ UNCHANGED vars
             \/ \E b \in Browser : \/ ReceiveMessage(b) \/ Expire(b)
                                   \/ Disconnect(b) \/ Reconnect(b)
    <3>1. UNCHANGED <<requests, reloads, tasks, undoing>> /\ count'.tasks = count.tasks
      BY <2>1, <2>2
         DEF vars, ReceiveMessage, Expire, Disconnect, Reconnect, server, network, browser,
             Typed, TypeOK
    <3>2. QED
      BY <2>1, <3>1 DEF Owned, TasksAreNumbered, UndoingIsReset, TasksOf
  <2>3. CASE \E b \in Browser : Edit(b) \/ Undo(b) \/ Redo(b)
    BY <2>1, <2>3, UserOwned
  <2>4. CASE \E q \in requests : \/ Store(q) \/ Tell(q) \/ Answer(q)
                                 \/ FailQuietly(q) \/ FailLoudly(q)
    BY <2>1, <2>4, WriteOwned, AnswerOwned, FailOwned
  <2>5. CASE \E t \in tasks : AskReload(t) \/ End(t)
    BY <2>1, <2>5, AskReloadOwned, EndOwned
  <2>6. CASE \/ \E b \in Browser : Scroll(b)
             \/ \E l \in reloads : ServeReload(l)
    BY <2>1, <2>6, ReloadOwned
  <2>7. CASE \E l \in reloads : ReceiveReload(l)
    BY <2>1, <2>7, ReceiveReloadOwned
  <2>8. QED
    BY <2>1, <2>2, <2>3, <2>4, <2>5, <2>6, <2>7, Steps, Zenon
<1>3. QED
  BY AlwaysTyped, <1>1, <1>2, PTL DEF Spec

\* State.undoing is set only while an undo or a redo of this browser is under way,
\* also when one of its writes throws (app.js, undo and redo, the finally).
THEOREM UndoingEnds == Spec => []UndoingIsReset
<1>1. Owned => UndoingIsReset
  BY DEF Owned
<1>2. QED
  BY AlwaysOwned, <1>1, PTL

-----------------------------------------------------------------------------
(* Whoever only watches.                                                    *)

\* The write q is stored in half-day k, and nobody was told.
Untold(q, k) == q.slot = k /\ q.stage = "stored"

\* The i-th message is the last one about half-day k.
IsLast(box, i, k) == box[i].slot = k /\ \A j \in DOMAIN box : j > i => box[j].slot # k

\* A browser that never started a task has nothing under way and ignores nothing.
WatchersDoNothing ==
  \A b \in Browser : Watcher(b) =>
    /\ TasksOf(b) = {} /\ ~undoing[b] /\ recent[b] = {}
    /\ count.scrolls = 0 => \A l \in reloads : l.by # b

AllConnected == count.losses = 0 => connected = Browser

\* Without a race there is one untold write in a half-day, and the database holds it.
OneUntold ==
  \A k \in Slot \ raced : \A q, r \in requests : Untold(q, k) /\ Untold(r, k) => q = r
UntoldIsStored == \A k \in Slot \ raced : \A q \in requests : Untold(q, k) => db[k] = q.entry

\* Everyone was told: the last message about a half-day, or the view if there is none,
\* has what the database holds.
Arrives(b, k) ==
  /\ \A i \in DOMAIN inbox[b] : IsLast(inbox[b], i, k) => inbox[b][i].entry = db[k]
  /\ (\A i \in DOMAIN inbox[b] : inbox[b][i].slot # k) => view[b][k] = db[k]
NewsArrive ==
  count.losses = 0 /\ count.scrolls = 0 =>
    \A b \in Browser, k \in Slot \ raced :
      Watcher(b) /\ (\A q \in requests : ~Untold(q, k)) => Arrives(b, k)

News == AllConnected /\ OneUntold /\ UntoldIsStored /\ NewsArrive
Watched == WatchersDoNothing /\ News

\* Steps that leave the untold writes, the messages and what watchers see alone.
LEMMA NewsStay ==
  ASSUME Typed, News, connected \subseteq connected', connected' \subseteq Browser,
         count'.losses = count.losses, count'.scrolls = 0 => count.scrolls = 0,
         \A q \in requests' : q.stage = "stored" => q \in requests,
         \A q \in requests : q.stage = "stored" => q \in requests',
         UNCHANGED <<db, raced, inbox>>,
         \A b \in Browser : count'.scrolls = 0 /\ Watcher(b)' => Watcher(b) /\ view'[b] = view[b]
  PROVE  News'
<1>1. AllConnected'
  BY DEF News, AllConnected
<1>2. OneUntold'
  BY DEF News, OneUntold, Untold
<1>3. UntoldIsStored'
  BY DEF News, UntoldIsStored, Untold
<1>4. NewsArrive'
  <2>1. SUFFICES ASSUME count'.losses = 0, count'.scrolls = 0,
                        NEW b \in Browser, NEW k \in Slot \ raced, Watcher(b)',
                        \A q \in requests' : ~Untold(q, k)
                 PROVE  Arrives(b, k)'
    BY DEF NewsArrive, Untold
  <2>2. Watcher(b) /\ view'[b] = view[b]
    BY <2>1
  <2>3. \A q \in requests : ~Untold(q, k)
    BY <2>1 DEF Untold
  <2>4. Arrives(b, k)
    BY <2>1, <2>2, <2>3 DEF News, NewsArrive
  <2>5. QED
    BY <2>2, <2>4 DEF Arrives
<1>5. QED
  BY <1>1, <1>2, <1>3, <1>4 DEF News

\* Whoever starts a task does not watch, from then on.
LEMMA UsersDoNotWatch ==
  ASSUME Typed, NEW b \in Browser, Edit(b) \/ Undo(b) \/ Redo(b)
  PROVE  /\ undoStack'[b] # <<>> \/ redoStack'[b] # <<>>
         /\ \A c \in Browser \ {b} : undoStack'[c] = undoStack[c] /\ redoStack'[c] = redoStack[c]
<1>1. undoStack \in [Browser -> Seq(Snapshot)] /\ redoStack \in [Browser -> Seq(Snapshot)]
  BY DEF Typed, TypeOK
<1>2. view[b] \in Planning /\ window[b] \subseteq Slot
  BY Kept
<1>3. CASE Edit(b)
  <2>1. PICK S \in SUBSET Slot :
          /\ undoStack' = [undoStack EXCEPT ![b] = PushBounded(undoStack[b], At(view[b], S))]
          /\ redoStack' = [redoStack EXCEPT ![b] = <<>>]
    BY <1>3, EditDoes
  <2>2. PICK old, snap : old = undoStack[b] /\ snap = At(view[b], S)
    OBVIOUS
  <2>3. old \in Seq(Snapshot) /\ Len(old) <= UndoDepth /\ snap \in Snapshot
    BY <1>2, <2>2, Kept, Snapshots
  <2>4. PushBounded(old, snap) \in Seq(Snapshot) /\ Len(PushBounded(old, snap)) \in 1..UndoDepth
    BY <2>3, PushedBounded
  <2>5. PushBounded(old, snap) # <<>>
    BY <2>4, Bounds
  <2>6. QED
    BY <1>1, <2>1, <2>2, <2>5
<1>4. CASE Undo(b)
  <2>1. /\ undoStack[b] # <<>>
        /\ undoStack' = [undoStack EXCEPT ![b] = Front(undoStack[b])]
        /\ redoStack' = [redoStack EXCEPT ![b] =
             Append(redoStack[b], At(view[b], DOMAIN Last(undoStack[b])))]
    BY <1>4, UndoDoes
  <2>2. PICK old, snap : old = redoStack[b] /\ snap = At(view[b], DOMAIN Last(undoStack[b]))
    OBVIOUS
  <2>3. old \in Seq(Snapshot)
    BY <1>1, <2>2
  <2>4. Append(old, snap) # <<>>
    <3>1. Len(Append(old, snap)) = Len(old) + 1 /\ Len(old) \in Nat
      BY <2>3
    <3>2. Len(Append(old, snap)) # 0
      BY <3>1
    <3>3. QED
      BY <3>2
  <2>5. QED
    BY <1>1, <2>1, <2>2, <2>4
<1>5. CASE Redo(b)
  <2>1. /\ redoStack[b] # <<>>
        /\ redoStack' = [redoStack EXCEPT ![b] = Front(redoStack[b])]
        /\ undoStack' = [undoStack EXCEPT ![b] =
             Append(undoStack[b], At(view[b], DOMAIN Last(redoStack[b])))]
    BY <1>5, RedoDoes
  <2>2. PICK old, snap : old = undoStack[b] /\ snap = At(view[b], DOMAIN Last(redoStack[b]))
    OBVIOUS
  <2>3. old \in Seq(Snapshot)
    BY <1>1, <2>2
  <2>4. Append(old, snap) # <<>>
    <3>1. Len(Append(old, snap)) = Len(old) + 1 /\ Len(old) \in Nat
      BY <2>3
    <3>2. Len(Append(old, snap)) # 0
      BY <3>1
    <3>3. QED
      BY <3>2
  <2>5. QED
    BY <1>1, <2>1, <2>2, <2>4
<1>6. QED
  BY <1>3, <1>4, <1>5

\* Steps of users send nothing to watchers, and users do not watch.
LEMMA UserWatched ==
  ASSUME Typed, Watched, NEW b \in Browser, Edit(b) \/ Undo(b) \/ Redo(b) PROVE Watched'
<1>1. /\ SameButTasks
      /\ \/ \E type \in {"edit", "undo", "redo"}, snap \in Snapshot, S \in SUBSET Slot : \E to :
              /\ tasks' = tasks \cup {NewTask(b, type, snap)} /\ NewTask(b, type, snap) \in Task
              /\ requests' = requests \cup NewWrites(b, S, to)
              /\ NewWrites(b, S, to) \subseteq Request
              /\ undoing' = [undoing EXCEPT ![b] = @ \/ type # "edit"]
         \/ /\ tasks' = tasks /\ requests' = requests
            /\ undoing' = [undoing EXCEPT ![b] = FALSE]
      /\ UNCHANGED <<db, authors, raced, reloads, inbox, connected, view, window, recent>>
  BY Begins
<1>2. \A c \in Browser : Watcher(c)' => c # b /\ Watcher(c)
  BY UsersDoNotWatch DEF Watcher
<1>3. undoing \in [Browser -> BOOLEAN] /\ connected \subseteq Browser
  BY DEF Typed, TypeOK
<1>4. /\ requests \subseteq requests'
      /\ \A q \in requests' : q \in requests \/ q.stage = "sent"
      /\ \A t \in tasks' : t \in tasks \/ t.by = b
      /\ \A c \in Browser \ {b} : undoing'[c] = undoing[c]
  <2>1. CASE /\ tasks' = tasks /\ requests' = requests
             /\ undoing' = [undoing EXCEPT ![b] = FALSE]
    BY <1>3, <2>1
  <2>2. CASE \E type \in {"edit", "undo", "redo"}, snap \in Snapshot, S \in SUBSET Slot : \E to :
              /\ tasks' = tasks \cup {NewTask(b, type, snap)} /\ NewTask(b, type, snap) \in Task
              /\ requests' = requests \cup NewWrites(b, S, to)
              /\ NewWrites(b, S, to) \subseteq Request
              /\ undoing' = [undoing EXCEPT ![b] = @ \/ type # "edit"]
    <3>1. PICK type, snap, S, to :
              /\ type \in {"edit", "undo", "redo"} /\ snap \in Snapshot /\ S \in SUBSET Slot
              /\ tasks' = tasks \cup {NewTask(b, type, snap)} /\ NewTask(b, type, snap) \in Task
              /\ requests' = requests \cup NewWrites(b, S, to)
              /\ NewWrites(b, S, to) \subseteq Request
              /\ undoing' = [undoing EXCEPT ![b] = @ \/ type # "edit"]
      BY <2>2
    <3>2. PICK new, writes : new = NewTask(b, type, snap) /\ writes = NewWrites(b, S, to)
      OBVIOUS
    <3>3. new.by = b /\ \A q \in writes : q.stage = "sent"
      BY <3>2, NewNumbers
    <3>4. QED
      BY <1>3, <3>1, <3>2, <3>3
  <2>3. QED
    BY <1>1, <2>1, <2>2
<1>5. WatchersDoNothing'
  BY <1>1, <1>2, <1>4 DEF Watched, WatchersDoNothing, TasksOf, SameButTasks
<1>6. News'
  BY <1>1, <1>2, <1>3, <1>4, NewsStay DEF Watched, SameButTasks
<1>7. QED
  BY <1>5, <1>6 DEF Watched

\* Steps that store nothing, tell nobody and show nothing.
LEMMA OthersWatched ==
  ASSUME Typed, Owned, Watched,
         \/ \E q \in requests : Answer(q) \/ FailQuietly(q) \/ FailLoudly(q)
         \/ \E t \in tasks : AskReload(t) \/ End(t)
         \/ \E b \in Browser : Scroll(b) \/ Expire(b) \/ Reconnect(b)
         \/ \E l \in reloads : ServeReload(l)
         \/ UNCHANGED vars
  PROVE  Watched'
<1>1. /\ undoing \in [Browser -> BOOLEAN] /\ recent \in [Browser -> SUBSET Slot]
      /\ connected \subseteq Browser /\ tasks \subseteq Task /\ requests \subseteq Request
      /\ count.scrolls \in Nat /\ count.losses \in Nat
      /\ count \in Counts
  BY Bounds DEF Typed, TypeOK, Counts
<1>2. /\ UNCHANGED <<db, raced, inbox, view, undoStack, redoStack>>
      /\ connected \subseteq connected' /\ connected' \subseteq Browser
      /\ requests' \subseteq requests
      /\ \A q \in requests : q.stage = "stored" => q \in requests'
      /\ count'.losses = count.losses /\ (count'.scrolls = 0 => count.scrolls = 0)
  <2>1. CASE \E q \in requests : Answer(q) \/ FailQuietly(q) \/ FailLoudly(q)
    BY <1>1, <2>1 DEF Answer, FailQuietly, FailLoudly, Fail, server, browser, Counts
  <2>2. CASE \E t \in tasks : AskReload(t) \/ End(t)
    BY <1>1, <2>2 DEF AskReload, End, server, network
  <2>3. CASE \E b \in Browser : Scroll(b) \/ Expire(b) \/ Reconnect(b)
    BY <1>1, <2>3 DEF Scroll, Expire, Reconnect, server, network, browser, Counts
  <2>4. CASE \E l \in reloads : ServeReload(l)
    BY <1>1, <2>4 DEF ServeReload, server, browser
  <2>5. CASE UNCHANGED vars
    BY <1>1, <2>5 DEF vars
  <2>6. QED
    BY <2>1, <2>2, <2>3, <2>4, <2>5
<1>3. News'
  BY <1>2, NewsStay DEF Watched, Watcher
<1>4. \A b \in Browser : Watcher(b)' = Watcher(b)
  BY <1>2 DEF Watcher
<1>5. ASSUME NEW b \in Browser, Watcher(b)
      PROVE  /\ \A t \in tasks' : t.by # b
             /\ ~undoing'[b] /\ recent'[b] = {}
             /\ count'.scrolls = 0 => \A l \in reloads' : l.by # b
  <2>1. /\ \A t \in tasks : t.by # b
        /\ ~undoing[b] /\ recent[b] = {}
        /\ count.scrolls = 0 => \A l \in reloads : l.by # b
    BY <1>5 DEF Watched, WatchersDoNothing, TasksOf
  <2>2. CASE \E q \in requests : Answer(q) \/ FailQuietly(q) \/ FailLoudly(q)
    <3>1. /\ tasks' \subseteq tasks /\ UNCHANGED <<recent, reloads>>
          /\ count'.scrolls = count.scrolls
      BY <1>1, <2>2 DEF Answer, FailQuietly, FailLoudly, Fail, browser, Counts
    <3>2. undoing'[b] => undoing[b]
      <4>1. undoing' = undoing \/ \E c : undoing' = [undoing EXCEPT ![c] = FALSE]
        BY <2>2 DEF Answer, FailQuietly, FailLoudly, AfterThrow, browser
      <4>2. QED
        BY <1>1, <4>1
    <3>3. QED
      BY <2>1, <3>1, <3>2
  <2>3. CASE \E t \in tasks : AskReload(t)
    <3>1. PICK t \in tasks : AskReload(t)
      BY <2>3
    <3>2. PICK u \in Task : u = [t EXCEPT !.phase = "reloading"] /\ u.by = t.by
      BY <3>1, Rephased
    <3>3. PICK l : l = NewReload(t.id, t.by, window[t.by])
      OBVIOUS
    <3>4. /\ tasks' = (tasks \ {t}) \cup {u} /\ l.by = t.by /\ reloads' = reloads \cup {l}
          /\ UNCHANGED <<undoing, recent, count>>
      BY <3>1, <3>2, <3>3 DEF AskReload, Phase, NewReload
    <3>5. QED
      BY <2>1, <3>2, <3>4
  <2>4. CASE \E t \in tasks : End(t)
    <3>1. PICK t \in tasks : End(t)
      BY <2>4
    <3>2. t.by # b
      BY <2>1
    <3>3. undoing'[b] = undoing[b] /\ recent'[b] = recent[b]
      BY <1>1, <3>1, <3>2 DEF End
    <3>4. tasks' \subseteq tasks /\ UNCHANGED <<reloads, count>>
      BY <3>1 DEF End, network
    <3>5. QED
      BY <2>1, <3>3, <3>4
  <2>5. CASE \E c \in Browser : Scroll(c)
    BY <1>1, <2>1, <2>5 DEF Scroll, Counts
  <2>6. CASE \E c \in Browser : Expire(c) \/ Reconnect(c)
    <3>1. UNCHANGED <<tasks, reloads, undoing, count>> /\ recent'[b] \subseteq recent[b]
      BY <1>1, <2>6 DEF Expire, Reconnect, network, browser
    <3>2. QED
      BY <2>1, <3>1
  <2>7. CASE \E l \in reloads : ServeReload(l)
    <3>1. PICK l \in reloads : ServeReload(l)
      BY <2>7
    <3>2. PICK r \in Reload : r.by = l.by /\ reloads' = (reloads \ {l}) \cup {r}
      BY <3>1, Served
    <3>3. UNCHANGED <<tasks, undoing, recent, count>>
      BY <3>1 DEF ServeReload, browser
    <3>4. QED
      BY <2>1, <3>2, <3>3
  <2>8. CASE UNCHANGED vars
    BY <2>1, <2>8 DEF vars
  <2>9. QED
    BY <2>2, <2>3, <2>4, <2>5, <2>6, <2>7, <2>8
<1>6. WatchersDoNothing'
  BY <1>4, <1>5 DEF WatchersDoNothing, TasksOf
<1>7. QED
  BY <1>3, <1>6 DEF Watched

\* A write that is stored is untold, and the only one of its half-day without a race.
LEMMA StoreWatched ==
  ASSUME Typed, Watched, NEW q \in requests, Store(q) PROVE Watched'
<1>1. PICK r \in Request :
        /\ requests' = (requests \ {q}) \cup {r} /\ q \in Request
        /\ r.task = q.task /\ r.by = q.by /\ r.slot = q.slot /\ r.entry = q.entry
        /\ r.stage = "stored"
  BY Advanced DEF Store
<1>2. PICK s : s = q.slot
  OBVIOUS
<1>3. /\ q.stage = "sent" /\ s \in Slot
      /\ db' = [db EXCEPT ![s] = q.entry]
      /\ raced \subseteq raced'
      /\ (\E o \in requests : o.slot = s /\ o.stage = "stored") => s \in raced'
      /\ UNCHANGED <<reloads, inbox, connected, view, window, undoStack, redoStack, undoing, recent,
                     tasks, asked, count>>
  BY <1>1, <1>2 DEF Store, browser, Request
<1>4. db \in [Slot -> Entry]
  BY DEF Typed, TypeOK, Planning
<1>5. db'[s] = q.entry /\ \A k \in Slot \ {s} : db'[k] = db[k]
  BY <1>3, <1>4
<1>6. /\ \A k \in Slot, o \in requests' : Untold(o, k) /\ o # r => o \in requests
      /\ \A k \in Slot \ {s}, o \in requests : Untold(o, k) => o \in requests'
      /\ \A k \in Slot \ {s} : ~Untold(r, k)
      /\ Untold(r, s)
  BY <1>1, <1>2, <1>3 DEF Untold
<1>7. \A o \in requests : Untold(o, s) => s \in raced'
  BY <1>3 DEF Untold
<1>8. WatchersDoNothing'
  BY <1>3 DEF Watched, WatchersDoNothing, Watcher, TasksOf
<1>9. AllConnected'
  BY <1>3 DEF Watched, News, AllConnected
<1>10. OneUntold'
  <2>1. SUFFICES ASSUME NEW k \in Slot \ raced', NEW o \in requests', NEW p \in requests',
                        Untold(o, k), Untold(p, k)
                 PROVE  o = p
    BY DEF OneUntold, Untold
  <2>2. k \in Slot \ raced
    BY <1>3
  <2>3. CASE k = s
    BY <1>6, <1>7, <2>1, <2>3
  <2>4. CASE k # s
    BY <1>6, <2>1, <2>2, <2>4 DEF Watched, News, OneUntold
  <2>5. QED
    BY <2>3, <2>4
<1>11. UntoldIsStored'
  <2>1. SUFFICES ASSUME NEW k \in Slot \ raced', NEW o \in requests', Untold(o, k)
                 PROVE  db'[k] = o.entry
    BY DEF UntoldIsStored, Untold
  <2>2. k \in Slot \ raced
    BY <1>3
  <2>3. CASE k = s
    BY <1>1, <1>5, <1>6, <1>7, <2>1, <2>3
  <2>4. CASE k # s
    BY <1>5, <1>6, <2>1, <2>2, <2>4 DEF Watched, News, UntoldIsStored
  <2>5. QED
    BY <2>3, <2>4
<1>12. NewsArrive'
  <2>1. SUFFICES ASSUME count'.losses = 0, count'.scrolls = 0,
                        NEW b \in Browser, NEW k \in Slot \ raced', Watcher(b)',
                        \A o \in requests' : ~Untold(o, k)
                 PROVE  Arrives(b, k)'
    BY DEF NewsArrive, Untold
  <2>2. k # s /\ k \in Slot \ raced
    BY <1>1, <1>3, <1>6, <2>1
  <2>3. Watcher(b) /\ \A o \in requests : ~Untold(o, k)
    BY <1>3, <1>6, <2>1, <2>2 DEF Watcher
  <2>4. Arrives(b, k)
    BY <1>3, <2>1, <2>2, <2>3 DEF Watched, News, NewsArrive
  <2>5. inbox' = inbox /\ view' = view /\ db'[k] = db[k]
    BY <1>3, <1>5, <2>2
  <2>6. QED
    BY <2>4, <2>5 DEF Arrives
<1>13. QED
  BY <1>8, <1>9, <1>10, <1>11, <1>12 DEF Watched, News

\* What the last message about half-day k is when m comes after those of box.
LongerBy(box, m, longer, k) ==
  /\ m.slot = k => /\ \A i \in DOMAIN longer : IsLast(longer, i, k) => longer[i] = m
                   /\ ~\A i \in DOMAIN longer : longer[i].slot # k
  /\ m.slot # k =>
       /\ \A i \in DOMAIN longer : IsLast(longer, i, k) =>
            i \in DOMAIN box /\ longer[i] = box[i] /\ IsLast(box, i, k)
       /\ (\A i \in DOMAIN longer : longer[i].slot # k) => \A i \in DOMAIN box : box[i].slot # k

\* Of the messages of a longer box, the new one is the last.
LEMMA AppendedIsLast ==
  ASSUME NEW box \in Seq(Message), NEW m \in Message, NEW k,
         NEW longer, longer = Append(box, m)
  PROVE  LongerBy(box, m, longer, k)
<1>1. PICK n : n = Len(box) + 1
  OBVIOUS
<1>2. /\ Len(box) \in Nat /\ n \in Nat /\ n = Len(box) + 1
      /\ DOMAIN longer = 1..n /\ DOMAIN box = 1..(n - 1)
      /\ longer[n] = m /\ \A i \in DOMAIN box : i \in DOMAIN longer /\ longer[i] = box[i]
  BY <1>1
<1>3. n \in DOMAIN longer /\ \A i \in DOMAIN longer : i # n => i \in DOMAIN box /\ i < n
  BY <1>2
<1>4. CASE m.slot = k
  BY <1>1, <1>2, <1>3, <1>4 DEF IsLast, LongerBy
<1>5. CASE m.slot # k
  <2>1. ASSUME NEW i \in DOMAIN longer, IsLast(longer, i, k)
        PROVE  i \in DOMAIN box /\ longer[i] = box[i] /\ IsLast(box, i, k)
    <3>1. i # n
      BY <1>2, <1>5, <2>1 DEF IsLast
    <3>2. i \in DOMAIN box /\ longer[i] = box[i]
      BY <1>2, <1>3, <3>1
    <3>3. box[i].slot = k /\ \A j \in DOMAIN box : j > i => box[j].slot # k
      BY <1>2, <2>1, <3>2 DEF IsLast
    <3>4. QED
      BY <3>2, <3>3 DEF IsLast
  <2>2. (\A i \in DOMAIN longer : longer[i].slot # k) => \A i \in DOMAIN box : box[i].slot # k
    BY <1>2
  <2>3. QED
    BY <1>5, <2>1, <2>2 DEF LongerBy
<1>6. QED
  BY <1>4, <1>5

\* The message of the only untold write is the last one of its half-day, for everyone.
LEMMA TellWatched ==
  ASSUME Typed, Watched, NEW q \in requests, Tell(q) PROVE Watched'
<1>1. PICK skipped \in SUBSET connected :
        /\ q.stage = "stored"
        /\ count' = [count EXCEPT !.losses = @ + Cardinality(skipped)]
        /\ inbox' = [b \in Browser |->
             IF b \in connected \ skipped
             THEN Append(inbox[b], [by |-> q.by, slot |-> q.slot, entry |-> q.entry])
             ELSE inbox[b]]
        /\ Advance(q, "told")
        /\ UNCHANGED <<server, reloads, connected, browser>>
  BY DEF Tell
<1>2. PICK r \in Request :
        /\ requests' = (requests \ {q}) \cup {r} /\ q \in Request
        /\ r.task = q.task /\ r.by = q.by /\ r.slot = q.slot /\ r.entry = q.entry
        /\ r.stage = "told"
  BY <1>1, Advanced
<1>3. PICK m : m = [by |-> q.by, slot |-> q.slot, entry |-> q.entry]
  OBVIOUS
<1>4. m \in Message /\ m.slot = q.slot /\ m.entry = q.entry
  BY <1>2, <1>3 DEF Message, Request
<1>5. IsFiniteSet(skipped)
  <2>1. skipped \subseteq Browser
    BY DEF Typed, TypeOK
  <2>2. QED
    BY <2>1, SpaAssumption, FS_Subset DEF SpaAssumption
<1>6. /\ count'.scrolls = count.scrolls /\ count.losses \in Nat
      /\ count'.losses = count.losses + Cardinality(skipped) /\ Cardinality(skipped) \in Nat
      /\ count'.losses = 0 => count.losses = 0 /\ skipped = {}
  <2>1. count \in Counts
    BY DEF Typed, TypeOK, Counts
  <2>2. Cardinality(skipped) \in Nat
    BY <1>5, FS_CardinalityType
  <2>3. /\ count'.scrolls = count.scrolls /\ count.losses \in Nat
        /\ count'.losses = count.losses + Cardinality(skipped)
    BY <1>1, <2>1, Bounds DEF Counts
  <2>4. Cardinality(skipped) = 0 => skipped = {}
    BY <1>5, FS_EmptySet
  <2>5. QED
    BY <2>2, <2>3, <2>4
<1>7. UNCHANGED <<db, raced, reloads, connected, view, undoStack, redoStack, undoing, recent,
                  tasks>>
  BY <1>1 DEF server, browser
<1>8. /\ \A k \in Slot, o \in requests' : Untold(o, k) => o \in requests /\ o # q
      /\ \A k \in Slot, o \in requests : Untold(o, k) /\ o # q => o \in requests'
      /\ Untold(q, q.slot) /\ q.slot \in Slot
  BY <1>1, <1>2 DEF Untold, Request
<1>9. WatchersDoNothing'
  BY <1>6, <1>7 DEF Watched, WatchersDoNothing, Watcher, TasksOf
<1>10. AllConnected'
  BY <1>6, <1>7 DEF Watched, News, AllConnected
<1>11. OneUntold' /\ UntoldIsStored'
  <2>1. \A k \in Slot \ raced : \A o, p \in requests' : Untold(o, k) /\ Untold(p, k) => o = p
    BY <1>8 DEF Watched, News, OneUntold
  <2>2. \A k \in Slot \ raced : \A o \in requests' : Untold(o, k) => db[k] = o.entry
    BY <1>8 DEF Watched, News, UntoldIsStored
  <2>3. QED
    BY <1>7, <2>1, <2>2 DEF OneUntold, UntoldIsStored, Untold
<1>12. NewsArrive'
  <2>1. SUFFICES ASSUME count'.losses = 0, count'.scrolls = 0,
                        NEW b \in Browser, NEW k \in Slot \ raced, Watcher(b)',
                        \A o \in requests' : ~Untold(o, k)
                 PROVE  Arrives(b, k)'
    BY <1>7 DEF NewsArrive, Untold
  <2>2. PICK box, longer : box = inbox[b] /\ longer = Append(box, m)
    OBVIOUS
  <2>3. box \in Seq(Message) /\ m \in Message /\ longer = Append(box, m)
    BY <1>4, <2>2 DEF Typed, TypeOK
  <2>4. LongerBy(box, m, longer, k)
    BY <2>3, AppendedIsLast
  <2>5. b \in connected \ skipped
    BY <1>6, <2>1 DEF Watched, News, AllConnected
  <2>6. inbox'[b] = longer
    BY <1>1, <1>3, <2>2, <2>5
  <2>7. Watcher(b)
    BY <1>7, <2>1 DEF Watcher
  <2>8. CASE m.slot = k
    <3>1. db[k] = m.entry
      BY <1>4, <1>8, <2>1, <2>8 DEF Watched, News, UntoldIsStored
    <3>2. /\ \A i \in DOMAIN longer : IsLast(longer, i, k) => longer[i] = m
          /\ ~\A i \in DOMAIN longer : longer[i].slot # k
      BY <2>8, <2>4 DEF LongerBy
    <3>3. /\ \A i \in DOMAIN longer : IsLast(longer, i, k) => longer[i].entry = db[k]
          /\ ~\A i \in DOMAIN longer : longer[i].slot # k
      BY <3>1, <3>2
    <3>4. QED
      BY <1>7, <2>6, <3>3 DEF Arrives, IsLast
  <2>9. CASE m.slot # k
    <3>1. \A o \in requests : ~Untold(o, k)
      BY <1>4, <1>8, <2>1, <2>9 DEF Untold
    <3>2. Arrives(b, k)
      BY <1>6, <2>1, <2>7, <3>1 DEF Watched, News, NewsArrive
    <3>3. /\ \A i \in DOMAIN longer : IsLast(longer, i, k) =>
               i \in DOMAIN box /\ longer[i] = box[i] /\ IsLast(box, i, k)
          /\ (\A i \in DOMAIN longer : longer[i].slot # k) => \A i \in DOMAIN box : box[i].slot # k
      BY <2>9, <2>4 DEF LongerBy
    <3>4. /\ \A i \in DOMAIN longer : IsLast(longer, i, k) => longer[i].entry = db[k]
          /\ (\A i \in DOMAIN longer : longer[i].slot # k) => view[b][k] = db[k]
      BY <2>2, <3>2, <3>3 DEF Arrives
    <3>5. QED
      BY <1>7, <2>6, <3>4 DEF Arrives, IsLast
  <2>10. QED
    BY <2>8, <2>9
<1>13. QED
  BY <1>9, <1>10, <1>11, <1>12 DEF Watched, News

\* What the last message about half-day k is when the first one is taken out of box.
ShorterBy(box, rest, k) ==
  /\ \A i \in DOMAIN rest : IsLast(rest, i, k) =>
       i + 1 \in DOMAIN box /\ rest[i] = box[i + 1] /\ IsLast(box, i + 1, k)
  /\ (\A i \in DOMAIN rest : rest[i].slot # k) /\ Head(box).slot = k
       => 1 \in DOMAIN box /\ box[1] = Head(box) /\ IsLast(box, 1, k)
  /\ (\A i \in DOMAIN rest : rest[i].slot # k) /\ Head(box).slot # k
       => \A i \in DOMAIN box : box[i].slot # k

\* Without the first message, the last ones are the same.
LEMMA TailIsLast ==
  ASSUME NEW box \in Seq(Message), box # <<>>, NEW k, NEW rest, rest = Tail(box)
  PROVE  ShorterBy(box, rest, k)
<1>1. PICK n : n = Len(box)
  OBVIOUS
<1>2. /\ n \in Nat \ {0} /\ DOMAIN box = 1..n /\ DOMAIN rest = 1..(n - 1)
      /\ \A i \in 1..(n - 1) : rest[i] = box[i + 1]
      /\ box[1] = Head(box)
  BY <1>1
<1>3. \A j \in 1..n : j = 1 \/ (j - 1 \in 1..(n - 1) /\ rest[j - 1] = box[j])
  BY <1>2
<1>4. ASSUME NEW i \in 1..(n - 1), IsLast(rest, i, k)
      PROVE  i + 1 \in 1..n /\ rest[i] = box[i + 1] /\ IsLast(box, i + 1, k)
  <2>1. i + 1 \in 1..n /\ rest[i] = box[i + 1]
    BY <1>2
  <2>2. ASSUME NEW j \in 1..n, j > i + 1
        PROVE  box[j].slot # k
    <3>1. j - 1 \in 1..(n - 1) /\ rest[j - 1] = box[j] /\ j - 1 > i
      BY <1>2, <1>3, <2>2
    <3>2. QED
      BY <1>2, <1>4, <3>1 DEF IsLast
  <2>3. QED
    BY <1>2, <1>4, <2>1, <2>2 DEF IsLast
<1>5. ASSUME \A i \in 1..(n - 1) : rest[i].slot # k
      PROVE  \A j \in 1..n : j # 1 => box[j].slot # k
  BY <1>2, <1>3, <1>5
<1>6. 1 \in 1..n /\ \A j \in 1..n : j > 1 => j # 1
  BY <1>2
<1>7. ASSUME \A i \in 1..(n - 1) : rest[i].slot # k, Head(box).slot = k
      PROVE  IsLast(box, 1, k)
  BY <1>2, <1>5, <1>6, <1>7 DEF IsLast
<1>8. ASSUME \A i \in 1..(n - 1) : rest[i].slot # k, Head(box).slot # k
      PROVE  \A i \in 1..n : box[i].slot # k
  BY <1>2, <1>5, <1>8
<1>9. QED
  BY <1>2, <1>4, <1>6, <1>7, <1>8 DEF ShorterBy

\* A watcher ignores nothing: it shows what the message says, or waits for the last one.
LEMMA ReceiveMessageWatched ==
  ASSUME Typed, Watched, NEW b \in Browser, ReceiveMessage(b) PROVE Watched'
<1>1. PICK box, rest, m : box = inbox[b] /\ rest = Tail(box) /\ m = Head(box)
  OBVIOUS
<1>2. /\ inbox \in [Browser -> Seq(Message)] /\ view \in [Browser -> Planning]
      /\ box \in Seq(Message) /\ box # <<>> /\ m \in Message
      /\ inbox' = [inbox EXCEPT ![b] = rest]
      /\ \/ Ignored(b, m) /\ view' = view
         \/ ~Ignored(b, m) /\ view' = [view EXCEPT ![b] = [view[b] EXCEPT ![m.slot] = m.entry]]
  BY <1>1, Taken DEF Typed, TypeOK
<1>3. UNCHANGED <<db, authors, raced, requests, reloads, connected, window, undoStack, redoStack,
                  undoing, recent, tasks, asked, count>>
  BY DEF ReceiveMessage, server
<1>4. WatchersDoNothing'
  BY <1>3 DEF Watched, WatchersDoNothing, Watcher, TasksOf
<1>5. AllConnected' /\ OneUntold' /\ UntoldIsStored'
  BY <1>3 DEF Watched, News, AllConnected, OneUntold, UntoldIsStored, Untold
<1>6. NewsArrive'
  <2>1. SUFFICES ASSUME count.losses = 0, count.scrolls = 0,
                        NEW c \in Browser, NEW k \in Slot \ raced, Watcher(c),
                        \A o \in requests : ~Untold(o, k)
                 PROVE  Arrives(c, k)'
    BY <1>3 DEF NewsArrive, Untold, Watcher
  <2>2. Arrives(c, k)
    BY <2>1 DEF Watched, News, NewsArrive
  <2>3. CASE c # b
    <3>1. inbox'[c] = inbox[c] /\ view'[c] = view[c]
      BY <1>2, <2>3
    <3>2. QED
      BY <1>3, <2>2, <3>1 DEF Arrives
  <2>4. CASE c = b
    <3>1. ~Ignored(b, m)
      BY <2>1, <2>4 DEF Watched, WatchersDoNothing, Ignored
    <3>2. view[b] \in [Slot -> Entry] /\ m.slot \in Slot
      BY <1>2 DEF Planning, Message
    <3>3. /\ inbox'[b] = rest
          /\ view'[b][k] = IF k = m.slot THEN m.entry ELSE view[b][k]
      BY <1>2, <3>1, <3>2
    <3>4. ShorterBy(box, rest, k)
      BY <1>1, <1>2, TailIsLast
    <3>5. /\ \A i \in DOMAIN box : IsLast(box, i, k) => box[i].entry = db[k]
          /\ (\A i \in DOMAIN box : box[i].slot # k) => view[b][k] = db[k]
      BY <1>1, <2>2, <2>4 DEF Arrives
    <3>6. \A i \in DOMAIN rest : IsLast(rest, i, k) => rest[i].entry = db[k]
      BY <3>4, <3>5 DEF ShorterBy
    <3>7. ASSUME \A i \in DOMAIN rest : rest[i].slot # k
          PROVE  view'[b][k] = db[k]
      <4>1. CASE m.slot = k
        <5>1. 1 \in DOMAIN box /\ box[1] = m /\ IsLast(box, 1, k)
          BY <1>1, <3>4, <3>7, <4>1 DEF ShorterBy
        <5>2. m.entry = db[k]
          BY <3>5, <5>1
        <5>3. QED
          BY <3>3, <4>1, <5>2
      <4>2. CASE m.slot # k
        BY <1>1, <3>3, <3>4, <3>5, <3>7, <4>2 DEF ShorterBy
      <4>3. QED
        BY <4>1, <4>2
    <3>8. QED
      BY <1>3, <2>4, <3>3, <3>6, <3>7 DEF Arrives
  <2>5. QED
    BY <2>3, <2>4
<1>7. QED
  BY <1>4, <1>5, <1>6 DEF Watched, News

\* No reload comes to a watcher that did not scroll.
LEMMA ReceiveReloadWatched ==
  ASSUME Typed, Watched, NEW l \in reloads, ReceiveReload(l) PROVE Watched'
<1>1. PICK shown : view' = [view EXCEPT ![l.by] = shown]
  BY Received
<1>2. /\ \A u \in tasks' : \E t \in tasks : u.by = t.by
      /\ view \in [Browser -> Planning] /\ connected \subseteq Browser
  <2>1. \A u \in tasks' : \E t \in tasks : GoesOn(t, u, l)
    BY Received
  <2>2. QED
    BY <2>1 DEF GoesOn, Typed, TypeOK
<1>3. reloads' \subseteq reloads
  BY DEF ReceiveReload
<1>4. UNCHANGED <<db, authors, raced, requests, inbox, connected, window, undoStack, redoStack,
                  undoing, recent, asked, count>>
  BY DEF ReceiveReload, server
<1>5. WatchersDoNothing'
  BY <1>2, <1>3, <1>4 DEF Watched, WatchersDoNothing, Watcher, TasksOf
<1>6. \A b \in Browser : count'.scrolls = 0 /\ Watcher(b)' => Watcher(b) /\ view'[b] = view[b]
  <2>1. SUFFICES ASSUME NEW b \in Browser, count.scrolls = 0, Watcher(b)
                 PROVE  view'[b] = view[b]
    BY <1>4 DEF Watcher
  <2>2. l.by # b
    BY <2>1 DEF Watched, WatchersDoNothing
  <2>3. QED
    BY <1>1, <1>2, <2>2
<1>7. News'
  BY <1>2, <1>4, <1>6, NewsStay DEF Watched
<1>8. QED
  BY <1>5, <1>7 DEF Watched

\* Nothing is promised once messages were lost.
LEMMA DisconnectWatched ==
  ASSUME Typed, Watched, NEW b \in Browser, Disconnect(b) PROVE Watched'
<1>1. UNCHANGED <<db, authors, raced, requests, reloads, view, window, undoStack, redoStack,
                  undoing, recent, tasks, asked>>
  BY DEF Disconnect, server, browser
<1>2. count'.losses # 0 /\ count'.scrolls = count.scrolls
  <2>1. count \in Counts /\ count' = [count EXCEPT !.losses = @ + 1]
    BY DEF Disconnect, Typed, TypeOK, Counts
  <2>2. count.losses \in Nat /\ count'.losses = count.losses + 1 /\ count'.scrolls = count.scrolls
    BY <2>1, Bounds DEF Counts
  <2>3. QED
    BY <2>2
<1>3. WatchersDoNothing'
  BY <1>1, <1>2 DEF Watched, WatchersDoNothing, Watcher, TasksOf
<1>4. OneUntold' /\ UntoldIsStored'
  BY <1>1 DEF Watched, News, OneUntold, UntoldIsStored, Untold
<1>5. AllConnected' /\ NewsArrive'
  BY <1>2 DEF AllConnected, NewsArrive
<1>6. QED
  BY <1>3, <1>4, <1>5 DEF Watched, News

\* Nothing is under way, and everyone shows the empty planning.
LEMMA InitWatched == Init => Watched
<1>1. SUFFICES ASSUME Init PROVE Watched
  OBVIOUS
<1>2. /\ requests = {} /\ reloads = {} /\ tasks = {} /\ connected = Browser
      /\ \A b \in Browser : inbox[b] = <<>> /\ ~undoing[b] /\ recent[b] = {} /\ view[b] = db
  BY <1>1 DEF Init
<1>3. WatchersDoNothing
  BY <1>2 DEF WatchersDoNothing, TasksOf
<1>4. \A b \in Browser, k \in Slot : Arrives(b, k)
  <2>1. DOMAIN <<>> = {}
    OBVIOUS
  <2>2. QED
    BY <1>2, <2>1 DEF Arrives
<1>5. News
  BY <1>2, <1>4 DEF News, AllConnected, OneUntold, UntoldIsStored, NewsArrive
<1>6. QED
  BY <1>3, <1>5 DEF Watched

\* Watchers are kept up to date.
LEMMA AlwaysWatched == Spec => []Watched
<1>1. Typed /\ Owned /\ Watched /\ [Next]_vars => Watched'
  <2>1. SUFFICES ASSUME Typed, Owned, Watched, [Next]_vars PROVE Watched'
    OBVIOUS
  <2>2. CASE \E b \in Browser : Edit(b) \/ Undo(b) \/ Redo(b)
    BY <2>1, <2>2, UserWatched
  <2>3. CASE \/ \E q \in requests : Answer(q) \/ FailQuietly(q) \/ FailLoudly(q)
             \/ \E t \in tasks : AskReload(t) \/ End(t)
             \/ \E b \in Browser : Scroll(b) \/ Expire(b) \/ Reconnect(b)
             \/ \E l \in reloads : ServeReload(l)
             \/ UNCHANGED vars
    BY <2>1, <2>3, OthersWatched, Zenon
  <2>4. CASE \E q \in requests : Store(q) \/ Tell(q)
    BY <2>1, <2>4, StoreWatched, TellWatched
  <2>5. CASE \E l \in reloads : ReceiveReload(l)
    BY <2>1, <2>5, ReceiveReloadWatched
  <2>6. CASE \E b \in Browser : ReceiveMessage(b) \/ Disconnect(b)
    BY <2>1, <2>6, ReceiveMessageWatched, DisconnectWatched
  <2>7. QED
    BY <2>1, <2>2, <2>3, <2>4, <2>5, <2>6, Steps, Zenon
<1>2. QED
  BY AlwaysTyped, AlwaysOwned, InitWatched, <1>1, PTL DEF Spec

\* Whoever only watches shows what the database holds once no write is under way and no
\* message on its way, if none was lost: messages are sent in an order of their own, but
\* where two handlers did not race on a half-day it is the order of the database (app.js,
\* the WebSocket handler; write.go, which stores before it tells).
THEOREM WatchersFollow == Spec => []WatchersAreCurrent
<1>1. Watched => WatchersAreCurrent
  <2>1. SUFFICES ASSUME Watched, count.losses = 0, count.scrolls = 0,
                        NEW b \in Browser, NEW k \in Slot \ raced, Watcher(b), Quiet(b)
                 PROVE  view[b][k] = db[k]
    BY DEF WatchersAreCurrent
  <2>2. requests = {} /\ inbox[b] = <<>>
    BY <2>1 DEF Quiet
  <2>3. Arrives(b, k)
    BY <2>1, <2>2 DEF Watched, News, NewsArrive
  <2>4. DOMAIN <<>> = {}
    OBVIOUS
  <2>5. QED
    BY <2>2, <2>3, <2>4 DEF Arrives
<1>2. QED
  BY AlwaysWatched, <1>1, PTL

-----------------------------------------------------------------------------
(* Users who wait, when no request fails and no window moves.               *)

\* At most one task per browser; its writes, then its reload, are all that is under way,
\* and the window is the one that every browser starts with.
Waits(t, phase, r) == t.id = r.task /\ t.by = r.by /\ t.phase = phase
OneEach     == \A t, u \in tasks : t.by = u.by => t = u
WritesWait  == \A q \in requests : \E t \in tasks : Waits(t, "writing", q)
ReloadsWait == \A l \in reloads : l.window = Home /\ \E t \in tasks : Waits(t, "reloading", l)
OneReload   == \A l, m \in reloads : l.by = m.by => l = m
StaysHome   == \A b \in Browser : window[b] = Home
Waiting     == OneEach /\ WritesWait /\ ReloadsWait /\ OneReload /\ StaysHome

\* Whoever wrote a half-day is one of its authors.
WritersKnown == \A q \in requests : q.stage # "sent" => q.by \in authors[q.slot]
SendersKnown == \A b \in Browser : \A m \in Range(inbox[b]) : m.by \in authors[m.slot]
Known        == WritersKnown /\ SendersKnown

\* In the half-days that only one user writes, writes, echoes and, once nothing is to be
\* stored, the database hold what this user asked for.
NoneSent(b, k) == \A q \in requests : q.by = b /\ q.slot = k => q.stage # "sent"
WritesAgree == \A q \in requests : OnlyAuthor(q.by, q.slot) => q.entry = asked[q.by].doc[q.slot]
EchoesAgree ==
  \A b \in Browser : \A m \in Range(inbox[b]) :
    m.by = b /\ OnlyAuthor(b, m.slot) => m.entry = asked[b].doc[m.slot]
StoredAgrees ==
  \A b \in Browser, k \in Slot : OnlyAuthor(b, k) /\ NoneSent(b, k) => db[k] = asked[b].doc[k]
Agreed == WritesAgree /\ EchoesAgree /\ StoredAgrees

\* There, a reload that was read, and what a browser shows when its reload has come, are
\* what the database holds.
Ended(b) == \A t \in tasks : t.by = b => t.phase = "ending"
ReadsAgree ==
  \A l \in reloads : l.read # <<>> =>
    \A k \in Home : OnlyAuthor(l.by, k) => l.read[1][k] = db[k]
ShownAgrees ==
  \A b \in Browser : Ended(b) => \A k \in Home : OnlyAuthor(b, k) => view[b][k] = db[k]
Shown == ReadsAgree /\ ShownAgrees

\* There, the stacks of snapshots are those of what the user asked for.
Alike(snap, image, b) ==
  /\ DOMAIN snap = DOMAIN image /\ DOMAIN snap \subseteq Home
  /\ \A k \in DOMAIN snap : OnlyAuthor(b, k) => snap[k] = image[k]
Mirrors(stack, mirror, b) ==
  /\ Len(stack) = Len(mirror)
  /\ \A i \in 1..Len(stack) : Alike(stack[i], mirror[i], b)
Mirrored ==
  \A b \in Browser : /\ Mirrors(undoStack[b], asked[b].past, b)
                     /\ Mirrors(redoStack[b], asked[b].future, b)

Calm == Waiting /\ Known /\ Agreed /\ Shown /\ Mirrored

\* What is under way for a browser is all in the same phase.
LEMMA Phases ==
  ASSUME Waiting
  PROVE  /\ \A q \in requests, t \in tasks : q.by = t.by => t.phase = "writing" /\ t.id = q.task
         /\ \A l \in reloads, t \in tasks : l.by = t.by => t.phase = "reloading" /\ t.id = l.task
         /\ \A q \in requests, l \in reloads : q.by # l.by
         /\ \A b : Ended(b) => \A q \in requests : q.by # b
<1>1. \A q \in requests, t \in tasks : q.by = t.by => t.phase = "writing" /\ t.id = q.task
  BY DEF Waiting, OneEach, WritesWait, Waits
<1>2. \A l \in reloads, t \in tasks : l.by = t.by => t.phase = "reloading" /\ t.id = l.task
  BY DEF Waiting, OneEach, ReloadsWait, Waits
<1>3. \A q \in requests, l \in reloads : q.by # l.by
  <2>1. SUFFICES ASSUME NEW q \in requests, NEW l \in reloads, q.by = l.by PROVE FALSE
    OBVIOUS
  <2>2. PICK t \in tasks : t.by = l.by /\ t.phase = "reloading"
    BY DEF Waiting, ReloadsWait, Waits
  <2>3. QED
    BY <1>1, <2>1, <2>2
<1>4. ASSUME NEW b, Ended(b), NEW q \in requests, q.by = b
      PROVE  FALSE
  <2>1. PICK t \in tasks : t.by = b /\ t.phase = "writing"
    BY <1>4 DEF Waiting, WritesWait, Waits
  <2>2. QED
    BY <1>4, <2>1 DEF Ended
<1>5. QED
  BY <1>1, <1>2, <1>3, <1>4

\* Whoever starts a task has nothing under way: what is shown, stored and asked for agree.
LEMMA Prepared ==
  ASSUME Patient, Typed, Calm, NEW b \in Browser, CanStart(b)
  PROVE  /\ \A t \in tasks : t.by # b
         /\ \A q \in requests : q.by # b
         /\ \A l \in reloads : l.by # b
         /\ \A m \in Range(inbox[b]) : m.by # b
         /\ \A k \in Slot : OnlyAuthor(b, k) => db[k] = asked[b].doc[k]
         /\ \A k \in Home : OnlyAuthor(b, k) =>
              view[b][k] = db[k] /\ view[b][k] = asked[b].doc[k]
<1>1. /\ \A t \in tasks : t.by # b
      /\ \A q \in requests : q.by # b
      /\ \A m \in Range(inbox[b]) : m.by # b
  BY DEF CanStart, TasksOf, EchoesOf
<1>2. \A l \in reloads : l.by # b
  BY <1>1 DEF Calm, Waiting, ReloadsWait, Waits
<1>3. \A k \in Slot : OnlyAuthor(b, k) => db[k] = asked[b].doc[k]
  BY <1>1 DEF Calm, Agreed, StoredAgrees, NoneSent
<1>4. \A k \in Home : OnlyAuthor(b, k) => view[b][k] = db[k]
  BY <1>1 DEF Calm, Shown, ShownAgrees, Ended
<1>5. Home \subseteq Slot
  BY SpaAssumption DEF SpaAssumption
<1>6. QED
  BY <1>1, <1>2, <1>3, <1>4, <1>5

-----------------------------------------------------------------------------
(* Stacks that mirror one another.                                          *)

\* One snapshot more on both.
LEMMA MirrorsPushed ==
  ASSUME NEW stack \in Seq(Snapshot), NEW mirror \in Seq(Snapshot),
         NEW snap \in Snapshot, NEW image \in Snapshot, NEW b,
         Mirrors(stack, mirror, b), Alike(snap, image, b)
  PROVE  Mirrors(Append(stack, snap), Append(mirror, image), b)
<1>1. PICK n : n = Len(stack)
  OBVIOUS
<1>2. PICK longer, mirrored : longer = Append(stack, snap) /\ mirrored = Append(mirror, image)
  OBVIOUS
<1>3. n \in Nat /\ n = Len(mirror) /\ \A i \in 1..n : Alike(stack[i], mirror[i], b)
  BY <1>1 DEF Mirrors
<1>4. /\ Len(longer) = n + 1 /\ Len(mirrored) = n + 1
      /\ \A i \in 1..n : longer[i] = stack[i] /\ mirrored[i] = mirror[i]
      /\ longer[n + 1] = snap /\ mirrored[n + 1] = image
  <2>1. /\ Len(longer) = n + 1 /\ longer[n + 1] = snap
        /\ \A i \in 1..n : longer[i] = stack[i]
    BY <1>1, <1>2, Pushed
  <2>2. /\ Len(mirrored) = n + 1 /\ mirrored[n + 1] = image
        /\ \A i \in 1..n : mirrored[i] = mirror[i]
    BY <1>2, <1>3, Pushed
  <2>3. QED
    BY <2>1, <2>2
<1>5. \A i \in 1..(n + 1) : Alike(longer[i], mirrored[i], b)
  <2>1. \A i \in 1..(n + 1) : i \in 1..n \/ i = n + 1
    BY <1>3
  <2>2. QED
    BY <1>3, <1>4, <2>1
<1>6. QED
  BY <1>2, <1>4, <1>5 DEF Mirrors

\* One more on both, and the oldest of both makes room.
LEMMA MirrorsBounded ==
  ASSUME NEW stack \in Seq(Snapshot), NEW mirror \in Seq(Snapshot), Len(stack) <= UndoDepth,
         NEW snap \in Snapshot, NEW image \in Snapshot, NEW b,
         Mirrors(stack, mirror, b), Alike(snap, image, b)
  PROVE  Mirrors(PushBounded(stack, snap), PushBounded(mirror, image), b)
<1>1. Len(stack) = Len(mirror)
  BY DEF Mirrors
<1>2. CASE Len(stack) = UndoDepth
  <2>1. stack # <<>> /\ mirror # <<>>
    BY <1>1, <1>2, Bounds
  <2>2. PICK rest, image2 : rest = Tail(stack) /\ image2 = Tail(mirror)
    OBVIOUS
  <2>3. PICK n : n = Len(stack)
    OBVIOUS
  <2>4. n \in Nat \ {0} /\ n = Len(mirror) /\ \A i \in 1..n : Alike(stack[i], mirror[i], b)
    BY <2>1, <2>3 DEF Mirrors
  <2>5. /\ rest \in Seq(Snapshot) /\ Len(rest) = n - 1
        /\ \A i \in 1..(n - 1) : rest[i] = stack[i + 1]
    BY <2>1, <2>2, <2>3
  <2>6. /\ image2 \in Seq(Snapshot) /\ Len(image2) = n - 1
        /\ \A i \in 1..(n - 1) : image2[i] = mirror[i + 1]
    BY <2>1, <2>2, <2>4
  <2>7. \A i \in 1..(n - 1) : Alike(rest[i], image2[i], b)
    <3>1. \A i \in 1..(n - 1) : i + 1 \in 1..n
      BY <2>4
    <3>2. QED
      BY <2>4, <2>5, <2>6, <3>1
  <2>8. Mirrors(rest, image2, b)
    BY <2>5, <2>6, <2>7 DEF Mirrors
  <2>9. Mirrors(Append(rest, snap), Append(image2, image), b)
    BY <2>5, <2>6, <2>8, MirrorsPushed
  <2>10. QED
    BY <1>1, <1>2, <2>2, <2>9 DEF PushBounded
<1>3. CASE Len(stack) # UndoDepth
  BY <1>1, <1>3, MirrorsPushed DEF PushBounded
<1>4. QED
  BY <1>2, <1>3

\* One less on both.
LEMMA MirrorsPopped ==
  ASSUME NEW stack \in Seq(Snapshot), NEW mirror \in Seq(Snapshot), stack # <<>>, mirror # <<>>,
         NEW b, Mirrors(stack, mirror, b)
  PROVE  Mirrors(Front(stack), Front(mirror), b) /\ Alike(Last(stack), Last(mirror), b)
<1>1. PICK n, rest, image : n = Len(stack) /\ rest = Front(stack) /\ image = Front(mirror)
  OBVIOUS
<1>2. n = Len(mirror) /\ \A i \in 1..n : Alike(stack[i], mirror[i], b)
  BY <1>1 DEF Mirrors
<1>3. /\ n \in Nat \ {0} /\ Last(stack) = stack[n]
      /\ Len(rest) = n - 1 /\ \A i \in 1..(n - 1) : rest[i] = stack[i]
  BY <1>1, Popped
<1>4. Last(mirror) = mirror[n] /\ Len(image) = n - 1 /\ \A i \in 1..(n - 1) : image[i] = mirror[i]
  BY <1>1, <1>2, Popped
<1>5. \A i \in 1..(n - 1) : i \in 1..n
  BY <1>3
<1>6. Mirrors(rest, image, b)
  BY <1>2, <1>3, <1>4, <1>5 DEF Mirrors
<1>7. n \in 1..n
  BY <1>3
<1>8. QED
  BY <1>1, <1>2, <1>3, <1>4, <1>6, <1>7

\* Mirrors after a step, for stacks that are known.
LaterAlike(snap, image, b) ==
  /\ DOMAIN snap = DOMAIN image /\ DOMAIN snap \subseteq Home
  /\ \A k \in DOMAIN snap : OnlyAuthor(b, k)' => snap[k] = image[k]
LaterMirrors(stack, mirror, b) ==
  /\ Len(stack) = Len(mirror)
  /\ \A i \in 1..Len(stack) : LaterAlike(stack[i], mirror[i], b)

\* Authors are only added: what mirrors now mirrors later.
LEMMA MirrorsLater ==
  ASSUME \A k : authors[k] \subseteq authors'[k], NEW stack, NEW mirror, NEW b,
         Mirrors(stack, mirror, b)
  PROVE  LaterMirrors(stack, mirror, b)
<1>1. \A k : OnlyAuthor(b, k)' => OnlyAuthor(b, k)
  BY DEF OnlyAuthor
<1>2. ASSUME NEW i \in 1..Len(stack)
      PROVE  LaterAlike(stack[i], mirror[i], b)
  <2>1. PICK snap, image : snap = stack[i] /\ image = mirror[i]
    OBVIOUS
  <2>2. Alike(snap, image, b)
    BY <2>1 DEF Mirrors
  <2>3. LaterAlike(snap, image, b)
    BY <1>1, <2>2 DEF Alike, LaterAlike
  <2>4. QED
    BY <2>1, <2>3
<1>3. Len(stack) = Len(mirror)
  BY DEF Mirrors
<1>4. QED
  BY <1>2, <1>3 DEF LaterMirrors

\* All stacks, after a step.
LEMMA MirroredLater ==
  ASSUME \A b \in Browser : /\ LaterMirrors(undoStack'[b], asked'[b].past, b)
                            /\ LaterMirrors(redoStack'[b], asked'[b].future, b)
  PROVE  Mirrored'
<1>1. SUFFICES ASSUME NEW b \in Browser
               PROVE  /\ Mirrors(undoStack[b], asked[b].past, b)'
                      /\ Mirrors(redoStack[b], asked[b].future, b)'
  BY DEF Mirrored
<1>2. /\ LaterMirrors(undoStack'[b], asked'[b].past, b)
      /\ LaterMirrors(redoStack'[b], asked'[b].future, b)
  OBVIOUS
<1>3. Mirrors(undoStack[b], asked[b].past, b)'
  BY <1>2 DEF Mirrors, Alike, LaterMirrors, LaterAlike
<1>4. Mirrors(redoStack[b], asked[b].future, b)'
  BY <1>2 DEF Mirrors, Alike, LaterMirrors, LaterAlike
<1>5. QED
  BY <1>3, <1>4

\* The stacks of one browser change, and mirror one another.
LEMMA MirroredStays ==
  ASSUME Typed, Mirrored, NEW b \in Browser, NEW undo, NEW redo, NEW doc, NEW past, NEW future,
         undoStack' = [undoStack EXCEPT ![b] = undo],
         redoStack' = [redoStack EXCEPT ![b] = redo],
         asked' = [asked EXCEPT ![b] = [doc |-> doc, past |-> past, future |-> future]],
         authors' = authors, Mirrors(undo, past, b), Mirrors(redo, future, b)
  PROVE  Mirrored'
<1>1. /\ undoStack \in [Browser -> Seq(Snapshot)] /\ redoStack \in [Browser -> Seq(Snapshot)]
      /\ asked \in [Browser -> Asked]
  BY DEF Typed, TypeOK
<1>2. \A stack, mirror, c : Mirrors(stack, mirror, c) => LaterMirrors(stack, mirror, c)
  BY MirrorsLater
<1>3. ASSUME NEW c \in Browser
      PROVE  /\ LaterMirrors(undoStack'[c], asked'[c].past, c)
             /\ LaterMirrors(redoStack'[c], asked'[c].future, c)
  <2>1. CASE c = b
    <3>1. /\ undoStack'[c] = undo /\ redoStack'[c] = redo
          /\ asked'[c] = [doc |-> doc, past |-> past, future |-> future]
      BY <1>1, <2>1
    <3>2. asked'[c].past = past /\ asked'[c].future = future
      BY <3>1
    <3>3. QED
      BY <1>2, <2>1, <3>1, <3>2
  <2>2. CASE c # b
    <3>1. undoStack'[c] = undoStack[c] /\ redoStack'[c] = redoStack[c] /\ asked'[c] = asked[c]
      BY <1>1, <2>2
    <3>2. Mirrors(undoStack[c], asked[c].past, c) /\ Mirrors(redoStack[c], asked[c].future, c)
      BY DEF Mirrored
    <3>3. QED
      BY <1>2, <3>1, <3>2
  <2>3. QED
    BY <2>1, <2>2
<1>4. QED
  BY <1>3, MirroredLater

\* What a browser shows of some half-days is alike what its user asked for.
LEMMA ShownIsAlike ==
  ASSUME Patient, Typed, Calm, NEW b \in Browser, CanStart(b), NEW S, S \subseteq Home
  PROVE  /\ At(view[b], S) \in Snapshot /\ At(asked[b].doc, S) \in Snapshot
         /\ Alike(At(view[b], S), At(asked[b].doc, S), b)
<1>1. view[b] \in Planning /\ asked[b].doc \in Planning /\ S \in SUBSET Slot
  BY Kept, SpaAssumption DEF SpaAssumption
<1>2. /\ At(view[b], S) \in Snapshot /\ DOMAIN At(view[b], S) = S
      /\ At(asked[b].doc, S) \in Snapshot /\ DOMAIN At(asked[b].doc, S) = S
  BY <1>1, Snapshots
<1>3. \A k \in S : OnlyAuthor(b, k) => At(view[b], S)[k] = At(asked[b].doc, S)[k]
  <2>1. \A k \in S : OnlyAuthor(b, k) => view[b][k] = asked[b].doc[k]
    BY Prepared
  <2>2. QED
    BY <2>1 DEF At
<1>4. QED
  BY <1>2, <1>3 DEF Alike

\* An edit pushes what is shown, and what was asked for.
LEMMA EditMirrored ==
  ASSUME Patient, Typed, Calm, NEW b \in Browser, Edit(b) PROVE Mirrored'
<1>1. PICK S \in SUBSET Slot, e \in Entry :
        /\ CanStart(b) /\ S \subseteq window[b]
        /\ undoStack' = [undoStack EXCEPT ![b] = PushBounded(undoStack[b], At(view[b], S))]
        /\ redoStack' = [redoStack EXCEPT ![b] = <<>>]
        /\ asked' = [asked EXCEPT ![b] =
             [doc |-> Over(asked[b].doc, [k \in S |-> e]),
              past |-> PushBounded(asked[b].past, At(asked[b].doc, S)), future |-> <<>>]]
        /\ UNCHANGED <<server, reloads, inbox, connected, view, window, recent>>
  BY EditDoes
<1>2. S \subseteq Home
  BY <1>1 DEF Calm, Waiting, StaysHome
<1>3. PICK snap, image : snap = At(view[b], S) /\ image = At(asked[b].doc, S)
  OBVIOUS
<1>4. snap \in Snapshot /\ image \in Snapshot /\ Alike(snap, image, b)
  BY <1>1, <1>2, <1>3, ShownIsAlike
<1>5. PICK undo, past, doc :
        /\ undo = PushBounded(undoStack[b], snap) /\ past = PushBounded(asked[b].past, image)
        /\ doc = Over(asked[b].doc, [k \in S |-> e])
  OBVIOUS
<1>6. Mirrors(undo, past, b)
  <2>1. PICK stack, mirror : stack = undoStack[b] /\ mirror = asked[b].past
    OBVIOUS
  <2>2. /\ stack \in Seq(Snapshot) /\ mirror \in Seq(Snapshot) /\ Len(stack) <= UndoDepth
        /\ Mirrors(stack, mirror, b)
    BY <2>1, Kept DEF Calm, Mirrored
  <2>3. QED
    BY <1>4, <1>5, <2>1, <2>2, MirrorsBounded
<1>7. Mirrors(<<>>, <<>>, b)
  BY DEF Mirrors
<1>8. /\ undoStack' = [undoStack EXCEPT ![b] = undo] /\ redoStack' = [redoStack EXCEPT ![b] = <<>>]
      /\ asked' = [asked EXCEPT ![b] = [doc |-> doc, past |-> past, future |-> <<>>]]
      /\ authors' = authors
  BY <1>1, <1>3, <1>5 DEF server
<1>9. QED
  BY <1>6, <1>7, <1>8, MirroredStays DEF Calm

\* An undo moves the last snapshots from two stacks that mirror one another to two others.
LEMMA Moved ==
  ASSUME Patient, Typed, Calm, NEW b \in Browser, CanStart(b),
         NEW from \in Seq(Snapshot), NEW fromMirror \in Seq(Snapshot),
         from # <<>>, fromMirror # <<>>, Mirrors(from, fromMirror, b),
         NEW to \in Seq(Snapshot), NEW toMirror \in Seq(Snapshot), Mirrors(to, toMirror, b)
  PROVE  /\ Last(from) \in Snapshot /\ Last(fromMirror) \in Snapshot
         /\ Alike(Last(from), Last(fromMirror), b)
         /\ Mirrors(Front(from), Front(fromMirror), b)
         /\ Mirrors(Append(to, At(view[b], DOMAIN Last(from))),
                    Append(toMirror, At(asked[b].doc, DOMAIN Last(fromMirror))), b)
<1>1. /\ Last(from) \in Snapshot /\ Last(fromMirror) \in Snapshot
      /\ Alike(Last(from), Last(fromMirror), b)
      /\ Mirrors(Front(from), Front(fromMirror), b)
  BY Popped, MirrorsPopped
<1>2. PICK S : S = DOMAIN Last(from)
  OBVIOUS
<1>3. S = DOMAIN Last(fromMirror) /\ S \subseteq Home
  BY <1>1, <1>2 DEF Alike
<1>4. PICK snap, image : snap = At(view[b], S) /\ image = At(asked[b].doc, S)
  OBVIOUS
<1>5. snap \in Snapshot /\ image \in Snapshot /\ Alike(snap, image, b)
  BY <1>3, <1>4, ShownIsAlike
<1>6. Mirrors(Append(to, snap), Append(toMirror, image), b)
  BY <1>5, MirrorsPushed
<1>7. QED
  BY <1>1, <1>2, <1>3, <1>4, <1>6

\* What a snapshot's restoring sends is what its image adds to what was asked for.
Restores(b, snap) ==
  \A k \in Slot : OnlyAuthor(b, k) =>
    asked'[b].doc[k] = IF k \in Differs(b, snap) THEN snap[k] ELSE db[k]

\* It is, since the rest of the snapshot is what is shown, stored and asked for.
LEMMA RestoresWhatDiffers ==
  ASSUME Patient, Typed, Calm, NEW b \in Browser, CanStart(b),
         NEW snap \in Snapshot, NEW image \in Snapshot, Alike(snap, image, b),
         asked'[b].doc = Over(asked[b].doc, image)
  PROVE  Restores(b, snap)
<1>1. SUFFICES ASSUME NEW k \in Slot, OnlyAuthor(b, k)
               PROVE  asked'[b].doc[k] = IF k \in Differs(b, snap) THEN snap[k] ELSE db[k]
  BY DEF Restores
<1>2. asked[b].doc \in Planning
  BY Kept
<1>3. asked'[b].doc[k] = IF k \in DOMAIN image THEN image[k] ELSE asked[b].doc[k]
  BY <1>2, Snapshots
<1>4. db[k] = asked[b].doc[k] /\ (k \in Home => view[b][k] = db[k])
  BY <1>1, Prepared
<1>5. /\ DOMAIN snap = DOMAIN image /\ DOMAIN snap \subseteq Home
      /\ k \in DOMAIN snap => snap[k] = image[k]
  BY <1>1 DEF Alike
<1>6. k \in Differs(b, snap) <=> k \in DOMAIN snap /\ snap[k] # view[b][k]
  BY DEF Differs
<1>7. QED
  BY <1>3, <1>4, <1>5, <1>6

\* What a task sends, with what the database holds, is what its user asks for.
Sends(b, type, snap, S, to) ==
  /\ \/ /\ tasks' = tasks \cup {NewTask(b, type, snap)}
        /\ requests' = requests \cup NewWrites(b, S, to)
     \/ S = {} /\ tasks' = tasks /\ requests' = requests
  /\ \A k \in Slot : OnlyAuthor(b, k) =>
       asked'[b].doc[k] = IF k \in S THEN to[k] ELSE db[k]
  /\ \A c \in Browser \ {b} : asked'[c] = asked[c]
  /\ UNCHANGED <<db, authors, reloads, inbox, view, window>>

\* An edit sends every half-day that it changes.
LEMMA EditSends ==
  ASSUME Patient, Typed, Calm, NEW b \in Browser, Edit(b)
  PROVE  CanStart(b) /\ Mirrored' /\ \E type, snap, S, to : Sends(b, type, snap, S, to)
<1>1. PICK S \in SUBSET Slot, e \in Entry :
        /\ CanStart(b)
        /\ Start(b, "edit", At(view[b], S), S, [k \in S |-> e])
        /\ asked' = [asked EXCEPT ![b] =
             [doc |-> Over(asked[b].doc, [k \in S |-> e]),
              past |-> PushBounded(asked[b].past, At(asked[b].doc, S)), future |-> <<>>]]
        /\ UNCHANGED <<server, reloads, inbox, connected, view, window, recent>>
  BY EditDoes
<1>2. PICK to, snap, past, doc :
        /\ to = [k \in S |-> e] /\ snap = At(view[b], S)
        /\ past = PushBounded(asked[b].past, At(asked[b].doc, S)) /\ doc = Over(asked[b].doc, to)
  OBVIOUS
<1>3. /\ tasks' = tasks \cup {NewTask(b, "edit", snap)}
      /\ requests' = requests \cup NewWrites(b, S, to)
  BY <1>1, <1>2 DEF Start, NewTask, NewWrites
<1>4. asked'[b].doc = doc /\ \A c \in Browser \ {b} : asked'[c] = asked[c]
  <2>1. asked' = [asked EXCEPT ![b] = [doc |-> doc, past |-> past, future |-> <<>>]]
    BY <1>1, <1>2
  <2>2. asked \in [Browser -> Asked]
    BY DEF Typed, TypeOK
  <2>3. QED
    BY <2>1, <2>2
<1>5. ASSUME NEW k \in Slot, OnlyAuthor(b, k)
      PROVE  asked'[b].doc[k] = IF k \in S THEN to[k] ELSE db[k]
  <2>1. to \in Snapshot /\ DOMAIN to = S /\ asked[b].doc \in Planning
    BY <1>2, Kept, Snapshots
  <2>2. doc[k] = IF k \in S THEN to[k] ELSE asked[b].doc[k]
    BY <1>2, <2>1, Snapshots
  <2>3. db[k] = asked[b].doc[k]
    BY <1>1, <1>5, Prepared
  <2>4. QED
    BY <1>4, <2>2, <2>3
<1>6. UNCHANGED <<db, authors, reloads, inbox, view, window>>
  BY <1>1 DEF server
<1>7. Sends(b, "edit", snap, S, to)
  BY <1>3, <1>4, <1>5, <1>6 DEF Sends
<1>8. QED
  BY <1>1, <1>7, EditMirrored

\* The writes of an undo or a redo.
LEMMA RestoreSends ==
  ASSUME Patient, Typed, Calm, NEW b \in Browser, CanStart(b), NEW type \in {"undo", "redo"},
         NEW snap \in Snapshot, NEW image \in Snapshot, Alike(snap, image, b),
         Restore(b, type, snap), NEW past, NEW future,
         asked' = [asked EXCEPT ![b] =
           [doc |-> Over(asked[b].doc, image), past |-> past, future |-> future]],
         UNCHANGED <<server, reloads, inbox, connected, view, window, recent>>
  PROVE  \E S, to : Sends(b, type, snap, S, to)
<1>1. PICK S, doc : S = Differs(b, snap) /\ doc = Over(asked[b].doc, image)
  OBVIOUS
<1>2. \/ /\ tasks' = tasks \cup {NewTask(b, type, snap)}
         /\ requests' = requests \cup NewWrites(b, S, snap)
      \/ S = {} /\ tasks' = tasks /\ requests' = requests
  BY <1>1, Restored
<1>3. asked'[b].doc = doc /\ \A c \in Browser \ {b} : asked'[c] = asked[c]
  <2>1. asked' = [asked EXCEPT ![b] = [doc |-> doc, past |-> past, future |-> future]]
    BY <1>1
  <2>2. asked \in [Browser -> Asked]
    BY DEF Typed, TypeOK
  <2>3. QED
    BY <2>1, <2>2
<1>4. Restores(b, snap)
  BY <1>1, <1>3, RestoresWhatDiffers
<1>5. \A k \in Slot : OnlyAuthor(b, k) => asked'[b].doc[k] = IF k \in S THEN snap[k] ELSE db[k]
  BY <1>1, <1>4 DEF Restores
<1>6. UNCHANGED <<db, authors, reloads, inbox, view, window>>
  BY DEF server
<1>7. Sends(b, type, snap, S, snap)
  BY <1>2, <1>3, <1>5, <1>6 DEF Sends
<1>8. QED
  BY <1>7

\* An undo sends what the browser shows otherwise.
LEMMA UndoSends ==
  ASSUME Patient, Typed, Calm, NEW b \in Browser, Undo(b)
  PROVE  CanStart(b) /\ Mirrored' /\ \E type, snap, S, to : Sends(b, type, snap, S, to)
<1>1. PICK from, fromMirror, to, toMirror :
        /\ from = undoStack[b] /\ fromMirror = asked[b].past
        /\ to = redoStack[b] /\ toMirror = asked[b].future
  OBVIOUS
<1>2. /\ from \in Seq(Snapshot) /\ fromMirror \in Seq(Snapshot)
      /\ to \in Seq(Snapshot) /\ toMirror \in Seq(Snapshot)
      /\ Mirrors(from, fromMirror, b) /\ Mirrors(to, toMirror, b)
  BY <1>1, Kept DEF Calm, Mirrored
<1>3. PICK snap, image, doc, undo, redo, past, future :
        /\ snap = Last(from) /\ image = Last(fromMirror) /\ doc = Over(asked[b].doc, image)
        /\ undo = Front(from) /\ past = Front(fromMirror)
        /\ redo = Append(to, At(view[b], DOMAIN Last(from)))
        /\ future = Append(toMirror, At(asked[b].doc, DOMAIN Last(fromMirror)))
  OBVIOUS
<1>4. /\ CanStart(b) /\ from # <<>> /\ fromMirror # <<>>
      /\ undoStack' = [undoStack EXCEPT ![b] = undo] /\ redoStack' = [redoStack EXCEPT ![b] = redo]
      /\ Restore(b, "undo", snap)
      /\ asked' = [asked EXCEPT ![b] = [doc |-> doc, past |-> past, future |-> future]]
      /\ UNCHANGED <<server, reloads, inbox, connected, view, window, recent>>
  BY <1>1, <1>3, UndoDoes
<1>5. /\ snap \in Snapshot /\ image \in Snapshot /\ Alike(snap, image, b)
      /\ Mirrors(undo, past, b) /\ Mirrors(redo, future, b)
  BY <1>2, <1>3, <1>4, Moved
<1>6. Mirrored'
  BY <1>4, <1>5, MirroredStays DEF server, Calm
<1>7. \E S, down : Sends(b, "undo", snap, S, down)
  BY <1>3, <1>4, <1>5, RestoreSends
<1>8. QED
  BY <1>4, <1>6, <1>7

\* So does a redo.
LEMMA RedoSends ==
  ASSUME Patient, Typed, Calm, NEW b \in Browser, Redo(b)
  PROVE  CanStart(b) /\ Mirrored' /\ \E type, snap, S, to : Sends(b, type, snap, S, to)
<1>1. PICK from, fromMirror, to, toMirror :
        /\ from = redoStack[b] /\ fromMirror = asked[b].future
        /\ to = undoStack[b] /\ toMirror = asked[b].past
  OBVIOUS
<1>2. /\ from \in Seq(Snapshot) /\ fromMirror \in Seq(Snapshot)
      /\ to \in Seq(Snapshot) /\ toMirror \in Seq(Snapshot)
      /\ Mirrors(from, fromMirror, b) /\ Mirrors(to, toMirror, b)
  BY <1>1, Kept DEF Calm, Mirrored
<1>3. PICK snap, image, doc, undo, redo, past, future :
        /\ snap = Last(from) /\ image = Last(fromMirror) /\ doc = Over(asked[b].doc, image)
        /\ redo = Front(from) /\ future = Front(fromMirror)
        /\ undo = Append(to, At(view[b], DOMAIN Last(from)))
        /\ past = Append(toMirror, At(asked[b].doc, DOMAIN Last(fromMirror)))
  OBVIOUS
<1>4. /\ CanStart(b) /\ from # <<>> /\ fromMirror # <<>>
      /\ undoStack' = [undoStack EXCEPT ![b] = undo] /\ redoStack' = [redoStack EXCEPT ![b] = redo]
      /\ Restore(b, "redo", snap)
      /\ asked' = [asked EXCEPT ![b] = [doc |-> doc, past |-> past, future |-> future]]
      /\ UNCHANGED <<server, reloads, inbox, connected, view, window, recent>>
  BY <1>1, <1>3, RedoDoes
<1>5. /\ snap \in Snapshot /\ image \in Snapshot /\ Alike(snap, image, b)
      /\ Mirrors(undo, past, b) /\ Mirrors(redo, future, b)
  BY <1>2, <1>3, <1>4, Moved
<1>6. Mirrored'
  BY <1>4, <1>5, MirroredStays DEF server, Calm
<1>7. \E S, down : Sends(b, "redo", snap, S, down)
  BY <1>3, <1>4, <1>5, RestoreSends
<1>8. QED
  BY <1>4, <1>6, <1>7

\* The steps of a user.
LEMMA UserCalm ==
  ASSUME Patient, Typed, Typed', Calm, NEW b \in Browser, Edit(b) \/ Undo(b) \/ Redo(b)
  PROVE  Calm'
<1>1. CanStart(b) /\ Mirrored' /\ \E type, snap, S, to : Sends(b, type, snap, S, to)
  BY EditSends, UndoSends, RedoSends
<1>2. PICK type, snap, S, to : Sends(b, type, snap, S, to)
  BY <1>1
<1>3. PICK new, writes : new = NewTask(b, type, snap) /\ writes = NewWrites(b, S, to)
  OBVIOUS
<1>4. /\ new.by = b /\ new.phase = "writing"
      /\ \A q \in writes : /\ q.task = new.id /\ q.by = b /\ q.stage = "sent"
                           /\ q.slot \in S /\ q.entry = to[q.slot]
  BY <1>3, NewNumbers
<1>5. /\ \/ tasks' = tasks \cup {new} /\ requests' = requests \cup writes
         \/ S = {} /\ tasks' = tasks /\ requests' = requests
      /\ \A c \in Browser \ {b} : asked'[c] = asked[c]
      /\ UNCHANGED <<db, authors, reloads, inbox, view, window>>
  BY <1>2, <1>3 DEF Sends
<1>6. /\ \A t \in tasks : t.by # b
      /\ \A q \in requests : q.by # b
      /\ \A m \in Range(inbox[b]) : m.by # b
  BY <1>1, Prepared
<1>7. \A q \in requests' : q \in Request
  BY DEF Typed, TypeOK
<1>8. Waiting'
  <2>1. OneEach'
    BY <1>4, <1>5, <1>6 DEF Calm, Waiting, OneEach
  <2>2. WritesWait'
    <3>1. SUFFICES ASSUME NEW q \in requests' PROVE \E t \in tasks' : Waits(t, "writing", q)
      BY DEF WritesWait, Waits
    <3>2. CASE q \in requests
      <4>1. PICK t \in tasks : Waits(t, "writing", q)
        BY <3>2 DEF Calm, Waiting, WritesWait
      <4>2. t \in tasks'
        BY <1>5
      <4>3. QED
        BY <4>1, <4>2
    <3>3. CASE q \notin requests
      <4>1. q \in writes /\ new \in tasks'
        BY <1>5, <3>3
      <4>2. QED
        BY <1>4, <4>1 DEF Waits
    <3>4. QED
      BY <3>2, <3>3
  <2>3. ReloadsWait'
    <3>1. SUFFICES ASSUME NEW l \in reloads
                   PROVE  l.window = Home /\ \E t \in tasks' : Waits(t, "reloading", l)
      BY <1>5 DEF ReloadsWait, Waits
    <3>2. tasks \subseteq tasks'
      BY <1>5
    <3>3. QED
      BY <3>2 DEF Calm, Waiting, ReloadsWait
  <2>4. OneReload' /\ StaysHome'
    BY <1>5 DEF Calm, Waiting, OneReload, StaysHome
  <2>5. QED
    BY <2>1, <2>2, <2>3, <2>4 DEF Waiting
<1>9. Known'
  <2>1. WritersKnown'
    BY <1>4, <1>5 DEF Calm, Known, WritersKnown
  <2>2. SendersKnown'
    BY <1>5 DEF Calm, Known, SendersKnown
  <2>3. QED
    BY <2>1, <2>2 DEF Known
<1>10. WritesAgree'
  <2>1. SUFFICES ASSUME NEW q \in requests', OnlyAuthor(q.by, q.slot)
                 PROVE  q.entry = asked'[q.by].doc[q.slot]
    BY <1>5 DEF WritesAgree, OnlyAuthor
  <2>2. q.slot \in Slot /\ q.by \in Browser
    BY <1>7 DEF Request
  <2>3. CASE q \in requests
    BY <1>5, <1>6, <2>1, <2>2, <2>3 DEF Calm, Agreed, WritesAgree
  <2>4. CASE q \notin requests
    <3>1. q \in writes
      BY <1>5, <2>4
    <3>2. q.by = b /\ q.slot \in S /\ q.entry = to[q.slot]
      BY <1>4, <3>1
    <3>3. asked'[b].doc[q.slot] = to[q.slot]
      BY <1>2, <2>1, <2>2, <3>2 DEF Sends
    <3>4. QED
      BY <3>2, <3>3
  <2>5. QED
    BY <2>3, <2>4
<1>11. EchoesAgree'
  <2>1. SUFFICES ASSUME NEW c \in Browser, NEW m \in Range(inbox[c]), m.by = c,
                        OnlyAuthor(c, m.slot)
                 PROVE  m.entry = asked'[c].doc[m.slot]
    BY <1>5 DEF EchoesAgree, OnlyAuthor
  <2>2. c # b
    BY <1>6, <2>1
  <2>3. QED
    BY <1>5, <2>1, <2>2 DEF Calm, Agreed, EchoesAgree
<1>12. StoredAgrees'
  <2>1. SUFFICES ASSUME NEW c \in Browser, NEW k \in Slot, OnlyAuthor(c, k), NoneSent(c, k)'
                 PROVE  db[k] = asked'[c].doc[k]
    BY <1>5 DEF StoredAgrees, OnlyAuthor
  <2>2. CASE c # b
    <3>1. NoneSent(c, k)
      BY <1>5, <2>1 DEF NoneSent
    <3>2. QED
      BY <1>5, <2>1, <2>2, <3>1 DEF Calm, Agreed, StoredAgrees
  <2>3. CASE c = b
    <3>1. k \notin S
      <4>1. SUFFICES ASSUME k \in S PROVE FALSE
        OBVIOUS
      <4>2. PICK q : q = [task |-> count.tasks + 1, by |-> b, slot |-> k, entry |-> to[k],
                          stage |-> "sent"]
        OBVIOUS
      <4>3. q \in writes /\ q.by = b /\ q.slot = k /\ q.stage = "sent"
        BY <1>3, <4>1, <4>2 DEF NewWrites
      <4>4. QED
        BY <1>5, <2>1, <2>3, <4>1, <4>3 DEF NoneSent
    <3>2. QED
      BY <1>2, <2>1, <2>3, <3>1 DEF Sends
  <2>4. QED
    BY <2>2, <2>3
<1>13. Shown'
  <2>1. ReadsAgree'
    BY <1>5 DEF Calm, Shown, ReadsAgree, OnlyAuthor
  <2>2. \A c : Ended(c)' => Ended(c)
    BY <1>5 DEF Ended
  <2>3. ShownAgrees'
    BY <1>5, <2>2 DEF Calm, Shown, ShownAgrees, OnlyAuthor
  <2>4. QED
    BY <2>1, <2>3 DEF Shown
<1>14. QED
  BY <1>1, <1>8, <1>9, <1>10, <1>11, <1>12, <1>13 DEF Calm, Agreed

-----------------------------------------------------------------------------
(* The other steps, while users wait.                                       *)

\* A half-day has more authors than before, and the stacks are the same.
LEMMA MirrorsStay ==
  ASSUME Mirrored, \A k : authors[k] \subseteq authors'[k],
         UNCHANGED <<undoStack, redoStack, asked>>
  PROVE  Mirrored'
<1>1. \A b \in Browser : /\ Mirrors(undoStack[b], asked[b].past, b)
                         /\ Mirrors(redoStack[b], asked[b].future, b)
  BY DEF Mirrored
<1>2. \A b \in Browser : /\ LaterMirrors(undoStack[b], asked[b].past, b)
                         /\ LaterMirrors(redoStack[b], asked[b].future, b)
  BY <1>1, MirrorsLater
<1>3. QED
  BY <1>2, MirroredLater

\* The write q takes a step and is r, now.
Becomes(q, r) ==
  /\ requests' = (requests \ {q}) \cup {r}
  /\ r.task = q.task /\ r.by = q.by /\ r.slot = q.slot /\ r.entry = q.entry

\* The tasks wait for a write that takes a step.
LEMMA StillWaiting ==
  ASSUME Waiting, NEW q \in requests, NEW r, Becomes(q, r), UNCHANGED <<tasks, reloads, window>>
  PROVE  Waiting'
<1>1. WritesWait'
  <2>1. SUFFICES ASSUME NEW o \in requests' PROVE \E t \in tasks : Waits(t, "writing", o)
    BY DEF WritesWait, Waits
  <2>2. CASE o \in requests
    BY <2>2 DEF Waiting, WritesWait
  <2>3. CASE o = r
    BY <2>3 DEF Waiting, WritesWait, Waits, Becomes
  <2>4. QED
    BY <2>2, <2>3 DEF Becomes
<1>2. OneEach' /\ ReloadsWait' /\ OneReload' /\ StaysHome'
  BY DEF Waiting, OneEach, ReloadsWait, Waits, OneReload, StaysHome
<1>3. QED
  BY <1>1, <1>2 DEF Waiting

\* Nobody who has a reload under way, or whose tasks have ended, has a write to store.
LEMMA StoreCalm ==
  ASSUME Typed, Calm, NEW q \in requests, Store(q) PROVE Calm'
<1>1. PICK r \in Request : Becomes(q, r) /\ q \in Request /\ r.stage = "stored"
  BY Advanced DEF Store, Becomes
<1>2. PICK s : s = q.slot
  OBVIOUS
<1>3. s \in Slot /\ q.by \in Browser /\ q.stage = "sent"
  BY <1>1, <1>2 DEF Request, Store
<1>4. /\ authors' = [authors EXCEPT ![s] = authors[s] \cup {q.by}]
      /\ db' = [db EXCEPT ![s] = q.entry]
      /\ UNCHANGED <<reloads, inbox, view, window, undoStack, redoStack, tasks, asked>>
  BY <1>2, <1>3 DEF Store, browser, Typed, TypeOK
<1>5. /\ \A k : authors[k] \subseteq authors'[k]
      /\ q.by \in authors'[s]
      /\ db'[s] = q.entry /\ \A k \in Slot \ {s} : db'[k] = db[k]
  <2>1. authors \in [Slot -> SUBSET Browser] /\ db \in [Slot -> Entry]
    BY DEF Typed, TypeOK, Planning
  <2>2. /\ \A k \in Slot : authors[k] \subseteq authors'[k]
        /\ q.by \in authors'[s]
        /\ db'[s] = q.entry /\ \A k \in Slot \ {s} : db'[k] = db[k]
    BY <1>3, <1>4, <2>1
  <2>3. QED
    BY <1>4, <2>1, <2>2
<1>6. \A b, k : OnlyAuthor(b, k)' => OnlyAuthor(b, k) /\ (k = s => b = q.by)
  BY <1>5 DEF OnlyAuthor
<1>7. Waiting'
  BY <1>1, <1>4, StillWaiting DEF Calm
<1>8. WritersKnown'
  BY <1>1, <1>2, <1>5 DEF Calm, Known, WritersKnown, Becomes
<1>9. SendersKnown'
  BY <1>4, <1>5 DEF Calm, Known, SendersKnown
<1>10. WritesAgree'
  BY <1>1, <1>4, <1>6 DEF Calm, Agreed, WritesAgree, Becomes
<1>11. EchoesAgree'
  BY <1>4, <1>6 DEF Calm, Agreed, EchoesAgree
<1>12. StoredAgrees'
  <2>1. SUFFICES ASSUME NEW b \in Browser, NEW k \in Slot, OnlyAuthor(b, k)', NoneSent(b, k)'
                 PROVE  db'[k] = asked[b].doc[k]
    BY <1>4 DEF StoredAgrees
  <2>2. CASE k = s
    <3>1. b = q.by /\ OnlyAuthor(b, k)
      BY <1>6, <2>1, <2>2
    <3>2. q.entry = asked[b].doc[k]
      BY <1>2, <2>2, <3>1 DEF Calm, Agreed, WritesAgree
    <3>3. QED
      BY <1>5, <2>2, <3>2
  <2>3. CASE k # s
    <3>1. NoneSent(b, k)
      BY <1>1, <1>2, <2>1, <2>3 DEF NoneSent, Becomes
    <3>2. QED
      BY <1>5, <1>6, <2>1, <2>3, <3>1 DEF Calm, Agreed, StoredAgrees
  <2>4. QED
    BY <2>2, <2>3
<1>13. Home \subseteq Slot
  BY SpaAssumption DEF SpaAssumption
<1>14. ReadsAgree'
  <2>1. SUFFICES ASSUME NEW l \in reloads, l.read # <<>>, NEW k \in Home, OnlyAuthor(l.by, k)'
                 PROVE  l.read[1][k] = db'[k]
    BY <1>4 DEF ReadsAgree
  <2>2. l.by # q.by
    BY Phases DEF Calm
  <2>3. OnlyAuthor(l.by, k) /\ k \in Slot \ {s}
    BY <1>6, <1>13, <2>1, <2>2
  <2>4. QED
    BY <1>5, <2>1, <2>3 DEF Calm, Shown, ReadsAgree
<1>15. ShownAgrees'
  <2>1. SUFFICES ASSUME NEW b \in Browser, Ended(b), NEW k \in Home, OnlyAuthor(b, k)'
                 PROVE  view[b][k] = db'[k]
    BY <1>4 DEF ShownAgrees, Ended
  <2>2. b # q.by
    BY <2>1, Phases DEF Calm
  <2>3. OnlyAuthor(b, k) /\ k \in Slot \ {s}
    BY <1>6, <1>13, <2>1, <2>2
  <2>4. QED
    BY <1>5, <2>1, <2>3 DEF Calm, Shown, ShownAgrees
<1>16. Mirrored'
  BY <1>4, <1>5, MirrorsStay DEF Calm
<1>17. QED
  BY <1>7, <1>8, <1>9, <1>10, <1>11, <1>12, <1>14, <1>15, <1>16 DEF Calm, Known, Agreed, Shown

\* The messages that are in a box, and what is left of them.
LEMMA Boxes ==
  ASSUME NEW box \in Seq(Message)
  PROVE  /\ Range(<<>>) = {}
         /\ \A m \in Message : Range(Append(box, m)) \subseteq Range(box) \cup {m}
         /\ box # <<>> => Head(box) \in Range(box) /\ Range(Tail(box)) \subseteq Range(box)
<1>1. Range(<<>>) = {}
  <2>1. DOMAIN <<>> = {}
    OBVIOUS
  <2>2. QED
    BY <2>1 DEF Range
<1>2. PICK n : n = Len(box)
  OBVIOUS
<1>3. n \in Nat /\ DOMAIN box = 1..n
  BY <1>2
<1>4. ASSUME NEW m \in Message
      PROVE  Range(Append(box, m)) \subseteq Range(box) \cup {m}
  <2>1. PICK longer : longer = Append(box, m)
    OBVIOUS
  <2>2. DOMAIN longer = 1..(n + 1) /\ longer[n + 1] = m /\ \A i \in 1..n : longer[i] = box[i]
    BY <1>2, <2>1
  <2>3. \A i \in 1..(n + 1) : i \in 1..n \/ i = n + 1
    BY <1>3
  <2>4. Range(longer) \subseteq Range(box) \cup {m}
    BY <1>3, <2>2, <2>3 DEF Range
  <2>5. QED
    BY <2>1, <2>4
<1>5. ASSUME box # <<>>
      PROVE  Head(box) \in Range(box) /\ Range(Tail(box)) \subseteq Range(box)
  <2>1. PICK rest : rest = Tail(box)
    OBVIOUS
  <2>2. /\ n # 0 /\ Head(box) = box[1]
        /\ DOMAIN rest = 1..(n - 1) /\ \A i \in 1..(n - 1) : rest[i] = box[i + 1]
    BY <1>2, <1>5, <2>1
  <2>3. 1 \in 1..n /\ \A i \in 1..(n - 1) : i + 1 \in 1..n
    BY <1>3, <2>2
  <2>4. Head(box) \in Range(box)
    BY <1>3, <2>2, <2>3 DEF Range
  <2>5. Range(rest) \subseteq Range(box)
    BY <1>3, <2>2, <2>3 DEF Range
  <2>6. QED
    BY <2>1, <2>4, <2>5
<1>6. QED
  BY <1>1, <1>4, <1>5

\* A write that is told says what its author asked for.
LEMMA TellCalm ==
  ASSUME Typed, Calm, NEW q \in requests, Tell(q) PROVE Calm'
<1>1. PICK skipped \in SUBSET connected :
        /\ q.stage = "stored"
        /\ inbox' = [b \in Browser |->
             IF b \in connected \ skipped
             THEN Append(inbox[b], [by |-> q.by, slot |-> q.slot, entry |-> q.entry])
             ELSE inbox[b]]
        /\ Advance(q, "told")
        /\ UNCHANGED <<server, reloads, connected, browser>>
  BY DEF Tell
<1>2. PICK r \in Request : Becomes(q, r) /\ q \in Request
  BY <1>1, Advanced DEF Becomes
<1>3. UNCHANGED <<db, authors, reloads, view, window, undoStack, redoStack, tasks, asked>>
  BY <1>1 DEF server, browser
<1>4. PICK m : m = [by |-> q.by, slot |-> q.slot, entry |-> q.entry]
  OBVIOUS
<1>5. m \in Message /\ m.by = q.by /\ m.slot = q.slot /\ m.entry = q.entry
  BY <1>2, <1>4 DEF Message, Request
<1>6. \A b \in Browser : Range(inbox'[b]) \subseteq Range(inbox[b]) \cup {m}
  <2>1. SUFFICES ASSUME NEW b \in Browser
                 PROVE  Range(inbox'[b]) \subseteq Range(inbox[b]) \cup {m}
    OBVIOUS
  <2>2. inbox[b] \in Seq(Message)
    BY DEF Typed, TypeOK
  <2>3. inbox'[b] = Append(inbox[b], m) \/ inbox'[b] = inbox[b]
    BY <1>1, <1>4
  <2>4. Range(Append(inbox[b], m)) \subseteq Range(inbox[b]) \cup {m}
    BY <1>5, <2>2, Boxes
  <2>5. QED
    BY <2>3, <2>4
<1>7. m.by \in authors[m.slot] /\ (OnlyAuthor(m.by, m.slot) => m.entry = asked[m.by].doc[m.slot])
  BY <1>1, <1>5 DEF Calm, Known, WritersKnown, Agreed, WritesAgree
<1>8. Waiting'
  BY <1>2, <1>3, StillWaiting DEF Calm
<1>9. WritersKnown'
  BY <1>1, <1>2, <1>3 DEF Calm, Known, WritersKnown, Becomes
<1>10. SendersKnown'
  BY <1>3, <1>6, <1>7 DEF Calm, Known, SendersKnown
<1>11. WritesAgree'
  BY <1>2, <1>3 DEF Calm, Agreed, WritesAgree, Becomes, OnlyAuthor
<1>12. EchoesAgree'
  <2>1. SUFFICES ASSUME NEW b \in Browser, NEW o \in Range(inbox'[b]), o.by = b,
                        OnlyAuthor(b, o.slot)
                 PROVE  o.entry = asked[b].doc[o.slot]
    BY <1>3 DEF EchoesAgree, OnlyAuthor
  <2>2. o \in Range(inbox[b]) \/ o = m
    BY <1>6
  <2>3. QED
    BY <1>7, <2>1, <2>2 DEF Calm, Agreed, EchoesAgree
<1>13. StoredAgrees'
  <2>1. \A b, k : NoneSent(b, k)' => NoneSent(b, k)
    BY <1>1, <1>2 DEF NoneSent, Becomes
  <2>2. QED
    BY <1>3, <2>1 DEF Calm, Agreed, StoredAgrees, OnlyAuthor
<1>14. Shown'
  BY <1>3 DEF Calm, Shown, ReadsAgree, ShownAgrees, Ended, OnlyAuthor
<1>15. Mirrored'
  BY <1>3, MirrorsStay DEF Calm
<1>16. QED
  BY <1>8, <1>9, <1>10, <1>11, <1>12, <1>13, <1>14, <1>15 DEF Calm, Known, Agreed

\* An answered write was stored.
LEMMA AnswerCalm ==
  ASSUME Typed, Calm, NEW q \in requests, Answer(q) PROVE Calm'
<1>1. /\ q.stage = "told" /\ requests' = requests \ {q}
      /\ UNCHANGED <<db, authors, reloads, inbox, view, window, undoStack, redoStack, tasks, asked>>
  BY DEF Answer, server, browser
<1>2. Waiting'
  BY <1>1 DEF Calm, Waiting, OneEach, WritesWait, ReloadsWait, Waits, OneReload, StaysHome
<1>3. Known'
  BY <1>1 DEF Calm, Known, WritersKnown, SendersKnown
<1>4. Agreed'
  <2>1. \A b, k : NoneSent(b, k)' => NoneSent(b, k)
    BY <1>1 DEF NoneSent
  <2>2. StoredAgrees'
    BY <1>1, <2>1 DEF Calm, Agreed, StoredAgrees, OnlyAuthor
  <2>3. WritesAgree' /\ EchoesAgree'
    BY <1>1 DEF Calm, Agreed, WritesAgree, EchoesAgree, OnlyAuthor
  <2>4. QED
    BY <2>2, <2>3 DEF Agreed
<1>5. Shown'
  BY <1>1 DEF Calm, Shown, ReadsAgree, ShownAgrees, Ended, OnlyAuthor
<1>6. Mirrored'
  BY <1>1, MirrorsStay DEF Calm
<1>7. QED
  BY <1>2, <1>3, <1>4, <1>5, <1>6 DEF Calm

\* A task asks for its reload when its writes are answered, and for one only.
LEMMA AskReloadCalm ==
  ASSUME Typed, Owned, Calm, NEW t \in tasks, AskReload(t) PROVE Calm'
<1>1. PICK u \in Task :
        /\ u.id = t.id /\ u.by = t.by /\ u.phase = "reloading"
        /\ tasks' = (tasks \ {t}) \cup {u}
  <2>1. PICK u \in Task : /\ u = [t EXCEPT !.phase = "reloading"]
                          /\ u.id = t.id /\ u.by = t.by /\ u.phase = "reloading"
    BY Rephased
  <2>2. tasks' = (tasks \ {t}) \cup {u}
    BY <2>1 DEF AskReload, Phase
  <2>3. QED
    BY <2>1, <2>2
<1>2. PICK l :
        /\ l.task = t.id /\ l.by = t.by /\ l.window = window[t.by] /\ l.read = <<>>
        /\ reloads' = reloads \cup {l}
  <2>1. PICK l : l = NewReload(t.id, t.by, window[t.by])
    OBVIOUS
  <2>2. l.task = t.id /\ l.by = t.by /\ l.window = window[t.by] /\ l.read = <<>>
    BY <2>1 DEF NewReload
  <2>3. reloads' = reloads \cup {l}
    BY <2>1 DEF AskReload, NewReload
  <2>4. QED
    BY <2>2, <2>3
<1>3. /\ t.phase = "writing" /\ Written(t)
      /\ UNCHANGED <<db, authors, requests, inbox, view, window, undoStack, redoStack, asked>>
  BY DEF AskReload, server
<1>4. t.by \in Browser
  BY DEF Typed, TypeOK, Task
<1>5. \A k \in reloads : k.by # t.by
  BY <1>3, Phases DEF Calm
<1>6. Waiting'
  <2>1. OneEach'
    BY <1>1 DEF Calm, Waiting, OneEach
  <2>2. WritesWait'
    <3>1. SUFFICES ASSUME NEW q \in requests PROVE \E v \in tasks' : Waits(v, "writing", q)
      BY <1>3 DEF WritesWait, Waits
    <3>2. PICK v \in tasks : Waits(v, "writing", q)
      BY DEF Calm, Waiting, WritesWait
    <3>3. v # t
      BY <1>3, <3>2 DEF Written, Waits
    <3>4. QED
      BY <1>1, <3>2, <3>3
  <2>3. ReloadsWait'
    <3>1. SUFFICES ASSUME NEW k \in reloads'
                   PROVE  k.window = Home /\ \E v \in tasks' : Waits(v, "reloading", k)
      BY DEF ReloadsWait, Waits
    <3>2. CASE k \in reloads
      <4>1. k.window = Home
        BY <3>2 DEF Calm, Waiting, ReloadsWait
      <4>2. PICK v \in tasks : Waits(v, "reloading", k)
        BY <3>2 DEF Calm, Waiting, ReloadsWait
      <4>3. v # t
        BY <1>3, <4>2 DEF Waits
      <4>4. QED
        BY <1>1, <4>1, <4>2, <4>3
    <3>3. CASE k = l
      BY <1>1, <1>2, <1>4, <3>3 DEF Calm, Waiting, StaysHome, Waits
    <3>4. QED
      BY <1>2, <3>2, <3>3
  <2>4. OneReload'
    BY <1>2, <1>5 DEF Calm, Waiting, OneReload
  <2>5. StaysHome'
    BY <1>3 DEF Calm, Waiting, StaysHome
  <2>6. QED
    BY <2>1, <2>2, <2>3, <2>4, <2>5 DEF Waiting
<1>7. Known'
  BY <1>3 DEF Calm, Known, WritersKnown, SendersKnown
<1>8. Agreed'
  BY <1>3 DEF Calm, Agreed, WritesAgree, EchoesAgree, StoredAgrees, NoneSent, OnlyAuthor
<1>9. ReadsAgree'
  BY <1>2, <1>3 DEF Calm, Shown, ReadsAgree, OnlyAuthor
<1>10. ShownAgrees'
  <2>1. \A b : Ended(b)' => Ended(b)
    BY <1>1 DEF Ended
  <2>2. QED
    BY <1>3, <2>1 DEF Calm, Shown, ShownAgrees, OnlyAuthor
<1>11. Mirrored'
  BY <1>3, MirrorsStay DEF Calm
<1>12. QED
  BY <1>6, <1>7, <1>8, <1>9, <1>10, <1>11 DEF Calm, Shown

\* A task ends when its reload has come: what it shows is what the database holds.
LEMMA EndCalm ==
  ASSUME Typed, Calm, NEW t \in tasks, End(t) PROVE Calm'
<1>1. /\ t.phase = "ending" /\ tasks' = tasks \ {t}
      /\ UNCHANGED <<db, authors, requests, reloads, inbox, view, window, undoStack, redoStack,
                     asked>>
  BY DEF End, server, network
<1>2. Waiting'
  <2>1. OneEach' /\ OneReload' /\ StaysHome'
    BY <1>1 DEF Calm, Waiting, OneEach, OneReload, StaysHome
  <2>2. WritesWait'
    BY <1>1 DEF Calm, Waiting, WritesWait, Waits
  <2>3. ReloadsWait'
    BY <1>1 DEF Calm, Waiting, ReloadsWait, Waits
  <2>4. QED
    BY <2>1, <2>2, <2>3 DEF Waiting
<1>3. Known'
  BY <1>1 DEF Calm, Known, WritersKnown, SendersKnown
<1>4. Agreed'
  BY <1>1 DEF Calm, Agreed, WritesAgree, EchoesAgree, StoredAgrees, NoneSent, OnlyAuthor
<1>5. Shown'
  <2>1. \A b : Ended(b)' => Ended(b)
    BY <1>1 DEF Ended
  <2>2. QED
    BY <1>1, <2>1 DEF Calm, Shown, ReadsAgree, ShownAgrees, OnlyAuthor
<1>6. Mirrored'
  BY <1>1, MirrorsStay DEF Calm
<1>7. QED
  BY <1>2, <1>3, <1>4, <1>5, <1>6 DEF Calm

\* A reload reads what the database holds.
LEMMA ServeReloadCalm ==
  ASSUME Typed, Calm, NEW l \in reloads, ServeReload(l) PROVE Calm'
<1>1. PICK r \in Reload :
        /\ r.task = l.task /\ r.by = l.by /\ r.window = l.window /\ r.read = <<db>>
        /\ reloads' = (reloads \ {l}) \cup {r}
  BY Served
<1>2. UNCHANGED <<db, authors, requests, inbox, view, window, undoStack, redoStack, tasks, asked>>
  BY DEF ServeReload, server, browser
<1>3. r.read[1] = db
  BY <1>1
<1>4. Waiting'
  <2>1. OneEach' /\ WritesWait' /\ StaysHome'
    BY <1>2 DEF Calm, Waiting, OneEach, WritesWait, Waits, StaysHome
  <2>2. ReloadsWait'
    BY <1>1, <1>2 DEF Calm, Waiting, ReloadsWait, Waits
  <2>3. OneReload'
    BY <1>1 DEF Calm, Waiting, OneReload
  <2>4. QED
    BY <2>1, <2>2, <2>3 DEF Waiting
<1>5. Known'
  BY <1>2 DEF Calm, Known, WritersKnown, SendersKnown
<1>6. Agreed'
  BY <1>2 DEF Calm, Agreed, WritesAgree, EchoesAgree, StoredAgrees, NoneSent, OnlyAuthor
<1>7. ReadsAgree'
  BY <1>1, <1>2, <1>3 DEF Calm, Shown, ReadsAgree, OnlyAuthor
<1>8. ShownAgrees'
  BY <1>2 DEF Calm, Shown, ShownAgrees, Ended, OnlyAuthor
<1>9. Mirrored'
  BY <1>2, MirrorsStay DEF Calm
<1>10. QED
  BY <1>4, <1>5, <1>6, <1>7, <1>8, <1>9 DEF Calm, Shown

\* A reload that comes was read when its browser had nothing left to store.
LEMMA ReceiveReloadCalm ==
  ASSUME Typed, Owned, Calm, NEW l \in reloads, ReceiveReload(l) PROVE Calm'
<1>1. PICK shown :
        /\ shown = [k \in Slot |-> IF k \in l.window THEN l.read[1][k] ELSE NoEntry]
        /\ l \in Reload /\ l.read # <<>> /\ view' = [view EXCEPT ![l.by] = shown]
  BY Received
<1>2. /\ \A u \in tasks' : \E t \in tasks : GoesOn(t, u, l)
      /\ \A t \in tasks : \E u \in tasks' : GoesOn(t, u, l)
  BY Received
<1>3. /\ reloads' = reloads \ {l}
      /\ UNCHANGED <<db, authors, requests, inbox, window, undoStack, redoStack, asked>>
  BY DEF ReceiveReload, server
<1>4. /\ l.window = Home
      /\ \A t \in tasks : t.id = l.task => t.by = l.by /\ t.phase = "reloading"
  <2>1. PICK t \in tasks : Waits(t, "reloading", l)
    BY DEF Calm, Waiting, ReloadsWait
  <2>2. \A u \in tasks : u.id = l.task => u = t
    BY <2>1 DEF Owned, TasksAreNumbered, Waits
  <2>3. l.window = Home
    BY DEF Calm, Waiting, ReloadsWait
  <2>4. QED
    BY <2>1, <2>2, <2>3 DEF Waits
<1>5. \A t \in tasks : t.by # l.by \/ t.phase # "reloading" => t \in tasks'
  BY <1>2, <1>4 DEF GoesOn
<1>6. Waiting'
  <2>1. OneEach'
    <3>1. SUFFICES ASSUME NEW t \in tasks', NEW u \in tasks', t.by = u.by PROVE t = u
      BY DEF OneEach
    <3>2. tasks' = {IF v.id = l.task THEN [v EXCEPT !.phase = "ending"] ELSE v : v \in tasks}
      BY DEF ReceiveReload
    <3>3. PICK v \in tasks, w \in tasks :
            /\ t = IF v.id = l.task THEN [v EXCEPT !.phase = "ending"] ELSE v
            /\ u = IF w.id = l.task THEN [w EXCEPT !.phase = "ending"] ELSE w
      BY <3>2
    <3>4. t.by = v.by /\ u.by = w.by
      BY <3>3 DEF Typed, TypeOK, Task
    <3>5. v = w
      BY <3>1, <3>4 DEF Calm, Waiting, OneEach
    <3>6. QED
      BY <3>3, <3>5
  <2>2. WritesWait'
    <3>1. SUFFICES ASSUME NEW q \in requests PROVE \E t \in tasks' : Waits(t, "writing", q)
      BY <1>3 DEF WritesWait, Waits
    <3>2. PICK t \in tasks : Waits(t, "writing", q)
      BY DEF Calm, Waiting, WritesWait
    <3>3. t \in tasks'
      BY <1>5, <3>2 DEF Waits
    <3>4. QED
      BY <3>2, <3>3
  <2>3. ReloadsWait'
    <3>1. SUFFICES ASSUME NEW k \in reloads, k # l
                   PROVE  k.window = Home /\ \E t \in tasks' : Waits(t, "reloading", k)
      BY <1>3 DEF ReloadsWait, Waits
    <3>2. PICK t \in tasks : Waits(t, "reloading", k)
      BY DEF Calm, Waiting, ReloadsWait
    <3>3. t.by # l.by
      BY <3>1, <3>2 DEF Calm, Waiting, OneReload, Waits
    <3>4. k.window = Home
      BY DEF Calm, Waiting, ReloadsWait
    <3>5. QED
      BY <1>5, <3>2, <3>3, <3>4
  <2>4. OneReload' /\ StaysHome'
    BY <1>3 DEF Calm, Waiting, OneReload, StaysHome
  <2>5. QED
    BY <2>1, <2>2, <2>3, <2>4 DEF Waiting
<1>7. Known'
  BY <1>3 DEF Calm, Known, WritersKnown, SendersKnown
<1>8. Agreed'
  BY <1>3 DEF Calm, Agreed, WritesAgree, EchoesAgree, StoredAgrees, NoneSent, OnlyAuthor
<1>9. ReadsAgree'
  BY <1>3 DEF Calm, Shown, ReadsAgree, OnlyAuthor
<1>10. ShownAgrees'
  <2>1. SUFFICES ASSUME NEW b \in Browser, Ended(b)', NEW k \in Home, OnlyAuthor(b, k)
                 PROVE  view'[b][k] = db[k]
    BY <1>3 DEF ShownAgrees, OnlyAuthor
  <2>2. view \in [Browser -> Planning]
    BY DEF Typed, TypeOK
  <2>3. CASE b = l.by
    <3>1. view'[b] = shown
      BY <1>1, <2>2, <2>3
    <3>2. k \in Slot
      BY SpaAssumption DEF SpaAssumption
    <3>3. l.read[1][k] = db[k]
      BY <1>1, <2>1, <2>3 DEF Calm, Shown, ReadsAgree
    <3>4. QED
      BY <1>1, <1>4, <3>1, <3>2, <3>3
  <2>4. CASE b # l.by
    <3>1. Ended(b)
      BY <1>5, <2>1, <2>4 DEF Ended
    <3>2. view'[b] = view[b]
      BY <1>1, <2>2, <2>4
    <3>3. QED
      BY <2>1, <3>1, <3>2 DEF Calm, Shown, ShownAgrees
  <2>5. QED
    BY <2>3, <2>4
<1>11. Mirrored'
  BY <1>3, MirrorsStay DEF Calm
<1>12. QED
  BY <1>6, <1>7, <1>8, <1>9, <1>10, <1>11 DEF Calm, Shown

\* A message about a half-day that only this user writes is an echo; once the browser has
\* nothing left to store, it says what the database holds.
LEMMA ReceiveMessageCalm ==
  ASSUME Typed, Calm, NEW b \in Browser, ReceiveMessage(b) PROVE Calm'
<1>1. PICK box, rest, m : box = inbox[b] /\ rest = Tail(box) /\ m = Head(box)
  OBVIOUS
<1>2. /\ inbox \in [Browser -> Seq(Message)] /\ view \in [Browser -> Planning]
      /\ box \in Seq(Message) /\ box # <<>> /\ m \in Message
      /\ inbox' = [inbox EXCEPT ![b] = rest]
      /\ \/ view' = view
         \/ view' = [view EXCEPT ![b] = [view[b] EXCEPT ![m.slot] = m.entry]]
  BY <1>1, Taken DEF Typed, TypeOK
<1>3. UNCHANGED <<db, authors, requests, reloads, window, undoStack, redoStack, tasks, asked>>
  BY DEF ReceiveMessage, server
<1>4. m \in Range(inbox[b]) /\ \A c \in Browser : Range(inbox'[c]) \subseteq Range(inbox[c])
  <2>1. m \in Range(box) /\ Range(rest) \subseteq Range(box)
    BY <1>1, <1>2, Boxes
  <2>2. \A c \in Browser : inbox'[c] = IF c = b THEN rest ELSE inbox[c]
    BY <1>2
  <2>3. QED
    BY <1>1, <2>1, <2>2
<1>5. Waiting'
  BY <1>3 DEF Calm, Waiting, OneEach, WritesWait, ReloadsWait, Waits, OneReload, StaysHome
<1>6. Known'
  BY <1>3, <1>4 DEF Calm, Known, WritersKnown, SendersKnown
<1>7. Agreed'
  <2>1. EchoesAgree'
    BY <1>3, <1>4 DEF Calm, Agreed, EchoesAgree, OnlyAuthor
  <2>2. WritesAgree' /\ StoredAgrees'
    BY <1>3 DEF Calm, Agreed, WritesAgree, StoredAgrees, NoneSent, OnlyAuthor
  <2>3. QED
    BY <2>1, <2>2 DEF Agreed
<1>8. ReadsAgree'
  BY <1>3 DEF Calm, Shown, ReadsAgree, OnlyAuthor
<1>9. ShownAgrees'
  <2>1. SUFFICES ASSUME NEW c \in Browser, Ended(c), NEW k \in Home, OnlyAuthor(c, k)
                 PROVE  view'[c][k] = db[k]
    BY <1>3 DEF ShownAgrees, Ended, OnlyAuthor
  <2>2. view[c][k] = db[k]
    BY <2>1 DEF Calm, Shown, ShownAgrees
  <2>3. CASE c # b \/ k # m.slot
    <3>1. view[b] \in [Slot -> Entry]
      BY <1>2 DEF Planning
    <3>2. view'[c][k] = view[c][k]
      <4>1. PICK shown : shown = [view[b] EXCEPT ![m.slot] = m.entry]
        OBVIOUS
      <4>2. k # m.slot => shown[k] = view[b][k]
        BY <3>1, <4>1
      <4>3. view' = view \/ view' = [view EXCEPT ![b] = shown]
        BY <1>2, <4>1
      <4>4. QED
        BY <1>2, <2>3, <4>2, <4>3
    <3>3. QED
      BY <2>2, <3>2
  <2>4. CASE c = b /\ k = m.slot
    <3>1. m.by = b
      BY <1>4, <2>1, <2>4 DEF Calm, Known, SendersKnown, OnlyAuthor
    <3>2. m.entry = asked[b].doc[k]
      BY <1>4, <2>1, <2>4, <3>1 DEF Calm, Agreed, EchoesAgree
    <3>3. k \in Slot
      BY SpaAssumption DEF SpaAssumption
    <3>4. NoneSent(b, k)
      BY <2>1, <2>4, Phases DEF Calm, NoneSent
    <3>5. db[k] = asked[b].doc[k]
      BY <2>1, <2>4, <3>3, <3>4 DEF Calm, Agreed, StoredAgrees
    <3>6. view[b] \in [Slot -> Entry]
      BY <1>2 DEF Planning
    <3>7. view'[b][k] = view[b][k] \/ view'[b][k] = m.entry
      BY <1>2, <2>4, <3>3, <3>6
    <3>8. QED
      BY <2>2, <2>4, <3>2, <3>5, <3>7
  <2>5. QED
    BY <2>3, <2>4
<1>10. Mirrored'
  BY <1>3, MirrorsStay DEF Calm
<1>11. QED
  BY <1>5, <1>6, <1>7, <1>8, <1>9, <1>10 DEF Calm, Shown

\* Steps that change none of what is promised here: at most, messages are lost.
LEMMA OthersCalm ==
  ASSUME Typed, Calm,
         (\E b \in Browser : Expire(b) \/ Disconnect(b) \/ Reconnect(b)) \/ UNCHANGED vars
  PROVE  Calm'
<1>1. UNCHANGED <<db, authors, requests, reloads, view, window, undoStack, redoStack, tasks, asked>>
  BY DEF Expire, Disconnect, Reconnect, vars, server, network, browser
<1>2. \A b \in Browser : Range(inbox'[b]) \subseteq Range(inbox[b])
  <2>1. inbox \in [Browser -> Seq(Message)]
    BY DEF Typed, TypeOK
  <2>2. inbox' = inbox \/ \E b \in Browser : inbox' = [inbox EXCEPT ![b] = <<>>]
    BY DEF Expire, Disconnect, Reconnect, vars, network
  <2>3. Range(<<>>) = {}
    <3>1. DOMAIN <<>> = {}
      OBVIOUS
    <3>2. QED
      BY <3>1 DEF Range
  <2>4. SUFFICES ASSUME NEW b \in Browser PROVE Range(inbox'[b]) \subseteq Range(inbox[b])
    OBVIOUS
  <2>5. inbox'[b] = inbox[b] \/ inbox'[b] = <<>>
    BY <2>1, <2>2
  <2>6. QED
    BY <2>3, <2>5
<1>3. Waiting'
  BY <1>1 DEF Calm, Waiting, OneEach, WritesWait, ReloadsWait, Waits, OneReload, StaysHome
<1>4. Known'
  BY <1>1, <1>2 DEF Calm, Known, WritersKnown, SendersKnown
<1>5. Agreed'
  <2>1. EchoesAgree'
    BY <1>1, <1>2 DEF Calm, Agreed, EchoesAgree, OnlyAuthor
  <2>2. WritesAgree' /\ StoredAgrees'
    BY <1>1 DEF Calm, Agreed, WritesAgree, StoredAgrees, NoneSent, OnlyAuthor
  <2>3. QED
    BY <2>1, <2>2 DEF Agreed
<1>6. Shown'
  BY <1>1 DEF Calm, Shown, ReadsAgree, ShownAgrees, Ended, OnlyAuthor
<1>7. Mirrored'
  BY <1>1, MirrorsStay DEF Calm
<1>8. QED
  BY <1>3, <1>4, <1>5, <1>6, <1>7 DEF Calm

\* Everyone shows the empty planning, and asked for nothing.
LEMMA InitCalm == Init => Calm
<1>1. SUFFICES ASSUME Init PROVE Calm
  OBVIOUS
<1>2. /\ requests = {} /\ reloads = {} /\ tasks = {}
      /\ \A b \in Browser :
           /\ inbox[b] = <<>> /\ window[b] = Home /\ view[b] = db
           /\ undoStack[b] = <<>> /\ redoStack[b] = <<>>
           /\ asked[b] = [doc |-> db, past |-> <<>>, future |-> <<>>]
  BY <1>1 DEF Init
<1>3. Range(<<>>) = {}
  <2>1. DOMAIN <<>> = {}
    OBVIOUS
  <2>2. QED
    BY <2>1 DEF Range
<1>4. Waiting
  BY <1>2 DEF Waiting, OneEach, WritesWait, ReloadsWait, OneReload, StaysHome
<1>5. Known
  BY <1>2, <1>3 DEF Known, WritersKnown, SendersKnown
<1>6. \A b \in Browser : asked[b].doc = db /\ asked[b].past = <<>> /\ asked[b].future = <<>>
  BY <1>2
<1>7. Agreed
  <2>1. WritesAgree /\ EchoesAgree
    BY <1>2, <1>3 DEF WritesAgree, EchoesAgree
  <2>2. StoredAgrees
    BY <1>6 DEF StoredAgrees
  <2>3. QED
    BY <2>1, <2>2 DEF Agreed
<1>8. Shown
  BY <1>2 DEF Shown, ReadsAgree, ShownAgrees
<1>9. Mirrored
  <2>1. \A b : Mirrors(<<>>, <<>>, b)
    BY DEF Mirrors
  <2>2. QED
    BY <1>2, <1>6, <2>1 DEF Mirrored
<1>10. QED
  BY <1>4, <1>5, <1>7, <1>8, <1>9 DEF Calm

\* A move of the window or a failure ends what is promised, and no step restores it.
LEMMA Disturbs ==
  ASSUME Typed, [Next]_vars, Undisturbed'
  PROVE  /\ Undisturbed
         /\ ~\E b \in Browser : Scroll(b)
         /\ ~\E q \in requests : FailQuietly(q) \/ FailLoudly(q)
<1>1. count \in Counts /\ count.scrolls \in Nat /\ count.failures \in Nat
  BY Bounds DEF Typed, TypeOK, Counts
<1>2. \A b \in Browser : Scroll(b) => count'.scrolls = count.scrolls + 1
  BY <1>1 DEF Scroll, Counts
<1>3. \A q \in requests : Fail(q) => count'.failures = count.failures + 1
  BY <1>1 DEF Fail, Counts
<1>4. ~\E b \in Browser : Scroll(b)
  BY <1>1, <1>2 DEF Undisturbed
<1>5. ~\E q \in requests : FailQuietly(q) \/ FailLoudly(q)
  BY <1>1, <1>3 DEF Undisturbed, FailQuietly, FailLoudly
<1>6. count'.scrolls = count.scrolls /\ count'.failures = count.failures
  <2>1. CASE \E b \in Browser : Edit(b) \/ Undo(b) \/ Redo(b)
    BY <2>1, Begins DEF SameButTasks
  <2>2. CASE \E q \in requests : Tell(q)
    BY <1>1, <2>2 DEF Tell, Counts
  <2>3. CASE \/ \E q \in requests : Store(q) \/ Answer(q)
             \/ \E t \in tasks : AskReload(t) \/ End(t)
             \/ \E l \in reloads : ServeReload(l) \/ ReceiveReload(l)
             \/ \E b \in Browser : ReceiveMessage(b) \/ Expire(b) \/ Reconnect(b)
             \/ UNCHANGED vars
    BY <2>3 DEF Store, Answer, AskReload, End, ServeReload, ReceiveReload, ReceiveMessage, Expire,
                Reconnect, vars
  <2>4. CASE \E b \in Browser : Disconnect(b)
    BY <1>1, <2>4 DEF Disconnect, Counts
  <2>5. QED
    BY <1>4, <1>5, <2>1, <2>2, <2>3, <2>4, Steps, Zenon
<1>7. QED
  BY <1>4, <1>5, <1>6 DEF Undisturbed

\* While users wait and nothing disturbs them, all agrees.
LEMMA AlwaysCalm == ASSUME Patient PROVE Spec => [](Undisturbed => Calm)
<1>1. ASSUME Typed, Typed', Owned, Undisturbed => Calm, [Next]_vars
      PROVE  (Undisturbed => Calm)'
  <2>1. SUFFICES ASSUME Undisturbed' PROVE Calm'
    OBVIOUS
  <2>2. /\ Calm
        /\ ~\E b \in Browser : Scroll(b)
        /\ ~\E q \in requests : FailQuietly(q) \/ FailLoudly(q)
    BY <1>1, <2>1, Disturbs
  <2>3. CASE \E b \in Browser : Edit(b) \/ Undo(b) \/ Redo(b)
    BY <1>1, <2>2, <2>3, UserCalm
  <2>4. CASE \E q \in requests : Store(q) \/ Tell(q) \/ Answer(q)
    BY <1>1, <2>2, <2>4, StoreCalm, TellCalm, AnswerCalm
  <2>5. CASE \E t \in tasks : AskReload(t) \/ End(t)
    BY <1>1, <2>2, <2>5, AskReloadCalm, EndCalm
  <2>6. CASE \E l \in reloads : ServeReload(l) \/ ReceiveReload(l)
    BY <1>1, <2>2, <2>6, ServeReloadCalm, ReceiveReloadCalm
  <2>7. CASE \/ \E b \in Browser : Expire(b) \/ Disconnect(b) \/ Reconnect(b)
             \/ UNCHANGED vars
    BY <1>1, <2>2, <2>7, OthersCalm
  <2>8. CASE \E b \in Browser : ReceiveMessage(b)
    BY <1>1, <2>2, <2>8, ReceiveMessageCalm
  <2>9. QED
    BY <1>1, <2>2, <2>3, <2>4, <2>5, <2>6, <2>7, <2>8, Steps, Zenon
<1>2. Init => (Undisturbed => Calm)
  BY InitCalm
<1>3. QED
  BY AlwaysTyped, AlwaysOwned, <1>1, <1>2, PTL DEF Spec

\* When a user who waits for each task, and for its echoes, is done, the database holds
\* what the user's edits, undos and redos amount to, in every half-day that only this user
\* writes (app.js, undo and redo, which write the snapshot's half-days that the browser
\* shows otherwise; README.md, "reverting to the server"): whatever else is written, lost
\* or late, while no window moves and no request fails.
THEOREM UndoingReverts == ASSUME Patient PROVE Spec => []UndoRevertsUndisturbed
<1>1. ASSUME Undisturbed => Calm
      PROVE  UndoRevertsUndisturbed
  <2>1. SUFFICES ASSUME Calm, NEW b \in Browser, NEW k \in Slot, Idle(b), OnlyAuthor(b, k)
                 PROVE  db[k] = asked[b].doc[k]
    BY <1>1 DEF UndoRevertsUndisturbed, UndoReverts
  <2>2. Ended(b)
    BY <2>1 DEF Idle, TasksOf, Ended
  <2>3. NoneSent(b, k)
    BY <2>1, <2>2, Phases DEF Calm, NoneSent
  <2>4. QED
    BY <2>1, <2>3 DEF Calm, Agreed, StoredAgrees
<1>2. QED
  BY AlwaysCalm, <1>1, PTL

\* Such a user also sees what the database holds there, although the browser ignores its
\* own echoes (app.js, recentSelfFlash and State.undoing).
THEOREM EditorsSeeTheirEdits == ASSUME Patient PROVE Spec => []OwnEditsAreShown
<1>1. ASSUME Undisturbed => Calm
      PROVE  OwnEditsAreShown
  <2>1. SUFFICES ASSUME Calm, NEW b \in Browser, NEW k \in window[b], Idle(b), OnlyAuthor(b, k)
                 PROVE  view[b][k] = db[k]
    BY <1>1 DEF OwnEditsAreShown
  <2>2. Ended(b)
    BY <2>1 DEF Idle, TasksOf, Ended
  <2>3. k \in Home
    BY <2>1 DEF Calm, Waiting, StaysHome
  <2>4. QED
    BY <2>1, <2>2, <2>3 DEF Calm, Shown, ShownAgrees
<1>2. QED
  BY AlwaysCalm, <1>1, PTL
=============================================================================
