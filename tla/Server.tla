------------------------------- MODULE Server -------------------------------
(***************************************************************************)
(* The write side of the server: the request handlers of internal/api, the *)
(* statements the store (internal/store) runs for them, and a crash of the *)
(* process.  Handlers run concurrently; the pool has one connection        *)
(* (SetMaxOpenConns(1)), so a statement is atomic and an open transaction  *)
(* keeps every other statement waiting.  What is not one statement or one  *)
(* transaction interleaves: CopyWeek, AssignRunPerson, ImportTOMLData,     *)
(* updatePerson, and the way every handler goes on after its change, to    *)
(* the broadcast, the audit log and the activity feed.                     *)
(***************************************************************************)
EXTENDS ScheduleData, Sequences

CONSTANTS
  Request,          \* the requests that can be in flight
  Ops,              \* what is asked for: operations (see below)
  WorkOrder,        \* the working half-days, in the order the loops visit them
  RunDuty,          \* the kind AssignRunPerson fills a week with
  Nobody,           \* no request
  InitialPeople, InitialPlanning,
  DiskFails,        \* whether the database may refuse a statement (disk full, I/O error)
  MaxCrashes        \* bound on the restarts of the server

(* What a request may ask for: the bodies the handlers accept, each with   *)
(* its own fields.  `entry` = NoEntry clears.                              *)
Operation ==
  [type : {"slot"}, refs : {<<k>> : k \in Key}, entry : Entry]
  \cup [type : {"range"}, refs : Seq(Key), entry : Entry]
  \cup [type : {"copy"}, person : Person, from : Week, week : Week]
  \cup [type : {"assign"}, person : Person, week : Week]
  \cup [type : {"rotation", "oncall"}, person : Person, week : Week, on : BOOLEAN]
  \cup [type : {"add", "update", "archive", "delete"}, person : Person]
  \cup [type : {"prune"}, week : Week]
  \cup [type : {"reset"}]
  \cup [type : {"import"}, replace : BOOLEAN, people : Seq(Person), refs : Seq(Key),
        entry : Kind]

ASSUME ServerAssumption ==
  /\ Ops \subseteq Operation
  /\ WorkOrder \in Seq(HalfDay) /\ Len(WorkOrder) > 0
  /\ RunDuty \in Kind
  /\ Nobody \notin Request /\ Nobody \notin Operation
  /\ InitialPeople \subseteq Person
  /\ InitialPlanning \in [Key -> Entry]
  /\ \A k \in Key : InitialPlanning[k] # NoEntry => k[1] \in InitialPeople
  /\ DiskFails \in BOOLEAN
  /\ MaxCrashes \in Nat

VARIABLES
  people, planning, rotation, oncall,  \* the tables, as the connection sees them
  conn,      \* the request whose transaction holds the connection, or Nobody
  saved,     \* planning when that transaction began
  audit,     \* the requests whose event is in audit_log
  op,        \* what each request asked for
  pc,        \* how far its handler is
  cur,       \* the index of its loop
  src,       \* CopyWeek: the source entry it read
  changed,   \* the tables in which it changed something (committed)
  told,      \* the tables its broadcasts are about, and "activity"
  answer,    \* its HTTP answer: "ok" or "error"
  crashes

tables  == <<people, planning, rotation, oncall>>
dbVars  == <<conn, saved, audit>>
reqVars == <<op, pc, cur, src, changed, told, answer>>
vars    == <<tables, dbVars, reqVars, crashes>>

Table == {"people", "planning", "rotation", "oncall"}
Steps == {"idle", "exec", "begin", "stmt", "commit", "read", "check", "insert",
          "count", "flag", "fill", "wipe", "find", "put", "new", "load", "get", "announce", "announceNil", "record",
          "activity", "reply", "done", "lost"}

InTransaction(r) == pc[r] \in {"stmt", "commit"}

\* The types, and that the connection is held by whoever is in a transaction.
TypeOK ==
  /\ people \subseteq Person
  /\ planning \in [Key -> Entry] /\ saved \in [Key -> Entry]
  /\ rotation \subseteq Person \X Week /\ oncall \subseteq Person \X Week
  /\ conn \in Request \cup {Nobody}
  /\ audit \subseteq Request
  /\ op \in [Request -> Ops \cup {Nobody}]
  /\ pc \in [Request -> Steps]
  /\ cur \in [Request -> Nat]
  /\ src \in [Request -> Entry]
  /\ changed \in [Request -> SUBSET Table]
  /\ told \in [Request -> SUBSET (Table \cup {"activity"})]
  /\ answer \in [Request -> {"none", "ok", "error"}]
  /\ crashes \in 0..MaxCrashes
  /\ \A r \in Request : InTransaction(r) <=> conn = r

Init ==
  /\ people = InitialPeople /\ planning = InitialPlanning /\ saved = InitialPlanning
  /\ rotation = {} /\ oncall = {}
  /\ conn = Nobody /\ audit = {} /\ crashes = 0
  /\ op = [r \in Request |-> Nobody] /\ pc = [r \in Request |-> "idle"]
  /\ cur = [r \in Request |-> 1] /\ src = [r \in Request |-> NoEntry]
  /\ changed = [r \in Request |-> {}] /\ told = [r \in Request |-> {}]
  /\ answer = [r \in Request |-> "none"]

-----------------------------------------------------------------------------
(* Moving a handler on.  The index of a loop starts at 1 again when the     *)
(* loop is left.                                                            *)
Goto(r, step) ==
  /\ pc' = [pc EXCEPT ![r] = step]
  /\ cur' = [cur EXCEPT ![r] = 1]
  /\ UNCHANGED answer
Loop(r, bound, next) ==
  IF cur[r] < bound
  THEN cur' = [cur EXCEPT ![r] = @ + 1] /\ UNCHANGED <<pc, answer>>
  ELSE Goto(r, next)
Answer(r, a) ==
  /\ pc' = [pc EXCEPT ![r] = "done"]
  /\ answer' = [answer EXCEPT ![r] = a]
  /\ UNCHANGED cur

\* r has the connection for one statement.
Statement(r) == conn \in {Nobody, r}

\* What r changed counts.  What a person's row holds besides the id is left out:
\* `edited` are those whose row is written again.
Differing ==
  {t \in Table : \/ t = "people" /\ people' # people
                 \/ t = "planning" /\ planning' # planning
                 \/ t = "rotation" /\ rotation' # rotation
                 \/ t = "oncall" /\ oncall' # oncall}
NoteEdit(r, edited) ==
  changed' = [changed EXCEPT ![r] =
                @ \cup Differing \cup {t \in {"people"} : edited \cap people # {}}]
NoteChange(r) == NoteEdit(r, {})

WorkKey(r, week) == <<op[r].person, week, WorkOrder[cur[r]]>>

-----------------------------------------------------------------------------
(* The statements.  A foreign key refuses a row about an unknown person;    *)
(* deleting a person cascades to every row about them.                      *)

\* INSERT OR REPLACE (or DELETE, for NoEntry) of half-days, if the key allows.
CanWrite(keys, e) == e = NoEntry \/ PersonsOf(keys) \subseteq people
Write(keys, e) ==
  /\ planning' = With(planning, keys, e)
  /\ UNCHANGED <<people, rotation, oncall>>

CascadeForgotten(p) == planning  \* a mutant of Cascade
Cascade(p) == With(planning, KeysOf(p), NoEntry)

\* The operations that are one statement (or one transaction over whole
\* tables, for a reset): whether it succeeds and what it does.
Succeeds(o) ==
  CASE o.type = "slot" -> CanWrite({o.refs[1]}, o.entry)
    [] o.type = "rotation" \/ o.type = "oncall" -> o.on => o.person \in people
    [] o.type = "add" -> o.person \notin people
    [] OTHER -> TRUE

\* ResetAllData.
WipeTables ==
  /\ people' = {} /\ planning' = With(planning, Key, NoEntry)
  /\ rotation' = {} /\ oncall' = {}

DutyAfter(duties, o) ==
  IF o.on THEN duties \cup {<<o.person, o.week>>} ELSE duties \ {<<o.person, o.week>>}

Effect(o) ==
  \/ o.type = "slot" /\ Write({o.refs[1]}, o.entry)
  \/ o.type = "rotation" /\ rotation' = DutyAfter(rotation, o)
                         /\ UNCHANGED <<people, planning, oncall>>
  \/ o.type = "oncall" /\ oncall' = DutyAfter(oncall, o)
                       /\ UNCHANGED <<people, planning, rotation>>
  \/ o.type = "add" /\ people' = people \cup {o.person}
                    /\ UNCHANGED <<planning, rotation, oncall>>
  \/ o.type \in {"update", "archive"} /\ UNCHANGED tables
  \/ /\ o.type = "delete"
     /\ people' = people \ {o.person} /\ planning' = Cascade(o.person)
     /\ rotation' = rotation \ DutiesOf(o.person) /\ oncall' = oncall \ DutiesOf(o.person)
  \/ o.type = "prune" /\ Write(KeysBefore(o.week), NoEntry)
  \/ o.type = "reset" /\ WipeTables

\* A mutant of AfterExec: pruneData does not broadcast.
AfterExecUnannounced(o) ==
  IF o.type = "update" THEN "get" ELSE IF o.type = "prune" THEN "record" ELSE "announce"

\* updatePerson reads the row back; every other handler goes on to its broadcast.
AfterExec(o) == IF o.type = "update" THEN "get" ELSE "announce"

Exec(r) ==
  /\ pc[r] = "exec" /\ Statement(r)
  /\ IF Succeeds(op[r])
     THEN Effect(op[r]) /\ Goto(r, AfterExec(op[r]))
     ELSE UNCHANGED tables /\ Answer(r, "error")
  /\ NoteEdit(r, IF op[r].type \in {"update", "archive"} THEN {op[r].person} ELSE {})
  /\ UNCHANGED <<dbVars, op, src, told, crashes>>

\* updatePerson: GetPerson returns nil for a person deleted in the meantime.
GetPerson(r) ==
  /\ pc[r] = "get" /\ Statement(r)
  /\ Goto(r, IF op[r].person \in people THEN "announce" ELSE "announceNil")
  /\ UNCHANGED <<tables, dbVars, op, src, changed, told, crashes>>

-----------------------------------------------------------------------------
(* SetSlotRange and ClearSlotRange: one transaction over the half-days.     *)

Begin(r) ==
  /\ pc[r] = "begin" /\ conn = Nobody
  /\ conn' = r /\ saved' = planning
  /\ Goto(r, IF op[r].refs = <<>> THEN "commit" ELSE "stmt")
  /\ UNCHANGED <<tables, audit, op, src, changed, told, crashes>>

\* tx.Rollback(): the tables are as before and the connection is free.
RollbackForgotten(r) == UNCHANGED <<tables, conn>>  \* a mutant of Rollback
Rollback(r) ==
  /\ planning' = saved /\ UNCHANGED <<people, rotation, oncall>>
  /\ conn' = Nobody

RangeStatement(r) ==
  /\ pc[r] = "stmt"
  /\ IF CanWrite({op[r].refs[cur[r]]}, op[r].entry)
     THEN /\ Write({op[r].refs[cur[r]]}, op[r].entry)
          /\ Loop(r, Len(op[r].refs), "commit")
          /\ UNCHANGED conn
     ELSE Rollback(r) /\ Answer(r, "error")
  /\ UNCHANGED <<saved, audit, op, src, changed, told, crashes>>

Commit(r) ==
  /\ pc[r] = "commit"
  /\ conn' = Nobody
  /\ changed' = [changed EXCEPT ![r] = {t \in {"planning"} : planning # saved}]
  /\ Goto(r, "announce")
  /\ UNCHANGED <<tables, saved, audit, op, src, told, crashes>>

-----------------------------------------------------------------------------
(* CopyWeek: for every working half-day, read the source, check the target, *)
(* insert.  Three statements, each of its own.                              *)

CopyNext(r) ==
  IF cur[r] < Len(WorkOrder)
  THEN /\ cur' = [cur EXCEPT ![r] = @ + 1]
       /\ pc' = [pc EXCEPT ![r] = "read"]
       /\ UNCHANGED answer
  ELSE Goto(r, "announce")
Stay(r, step) == pc' = [pc EXCEPT ![r] = step] /\ UNCHANGED <<cur, answer>>

CopiedAll(e) == e # NoEntry  \* a mutant of Copied: absences are copied too
Copied(e) == e \notin Unplanned \cup {NoEntry}

CopyRead(r) ==
  /\ pc[r] = "read" /\ Statement(r)
  /\ LET e == planning[WorkKey(r, op[r].from)] IN
     /\ src' = [src EXCEPT ![r] = e]
     /\ IF Copied(e) THEN Stay(r, "check") ELSE CopyNext(r)
  /\ UNCHANGED <<tables, dbVars, op, changed, told, crashes>>

\* SELECT COUNT(*); its error is ignored and reads as "nothing there".
CopyCheck(r) ==
  /\ pc[r] = "check" /\ Statement(r)
  /\ \/ (DiskFails \/ planning[WorkKey(r, op[r].week)] = NoEntry) /\ Stay(r, "insert")
     \/ planning[WorkKey(r, op[r].week)] # NoEntry /\ CopyNext(r)
  /\ UNCHANGED <<tables, dbVars, op, src, changed, told, crashes>>

\* A plain INSERT: a row that appeared since the check is a UNIQUE error.
MayInsertOrReplace(k) == k[1] \in people  \* a mutant of MayInsert
MayInsert(k) == k[1] \in people /\ planning[k] = NoEntry

CopyInsert(r) ==
  /\ pc[r] = "insert" /\ Statement(r)
  /\ LET k == WorkKey(r, op[r].week) IN
     IF MayInsert(k)
     THEN Write({k}, src[r]) /\ CopyNext(r)
     ELSE UNCHANGED tables /\ Answer(r, "error")
  /\ NoteChange(r)
  /\ UNCHANGED <<dbVars, op, src, told, crashes>>

-----------------------------------------------------------------------------
(* AssignRunPerson: count what is there, set the rotation flag, fill the    *)
(* working half-days; each a statement of its own.                          *)

AssignCount(r) ==
  /\ pc[r] = "count" /\ Statement(r)
  /\ Loop(r, Len(WorkOrder), "flag")
  /\ UNCHANGED <<tables, dbVars, op, src, changed, told, crashes>>

AssignFlag(r) ==
  /\ pc[r] = "flag" /\ Statement(r)
  /\ IF op[r].person \in people
     THEN /\ rotation' = rotation \cup {<<op[r].person, op[r].week>>}
          /\ UNCHANGED <<people, planning, oncall>>
          /\ Goto(r, "fill")
     ELSE UNCHANGED tables /\ Answer(r, "error")
  /\ NoteChange(r)
  /\ UNCHANGED <<dbVars, op, src, told, crashes>>

AssignFill(r) ==
  /\ pc[r] = "fill" /\ Statement(r)
  /\ LET k == WorkKey(r, op[r].week) IN
     IF CanWrite({k}, RunDuty)
     THEN Write({k}, RunDuty) /\ Loop(r, Len(WorkOrder), "announce")
     ELSE UNCHANGED tables /\ Answer(r, "error")
  /\ NoteChange(r)
  /\ UNCHANGED <<dbVars, op, src, told, crashes>>

-----------------------------------------------------------------------------
(* ImportTOMLData: wipe the tables when replacing, then load people and     *)
(* half-days row by row.  (The settings, projects and duties of a file are  *)
(* left out: they are loaded the same way.)                                 *)

\* People are loaded before half-days.
LoadSlots(o) == IF o.refs # <<>> THEN "load" ELSE "announce"
LoadFirst(o) == IF o.people # <<>> THEN "find" ELSE LoadSlots(o)

\* ResetAllData is one transaction that only the tables see.
ImportWipe(r) ==
  /\ pc[r] = "wipe" /\ Statement(r)
  /\ WipeTables
  /\ Goto(r, LoadFirst(op[r]))
  /\ NoteChange(r)
  /\ UNCHANGED <<dbVars, op, src, told, crashes>>

\* GetPerson decides between UpdatePerson and AddPerson.
ImportFind(r) ==
  /\ pc[r] = "find" /\ Statement(r)
  /\ Stay(r, IF op[r].people[cur[r]] \in people THEN "put" ELSE "new")
  /\ UNCHANGED <<tables, dbVars, op, src, changed, told, crashes>>

ImportNext(r) ==
  IF cur[r] < Len(op[r].people)
  THEN /\ cur' = [cur EXCEPT ![r] = @ + 1]
       /\ pc' = [pc EXCEPT ![r] = "find"]
       /\ UNCHANGED answer
  ELSE Goto(r, LoadSlots(op[r]))

\* An update of a person deleted since changes nothing; an insert of a person
\* added since is a key error.
ImportPerson(r) ==
  /\ Statement(r)
  /\ \/ pc[r] = "put" /\ UNCHANGED tables /\ ImportNext(r)
     \/ /\ pc[r] = "new" /\ op[r].people[cur[r]] \notin people
        /\ people' = people \cup {op[r].people[cur[r]]}
        /\ UNCHANGED <<planning, rotation, oncall>>
        /\ ImportNext(r)
     \/ /\ pc[r] = "new" /\ op[r].people[cur[r]] \in people
        /\ UNCHANGED tables /\ Answer(r, "error")
  /\ NoteEdit(r, IF pc[r] = "put" THEN {op[r].people[cur[r]]} ELSE {})
  /\ UNCHANGED <<dbVars, op, src, told, crashes>>

ImportSlot(r) ==
  /\ pc[r] = "load" /\ Statement(r)
  /\ LET k == op[r].refs[cur[r]] IN
     IF CanWrite({k}, op[r].entry)
     THEN Write({k}, op[r].entry) /\ Loop(r, Len(op[r].refs), "announce")
     ELSE UNCHANGED tables /\ Answer(r, "error")
  /\ NoteChange(r)
  /\ UNCHANGED <<dbVars, op, src, told, crashes>>

-----------------------------------------------------------------------------
(* The end of every handler: Broadcast, recordEvent, the answer.            *)

\* The rotation handlers and the import record no event.
Unaudited == {"rotation", "assign", "import"}

\* What the message of an operation is about: the tables that a browser reads
\* anew, or patches, when it gets it.
Topics(o) ==
  CASE o.type \in {"slot", "range", "copy", "prune"} -> {"planning"}
    [] o.type \in {"rotation", "assign"} -> {"rotation"}
    [] o.type = "oncall" -> {"oncall"}
    [] o.type \in {"add", "update", "archive"} -> {"people"}
    [] o.type \in {"delete", "reset", "import"} -> Table

Announce(r) ==
  /\ pc[r] = "announce"
  /\ told' = [told EXCEPT ![r] = Topics(op[r])]
  /\ Goto(r, IF op[r].type \in Unaudited THEN "reply" ELSE "record")
  /\ UNCHANGED <<tables, dbVars, op, src, changed, crashes>>

\* updatePerson broadcasts the nil person, then dereferences it: the panic is
\* answered by the Recoverer middleware.
AnnounceNil(r) ==
  /\ pc[r] = "announceNil"
  /\ told' = [told EXCEPT ![r] = Topics(op[r])]
  /\ Answer(r, "error")
  /\ UNCHANGED <<tables, dbVars, op, src, changed, crashes>>

\* A mutant of AfterLostEvent: the feed is told although the insert failed.
AfterLostEventTold == "activity"
AfterLostEvent == "reply"

\* recordEvent: when the INSERT fails it returns without a broadcast.
Record(r) ==
  /\ pc[r] = "record" /\ Statement(r)
  /\ \/ audit' = audit \cup {r} /\ Goto(r, "activity")
     \/ DiskFails /\ UNCHANGED audit /\ Goto(r, AfterLostEvent)
  /\ UNCHANGED <<tables, conn, saved, op, src, changed, told, crashes>>

Activity(r) ==
  /\ pc[r] = "activity"
  /\ told' = [told EXCEPT ![r] = @ \cup {"activity"}]
  /\ Goto(r, "reply")
  /\ UNCHANGED <<tables, dbVars, op, src, changed, crashes>>

Reply(r) ==
  /\ pc[r] = "reply"
  /\ Answer(r, "ok")
  /\ UNCHANGED <<tables, dbVars, op, src, changed, told, crashes>>

-----------------------------------------------------------------------------
\* A mutant of FirstStep: a range is saved without a transaction.
FirstStepUnbegun(o) ==
  CASE o.type = "range" -> "stmt"
    [] o.type = "copy" -> "read"
    [] o.type = "assign" -> "count"
    [] o.type = "import" -> IF o.replace THEN "wipe" ELSE LoadFirst(o)
    [] OTHER -> "exec"

FirstStep(o) ==
  CASE o.type = "range" -> "begin"
    [] o.type = "copy" -> "read"
    [] o.type = "assign" -> "count"
    [] o.type = "import" -> IF o.replace THEN "wipe" ELSE LoadFirst(o)
    [] OTHER -> "exec"

Receive(r) ==
  /\ pc[r] = "idle"
  /\ \E o \in Ops :
       /\ op' = [op EXCEPT ![r] = o]
       /\ pc' = [pc EXCEPT ![r] = FirstStep(o)]
  /\ UNCHANGED <<tables, dbVars, cur, src, changed, told, answer, crashes>>

\* The database refuses a statement: the handler answers 500, after a rollback
\* if it is in a transaction.
DiskError(r) ==
  /\ DiskFails
  /\ \/ /\ pc[r] \in {"exec", "begin", "read", "insert", "flag", "fill", "get",
                     "wipe", "find", "put", "new", "load"}
        /\ Statement(r)
        /\ UNCHANGED <<tables, conn>>
     \/ pc[r] \in {"stmt", "commit"} /\ Rollback(r)
  /\ Answer(r, "error")
  /\ UNCHANGED <<saved, audit, op, src, changed, told, crashes>>

\* The process dies: SQLite rolls an open transaction back when it restarts,
\* and the requests in flight get no answer.
Crash ==
  /\ crashes < MaxCrashes
  /\ crashes' = crashes + 1
  /\ planning' = IF conn = Nobody THEN planning ELSE saved
  /\ conn' = Nobody
  /\ pc' = [r \in Request |-> IF pc[r] \in {"idle", "done"} THEN pc[r] ELSE "lost"]
  /\ UNCHANGED <<people, rotation, oncall, saved, audit, op, cur, src, changed, told,
                 answer>>

Step(r) ==
  \/ Exec(r) \/ GetPerson(r)
  \/ Begin(r) \/ RangeStatement(r) \/ Commit(r)
  \/ CopyRead(r) \/ CopyCheck(r) \/ CopyInsert(r)
  \/ AssignCount(r) \/ AssignFlag(r) \/ AssignFill(r)
  \/ ImportWipe(r) \/ ImportFind(r) \/ ImportPerson(r) \/ ImportSlot(r)
  \/ Announce(r) \/ AnnounceNil(r) \/ Record(r) \/ Activity(r) \/ Reply(r)

Next == Crash \/ \E r \in Request : Receive(r) \/ Step(r) \/ DiskError(r)

Spec == Init /\ [][Next]_vars

\* Every handler that can go on does: a goroutine is scheduled, and a statement
\* waits for the connection, which is free between the statements of others.
FairSpec == Spec /\ \A r \in Request : WF_vars(Step(r))

-----------------------------------------------------------------------------
(* What the server promises.                                                *)

\* What the database would hold if the server stopped now: the tables without
\* the work of a transaction that has not committed.
Committed == IF conn = Nobody THEN planning ELSE saved

\* The saves the handlers are asked for: a half-day or a range from a user, the
\* half-days a run person's week is filled with, and those a file holds.
OpsOf(types) == {o \in Ops : o.type \in types}
UserSaves ==
  {[keys |-> {o.refs[i] : i \in DOMAIN o.refs}, entry |-> o.entry] :
     o \in OpsOf({"slot", "range"})}
AssignmentSaves ==
  {[keys |-> {<<d[1].person, d[1].week, WorkOrder[d[2]]>>}, entry |-> RunDuty] :
     d \in OpsOf({"assign"}) \X DOMAIN WorkOrder}
FileSaves ==
  UNION {{[keys |-> {o.refs[i]}, entry |-> o.entry] : i \in DOMAIN o.refs} :
           o \in OpsOf({"import"})}
RequestedSaves == UserSaves \cup AssignmentSaves \cup FileSaves

Store == INSTANCE Schedule WITH planning <- Committed, Saves <- RequestedSaves

\* Whatever handlers interleave and wherever the process dies, the database
\* only takes steps the schedule allows: a range is saved whole or not at all,
\* a copied week never replaces an entry that appeared while it was copied.
ImplementsSchedule == Store!Spec

\* Nothing is scheduled for somebody who is not in the team, although people are
\* deleted while weeks are copied and filled for them.
NoStrangers == Store!NoStrangers

\* The operations made of several statements that are not a transaction.
Multistep == {"copy", "assign", "import", "update"}

\* A handler that ran to its end and whose change is one statement or one
\* transaction has broadcast it, and one that answers with an error changed
\* nothing: browsers never miss a committed change of these operations.
AtomicChangesAreAnnounced ==
  \A r \in Request :
    pc[r] = "done" /\ op[r].type \notin Multistep =>
      /\ changed[r] \subseteq told[r]
      /\ answer[r] = "error" => changed[r] = {}

\* The activity feed only tells of events that are in the audit log, and the log
\* only holds events of requests that told the browsers first and did not fail.
FeedFollowsAudit ==
  \A r \in Request :
    /\ "activity" \in told[r] => r \in audit
    /\ r \in audit => Topics(op[r]) \subseteq told[r] /\ answer[r] # "error"

\* Every request is answered unless the process dies first: no handler waits
\* for ever for the only connection.
EveryRequestIsAnswered ==
  \A r \in Request : pc[r] # "idle" ~> pc[r] \in {"done", "lost"}

\* README.md: "WebSocket broadcasts all changes to all connected clients".
ChangesAreAnnounced ==
  \A r \in Request : pc[r] = "done" => changed[r] \subseteq told[r]
=============================================================================
