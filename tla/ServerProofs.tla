---------------------------- MODULE ServerProofs ----------------------------
(***************************************************************************)
(* For any team, any weeks, any operations and any number of concurrent    *)
(* requests and crashes: Server's variables stay in their types, only the  *)
(* request in a transaction holds the connection, and nothing is ever      *)
(* scheduled for somebody who is not in the team; browsers are told of     *)
(* every change made by one statement or one transaction before the        *)
(* request is answered, and the activity feed never tells of an event that *)
(* the audit log does not have; the database has only committed the steps  *)
(* of Schedule.                                                            *)
(***************************************************************************)
EXTENDS Server, TLAPS

\* The fields of an operation, by its type.
LEMMA OperationFields ==
  ASSUME NEW o \in Operation
  PROVE  /\ o.type = "slot" =>
              o.refs \in Seq(Key) /\ Len(o.refs) = 1 /\ o.entry \in Entry
         /\ o.type = "range" => o.refs \in Seq(Key) /\ o.entry \in Entry
         /\ o.type = "copy" => o.person \in Person /\ o.from \in Week /\ o.week \in Week
         /\ o.type = "assign" => o.person \in Person /\ o.week \in Week
         /\ o.type \in {"rotation", "oncall"} =>
              o.person \in Person /\ o.week \in Week /\ o.on \in BOOLEAN
         /\ o.type \in {"add", "update", "archive", "delete"} => o.person \in Person
         /\ o.type = "prune" => o.week \in Week
         /\ o.type = "import" =>
              /\ o.people \in Seq(Person) /\ o.refs \in Seq(Key)
              /\ o.entry \in Kind
         /\ o.type \in {"slot", "range", "copy", "assign", "rotation", "oncall", "add",
                        "update", "archive", "delete", "prune", "reset", "import"}
<1>1. CASE o \in [type : {"slot"}, refs : {<<k>> : k \in Key}, entry : Entry]
  <2>1. PICK k \in Key : o.refs = <<k>>
    BY <1>1
  <2>2. o.refs \in Seq(Key) /\ Len(o.refs) = 1
    BY <2>1
  <2>3. o.type = "slot" /\ o.entry \in Entry
    BY <1>1
  <2>. QED
    BY <2>2, <2>3
<1>2. CASE o \in [type : {"range"}, refs : Seq(Key), entry : Entry]
  BY <1>2
<1>3. CASE o \in [type : {"copy"}, person : Person, from : Week, week : Week]
  BY <1>3
<1>4. CASE o \in [type : {"assign"}, person : Person, week : Week]
  BY <1>4
<1>5. CASE o \in [type : {"rotation", "oncall"}, person : Person, week : Week, on : BOOLEAN]
  BY <1>5
<1>6. CASE o \in [type : {"add", "update", "archive", "delete"}, person : Person]
  BY <1>6
<1>7. CASE o \in [type : {"prune"}, week : Week]
  BY <1>7
<1>8. CASE o \in [type : {"reset"}]
  BY <1>8
<1>9. CASE o \in [type : {"import"}, replace : BOOLEAN, people : Seq(Person),
                  refs : Seq(Key), entry : Kind]
  BY <1>9
<1>. QED
  BY <1>1, <1>2, <1>3, <1>4, <1>5, <1>6, <1>7, <1>8, <1>9 DEF Operation

\* What a write makes of a planning.
LEMMA WithIsPlanning ==
  ASSUME NEW plan \in [Key -> Entry], NEW keys, NEW e \in Entry
  PROVE  With(plan, keys, e) \in [Key -> Entry]
BY DEF With

-----------------------------------------------------------------------------
(* The inductive invariant.                                                 *)

OneStatement == {"slot", "rotation", "oncall", "add", "update", "archive", "delete",
                 "prune", "reset"}

\* The types a handler's operation may have at each step.
TypesAt(step) ==
  CASE step = "exec" -> OneStatement
    [] step = "get" -> {"update"}
    [] step \in {"begin", "stmt", "commit"} -> {"range"}
    [] step \in {"read", "check", "insert"} -> {"copy"}
    [] step \in {"count", "flag", "fill"} -> {"assign"}
    [] step \in {"wipe", "find", "put", "new", "load"} -> {"import"}
    [] OTHER -> OneStatement \cup {"range", "copy", "assign", "import"}

\* The last index of the loop a handler is in, if it is in one.
Bound(step, o, i) ==
  CASE step \in {"stmt", "load"} -> Len(o.refs)
    [] step \in {"find", "put", "new"} -> Len(o.people)
    [] step \in {"read", "check", "insert", "count", "fill"} -> Len(WorkOrder)
    [] OTHER -> i

\* A handler at `step` works on an operation o of its kind, and the index i of
\* its loop is inside its list.
Fits(step, o, i) ==
  /\ step = "idle" => i = 1
  /\ step # "idle" => o \in Ops /\ o.type \in TypesAt(step)
  /\ i \in 1..Bound(step, o, i)

HandlersFit == \A r \in Request : Fits(pc[r], op[r], cur[r])

\* The half-days of `plan` belong to the team `team`.
Known(plan, team) == \A k \in Key : plan[k] # NoEntry => k[1] \in team

\* The tables satisfy their foreign keys, and would after a rollback.
TablesSound ==
  /\ Known(planning, people)
  /\ conn # Nobody => Known(saved, people)
  /\ rotation \cup oncall \subseteq (people \X Week)

IInv == TypeOK /\ HandlersFit /\ TablesSound

\* TypeOK in three parts: the tables, what is said of them, and who does what.
TablesTyped ==
  /\ people \subseteq Person
  /\ planning \in [Key -> Entry] /\ saved \in [Key -> Entry]
  /\ rotation \subseteq Person \X Week /\ oncall \subseteq Person \X Week
RecordsTyped ==
  /\ audit \subseteq Request
  /\ src \in [Request -> Entry]
  /\ changed \in [Request -> SUBSET Table]
  /\ told \in [Request -> SUBSET (Table \cup {"activity"})]
  /\ crashes \in 0..MaxCrashes
ControlTyped ==
  /\ conn \in Request \cup {Nobody}
  /\ op \in [Request -> Ops \cup {Nobody}]
  /\ pc \in [Request -> Steps]
  /\ cur \in [Request -> Nat]
  /\ answer \in [Request -> {"none", "ok", "error"}]
  /\ \A r \in Request : InTransaction(r) <=> conn = r

\* The three parts make TypeOK in the next state.
LEMMA TypedNext ==
  TablesTyped' /\ RecordsTyped' /\ ControlTyped' => TypeOK'
BY DEF TypeOK, TablesTyped, RecordsTyped, ControlTyped

\* A handler that works on something works on one of the operations asked for.
LEMMA Working ==
  ASSUME IInv, NEW r \in Request, pc[r] # "idle"
  PROVE  op[r] \in Ops /\ op[r] \in Operation /\ op[r].type \in TypesAt(pc[r])
BY ServerAssumption DEF IInv, HandlersFit, Fits

\* While a request other than r, or none, is in a transaction, r is not.
LEMMA FreeConnection ==
  ASSUME IInv, NEW r \in Request, ~InTransaction(r), Statement(r)
  PROVE  conn = Nobody
BY DEF IInv, TypeOK, Statement

-----------------------------------------------------------------------------
(* Control: one handler moves.                                              *)

\* Only r moves on, to a step and an index that fit its operation, and the
\* connection is its own exactly while it is in its transaction.
Moves(r) ==
  /\ op' = op
  /\ pc' \in [Request -> Steps] /\ cur' \in [Request -> Nat]
  /\ answer' \in [Request -> {"none", "ok", "error"}]
  /\ \A q \in Request \ {r} : pc'[q] = pc[q] /\ cur'[q] = cur[q]
  /\ Fits(pc'[r], op[r], cur'[r])
  /\ \/ conn' = conn /\ (InTransaction(r) <=> pc'[r] \in {"stmt", "commit"})
     \/ conn' = Nobody /\ conn = r /\ pc'[r] \notin {"stmt", "commit"}
     \/ conn' = r /\ conn = Nobody /\ pc'[r] \in {"stmt", "commit"}

\* A handler that moves leaves the others and the connection as they should be.
LEMMA MovesKeepsControl ==
  ASSUME IInv, NEW r \in Request, Moves(r)
  PROVE  ControlTyped' /\ HandlersFit'
<1> USE DEF Moves, IInv, TypeOK
<1>1. HandlersFit'
  BY DEF HandlersFit, Fits, Bound, TypesAt
<1>2. \A q \in Request : InTransaction(q)' <=> conn' = q
  BY ServerAssumption DEF InTransaction
<1>. QED
  BY <1>1, <1>2 DEF ControlTyped

\* Goto, to a step whose loop is not empty.
LEMMA GotoMoves ==
  ASSUME IInv, NEW r \in Request, NEW step \in Steps, Goto(r, step), op' = op, conn' = conn,
         Fits(step, op[r], 1),
         InTransaction(r) <=> step \in {"stmt", "commit"}
  PROVE  Moves(r)
BY DEF Goto, Moves, IInv, TypeOK

\* An answer outside a transaction.
LEMMA AnswerMoves ==
  ASSUME IInv, NEW r \in Request, NEW a \in {"ok", "error"}, Answer(r, a), op' = op,
         pc[r] # "idle",
         conn' = IF InTransaction(r) THEN Nobody ELSE conn
  PROVE  Moves(r)
<1>1. op[r] \in Ops /\ op[r].type \in TypesAt("done")
  BY Working DEF TypesAt, OneStatement
<1>2. cur[r] \in 1..cur[r]
  BY DEF IInv, HandlersFit, TypeOK, Fits, Bound
<1>3. Fits("done", op[r], cur[r])
  BY <1>1, <1>2 DEF Fits, Bound
<1>. QED
  BY <1>3 DEF Answer, Moves, IInv, TypeOK, Steps, InTransaction

\* Loop, from a step to itself, or on to a step outside loops.
LEMMA LoopMoves ==
  ASSUME IInv, NEW r \in Request, NEW n \in Nat, NEW step \in Steps, Loop(r, n, step),
         op' = op, conn' = conn, pc[r] # "idle", n = Bound(pc[r], op[r], cur[r]),
         Fits(step, op[r], 1),
         InTransaction(r) <=> step \in {"stmt", "commit"}
  PROVE  Moves(r)
<1>1. CASE cur[r] < n
  <2>1. pc' = pc /\ cur' = [cur EXCEPT ![r] = cur[r] + 1] /\ UNCHANGED answer
    BY <1>1 DEF Loop
  <2>2. Fits(pc[r], op[r], cur[r] + 1)
    BY <1>1, Working DEF Fits, Bound, IInv, TypeOK
  <2>. QED
    BY <2>1, <2>2 DEF Moves, IInv, TypeOK, InTransaction
<1>2. CASE ~(cur[r] < n)
  BY <1>2, GotoMoves DEF Loop
<1>. QED
  BY <1>1, <1>2

\* The steps after the change are open to every operation.
LEMMA FitsAfterwards ==
  ASSUME IInv, NEW r \in Request, pc[r] # "idle",
         NEW step \in {"announce", "announceNil", "record", "activity", "reply", "done"}
  PROVE  Fits(step, op[r], 1) /\ step \in Steps /\ step \notin {"stmt", "commit"}
BY Working DEF Fits, Bound, TypesAt, OneStatement, Steps

\* The steps of the operations that are one statement, and of a range.
LEMMA RangeControl ==
  ASSUME IInv, NEW r \in Request,
         Exec(r) \/ GetPerson(r) \/ Begin(r) \/ RangeStatement(r) \/ Commit(r)
  PROVE  Moves(r)
<1> USE DEF InTransaction
<1>1. CASE Exec(r)
  <2>1. pc[r] # "idle" /\ ~InTransaction(r) /\ op' = op /\ conn' = conn
    BY <1>1 DEF Exec, dbVars
  <2>2. op[r].type = "update" => Fits("get", op[r], 1) /\ "get" \in Steps
    BY <2>1, Working DEF Fits, Bound, TypesAt, Steps
  <2>3. CASE Succeeds(op[r])
    <3>1. Goto(r, AfterExec(op[r]))
      BY <1>1, <2>3 DEF Exec
    <3>2. Fits(AfterExec(op[r]), op[r], 1) /\ AfterExec(op[r]) \in Steps \ {"stmt", "commit"}
      BY <2>1, <2>2, FitsAfterwards DEF AfterExec
    <3>. QED
      BY <2>1, <3>1, <3>2, GotoMoves
  <2>4. CASE ~Succeeds(op[r])
    BY <1>1, <2>1, <2>4, AnswerMoves DEF Exec
  <2>. QED
    BY <2>3, <2>4
<1>2. CASE GetPerson(r)
  <2>1. pc[r] # "idle" /\ ~InTransaction(r) /\ op' = op /\ conn' = conn
    BY <1>2 DEF GetPerson, dbVars
  <2>2. PICK step \in {"announce", "announceNil"} : Goto(r, step)
    BY <1>2 DEF GetPerson
  <2>. QED
    BY <2>1, <2>2, GotoMoves, FitsAfterwards
<1>3. CASE Begin(r)
  <2>1. op[r].type = "range" /\ op[r] \in Ops /\ op[r].refs \in Seq(Key)
    BY <1>3, Working, OperationFields DEF Begin, TypesAt
  <2>2. PICK step \in {"stmt", "commit"} :
          Goto(r, step) /\ (step = "stmt" => op[r].refs # <<>>)
    BY <1>3 DEF Begin
  <2>3. Fits(step, op[r], 1)
    BY <2>1, <2>2 DEF Fits, Bound, TypesAt
  <2>. QED
    BY <1>3, <2>2, <2>3 DEF Begin, Goto, Moves, IInv, TypeOK, Steps
<1>4. CASE RangeStatement(r)
  <2>1. pc[r] = "stmt" /\ op' = op /\ InTransaction(r)
    BY <1>4 DEF RangeStatement
  <2>2. op[r].type = "range" /\ op[r] \in Ops /\ op[r].refs \in Seq(Key)
    BY <2>1, Working, OperationFields DEF TypesAt
  <2>3. CASE CanWrite({op[r].refs[cur[r]]}, op[r].entry)
    <3>1. Fits("commit", op[r], 1) /\ "commit" \in Steps
      BY <2>2 DEF Fits, Bound, TypesAt, Steps
    <3>2. Len(op[r].refs) \in Nat /\ Len(op[r].refs) = Bound(pc[r], op[r], cur[r])
      BY <2>1, <2>2 DEF Bound
    <3>3. Loop(r, Len(op[r].refs), "commit") /\ conn' = conn
      BY <1>4, <2>3 DEF RangeStatement
    <3>. QED
      BY <2>1, <3>1, <3>2, <3>3, LoopMoves
  <2>4. CASE ~CanWrite({op[r].refs[cur[r]]}, op[r].entry)
    BY <1>4, <2>1, <2>4, AnswerMoves DEF RangeStatement, Rollback
  <2>. QED
    BY <2>3, <2>4
<1>5. CASE Commit(r)
  <2>1. Fits("announce", op[r], 1)
    BY <1>5, FitsAfterwards DEF Commit
  <2>2. conn = r
    BY <1>5 DEF Commit, IInv, TypeOK
  <2>. QED
    BY <1>5, <2>1, <2>2 DEF Commit, Goto, Moves, IInv, TypeOK, Steps
<1>. QED
  BY <1>1, <1>2, <1>3, <1>4, <1>5

\* The steps of a copied week.
LEMMA CopyControl ==
  ASSUME IInv, NEW r \in Request, CopyRead(r) \/ CopyCheck(r) \/ CopyInsert(r)
  PROVE  Moves(r)
<1>1. pc[r] \in {"read", "check", "insert"} /\ op' = op /\ conn' = conn
  BY DEF CopyRead, CopyCheck, CopyInsert, dbVars
<1>2. op[r] \in Ops /\ op[r].type = "copy" /\ cur[r] \in 1..Len(WorkOrder)
  BY <1>1, Working DEF TypesAt, IInv, HandlersFit, Fits, Bound
<1>3. Len(WorkOrder) \in Nat /\ ~InTransaction(r)
  BY <1>1, ServerAssumption DEF InTransaction
<1>4. CASE CopyNext(r)
  <2>1. CASE cur[r] < Len(WorkOrder)
    <3>1. cur' = [cur EXCEPT ![r] = cur[r] + 1] /\ pc' = [pc EXCEPT ![r] = "read"]
          /\ UNCHANGED answer
      BY <1>4, <2>1 DEF CopyNext
    <3>2. Fits("read", op[r], cur[r] + 1)
      BY <1>2, <1>3, <2>1 DEF Fits, Bound, TypesAt
    <3>. QED
      BY <1>1, <1>3, <3>1, <3>2 DEF Moves, IInv, TypeOK, InTransaction, Steps
  <2>2. CASE ~(cur[r] < Len(WorkOrder))
    BY <1>1, <1>3, <1>4, <2>2, GotoMoves, FitsAfterwards DEF CopyNext
  <2>. QED
    BY <2>1, <2>2
<1>5. ASSUME NEW step \in {"check", "insert"}, Stay(r, step)
      PROVE  Moves(r)
  <2>1. Fits(step, op[r], cur[r])
    BY <1>2, <1>3 DEF Fits, Bound, TypesAt
  <2>. QED
    BY <1>1, <1>3, <1>5, <2>1 DEF Stay, Moves, IInv, TypeOK, InTransaction, Steps
<1>6. CASE Answer(r, "error")
  BY <1>1, <1>3, <1>6, AnswerMoves
<1>7. CopyNext(r) \/ Stay(r, "check") \/ Stay(r, "insert") \/ Answer(r, "error")
  BY DEF CopyRead, CopyCheck, CopyInsert
<1>. QED
  BY <1>4, <1>5, <1>6, <1>7

\* The steps of an assignment of the run person.
LEMMA AssignControl ==
  ASSUME IInv, NEW r \in Request, AssignCount(r) \/ AssignFlag(r) \/ AssignFill(r)
  PROVE  Moves(r)
<1>1. pc[r] \in {"count", "flag", "fill"} /\ op' = op /\ conn' = conn
  BY DEF AssignCount, AssignFlag, AssignFill, dbVars
<1>2. op[r] \in Ops /\ op[r].type = "assign"
  BY <1>1, Working DEF TypesAt
<1>3. Len(WorkOrder) \in Nat /\ Len(WorkOrder) > 0 /\ ~InTransaction(r)
  BY <1>1, ServerAssumption DEF InTransaction
<1>4. ASSUME NEW step \in {"flag", "fill", "announce"}
      PROVE  Fits(step, op[r], 1) /\ step \in Steps
  BY <1>2, <1>3 DEF Fits, Bound, TypesAt, Steps
<1>5. ASSUME NEW step \in {"flag", "announce"}, Loop(r, Len(WorkOrder), step),
             pc[r] # "flag"
      PROVE  Moves(r)
  <2>1. Len(WorkOrder) = Bound(pc[r], op[r], cur[r])
    BY <1>1, <1>5 DEF Bound
  <2>. QED
    BY <1>1, <1>3, <1>4, <1>5, <2>1, LoopMoves
<1>6. CASE Goto(r, "fill")
  BY <1>1, <1>3, <1>4, <1>6, GotoMoves
<1>7. CASE Answer(r, "error")
  BY <1>1, <1>3, <1>7, AnswerMoves
<1>. QED
  BY <1>5, <1>6, <1>7 DEF AssignCount, AssignFlag, AssignFill

\* The steps of an import.
LEMMA ImportControl ==
  ASSUME IInv, NEW r \in Request,
         ImportWipe(r) \/ ImportFind(r) \/ ImportPerson(r) \/ ImportSlot(r)
  PROVE  Moves(r)
<1>1. pc[r] \in {"wipe", "find", "put", "new", "load"} /\ op' = op /\ conn' = conn
  BY DEF ImportWipe, ImportFind, ImportPerson, ImportSlot, dbVars
<1>2. op[r] \in Ops /\ op[r].type = "import"
  BY <1>1, Working DEF TypesAt
<1>3. op[r].people \in Seq(Person) /\ op[r].refs \in Seq(Key)
  BY <1>1, <1>2, Working, OperationFields
<1>4. ~InTransaction(r)
  BY <1>1 DEF InTransaction
<1>5. Fits("announce", op[r], 1) /\ "announce" \in Steps
  BY <1>1, FitsAfterwards
<1>6. Fits(LoadSlots(op[r]), op[r], 1) /\ LoadSlots(op[r]) \in Steps \ {"stmt", "commit"}
  BY <1>2, <1>3, <1>5 DEF LoadSlots, Fits, Bound, TypesAt, Steps
<1>7. Fits(LoadFirst(op[r]), op[r], 1) /\ LoadFirst(op[r]) \in Steps \ {"stmt", "commit"}
  BY <1>2, <1>3, <1>6 DEF LoadFirst, Fits, Bound, TypesAt, Steps
<1>8. CASE ImportWipe(r)
  BY <1>1, <1>4, <1>7, <1>8, GotoMoves DEF ImportWipe
<1>9. CASE ImportFind(r)
  <2>1. PICK step \in {"put", "new"} : Stay(r, step)
    BY <1>9 DEF ImportFind
  <2>2. Fits(step, op[r], cur[r])
    BY <1>2, <1>9 DEF ImportFind, IInv, HandlersFit, Fits, Bound, TypesAt
  <2>. QED
    BY <1>1, <1>4, <2>1, <2>2 DEF Stay, Moves, IInv, TypeOK, InTransaction, Steps
<1>10. CASE ImportPerson(r)
  <2>1. pc[r] \in {"put", "new"}
    BY <1>10 DEF ImportPerson
  <2>2. cur[r] \in 1..Len(op[r].people)
    BY <2>1 DEF IInv, HandlersFit, Fits, Bound
  <2>3. CASE ImportNext(r) /\ cur[r] < Len(op[r].people)
    <3>1. Fits("find", op[r], cur[r] + 1)
      BY <1>2, <1>3, <2>2, <2>3 DEF Fits, Bound, TypesAt
    <3>2. cur' = [cur EXCEPT ![r] = cur[r] + 1] /\ pc' = [pc EXCEPT ![r] = "find"]
          /\ UNCHANGED answer
      BY <2>3 DEF ImportNext
    <3>. QED
      BY <1>1, <1>4, <3>1, <3>2 DEF Moves, IInv, TypeOK, InTransaction, Steps
  <2>4. CASE ImportNext(r) /\ ~(cur[r] < Len(op[r].people))
    BY <1>1, <1>4, <1>6, <2>4, GotoMoves DEF ImportNext
  <2>5. CASE Answer(r, "error")
    BY <1>1, <1>4, <2>5, AnswerMoves
  <2>. QED
    BY <1>10, <2>3, <2>4, <2>5 DEF ImportPerson
<1>11. CASE ImportSlot(r)
  <2>1. Len(op[r].refs) \in Nat /\ Len(op[r].refs) = Bound(pc[r], op[r], cur[r])
    BY <1>3, <1>11 DEF ImportSlot, Bound
  <2>2. Loop(r, Len(op[r].refs), "announce") \/ Answer(r, "error")
    BY <1>11 DEF ImportSlot
  <2>. QED
    BY <1>1, <1>4, <1>5, <2>1, <2>2, LoopMoves, AnswerMoves
<1>. QED
  BY <1>8, <1>9, <1>10, <1>11

\* The steps after the change.
LEMMA EndControl ==
  ASSUME IInv, NEW r \in Request,
         Announce(r) \/ AnnounceNil(r) \/ Record(r) \/ Activity(r) \/ Reply(r)
  PROVE  Moves(r)
<1>1. pc[r] \in {"announce", "announceNil", "record", "activity", "reply"}
      /\ op' = op /\ conn' = conn
  BY DEF Announce, AnnounceNil, Record, Activity, Reply, dbVars
<1>2. ~InTransaction(r)
  BY <1>1 DEF InTransaction
<1>3. ASSUME NEW step \in {"record", "activity", "reply"}, Goto(r, step)
      PROVE  Moves(r)
  BY <1>1, <1>2, <1>3, GotoMoves, FitsAfterwards
<1>4. ASSUME NEW a \in {"ok", "error"}, Answer(r, a)
      PROVE  Moves(r)
  BY <1>1, <1>2, <1>4, AnswerMoves
<1>. QED
  BY <1>3, <1>4 DEF Announce, AnnounceNil, Record, Activity, Reply, AfterLostEvent

\* Every step of a handler moves that handler only.
LEMMA StepControl ==
  ASSUME IInv, NEW r \in Request, Step(r)
  PROVE  Moves(r)
BY RangeControl, CopyControl, AssignControl, ImportControl, EndControl DEF Step

\* A request that comes in gets the first step of its operation.
LEMMA ReceiveControl ==
  ASSUME IInv, NEW r \in Request, Receive(r)
  PROVE  ControlTyped' /\ HandlersFit'
<1>1. PICK o \in Ops : /\ op' = [op EXCEPT ![r] = o]
                       /\ pc' = [pc EXCEPT ![r] = FirstStep(o)]
  BY DEF Receive
<1>2. o \in Operation /\ pc[r] = "idle" /\ cur[r] = 1 /\ UNCHANGED <<conn, cur, answer>>
  BY <1>1, ServerAssumption DEF Receive, dbVars, IInv, HandlersFit, Fits
<1>3. Len(WorkOrder) \in Nat /\ Len(WorkOrder) > 0
  BY ServerAssumption
<1>4. FirstStep(o) \in Steps \ {"stmt", "commit", "idle"} /\ Fits(FirstStep(o), o, 1)
  <2>1. CASE o.type = "import"
    <3>1. o.people \in Seq(Person) /\ o.refs \in Seq(Key)
      BY <1>2, <2>1, OperationFields
    <3>2. /\ LoadSlots(o) \in Steps \ {"stmt", "commit", "idle"}
          /\ Fits(LoadSlots(o), o, 1)
      BY <2>1, <3>1 DEF LoadSlots, Fits, Bound, TypesAt, Steps
    <3>3. /\ LoadFirst(o) \in Steps \ {"stmt", "commit", "idle"}
          /\ Fits(LoadFirst(o), o, 1)
      BY <2>1, <3>1, <3>2 DEF LoadFirst, Fits, Bound, TypesAt, Steps
    <3>4. "wipe" \in Steps /\ Fits("wipe", o, 1)
      BY <2>1 DEF Fits, Bound, TypesAt, Steps
    <3>. QED
      BY <2>1, <3>3, <3>4 DEF FirstStep
  <2>2. CASE o.type \in {"range", "copy", "assign"}
    BY <1>3, <2>2 DEF FirstStep, Fits, Bound, TypesAt, Steps
  <2>3. CASE o.type \in OneStatement
    BY <2>3 DEF FirstStep, Fits, Bound, TypesAt, Steps, OneStatement
  <2>. QED
    BY <1>2, <2>1, <2>2, <2>3, OperationFields DEF OneStatement
<1>5. HandlersFit'
  BY <1>1, <1>2, <1>4 DEF IInv, TypeOK, HandlersFit
<1>6. \A q \in Request : InTransaction(q)' <=> conn' = q
  BY <1>1, <1>2, <1>4 DEF IInv, TypeOK, InTransaction
<1>. QED
  BY <1>1, <1>2, <1>4, <1>5, <1>6 DEF IInv, TypeOK, ControlTyped

\* A refused statement ends its handler.
LEMMA DiskErrorControl ==
  ASSUME IInv, NEW r \in Request, DiskError(r)
  PROVE  Moves(r)
<1>1. pc[r] # "idle" /\ op' = op /\ Answer(r, "error")
      /\ conn' = IF InTransaction(r) THEN Nobody ELSE conn
  BY DEF DiskError, Rollback, InTransaction
<1>. QED
  BY <1>1, AnswerMoves

\* A crash ends every handler that is not done.
LEMMA CrashControl ==
  ASSUME IInv, Crash
  PROVE  ControlTyped' /\ HandlersFit'
<1>1. /\ pc' = [r \in Request |-> IF pc[r] \in {"idle", "done"} THEN pc[r] ELSE "lost"]
      /\ conn' = Nobody /\ UNCHANGED <<op, cur, answer>>
  BY DEF Crash
<1>2. ASSUME NEW r \in Request
      PROVE  Fits(pc'[r], op[r], cur[r])
  <2>1. CASE pc[r] \in {"idle", "done"}
    BY <1>1, <2>1 DEF IInv, HandlersFit
  <2>2. CASE pc[r] \notin {"idle", "done"}
    <3>1. op[r] \in Ops /\ op[r].type \in TypesAt("lost")
      BY <2>2, Working DEF TypesAt, OneStatement
    <3>2. cur[r] \in 1..cur[r]
      BY DEF IInv, HandlersFit, TypeOK, Fits
    <3>. QED
      BY <1>1, <2>2, <3>1, <3>2 DEF Fits, Bound
  <2>. QED
    BY <2>1, <2>2
<1>3. HandlersFit'
  BY <1>1, <1>2 DEF HandlersFit
<1>4. \A q \in Request : InTransaction(q)' <=> conn' = q
  BY <1>1, ServerAssumption DEF InTransaction
<1>. QED
  BY <1>1, <1>3, <1>4 DEF IInv, TypeOK, ControlTyped, Steps

-----------------------------------------------------------------------------
(* The tables.                                                              *)

\* Nothing in the database changes.
LEMMA NothingWritten ==
  ASSUME IInv, UNCHANGED <<tables, saved>>, conn' \in {conn, Nobody}
  PROVE  TablesTyped' /\ TablesSound'
BY DEF IInv, TypeOK, TablesTyped, TablesSound, Known, tables

\* A write the foreign key allows.
LEMMA WriteSound ==
  ASSUME IInv, NEW keys, NEW e \in Entry, CanWrite(keys, e), Write(keys, e),
         UNCHANGED <<saved, conn>>
  PROVE  TablesTyped' /\ TablesSound'
<1>1. planning' = With(planning, keys, e) /\ UNCHANGED <<people, rotation, oncall>>
  BY DEF Write
<1>2. planning' \in [Key -> Entry]
  BY <1>1, WithIsPlanning DEF IInv, TypeOK
<1>3. Known(planning', people)
  BY <1>1 DEF IInv, TablesSound, Known, With, CanWrite, PersonsOf
<1>. QED
  BY <1>1, <1>2, <1>3 DEF IInv, TypeOK, TablesTyped, TablesSound

\* The half-day that the loop of a copy or an assignment is at.
LEMMA WorkKeyIsKey ==
  ASSUME IInv, NEW r \in Request, NEW week \in Week,
         pc[r] \in {"read", "check", "insert", "fill"}
  PROVE  WorkKey(r, week) \in Key
<1>1. op[r] \in Operation /\ op[r].type \in {"copy", "assign"}
  BY Working DEF TypesAt
<1>2. op[r].person \in Person
  BY <1>1, OperationFields
<1>3. WorkOrder[cur[r]] \in HalfDay
  BY ServerAssumption DEF IInv, HandlersFit, Fits, Bound
<1>. QED
  BY <1>2, <1>3 DEF WorkKey, Key

\* More people know no fewer half-days and duties.
LEMMA JoinSound ==
  ASSUME IInv, NEW p \in Person, people' = people \cup {p},
         UNCHANGED <<planning, rotation, oncall, saved, conn>>
  PROVE  TablesTyped' /\ TablesSound'
BY DEF IInv, TypeOK, TablesTyped, TablesSound, Known

\* Who leaves takes their half-days and duties along.
LEMMA LeaveSound ==
  ASSUME IInv, NEW p \in Person, conn = Nobody, UNCHANGED <<saved, conn>>,
         people' = people \ {p}, planning' = Cascade(p),
         rotation' = rotation \ DutiesOf(p), oncall' = oncall \ DutiesOf(p)
  PROVE  TablesTyped' /\ TablesSound'
<1>1. planning' \in [Key -> Entry]
  BY WithIsPlanning DEF Cascade, IInv, TypeOK, Entry
<1>2. Known(planning', people')
  BY DEF IInv, TablesSound, Known, Cascade, With, KeysOf
<1>3. rotation' \cup oncall' \subseteq (people' \X Week)
  BY DEF IInv, TypeOK, TablesSound, DutiesOf
<1>. QED
  BY <1>1, <1>2, <1>3 DEF IInv, TypeOK, TablesTyped, TablesSound

\* An emptied database.
LEMMA WipeSound ==
  ASSUME IInv, conn = Nobody, UNCHANGED <<saved, conn>>, WipeTables
  PROVE  TablesTyped' /\ TablesSound'
<1>1. planning' \in [Key -> Entry]
  BY WithIsPlanning DEF WipeTables, IInv, TypeOK, Entry
<1>2. Known(planning', people')
  BY DEF WipeTables, Known, With
<1>. QED
  BY <1>1, <1>2 DEF WipeTables, IInv, TypeOK, TablesTyped, TablesSound

\* A duty given to somebody in the team, or taken away.
LEMMA DutySound ==
  ASSUME IInv, UNCHANGED <<people, planning, saved, conn>>,
         NEW o, o.person \in Person, o.week \in Week, o.on => o.person \in people,
         rotation' \in {rotation, DutyAfter(rotation, o)},
         oncall' \in {oncall, DutyAfter(oncall, o)}
  PROVE  TablesTyped' /\ TablesSound'
<1>1. \A d \in {rotation, oncall} :
        DutyAfter(d, o) \subseteq (people \X Week)
  BY DEF DutyAfter, IInv, TablesSound
<1>2. rotation' \cup oncall' \subseteq (people \X Week)
  BY <1>1 DEF IInv, TablesSound
<1>. QED
  BY <1>2 DEF IInv, TypeOK, TablesTyped, TablesSound

\* The operations that are one statement.
LEMMA EffectSound ==
  ASSUME IInv, NEW r \in Request, Exec(r)
  PROVE  TablesTyped' /\ TablesSound'
<1>1. pc[r] = "exec" /\ UNCHANGED <<saved, conn>>
  BY DEF Exec, dbVars
<1>2. conn = Nobody
  BY <1>1, FreeConnection DEF Exec, InTransaction
<1>3. op[r] \in Operation
  BY <1>1, Working
<1>4. CASE ~Succeeds(op[r])
  BY <1>1, <1>4, NothingWritten DEF Exec
<1>5. CASE Succeeds(op[r])
  <2> DEFINE o == op[r]
  <2>1. Effect(o)
    BY <1>5 DEF Exec
  <2>2. CASE o.type = "slot" /\ Write({o.refs[1]}, o.entry)
    <3>1. CanWrite({o.refs[1]}, o.entry)
      BY <1>5, <2>2 DEF Succeeds
    <3>. QED
      BY <1>1, <1>3, <2>2, <3>1, WriteSound, OperationFields
  <2>3. CASE o.type \in {"rotation", "oncall"}
    <3>1. o.person \in Person /\ o.week \in Week /\ (o.on => o.person \in people)
      BY <1>3, <1>5, <2>3, OperationFields DEF Succeeds
    <3>2. /\ UNCHANGED <<people, planning>>
          /\ rotation' \in {rotation, DutyAfter(rotation, o)}
          /\ oncall' \in {oncall, DutyAfter(oncall, o)}
      BY <2>1, <2>3 DEF Effect
    <3>. QED
      BY <1>1, <3>1, <3>2, DutySound
  <2>4. CASE o.type = "add"
    BY <1>1, <1>3, <2>1, <2>4, JoinSound, OperationFields DEF Effect
  <2>5. CASE o.type \in {"update", "archive"}
    BY <1>1, <2>1, <2>5, NothingWritten DEF Effect
  <2>6. CASE o.type = "delete"
    BY <1>1, <1>2, <1>3, <2>1, <2>6, LeaveSound, OperationFields DEF Effect
  <2>7. CASE o.type = "prune"
    BY <1>1, <2>1, <2>7, WriteSound DEF Effect, CanWrite, Entry
  <2>8. CASE o.type = "reset"
    BY <1>1, <1>2, <2>1, <2>8, WipeSound DEF Effect
  <2>. QED
    BY <2>1, <2>2, <2>3, <2>4, <2>5, <2>6, <2>7, <2>8 DEF Effect
<1>. QED
  BY <1>4, <1>5

\* The statements of a range, and the ends of its transaction.
LEMMA RangeSound ==
  ASSUME IInv, NEW r \in Request, Begin(r) \/ RangeStatement(r) \/ Commit(r)
  PROVE  TablesTyped' /\ TablesSound'
<1>1. CASE Begin(r)
  BY <1>1 DEF Begin, tables, IInv, TypeOK, TablesTyped, TablesSound, Known
<1>2. CASE RangeStatement(r)
  <2>1. conn = r /\ conn # Nobody /\ saved' = saved
    BY <1>2, ServerAssumption DEF RangeStatement, InTransaction, IInv, TypeOK
  <2>2. op[r].entry \in Entry
    BY <1>2, Working, OperationFields DEF RangeStatement, TypesAt
  <2>3. CASE CanWrite({op[r].refs[cur[r]]}, op[r].entry)
    BY <1>2, <2>1, <2>2, <2>3, WriteSound DEF RangeStatement
  <2>4. CASE Rollback(r)
    BY <2>1, <2>4 DEF Rollback, IInv, TypeOK, TablesTyped, TablesSound
  <2>. QED
    BY <1>2, <2>3, <2>4 DEF RangeStatement
<1>3. CASE Commit(r)
  BY <1>3, NothingWritten DEF Commit
<1>. QED
  BY <1>1, <1>2, <1>3

\* The statements of a copy, an assignment and an import.
LEMMA LoopSound ==
  ASSUME IInv, NEW r \in Request,
         \/ CopyRead(r) \/ CopyCheck(r) \/ CopyInsert(r)
         \/ AssignCount(r) \/ AssignFlag(r) \/ AssignFill(r)
         \/ ImportWipe(r) \/ ImportFind(r) \/ ImportPerson(r) \/ ImportSlot(r)
  PROVE  TablesTyped' /\ TablesSound'
<1>1. UNCHANGED <<saved, conn>>
  BY DEF CopyRead, CopyCheck, CopyInsert, AssignCount, AssignFlag, AssignFill,
         ImportWipe, ImportFind, ImportPerson, ImportSlot, dbVars
<1>2. CASE UNCHANGED tables
  BY <1>1, <1>2, NothingWritten
<1>3. CASE CopyInsert(r) /\ ~UNCHANGED tables
  <2>1. PICK k : MayInsert(k) /\ Write({k}, src[r])
    BY <1>3 DEF CopyInsert
  <2>2. CanWrite({k}, src[r])
    BY <2>1 DEF MayInsert, CanWrite, PersonsOf
  <2>. QED
    BY <1>1, <2>1, <2>2, WriteSound DEF IInv, TypeOK
<1>4. CASE AssignFlag(r) /\ ~UNCHANGED tables
  <2>1. /\ op[r].person \in people
        /\ rotation' = rotation \cup {<<op[r].person, op[r].week>>}
        /\ UNCHANGED <<people, planning, oncall>>
    BY <1>4 DEF AssignFlag
  <2>2. op[r].week \in Week
    BY <1>4, Working, OperationFields DEF AssignFlag, TypesAt
  <2>. QED
    BY <1>1, <2>1, <2>2 DEF IInv, TypeOK, TablesTyped, TablesSound
<1>5. CASE AssignFill(r) /\ ~UNCHANGED tables
  <2>1. PICK k : CanWrite({k}, RunDuty) /\ Write({k}, RunDuty)
    BY <1>5 DEF AssignFill
  <2>. QED
    BY <1>1, <2>1, WriteSound, ServerAssumption DEF Entry
<1>6. CASE ImportWipe(r)
  <2>1. conn = Nobody
    BY <1>6, FreeConnection DEF ImportWipe, InTransaction
  <2>. QED
    BY <1>1, <1>6, <2>1, WipeSound DEF ImportWipe
<1>7. CASE ImportPerson(r) /\ ~UNCHANGED tables
  <2>1. /\ pc[r] = "new" /\ people' = people \cup {op[r].people[cur[r]]}
        /\ UNCHANGED <<planning, rotation, oncall>>
    BY <1>7 DEF ImportPerson
  <2>2. op[r].people \in Seq(Person)
    BY <2>1, Working, OperationFields DEF TypesAt
  <2>3. op[r].people[cur[r]] \in Person
    BY <2>1, <2>2 DEF IInv, HandlersFit, Fits, Bound
  <2>. QED
    BY <1>1, <2>1, <2>3, JoinSound
<1>8. CASE ImportSlot(r) /\ ~UNCHANGED tables
  <2>1. PICK k : CanWrite({k}, op[r].entry) /\ Write({k}, op[r].entry)
    BY <1>8 DEF ImportSlot
  <2>2. op[r].entry \in Entry
    BY <1>8, Working, OperationFields DEF ImportSlot, TypesAt, Entry
  <2>. QED
    BY <1>1, <2>1, <2>2, WriteSound
<1>. QED
  BY <1>2, <1>3, <1>4, <1>5, <1>6, <1>7, <1>8
     DEF CopyRead, CopyCheck, AssignCount, ImportFind

\* Every step of a handler keeps the tables typed and their foreign keys.
LEMMA StepSound ==
  ASSUME IInv, NEW r \in Request, Step(r)
  PROVE  TablesTyped' /\ TablesSound'
<1>1. CASE GetPerson(r) \/ Announce(r) \/ AnnounceNil(r) \/ Record(r) \/ Activity(r)
           \/ Reply(r)
  BY <1>1, NothingWritten
     DEF GetPerson, Announce, AnnounceNil, Record, Activity, Reply, dbVars
<1>. QED
  BY <1>1, EffectSound, RangeSound, LoopSound DEF Step

\* A rollback, by a failing statement or by a restart, restores what it saved.
LEMMA FailureSound ==
  ASSUME IInv, Crash \/ \E r \in Request : DiskError(r)
  PROVE  TablesTyped' /\ TablesSound'
<1>1. CASE Crash
  BY <1>1 DEF Crash, IInv, TypeOK, TablesTyped, TablesSound
<1>2. ASSUME NEW r \in Request, DiskError(r)
      PROVE  TablesTyped' /\ TablesSound'
  <2>1. CASE UNCHANGED <<tables, conn>>
    BY <1>2, <2>1, NothingWritten DEF DiskError
  <2>2. CASE pc[r] \in {"stmt", "commit"} /\ Rollback(r)
    <3>1. conn # Nobody
      BY <2>2, ServerAssumption DEF InTransaction, IInv, TypeOK
    <3>. QED
      BY <1>2, <2>2, <3>1 DEF DiskError, Rollback, IInv, TypeOK, TablesTyped, TablesSound
  <2>. QED
    BY <1>2, <2>1, <2>2 DEF DiskError
<1>. QED
  BY <1>1, <1>2

-----------------------------------------------------------------------------
(* What is said of the changes.                                             *)

\* What counts as changed is a set of tables.
LEMMA NotesAreTables ==
  ASSUME IInv, NEW r \in Request, NEW edited, NoteEdit(r, edited)
  PROVE  changed' \in [Request -> SUBSET Table]
<1>1. Differing \subseteq Table /\ {t \in {"people"} : edited \cap people # {}} \subseteq Table
  BY DEF Differing, Table
<1>. QED
  BY <1>1 DEF NoteEdit, IInv, TypeOK

\* So is what a message is about.
LEMMA TopicsAreTables ==
  ASSUME IInv, NEW r \in Request, pc[r] # "idle"
  PROVE  Topics(op[r]) \subseteq Table
<1>1. op[r].type \in {"slot", "range", "copy", "assign", "rotation", "oncall", "add",
                      "update", "archive", "delete", "prune", "reset", "import"}
  BY Working, OperationFields
<1>. QED
  BY <1>1 DEF Topics, Table

\* Every step of a handler keeps what is said of the changes typed.
LEMMA StepRecords ==
  ASSUME IInv, NEW r \in Request, Step(r)
  PROVE  RecordsTyped'
<1>1. crashes' = crashes
  BY DEF Step, Exec, GetPerson, Begin, RangeStatement, Commit, CopyRead, CopyCheck,
         CopyInsert, AssignCount, AssignFlag, AssignFill, ImportWipe, ImportFind,
         ImportPerson, ImportSlot, Announce, AnnounceNil, Record, Activity, Reply
<1>2. audit' \subseteq Request
  BY DEF Step, Exec, GetPerson, Begin, RangeStatement, Commit, CopyRead, CopyCheck,
         CopyInsert, AssignCount, AssignFlag, AssignFill, ImportWipe, ImportFind,
         ImportPerson, ImportSlot, Announce, AnnounceNil, Record, Activity, Reply,
         dbVars, IInv, TypeOK
<1>3. src' \in [Request -> Entry]
  <2>1. CASE CopyRead(r)
    <3>1. op[r].from \in Week
      BY <2>1, Working, OperationFields DEF CopyRead, TypesAt
    <3>2. planning[WorkKey(r, op[r].from)] \in Entry
      BY <2>1, <3>1, WorkKeyIsKey DEF CopyRead, IInv, TypeOK
    <3>. QED
      BY <2>1, <3>2 DEF CopyRead, IInv, TypeOK
  <2>2. CASE src' = src
    BY <2>2 DEF IInv, TypeOK
  <2>. QED
    BY <2>1, <2>2
       DEF Step, Exec, GetPerson, Begin, RangeStatement, Commit, CopyCheck,
           CopyInsert, AssignCount, AssignFlag, AssignFill, ImportWipe, ImportFind,
           ImportPerson, ImportSlot, Announce, AnnounceNil, Record, Activity, Reply
<1>4. changed' \in [Request -> SUBSET Table]
  <2>1. CASE \E edited : NoteEdit(r, edited)
    BY <2>1, NotesAreTables
  <2>2. CASE changed' = changed
    BY <2>2 DEF IInv, TypeOK
  <2>3. CASE Commit(r)
    <3>1. {t \in {"planning"} : planning # saved} \subseteq Table
      BY DEF Table
    <3>. QED
      BY <2>3, <3>1 DEF Commit, IInv, TypeOK
  <2>. QED
    BY <2>1, <2>2, <2>3
       DEF Step, Exec, GetPerson, Begin, RangeStatement, CopyRead, CopyCheck,
           CopyInsert, AssignCount, AssignFlag, AssignFill, ImportWipe, ImportFind,
           ImportPerson, ImportSlot, Announce, AnnounceNil, Record, Activity, Reply,
           NoteChange
<1>5. told' \in [Request -> SUBSET (Table \cup {"activity"})]
  <2>1. CASE told' = [told EXCEPT ![r] = Topics(op[r])] /\ pc[r] # "idle"
    BY <2>1, TopicsAreTables DEF IInv, TypeOK
  <2>2. CASE told' = told \/ Activity(r)
    BY <2>2 DEF Activity, IInv, TypeOK
  <2>. QED
    BY <2>1, <2>2
       DEF Step, Exec, GetPerson, Begin, RangeStatement, Commit, CopyRead, CopyCheck,
           CopyInsert, AssignCount, AssignFlag, AssignFill, ImportWipe, ImportFind,
           ImportPerson, ImportSlot, Announce, AnnounceNil, Record, Reply
<1>. QED
  BY <1>1, <1>2, <1>3, <1>4, <1>5 DEF RecordsTyped, IInv, TypeOK

\* Requests that come in and failures say nothing, and restarts are counted.
LEMMA OtherRecords ==
  ASSUME IInv, Crash \/ \E r \in Request : Receive(r) \/ DiskError(r)
  PROVE  RecordsTyped'
BY ServerAssumption DEF Crash, Receive, DiskError, dbVars, RecordsTyped, IInv, TypeOK

-----------------------------------------------------------------------------
(* The theorems.                                                            *)

\* The server starts with the team and the planning it is given.
LEMMA InvInit == Init => IInv
<1> SUFFICES ASSUME Init PROVE IInv
  OBVIOUS
<1>1. TypeOK
  BY ServerAssumption DEF Init, TypeOK, Entry, Steps, InTransaction
<1>2. HandlersFit
  BY DEF Init, HandlersFit, Fits, Bound
<1>3. TablesSound
  BY ServerAssumption DEF Init, TablesSound, Known
<1>. QED
  BY <1>1, <1>2, <1>3 DEF IInv

\* Every step keeps the invariant.
LEMMA InvNext == IInv /\ [Next]_vars => IInv'
<1> SUFFICES ASSUME IInv, [Next]_vars PROVE IInv'
  OBVIOUS
<1>1. CASE Crash
  BY <1>1, CrashControl, FailureSound, OtherRecords, TypedNext DEF IInv
<1>2. ASSUME NEW r \in Request, Receive(r)
      PROVE  IInv'
  <2>1. TablesTyped' /\ TablesSound'
    BY <1>2, NothingWritten DEF Receive, dbVars
  <2>. QED
    BY <1>2, <2>1, ReceiveControl, OtherRecords, TypedNext DEF IInv
<1>3. ASSUME NEW r \in Request, Step(r)
      PROVE  IInv'
  BY <1>3, StepControl, MovesKeepsControl, StepSound, StepRecords, TypedNext DEF IInv
<1>4. ASSUME NEW r \in Request, DiskError(r)
      PROVE  IInv'
  BY <1>4, DiskErrorControl, MovesKeepsControl, FailureSound, OtherRecords, TypedNext DEF IInv
<1>5. CASE UNCHANGED vars
  <2>1. TypeOK'
    BY <1>5 DEF vars, tables, dbVars, reqVars, IInv, TypeOK, InTransaction
  <2>2. HandlersFit' /\ TablesSound'
    BY <1>5 DEF vars, tables, dbVars, reqVars, IInv, HandlersFit, TablesSound
  <2>. QED
    BY <2>1, <2>2 DEF IInv
<1>. QED
  BY <1>1, <1>2, <1>3, <1>4, <1>5 DEF Next

\* The invariant holds in every behaviour of the server.
LEMMA Invariant == Spec => []IInv
BY InvInit, InvNext, PTL DEF Spec

\* Whatever handlers interleave and wherever the process dies, the server's
\* variables stay in their types, and only the request whose handler is between
\* its BEGIN and its COMMIT or ROLLBACK holds the connection.
THEOREM TypeCorrect == Spec => []TypeOK
<1>1. IInv => TypeOK
  BY DEF IInv
<1>. QED
  BY <1>1, Invariant, PTL

\* Nothing that is committed is scheduled for somebody who is not in the team,
\* although people are deleted while weeks are copied, filled and imported, and
\* a transaction may be undone after other requests were served.
THEOREM NothingForStrangers == Spec => []NoStrangers
<1>1. IInv => NoStrangers
  BY DEF IInv, TablesSound, Known, NoStrangers, Store!NoStrangers, Store!Key, Committed, Key
<1>. QED
  BY <1>1, Invariant, PTL

-----------------------------------------------------------------------------
(* What browsers and the activity feed are told.                            *)

\* What r's handler has said of its event so far.
FeedSound(r) ==
  /\ pc[r] # "done" => answer[r] = "none"
  /\ pc[r] \notin {"activity", "reply", "done", "lost"} =>
       r \notin audit /\ "activity" \notin told[r]
  /\ pc[r] \in {"record", "activity"} => Topics(op[r]) \subseteq told[r]
  /\ pc[r] = "activity" => r \in audit
  /\ "activity" \in told[r] => r \in audit
  /\ r \in audit => Topics(op[r]) \subseteq told[r] /\ answer[r] # "error"

\* What r has changed so far, and whom its handler has told.
ChangesSound(r) ==
  /\ pc[r] \in {"idle", "exec", "begin", "stmt", "commit"} => changed[r] = {}
  /\ pc[r] = "announceNil" => op[r].type = "update"
  /\ pc[r] # "idle" /\ op[r].type \notin Multistep =>
       /\ pc[r] = "announce" => changed[r] \subseteq Topics(op[r])
       /\ pc[r] \in {"record", "activity", "reply", "done"} => changed[r] \subseteq told[r]
       /\ answer[r] = "error" => changed[r] = {}

AInv == IInv /\ \A r \in Request : FeedSound(r) /\ ChangesSound(r)

\* A handler says nothing for another.
LEMMA OthersKeepQuiet ==
  ASSUME IInv, NEW r \in Request, NEW q \in Request \ {r},
         Receive(r) \/ Step(r) \/ DiskError(r)
  PROVE  /\ pc'[q] = pc[q] /\ op'[q] = op[q] /\ told'[q] = told[q]
         /\ changed'[q] = changed[q] /\ answer'[q] = answer[q]
         /\ q \in audit' <=> q \in audit
<1>1. pc'[q] = pc[q] /\ op'[q] = op[q]
  BY StepControl, DiskErrorControl DEF Moves, Receive, IInv, TypeOK
<1>2. changed'[q] = changed[q]
  BY DEF Receive, DiskError, Step, Exec, GetPerson, Begin, RangeStatement, Commit, CopyRead,
         CopyCheck, CopyInsert, AssignCount, AssignFlag, AssignFill, ImportWipe, ImportFind,
         ImportPerson, ImportSlot, Announce, AnnounceNil, Record, Activity, Reply,
         NoteChange, NoteEdit, IInv, TypeOK
<1>3. told'[q] = told[q]
  BY DEF Receive, DiskError, Step, Exec, GetPerson, Begin, RangeStatement, Commit, CopyRead,
         CopyCheck, CopyInsert, AssignCount, AssignFlag, AssignFill, ImportWipe, ImportFind,
         ImportPerson, ImportSlot, Announce, AnnounceNil, Record, Activity, Reply, IInv, TypeOK
<1>4. q \in audit' <=> q \in audit
  BY DEF Receive, DiskError, Step, Exec, GetPerson, Begin, RangeStatement, Commit, CopyRead,
         CopyCheck, CopyInsert, AssignCount, AssignFlag, AssignFill, ImportWipe, ImportFind,
         ImportPerson, ImportSlot, Announce, AnnounceNil, Record, Activity, Reply, dbVars
<1>5. answer'[q] = answer[q]
  BY DEF Receive, DiskError, Step, Exec, GetPerson, Begin, RangeStatement, Commit, CopyRead,
         CopyCheck, CopyInsert, AssignCount, AssignFlag, AssignFill, ImportWipe, ImportFind,
         ImportPerson, ImportSlot, Announce, AnnounceNil, Record, Activity, Reply, IInv, TypeOK,
         Goto, Loop, Answer, CopyNext, Stay, ImportNext
<1>. QED
  BY <1>1, <1>2, <1>3, <1>4, <1>5

\* The handler before its broadcast: it says nothing, and it either goes on or
\* answers with an error.
LEMMA QuietSteps ==
  ASSUME AInv, NEW r \in Request,
         \/ Exec(r) \/ GetPerson(r) \/ Begin(r) \/ RangeStatement(r) \/ Commit(r)
         \/ CopyRead(r) \/ CopyCheck(r) \/ CopyInsert(r)
         \/ AssignCount(r) \/ AssignFlag(r) \/ AssignFill(r)
         \/ ImportWipe(r) \/ ImportFind(r) \/ ImportPerson(r) \/ ImportSlot(r)
         \/ DiskError(r)
  PROVE  FeedSound(r)'
<1>1. /\ UNCHANGED <<audit, told, op>>
      /\ pc[r] \in Steps \ {"idle", "announce", "announceNil", "record", "activity",
                            "reply", "done", "lost"}
  BY DEF Exec, GetPerson, Begin, RangeStatement, Commit, CopyRead, CopyCheck, CopyInsert,
         AssignCount, AssignFlag, AssignFill, ImportWipe, ImportFind, ImportPerson,
         ImportSlot, DiskError, dbVars, AInv, IInv, TypeOK
<1>2. r \notin audit /\ "activity" \notin told[r] /\ answer[r] = "none"
  BY <1>1 DEF AInv, FeedSound
<1>3. \/ Answer(r, "error")
      \/ pc'[r] \notin {"record", "activity", "reply", "done", "lost"} /\ answer' = answer
  <2>1. CASE Exec(r) \/ GetPerson(r) \/ Begin(r) \/ Commit(r)
    BY <2>1 DEF Exec, GetPerson, Begin, Commit, AfterExec, Goto, AInv, IInv, TypeOK
  <2>2. CASE RangeStatement(r) \/ AssignCount(r) \/ AssignFlag(r) \/ AssignFill(r)
             \/ ImportSlot(r)
    BY <1>1, <2>2 DEF RangeStatement, AssignCount, AssignFlag, AssignFill, ImportSlot, Loop,
                      Goto, AInv, IInv, TypeOK
  <2>3. CASE CopyRead(r) \/ CopyCheck(r) \/ CopyInsert(r)
    BY <2>3 DEF CopyRead, CopyCheck, CopyInsert, CopyNext, Stay, Goto, AInv, IInv, TypeOK
  <2>4. CASE ImportWipe(r) \/ ImportFind(r) \/ ImportPerson(r)
    BY <2>4 DEF ImportWipe, ImportFind, ImportPerson, ImportNext, Stay, Goto, LoadFirst,
                LoadSlots, AInv, IInv, TypeOK
  <2>5. CASE DiskError(r)
    BY <2>5 DEF DiskError
  <2>. QED
    BY <2>1, <2>2, <2>3, <2>4, <2>5
<1>4. CASE Answer(r, "error")
  BY <1>1, <1>2, <1>4 DEF Answer, FeedSound, AInv, IInv, TypeOK
<1>5. CASE pc'[r] \notin {"record", "activity", "reply", "done", "lost"} /\ answer' = answer
  BY <1>1, <1>2, <1>5 DEF FeedSound
<1>. QED
  BY <1>3, <1>4, <1>5

\* The broadcast, the event and the answer.
LEMMA LoudSteps ==
  ASSUME AInv, NEW r \in Request,
         Announce(r) \/ AnnounceNil(r) \/ Record(r) \/ Activity(r) \/ Reply(r)
  PROVE  FeedSound(r)'
<1>1. op' = op /\ pc[r] # "idle"
  BY DEF Announce, AnnounceNil, Record, Activity, Reply
<1>2. "activity" \notin Topics(op[r])
  BY <1>1, TopicsAreTables DEF Table, AInv
<1>3. CASE Announce(r) \/ AnnounceNil(r)
  BY <1>1, <1>2, <1>3
     DEF Announce, AnnounceNil, Goto, Answer, FeedSound, AInv, IInv, TypeOK, dbVars
<1>4. CASE Record(r)
  BY <1>1, <1>4 DEF Record, AfterLostEvent, Goto, FeedSound, AInv, IInv, TypeOK
<1>5. CASE Activity(r)
  BY <1>1, <1>5 DEF Activity, Goto, FeedSound, AInv, IInv, TypeOK, dbVars
<1>6. CASE Reply(r)
  BY <1>1, <1>6 DEF Reply, Answer, FeedSound, AInv, IInv, TypeOK, dbVars
<1>. QED
  BY <1>3, <1>4, <1>5, <1>6

\* A copy, an assignment and an import promise nothing about what they changed,
\* and never come near the steps of the other operations.
LEMMA LoopChanges ==
  ASSUME AInv, NEW r \in Request,
         \/ CopyRead(r) \/ CopyCheck(r) \/ CopyInsert(r)
         \/ AssignCount(r) \/ AssignFlag(r) \/ AssignFill(r)
         \/ ImportWipe(r) \/ ImportFind(r) \/ ImportPerson(r) \/ ImportSlot(r)
  PROVE  ChangesSound(r)'
<1>1. op' = op /\ pc[r] # "idle"
      /\ pc[r] \in {"read", "check", "insert", "count", "flag", "fill",
                    "wipe", "find", "put", "new", "load"}
  BY DEF CopyRead, CopyCheck, CopyInsert, AssignCount, AssignFlag, AssignFill,
         ImportWipe, ImportFind, ImportPerson, ImportSlot
<1>2. op[r].type \in {"copy", "assign", "import"}
  BY <1>1, Working DEF TypesAt, AInv
<1>3. pc'[r] \notin {"idle", "exec", "begin", "stmt", "commit", "announceNil"}
  <2>1. CASE CopyRead(r) \/ CopyCheck(r) \/ CopyInsert(r)
    BY <2>1 DEF CopyRead, CopyCheck, CopyInsert, CopyNext, Stay, Goto, Answer,
                AInv, IInv, TypeOK
  <2>2. CASE AssignCount(r) \/ AssignFlag(r) \/ AssignFill(r) \/ ImportSlot(r)
    BY <1>1, <2>2 DEF AssignCount, AssignFlag, AssignFill, ImportSlot, Loop, Goto, Answer,
                      AInv, IInv, TypeOK
  <2>3. CASE ImportWipe(r) \/ ImportFind(r) \/ ImportPerson(r)
    BY <2>3 DEF ImportWipe, ImportFind, ImportPerson, ImportNext, Stay, Goto, Answer,
                LoadFirst, LoadSlots, AInv, IInv, TypeOK
  <2>. QED
    BY <2>1, <2>2, <2>3
<1>. QED
  BY <1>1, <1>2, <1>3 DEF ChangesSound, Multistep

\* One statement changes no more tables than its message is about.
LEMMA ExecChanges ==
  ASSUME AInv, NEW r \in Request, Exec(r)
  PROVE  ChangesSound(r)'
<1> DEFINE o == op[r]
<1>1. pc[r] = "exec" /\ op' = op /\ told' = told /\ changed[r] = {} /\ answer[r] = "none"
  BY DEF Exec, AInv, FeedSound, ChangesSound
<1>2. o \in Operation /\ o.type \in OneStatement
  BY <1>1, Working DEF TypesAt, AInv
<1>3. changed'[r] = Differing
                    \cup {t \in {"people"} :
                            (IF o.type \in {"update", "archive"} THEN {o.person} ELSE {})
                              \cap people # {}}
  BY <1>1 DEF Exec, NoteEdit, AInv, IInv, TypeOK
<1>4. CASE Succeeds(o)
  <2>1. Effect(o) /\ Goto(r, AfterExec(o))
    BY <1>4 DEF Exec
  <2>2. pc'[r] \in {"get", "announce"} /\ answer'[r] = "none"
    BY <1>1, <2>1 DEF Goto, AfterExec, AInv, IInv, TypeOK
  <2>3. changed'[r] \subseteq Topics(o)
    <3>1. CASE o.type \in {"slot", "prune"}
      BY <1>3, <2>1, <3>1 DEF Effect, Write, Differing, Topics
    <3>2. CASE o.type \in {"rotation", "oncall"}
      BY <1>3, <2>1, <3>2 DEF Effect, Differing, Topics
    <3>3. CASE o.type \in {"add", "update", "archive"}
      BY <1>3, <2>1, <3>3 DEF Effect, Differing, Topics, tables
    <3>4. CASE o.type \in {"delete", "reset"}
      BY <1>3, <3>4 DEF Differing, Topics, Table
    <3>. QED
      BY <1>2, <3>1, <3>2, <3>3, <3>4 DEF OneStatement
  <2>. QED
    BY <1>1, <2>2, <2>3 DEF ChangesSound
<1>5. CASE ~Succeeds(o)
  <2>1. UNCHANGED tables /\ Answer(r, "error")
    BY <1>5 DEF Exec
  <2>2. o.type \notin {"update", "archive"}
    BY <1>5 DEF Succeeds
  <2>3. changed'[r] = {}
    BY <1>3, <2>1, <2>2 DEF Differing, tables
  <2>4. pc'[r] = "done"
    BY <2>1 DEF Answer, AInv, IInv, TypeOK
  <2>. QED
    BY <1>1, <2>3, <2>4 DEF ChangesSound
<1>. QED
  BY <1>4, <1>5

\* A range changes the planning, and only when it commits.
LEMMA RangeChanges ==
  ASSUME AInv, NEW r \in Request, Begin(r) \/ RangeStatement(r) \/ Commit(r)
  PROVE  ChangesSound(r)'
<1>1. op' = op /\ told' = told /\ changed[r] = {} /\ answer[r] = "none" /\ pc[r] # "idle"
      /\ op[r].type = "range"
  BY Working DEF Begin, RangeStatement, Commit, AInv, FeedSound, ChangesSound, TypesAt
<1>2. CASE Begin(r)
  BY <1>1, <1>2 DEF Begin, Goto, ChangesSound, AInv, IInv, TypeOK
<1>3. CASE RangeStatement(r)
  BY <1>1, <1>3 DEF RangeStatement, Loop, Goto, Answer, ChangesSound, AInv, IInv, TypeOK
<1>4. CASE Commit(r)
  BY <1>1, <1>4 DEF Commit, Goto, Topics, ChangesSound, AInv, IInv, TypeOK
<1>. QED
  BY <1>2, <1>3, <1>4

\* The other steps of a handler change nothing.
LEMMA OtherChanges ==
  ASSUME AInv, NEW r \in Request,
         \/ GetPerson(r) \/ DiskError(r)
         \/ Announce(r) \/ AnnounceNil(r) \/ Record(r) \/ Activity(r) \/ Reply(r)
  PROVE  ChangesSound(r)'
<1>1. op' = op /\ changed' = changed /\ pc[r] # "idle"
  BY DEF GetPerson, DiskError, Announce, AnnounceNil, Record, Activity, Reply
<1>2. CASE GetPerson(r)
  <2>1. op[r].type = "update"
    BY <1>2, Working DEF GetPerson, TypesAt, AInv
  <2>. QED
    BY <1>1, <1>2, <2>1 DEF GetPerson, Goto, ChangesSound, Multistep, AInv, IInv, TypeOK
<1>3. CASE DiskError(r)
  <2>1. pc'[r] = "done" /\ answer'[r] = "error" /\ told' = told
    BY <1>3 DEF DiskError, Answer, AInv, IInv, TypeOK
  <2>2. op[r].type \notin Multistep => changed[r] = {}
    BY <1>3, Working DEF DiskError, TypesAt, Multistep, AInv, ChangesSound
  <2>. QED
    BY <1>1, <2>1, <2>2 DEF ChangesSound
<1>4. CASE Announce(r)
  BY <1>1, <1>4 DEF Announce, Goto, ChangesSound, AInv, FeedSound, IInv, TypeOK
<1>5. CASE AnnounceNil(r)
  BY <1>1, <1>5 DEF AnnounceNil, Answer, ChangesSound, Multistep, AInv, IInv, TypeOK
<1>6. CASE Record(r)
  BY <1>1, <1>6 DEF Record, AfterLostEvent, Goto, ChangesSound, AInv, FeedSound, IInv, TypeOK
<1>7. CASE Activity(r)
  BY <1>1, <1>7 DEF Activity, Goto, ChangesSound, AInv, FeedSound, IInv, TypeOK
<1>8. CASE Reply(r)
  BY <1>1, <1>8 DEF Reply, Answer, ChangesSound, AInv, FeedSound, IInv, TypeOK
<1>. QED
  BY <1>2, <1>3, <1>4, <1>5, <1>6, <1>7, <1>8

\* A request that comes in has changed nothing and told nobody.
LEMMA ReceiveSound ==
  ASSUME AInv, NEW r \in Request, Receive(r)
  PROVE  FeedSound(r)' /\ ChangesSound(r)'
<1>1. PICK o \in Ops : pc' = [pc EXCEPT ![r] = FirstStep(o)]
  BY DEF Receive
<1>2. pc'[r] \in {"begin", "read", "count", "wipe", "find", "load", "announce", "exec"}
  BY <1>1 DEF FirstStep, LoadFirst, LoadSlots, AInv, IInv, TypeOK
<1>3. pc[r] = "idle" /\ UNCHANGED <<audit, told, changed, answer>>
  BY DEF Receive, dbVars
<1>4. changed[r] = {} /\ r \notin audit /\ "activity" \notin told[r] /\ answer[r] = "none"
  BY <1>3 DEF AInv, FeedSound, ChangesSound
<1>. QED
  BY <1>2, <1>3, <1>4 DEF FeedSound, ChangesSound

\* The invariant holds in the beginning, when nobody has asked for anything.
LEMMA AInvInit == Init => AInv
BY InvInit DEF Init, AInv, FeedSound, ChangesSound

\* Every step keeps the invariant.
LEMMA AInvNext == AInv /\ [Next]_vars => AInv'
<1> SUFFICES ASSUME AInv, [Next]_vars PROVE AInv'
  OBVIOUS
<1>1. IInv'
  BY InvNext DEF AInv
<1>2. ASSUME NEW r \in Request, Receive(r) \/ Step(r) \/ DiskError(r)
      PROVE  AInv'
  <2>1. FeedSound(r)' /\ ChangesSound(r)'
    BY <1>2, ReceiveSound, QuietSteps, LoudSteps, LoopChanges, ExecChanges, RangeChanges,
       OtherChanges DEF Step
  <2>2. ASSUME NEW q \in Request \ {r}
        PROVE  FeedSound(q)' /\ ChangesSound(q)'
    BY <1>2, OthersKeepQuiet DEF AInv, FeedSound, ChangesSound
  <2>. QED
    BY <1>1, <2>1, <2>2 DEF AInv
<1>3. CASE Crash
  <2>1. UNCHANGED <<audit, op, changed, told, answer>>
        /\ \A q \in Request :
             \/ pc'[q] = pc[q]
             \/ pc'[q] = "lost" /\ pc[q] \notin {"idle", "done"}
    BY <1>3 DEF Crash, AInv, IInv, TypeOK
  <2>2. ASSUME NEW q \in Request
        PROVE  FeedSound(q)' /\ ChangesSound(q)'
    BY <2>1 DEF AInv, FeedSound, ChangesSound
  <2>. QED
    BY <1>1, <2>2 DEF AInv
<1>4. CASE UNCHANGED vars
  <2>1. UNCHANGED <<audit, op, pc, changed, told, answer>>
    BY <1>4 DEF vars, dbVars, reqVars
  <2>. QED
    BY <1>1, <2>1 DEF AInv, FeedSound, ChangesSound
<1>. QED
  BY <1>2, <1>3, <1>4 DEF Next

\* Before a request is answered, browsers are told of whatever it changed in one
\* statement or one transaction, and one answered with an error changed nothing.
THEOREM ChangesOfOneStatementAreAnnounced == Spec => []AtomicChangesAreAnnounced
<1>1. AInv => AtomicChangesAreAnnounced
  BY DEF AInv, ChangesSound, AtomicChangesAreAnnounced
<1>. QED
  BY <1>1, AInvInit, AInvNext, PTL DEF Spec

\* The activity feed only tells of events in the audit log, and the log only has
\* events of requests that told the browsers first and did not fail.
THEOREM FeedFollows == Spec => []FeedFollowsAudit
<1>1. AInv => FeedFollowsAudit
  BY DEF AInv, FeedSound, FeedFollowsAudit
<1>. QED
  BY <1>1, AInvInit, AInvNext, PTL DEF Spec

-----------------------------------------------------------------------------
(* What the database has committed only takes the steps of Schedule.  An    *)
(* open transaction has written a part of its range, and a copied week       *)
(* carries no absence.                                                       *)

\* The half-days of r's range that its transaction has written.
Written(r) ==
  {op[r].refs[i] : i \in IF pc[r] = "stmt" THEN 1..(cur[r] - 1) ELSE DOMAIN op[r].refs}

\* An open transaction has written a part of its range over what it saved, and
\* all of it when it commits.
TransactionSound ==
  \A r \in Request : InTransaction(r) =>
    /\ planning = With(saved, Written(r), op[r].entry)
    /\ CanWrite(Written(r), op[r].entry)

\* A copied entry is neither empty nor an absence.
CopySound ==
  \A r \in Request : pc[r] \in {"check", "insert"} => src[r] \in Kind \ Unplanned

RInv == IInv /\ TransactionSound /\ CopySound

\* A write over a write, both of the same entry.
LEMMA WriteTwice ==
  ASSUME NEW plan, NEW ks, NEW ls, NEW e
  PROVE  With(With(plan, ks, e), ls, e) = With(plan, ks \cup ls, e)
BY DEF With

\* A write of no half-day.
LEMMA WriteNothing ==
  ASSUME NEW plan \in [Key -> Entry], NEW e
  PROVE  With(plan, {}, e) = plan
BY DEF With

\* Only the request that holds the connection, if any, runs statements.
LEMMA OnlyHolderWrites ==
  ASSUME IInv, NEW r \in Request, NEW q \in Request \ {r}, InTransaction(q),
         Receive(r) \/ Step(r) \/ DiskError(r)
  PROVE  /\ UNCHANGED <<tables, saved, conn>>
         /\ pc'[q] = pc[q] /\ cur'[q] = cur[q] /\ op'[q] = op[q] /\ pc[q] \in {"stmt", "commit"}
<1>1. conn = q /\ ~InTransaction(r) /\ ~Statement(r) /\ pc[q] \in {"stmt", "commit"}
  BY ServerAssumption DEF IInv, TypeOK, Statement, InTransaction
<1>2. CASE Receive(r)
  BY <1>1, <1>2 DEF Receive, dbVars, IInv, TypeOK, InTransaction
<1>3. CASE Step(r)
  <2>1. pc'[q] = pc[q] /\ cur'[q] = cur[q] /\ op'[q] = op[q]
    BY <1>3, StepControl DEF Moves
  <2>2. ~Begin(r) /\ ~RangeStatement(r) /\ ~Commit(r)
    BY <1>1, ServerAssumption DEF Begin, RangeStatement, Commit, InTransaction
  <2>3. Announce(r) \/ AnnounceNil(r) \/ Activity(r) \/ Reply(r)
    BY <1>1, <1>3, <2>2
       DEF Step, Exec, GetPerson, CopyRead, CopyCheck, CopyInsert, AssignCount, AssignFlag,
           AssignFill, ImportWipe, ImportFind, ImportPerson, ImportSlot, Record
  <2>. QED
    BY <1>1, <2>1, <2>3 DEF Announce, AnnounceNil, Activity, Reply, dbVars
<1>4. CASE DiskError(r)
  <2>1. FALSE
    BY <1>1, <1>4 DEF DiskError, InTransaction
  <2>. QED
    BY <2>1
<1>. QED
  BY <1>2, <1>3, <1>4

\* The transaction's own statements extend what it has written.
LEMMA HolderSound ==
  ASSUME RInv, NEW r \in Request, Receive(r) \/ Step(r) \/ DiskError(r), InTransaction(r)'
  PROVE  /\ planning' = With(saved', Written(r)', op'[r].entry)
         /\ CanWrite(Written(r), op[r].entry)'
<1>1. CASE Begin(r)
  <2>1. /\ planning' = planning /\ saved' = planning /\ op' = op /\ people' = people
        /\ cur'[r] = 1 /\ pc'[r] \in {"stmt", "commit"}
        /\ pc'[r] = "commit" => op[r].refs = <<>>
    BY <1>1 DEF Begin, Goto, tables, RInv, IInv, TypeOK
  <2>2. Written(r)' = {}
    BY <2>1 DEF Written
  <2>3. CanWrite({}, op[r].entry)'
    BY DEF CanWrite, PersonsOf
  <2>. QED
    BY <2>1, <2>2, <2>3, WriteNothing DEF RInv, IInv, TypeOK
<1>2. CASE RangeStatement(r)
  <2> DEFINE k == op[r].refs[cur[r]]
  <2>1. pc[r] = "stmt" /\ op' = op /\ saved' = saved /\ InTransaction(r)
    BY <1>2 DEF RangeStatement, InTransaction
  <2>2. op[r].refs \in Seq(Key) /\ cur[r] \in 1..Len(op[r].refs)
    BY <2>1, Working, OperationFields DEF TypesAt, RInv, IInv, HandlersFit, Fits, Bound
  <2>3. CanWrite({k}, op[r].entry) /\ Write({k}, op[r].entry)
        /\ Loop(r, Len(op[r].refs), "commit")
    BY <1>2 DEF RangeStatement, Answer, InTransaction, RInv, IInv, TypeOK
  <2>4. Written(r)' = Written(r) \cup {k}
    <3>1. Written(r) = {op[r].refs[i] : i \in 1..(cur[r] - 1)}
      BY <2>1 DEF Written
    <3>2. Written(r)' = {op[r].refs[i] : i \in 1..cur[r]}
      <4>1. CASE cur[r] < Len(op[r].refs)
        <5>1. pc'[r] = "stmt" /\ cur'[r] = cur[r] + 1
          BY <2>1, <2>3, <4>1 DEF Loop, RInv, IInv, TypeOK
        <5>2. 1..(cur'[r] - 1) = 1..cur[r]
          BY <2>2, <5>1
        <5>. QED
          BY <2>1, <5>1, <5>2 DEF Written
      <4>2. CASE ~(cur[r] < Len(op[r].refs))
        <5>1. pc'[r] = "commit"
          BY <2>3, <4>2 DEF Loop, Goto, RInv, IInv, TypeOK
        <5>2. DOMAIN op[r].refs = 1..cur[r]
          BY <2>2, <4>2
        <5>. QED
          BY <2>1, <5>1, <5>2 DEF Written
      <4>. QED
        BY <4>1, <4>2
    <3>3. 1..cur[r] = 1..(cur[r] - 1) \cup {cur[r]}
      BY <2>2
    <3>. QED
      BY <3>1, <3>2, <3>3
  <2>5. planning = With(saved, Written(r), op[r].entry) /\ CanWrite(Written(r), op[r].entry)
    BY <2>1 DEF RInv, TransactionSound
  <2>6. planning' = With(saved, Written(r) \cup {k}, op[r].entry) /\ people' = people
    BY <2>3, <2>5, WriteTwice DEF Write
  <2>7. CanWrite(Written(r) \cup {k}, op[r].entry)
    BY <2>3, <2>5 DEF CanWrite, PersonsOf
  <2>. QED
    BY <2>1, <2>4, <2>6, <2>7 DEF CanWrite
<1>3. CASE Receive(r)
  BY <1>3, ReceiveControl DEF Receive, dbVars, RInv, IInv, TypeOK, ControlTyped, InTransaction
<1>4. CASE Step(r) /\ ~Begin(r) /\ ~RangeStatement(r)
  <2>1. conn' = r
    BY <1>4, StepControl, MovesKeepsControl DEF RInv, ControlTyped
  <2>2. ~Commit(r)
    BY <2>1, ServerAssumption DEF Commit
  <2>3. conn = r
    BY <1>4, <2>1, <2>2
       DEF Step, Exec, GetPerson, CopyRead, CopyCheck, CopyInsert, AssignCount, AssignFlag,
           AssignFill, ImportWipe, ImportFind, ImportPerson, ImportSlot, Announce,
           AnnounceNil, Record, Activity, Reply, dbVars
  <2>4. pc[r] \in {"stmt", "commit"}
    BY <2>3 DEF RInv, IInv, TypeOK, InTransaction
  <2>. QED
    BY <1>4, <2>2, <2>4
       DEF Step, Exec, GetPerson, CopyRead, CopyCheck, CopyInsert, AssignCount, AssignFlag,
           AssignFill, ImportWipe, ImportFind, ImportPerson, ImportSlot, Announce,
           AnnounceNil, Record, Activity, Reply
<1>5. CASE DiskError(r)
  BY <1>5 DEF DiskError, Answer, InTransaction, RInv, IInv, TypeOK
<1>. QED
  BY <1>1, <1>2, <1>3, <1>4, <1>5

\* What a copy carries, when any handler makes a step.
LEMMA CarriesSound ==
  ASSUME RInv, NEW r \in Request, Receive(r) \/ Step(r) \/ DiskError(r)
  PROVE  CopySound'
<1> SUFFICES ASSUME NEW q \in Request, pc'[q] \in {"check", "insert"}
             PROVE  src'[q] \in Kind \ Unplanned
  BY DEF CopySound
<1>1. CASE CopyRead(r) /\ q = r
  <2> DEFINE e == planning[WorkKey(r, op[r].from)]
  <2>1. op[r].from \in Week /\ pc[r] = "read"
    BY <1>1, Working, OperationFields DEF CopyRead, TypesAt, RInv
  <2>2. e \in Entry
    BY <2>1, WorkKeyIsKey DEF RInv, IInv, TypeOK
  <2>3. src'[r] = e
    BY <1>1 DEF CopyRead, RInv, IInv, TypeOK
  <2>4. CASE Copied(e)
    BY <1>1, <2>2, <2>3, <2>4 DEF Copied, Entry
  <2>5. CASE ~Copied(e)
    <3>1. CopyNext(r)
      BY <1>1, <2>5 DEF CopyRead
    <3>. QED
      BY <1>1, <3>1 DEF CopyNext, Goto, RInv, IInv, TypeOK
  <2>. QED
    BY <2>4, <2>5
<1>2. CASE ~(CopyRead(r) /\ q = r)
  <2>1. src'[q] = src[q]
    BY <1>2 DEF Receive, DiskError, Step, Exec, GetPerson, Begin, RangeStatement, Commit,
           CopyRead, CopyCheck, CopyInsert, AssignCount, AssignFlag, AssignFill, ImportWipe,
           ImportFind, ImportPerson, ImportSlot, Announce, AnnounceNil, Record, Activity,
           Reply, RInv, IInv, TypeOK
  <2>2. pc[q] \in {"check", "insert"}
    <3>1. CASE q # r
      <4>1. pc'[q] = pc[q]
        BY <3>1, StepControl, DiskErrorControl DEF Moves, Receive, RInv, IInv, TypeOK
      <4>. QED
        BY <4>1
    <3>2. CASE q = r /\ Receive(r)
      BY <3>2 DEF Receive, FirstStep, LoadFirst, LoadSlots, RInv, IInv, TypeOK
    <3>3. CASE q = r /\ DiskError(r)
      BY <3>3 DEF DiskError, Answer, RInv, IInv, TypeOK
    <3>4. CASE q = r /\ Step(r)
      <4>1. op[r].type = "copy"
        <5>1. op' = op /\ op[r].type \in TypesAt(pc'[r])
          BY <3>4, StepControl DEF Moves, Fits, RInv
        <5>. QED
          BY <3>4, <5>1 DEF TypesAt
      <4>2. pc[r] # "idle"
        BY <3>4 DEF Step, Exec, GetPerson, Begin, RangeStatement, Commit, CopyRead,
             CopyCheck, CopyInsert, AssignCount, AssignFlag, AssignFill, ImportWipe,
             ImportFind, ImportPerson, ImportSlot, Announce, AnnounceNil, Record, Activity,
             Reply
      <4>3. \/ CopyCheck(r) \/ CopyInsert(r)
            \/ Announce(r) \/ AnnounceNil(r) \/ Record(r) \/ Activity(r) \/ Reply(r)
        BY <1>2, <3>4, <4>1, <4>2, Working
           DEF TypesAt, OneStatement, Step, Exec, GetPerson, Begin, RangeStatement, Commit,
               AssignCount, AssignFlag, AssignFill, ImportWipe, ImportFind, ImportPerson,
               ImportSlot, RInv
      <4>4. CASE CopyCheck(r) \/ CopyInsert(r)
        BY <3>4, <4>4 DEF CopyCheck, CopyInsert
      <4>5. CASE ~(CopyCheck(r) \/ CopyInsert(r))
        BY <3>4, <4>3, <4>5 DEF Announce, AnnounceNil, Record, Activity, Reply, Goto, Answer,
                           AfterLostEvent, RInv, IInv, TypeOK
      <4>. QED
        BY <3>4, <4>4, <4>5
    <3>. QED
      BY <3>1, <3>2, <3>3, <3>4
  <2>. QED
    BY <2>1, <2>2 DEF RInv, CopySound
<1>. QED
  BY <1>1, <1>2

\* No transaction and no copy is under way in the beginning.
LEMMA RInvInit == Init => RInv
BY InvInit, ServerAssumption DEF RInv, TransactionSound, CopySound, Init, InTransaction

\* Every step keeps the strengthened invariant.
LEMMA RInvNext == RInv /\ [Next]_vars => RInv'
<1> SUFFICES ASSUME RInv, [Next]_vars PROVE RInv'
  OBVIOUS
<1>1. IInv'
  BY InvNext DEF RInv
<1>2. ASSUME NEW r \in Request, Receive(r) \/ Step(r) \/ DiskError(r)
      PROVE  TransactionSound' /\ CopySound'
  <2>1. ASSUME NEW q \in Request \ {r}, InTransaction(q)'
        PROVE  /\ planning' = With(saved', Written(q)', op'[q].entry)
               /\ CanWrite(Written(q), op[q].entry)'
    <3>1. pc'[q] = pc[q]
      BY <1>2, StepControl, DiskErrorControl DEF Moves, Receive, RInv, IInv, TypeOK
    <3>2. InTransaction(q)
      BY <2>1, <3>1 DEF InTransaction
    <3>3. /\ UNCHANGED <<tables, saved, conn>>
          /\ pc'[q] = pc[q] /\ cur'[q] = cur[q] /\ op'[q] = op[q]
      BY <1>2, <3>2, OnlyHolderWrites DEF RInv
    <3>. QED
      BY <3>2, <3>3 DEF RInv, TransactionSound, Written, CanWrite, tables
  <2>2. TransactionSound'
    BY <1>2, <2>1, HolderSound DEF TransactionSound
  <2>. QED
    BY <1>2, <2>2, CarriesSound
<1>3. CASE Crash
  <2>1. \A q \in Request : pc'[q] \in {"idle", "done", "lost"}
    BY <1>3 DEF Crash
  <2>. QED
    BY <1>1, <2>1 DEF RInv, TransactionSound, CopySound, InTransaction
<1>4. CASE UNCHANGED vars
  <2>1. UNCHANGED <<people, planning, saved, op, pc, cur, src>>
    BY <1>4 DEF vars, tables, dbVars, reqVars
  <2>. QED
    BY <1>1, <2>1 DEF RInv, TransactionSound, CopySound, InTransaction, Written, CanWrite
<1>. QED
  BY <1>1, <1>2, <1>3, <1>4 DEF Next, RInv

-----------------------------------------------------------------------------
(* The steps of the schedule.                                               *)

\* What Schedule says of half-days is what Server says of them.
LEMMA SameWords ==
  /\ Store!Key = Key
  /\ \A plan, keys, e : Store!With(plan, keys, e) = With(plan, keys, e)
  /\ \A keys : Store!PersonsOf(keys) = PersonsOf(keys)
  /\ \A p : Store!KeysOf(p) = KeysOf(p) /\ Store!DutiesOf(p) = DutiesOf(p)
  /\ \A w : Store!KeysBefore(w) = KeysBefore(w)
BY DEF Key, With, PersonsOf, KeysOf, KeysBefore, DutiesOf, Store!Key, Store!With,
       Store!PersonsOf, Store!KeysOf, Store!KeysBefore, Store!DutiesOf

\* What is committed is what the tables hold, unless a transaction is open.
LEMMA CommittedIs ==
  /\ conn = Nobody => Committed = planning
  /\ conn # Nobody => Committed = saved
  /\ conn' = Nobody => Committed' = planning'
  /\ conn' # Nobody => Committed' = saved'
BY DEF Committed

\* A step of the schedule, or none.
ScheduleStep == [Store!Next]_(Store!schedule)

\* Nothing is committed.
LEMMA Stutter ==
  ASSUME UNCHANGED <<people, rotation, oncall>>, Committed' = Committed
  PROVE  ScheduleStep
BY DEF ScheduleStep, Store!schedule

\* A statement outside transactions that leaves the tables alone.
LEMMA ReadStutters ==
  ASSUME UNCHANGED <<tables, saved, conn>>
  PROVE  ScheduleStep
BY Stutter, CommittedIs DEF tables

\* A statement outside transactions that saves what a user, a file or an
\* assignment asked for.
LEMMA SaveIsSave ==
  ASSUME NEW keys, NEW e, [keys |-> keys, entry |-> e] \in RequestedSaves,
         CanWrite(keys, e), Write(keys, e), conn = Nobody, conn' = Nobody
  PROVE  ScheduleStep
<1>1. Committed = planning /\ Committed' = planning'
  BY CommittedIs
<1>2. Store!Save
  BY <1>1, SameWords DEF Store!Save, CanWrite, Write
<1>. QED
  BY <1>2 DEF ScheduleStep, Store!Next

\* The saves that are asked for: a half-day or a range of a user.
LEMMA UserSaved ==
  ASSUME NEW o \in Ops, o.type \in {"slot", "range"}
  PROVE  [keys |-> {o.refs[i] : i \in DOMAIN o.refs}, entry |-> o.entry] \in RequestedSaves
<1>1. o \in OpsOf({"slot", "range"})
  BY DEF OpsOf
<1>2. [keys |-> {o.refs[i] : i \in DOMAIN o.refs}, entry |-> o.entry] \in UserSaves
  BY <1>1, Zenon DEF UserSaves
<1>. QED
  BY <1>2 DEF RequestedSaves

\* A half-day of a run person's week.
LEMMA AssignmentSaved ==
  ASSUME NEW o \in Ops, o.type = "assign", NEW i \in DOMAIN WorkOrder
  PROVE  [keys |-> {<<o.person, o.week, WorkOrder[i]>>}, entry |-> RunDuty]
           \in RequestedSaves
<1>1. <<o, i>> \in OpsOf({"assign"}) \X DOMAIN WorkOrder
  BY DEF OpsOf
<1>2. PICK d \in OpsOf({"assign"}) \X DOMAIN WorkOrder : d[1] = o /\ d[2] = i
  BY <1>1
<1>3. [keys |-> {<<d[1].person, d[1].week, WorkOrder[d[2]]>>}, entry |-> RunDuty]
        \in AssignmentSaves
  BY Zenon DEF AssignmentSaves
<1>. QED
  BY <1>2, <1>3 DEF RequestedSaves

\* A half-day of a file.
LEMMA FileSaved ==
  ASSUME NEW o \in Ops, o.type = "import", NEW i \in DOMAIN o.refs
  PROVE  [keys |-> {o.refs[i]}, entry |-> o.entry] \in RequestedSaves
<1>1. o \in OpsOf({"import"})
  BY DEF OpsOf
<1>2. [keys |-> {o.refs[i]}, entry |-> o.entry]
        \in {[keys |-> {o.refs[j]}, entry |-> o.entry] : j \in DOMAIN o.refs}
  BY Zenon
<1>3. {[keys |-> {o.refs[j]}, entry |-> o.entry] : j \in DOMAIN o.refs}
        \in {{[keys |-> {p.refs[j]}, entry |-> p.entry] : j \in DOMAIN p.refs} :
               p \in OpsOf({"import"})}
  BY <1>1, Zenon
<1>4. [keys |-> {o.refs[i]}, entry |-> o.entry] \in FileSaves
  BY <1>2, <1>3, Zenon DEF FileSaves
<1>. QED
  BY <1>4 DEF RequestedSaves

\* Duties given and taken.
LEMMA DutyIsDuty ==
  ASSUME RInv, NEW o, o.person \in Person, o.week \in Week, o.on => o.person \in people,
         \/ rotation' = DutyAfter(rotation, o) /\ UNCHANGED oncall
         \/ oncall' = DutyAfter(oncall, o) /\ UNCHANGED rotation,
         UNCHANGED <<people, planning, saved, conn>>
  PROVE  ScheduleStep
<1>1. rotation' \cup oncall' \subseteq (people \X Week)
  BY DEF RInv, IInv, TablesSound, DutyAfter
<1>2. UNCHANGED <<people, Committed>>
  BY CommittedIs
<1>3. Store!Duty
  BY <1>1, <1>2 DEF Store!Duty, DutyAfter
<1>. QED
  BY <1>3 DEF ScheduleStep, Store!Next

\* The emptied database.
LEMMA WipeIsWipe ==
  ASSUME WipeTables, conn = Nobody, conn' = Nobody
  PROVE  ScheduleStep
<1>1. Committed' = [k \in Key |-> NoEntry]
  BY CommittedIs DEF WipeTables, With
<1>2. Store!Wipe
  BY <1>1, SameWords DEF Store!Wipe, WipeTables
<1>. QED
  BY <1>2 DEF ScheduleStep, Store!Next

\* A new person.
LEMMA JoinIsJoin ==
  ASSUME NEW p \in Person, people' = people \cup {p},
         UNCHANGED <<planning, rotation, oncall, saved, conn>>
  PROVE  ScheduleStep
<1>1. UNCHANGED Committed
  BY CommittedIs
<1>2. Store!Join
  BY <1>1 DEF Store!Join
<1>. QED
  BY <1>2 DEF ScheduleStep, Store!Next

\* A person who leaves; nothing is known of one who has left before.
LEMMA LeaveIsLeave ==
  ASSUME RInv, NEW p \in Person, conn = Nobody, conn' = Nobody,
         people' = people \ {p}, planning' = Cascade(p),
         rotation' = rotation \ DutiesOf(p), oncall' = oncall \ DutiesOf(p)
  PROVE  ScheduleStep
<1>1. Committed = planning /\ Committed' = planning'
  BY CommittedIs
<1>2. CASE p \in people
  <2>1. Store!Leave
    BY <1>1, <1>2, SameWords DEF Store!Leave, Cascade
  <2>. QED
    BY <2>1 DEF ScheduleStep, Store!Next
<1>3. CASE p \notin people
  <2>1. planning' = planning
    <3>1. \A k \in Key : k \in KeysOf(p) => planning[k] = NoEntry
      BY <1>3 DEF KeysOf, RInv, IInv, TablesSound, Known
    <3>. QED
      BY <3>1 DEF Cascade, With, RInv, IInv, TypeOK
  <2>2. people' = people /\ rotation' = rotation /\ oncall' = oncall
    BY <1>3 DEF DutiesOf, RInv, IInv, TablesSound
  <2>. QED
    BY <1>1, <2>1, <2>2, Stutter
<1>. QED
  BY <1>2, <1>3

\* The operations that are one statement.
LEMMA ExecRefines ==
  ASSUME RInv, NEW r \in Request, Exec(r)
  PROVE  ScheduleStep
<1> DEFINE o == op[r]
<1>1. pc[r] = "exec" /\ UNCHANGED <<saved, conn>>
  BY DEF Exec, dbVars
<1>2. conn = Nobody
  BY <1>1, FreeConnection DEF Exec, InTransaction, RInv
<1>3. o \in Operation /\ o \in Ops
  BY <1>1, Working DEF RInv
<1>4. CASE ~Succeeds(o)
  BY <1>1, <1>4, ReadStutters DEF Exec
<1>5. CASE Succeeds(o)
  <2>1. Effect(o)
    BY <1>5 DEF Exec
  <2>2. CASE o.type = "slot"
    <3>1. o.refs \in Seq(Key) /\ Len(o.refs) = 1 /\ o.entry \in Entry
      BY <1>3, <2>2, OperationFields
    <3>2. {o.refs[1]} = {o.refs[i] : i \in DOMAIN o.refs}
      BY <3>1
    <3>3. [keys |-> {o.refs[1]}, entry |-> o.entry] \in RequestedSaves
      BY <1>3, <2>2, <3>2, UserSaved
    <3>4. CanWrite({o.refs[1]}, o.entry) /\ Write({o.refs[1]}, o.entry)
      BY <1>5, <2>1, <2>2 DEF Succeeds, Effect
    <3>. QED
      BY <1>1, <1>2, <3>3, <3>4, SaveIsSave
  <2>3. CASE o.type \in {"rotation", "oncall"}
    <3>1. o.person \in Person /\ o.week \in Week /\ (o.on => o.person \in people)
      BY <1>3, <1>5, <2>3, OperationFields DEF Succeeds
    <3>2. /\ UNCHANGED <<people, planning>>
          /\ \/ rotation' = DutyAfter(rotation, o) /\ UNCHANGED oncall
             \/ oncall' = DutyAfter(oncall, o) /\ UNCHANGED rotation
      BY <2>1, <2>3 DEF Effect
    <3>. QED
      BY <1>1, <3>1, <3>2, DutyIsDuty
  <2>4. CASE o.type = "add"
    BY <1>1, <1>3, <2>1, <2>4, JoinIsJoin, OperationFields DEF Effect
  <2>5. CASE o.type \in {"update", "archive"}
    BY <1>1, <2>1, <2>5, ReadStutters DEF Effect
  <2>6. CASE o.type = "delete"
    BY <1>1, <1>2, <1>3, <2>1, <2>6, LeaveIsLeave, OperationFields DEF Effect
  <2>7. CASE o.type = "prune"
    <3>1. o.week \in Week /\ Write(KeysBefore(o.week), NoEntry)
      BY <1>3, <2>1, <2>7, OperationFields DEF Effect
    <3>2. Store!Forget
      BY <1>1, <1>2, <3>1, CommittedIs, SameWords DEF Store!Forget, Write
    <3>. QED
      BY <3>2 DEF ScheduleStep, Store!Next
  <2>8. CASE o.type = "reset"
    BY <1>1, <1>2, <2>1, <2>8, WipeIsWipe DEF Effect
  <2>. QED
    BY <2>1, <2>2, <2>3, <2>4, <2>5, <2>6, <2>7, <2>8 DEF Effect
<1>. QED
  BY <1>4, <1>5

\* A range: its statements commit nothing, its commit is a save.
LEMMA RangeRefines ==
  ASSUME RInv, NEW r \in Request, Begin(r) \/ RangeStatement(r) \/ Commit(r)
  PROVE  ScheduleStep
<1>1. r # Nobody
  BY ServerAssumption
<1>2. CASE Begin(r)
  BY <1>1, <1>2, CommittedIs, Stutter DEF Begin, tables
<1>3. CASE RangeStatement(r)
  <2>1. conn = r /\ saved' = saved
    BY <1>3 DEF RangeStatement, InTransaction, RInv, IInv, TypeOK
  <2>2. CASE Rollback(r)
    BY <1>1, <2>1, <2>2, CommittedIs, Stutter DEF Rollback
  <2>3. CASE UNCHANGED <<people, rotation, oncall, conn>>
    BY <1>1, <2>1, <2>3, CommittedIs, Stutter
  <2>. QED
    BY <1>3, <2>2, <2>3 DEF RangeStatement, Write
<1>4. CASE Commit(r)
  <2> DEFINE keys == {op[r].refs[i] : i \in DOMAIN op[r].refs}
  <2>1. pc[r] = "commit" /\ conn = r /\ conn' = Nobody /\ UNCHANGED tables
    BY <1>4 DEF Commit, InTransaction, RInv, IInv, TypeOK
  <2>2. [keys |-> keys, entry |-> op[r].entry] \in RequestedSaves
    BY <2>1, Working, UserSaved DEF TypesAt, RInv
  <2>3. Written(r) = keys
    BY <2>1 DEF Written
  <2>4. planning = With(saved, keys, op[r].entry) /\ CanWrite(keys, op[r].entry)
    BY <2>1, <2>3 DEF RInv, TransactionSound, InTransaction
  <2>5. Committed = saved /\ Committed' = planning
    BY <1>1, <2>1, CommittedIs DEF tables
  <2>6. Store!Save
    BY <2>1, <2>2, <2>4, <2>5, SameWords DEF Store!Save, CanWrite, tables
  <2>. QED
    BY <2>6 DEF ScheduleStep, Store!Next
<1>. QED
  BY <1>2, <1>3, <1>4

\* A copy only fills what is empty; an assignment and an import save one
\* half-day at a time.
LEMMA LoopRefines ==
  ASSUME RInv, NEW r \in Request,
         \/ CopyRead(r) \/ CopyCheck(r) \/ CopyInsert(r)
         \/ AssignCount(r) \/ AssignFlag(r) \/ AssignFill(r)
         \/ ImportWipe(r) \/ ImportFind(r) \/ ImportPerson(r) \/ ImportSlot(r)
  PROVE  ScheduleStep
<1>1. UNCHANGED <<saved, conn>> /\ Statement(r) /\ ~InTransaction(r) /\ pc[r] # "idle"
  BY DEF CopyRead, CopyCheck, CopyInsert, AssignCount, AssignFlag, AssignFill,
         ImportWipe, ImportFind, ImportPerson, ImportSlot, dbVars, InTransaction
<1>2. conn = Nobody /\ op[r] \in Ops /\ op[r] \in Operation
  BY <1>1, FreeConnection, Working DEF RInv
<1>3. CASE UNCHANGED tables
  BY <1>1, <1>3, ReadStutters
<1>4. CASE CopyInsert(r) /\ ~UNCHANGED tables
  <2> DEFINE k == WorkKey(r, op[r].week)
  <2>1. pc[r] = "insert" /\ MayInsert(k) /\ Write({k}, src[r])
    BY <1>4 DEF CopyInsert
  <2>2. k \in Key
    BY <1>2, <2>1, Working, WorkKeyIsKey, OperationFields DEF TypesAt, RInv
  <2>3. src[r] \in Kind \ Unplanned
    BY <2>1 DEF RInv, CopySound
  <2>4. Committed = planning /\ Committed' = planning'
    BY <1>1, <1>2, CommittedIs
  <2>5. Store!Fill
    BY <2>1, <2>2, <2>3, <2>4, SameWords DEF Store!Fill, MayInsert, Write
  <2>. QED
    BY <2>5 DEF ScheduleStep, Store!Next
<1>5. CASE AssignFlag(r) /\ ~UNCHANGED tables
  <2>1. /\ op[r].person \in people
        /\ rotation' = rotation \cup {<<op[r].person, op[r].week>>}
        /\ UNCHANGED <<people, planning, oncall>>
    BY <1>5 DEF AssignFlag
  <2>2. op[r].person \in Person /\ op[r].week \in Week
    BY <1>2, <1>5, Working, OperationFields DEF AssignFlag, TypesAt, RInv
  <2>3. UNCHANGED Committed
    BY <1>1, <2>1, CommittedIs
  <2>4. rotation' \cup oncall' \subseteq (people \X Week)
    BY <2>1, <2>2 DEF RInv, IInv, TablesSound
  <2>5. Store!Duty
    BY <2>1, <2>2, <2>3, <2>4 DEF Store!Duty
  <2>. QED
    BY <2>5 DEF ScheduleStep, Store!Next
<1>6. CASE AssignFill(r) /\ ~UNCHANGED tables
  <2> DEFINE k == WorkKey(r, op[r].week)
  <2>1. pc[r] = "fill" /\ CanWrite({k}, RunDuty) /\ Write({k}, RunDuty)
    BY <1>6 DEF AssignFill
  <2>2. op[r].type = "assign" /\ cur[r] \in DOMAIN WorkOrder
    BY <2>1, Working, ServerAssumption DEF TypesAt, RInv, IInv, HandlersFit, Fits, Bound
  <2>3. [keys |-> {k}, entry |-> RunDuty] \in RequestedSaves
    BY <1>2, <2>2, AssignmentSaved DEF WorkKey
  <2>. QED
    BY <1>1, <1>2, <2>1, <2>3, SaveIsSave
<1>7. CASE ImportWipe(r)
  BY <1>1, <1>2, <1>7, WipeIsWipe DEF ImportWipe
<1>8. CASE ImportPerson(r) /\ ~UNCHANGED tables
  <2>1. /\ pc[r] = "new" /\ people' = people \cup {op[r].people[cur[r]]}
        /\ UNCHANGED <<planning, rotation, oncall>>
    BY <1>8 DEF ImportPerson
  <2>2. op[r].people \in Seq(Person)
    BY <1>2, <2>1, Working, OperationFields DEF TypesAt, RInv
  <2>3. op[r].people[cur[r]] \in Person
    BY <2>1, <2>2 DEF RInv, IInv, HandlersFit, Fits, Bound
  <2>. QED
    BY <1>1, <2>1, <2>3, JoinIsJoin
<1>9. CASE ImportSlot(r) /\ ~UNCHANGED tables
  <2> DEFINE k == op[r].refs[cur[r]]
  <2>1. pc[r] = "load" /\ CanWrite({k}, op[r].entry) /\ Write({k}, op[r].entry)
    BY <1>9 DEF ImportSlot
  <2>2. op[r].type = "import" /\ op[r].refs \in Seq(Key)
    BY <1>2, <2>1, Working, OperationFields DEF TypesAt, RInv
  <2>3. cur[r] \in DOMAIN op[r].refs
    BY <2>1, <2>2 DEF RInv, IInv, HandlersFit, Fits, Bound
  <2>. QED
    BY <1>1, <1>2, <2>1, <2>2, <2>3, FileSaved, SaveIsSave
<1>. QED
  BY <1>3, <1>4, <1>5, <1>6, <1>7, <1>8, <1>9
     DEF CopyRead, CopyCheck, AssignCount, ImportFind

\* Every step of the server is a step of the schedule or commits nothing.
LEMMA NextRefines == RInv /\ [Next]_vars => ScheduleStep
<1> SUFFICES ASSUME RInv, [Next]_vars PROVE ScheduleStep
  OBVIOUS
<1>1. CASE Crash
  BY <1>1, Stutter DEF Crash, Committed
<1>2. ASSUME NEW r \in Request, Receive(r)
      PROVE  ScheduleStep
  BY <1>2, ReadStutters DEF Receive, dbVars
<1>3. ASSUME NEW r \in Request, Step(r)
      PROVE  ScheduleStep
  <2>1. CASE GetPerson(r) \/ Announce(r) \/ AnnounceNil(r) \/ Record(r) \/ Activity(r)
             \/ Reply(r)
    BY <2>1, ReadStutters
       DEF GetPerson, Announce, AnnounceNil, Record, Activity, Reply, dbVars
  <2>. QED
    BY <1>3, <2>1, ExecRefines, RangeRefines, LoopRefines DEF Step
<1>4. ASSUME NEW r \in Request, DiskError(r)
      PROVE  ScheduleStep
  <2>1. CASE UNCHANGED <<tables, conn>>
    BY <1>4, <2>1, ReadStutters DEF DiskError
  <2>2. CASE pc[r] \in {"stmt", "commit"} /\ Rollback(r)
    <3>1. conn # Nobody
      BY <2>2, ServerAssumption DEF InTransaction, RInv, IInv, TypeOK
    <3>. QED
      BY <2>2, <3>1, CommittedIs, Stutter DEF Rollback
  <2>. QED
    BY <1>4, <2>1, <2>2 DEF DiskError
<1>5. CASE UNCHANGED vars
  BY <1>5, ReadStutters DEF vars, dbVars
<1>. QED
  BY <1>1, <1>2, <1>3, <1>4, <1>5 DEF Next

\* The committed tables start as a schedule may.
LEMMA InitRefines == Init => Store!Init
<1>1. IInv /\ conn = Nobody => Store!Init
  BY SameWords, CommittedIs
     DEF Store!Init, Store!TypeOK, Store!NoStrangers, Store!Entry, Entry, IInv, TypeOK,
         TablesSound, Known
<1>. QED
  BY <1>1, InvInit DEF Init

\* Whatever handlers interleave and wherever the process dies, the committed
\* tables only take steps that the schedule allows: a range is saved whole or
\* not at all, and a copied week neither replaces an entry nor carries an absence.
THEOREM Refinement == Spec => ImplementsSchedule
<1>1. Spec => []RInv
  BY RInvInit, RInvNext, PTL DEF Spec
<1>. QED
  BY <1>1, InitRefines, NextRefines, PTL
     DEF Spec, ImplementsSchedule, Store!Spec, ScheduleStep
=============================================================================
