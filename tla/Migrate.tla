------------------------------ MODULE Migrate ------------------------------
(***************************************************************************)
(* The start of the server on a database of any age (New, migrate and      *)
(* backfillAuditMeta in internal/store/store.go, internal/store/migrations).*)
(* Every start runs every statement of every migration, each committed by  *)
(* itself, and takes "already exists" for success; then it reads a meta    *)
(* out of the texts of the audit rows that have none.  The process may die *)
(* between any two statements and is started again.                        *)
(*                                                                         *)
(* While it runs, half-days, settings and events are written.              *)
(***************************************************************************)
EXTENDS AuditText, FiniteSets

CONSTANTS
  Slot,          \* half-days
  LegacyEvent,   \* what the audit rows of older releases are about
  NewEvent,      \* what this release records
  MaxStops, MaxWrites, MaxEvents   \* bounds

ASSUME MigrateAssumption ==
  /\ {MaxStops, MaxWrites, MaxEvents} \subseteq Nat
  /\ LegacyEvent \cup NewEvent \subseteq Event

-----------------------------------------------------------------------------
(* The migrations.                                                          *)

Create(table)      == [do |-> "create", table |-> table, column |-> ""]
Add(table, column) == [do |-> "add", table |-> table, column |-> column]
Default(key)       == [do |-> "default", table |-> "settings", column |-> key]
\* 008: rows with an incident text are incidents.
MarkIncidents      == [do |-> "mark", table |-> "planning", column |-> "is_incident"]

M001_init == <<
  Create("users"), Create("settings"), Create("people"), Create("planning"),
  Create("rotation"), Create("oncall"),
  Default("window_weeks"), Default("prune_weeks"), Default("week_starts"),
  Default("run_mode"), Default("run_target_persons"), Default("theme"),
  Default("export_counter") >>
M002_projects == << Create("projects"), Create("holidays") >>
M003_features ==
  << Add("users", "selected_person_id"), Add("people", "ics_token"), Create("audit_log") >>
M004_remote           == << Add("planning", "remote") >>
M005_team_lead        == << Add("projects", "team_lead") >>
M006_offsite_incident == << Add("planning", "offsite"), Add("planning", "incident_text") >>
M007_audit_meta       == << Add("audit_log", "meta") >>
M008_is_incident      == << Add("planning", "is_incident"), MarkIncidents >>
M009_run_note         == << Add("planning", "run_note") >>
M010_oncall_comment   == << Add("oncall", "comment") >>
M011_tentative_away   == << Add("planning", "tentative") >>

Statements ==
  M001_init \o M002_projects \o M003_features \o M004_remote \o M005_team_lead
    \o M006_offsite_incident \o M007_audit_meta \o M008_is_incident
    \o M009_run_note \o M010_oncall_comment \o M011_tentative_away

\* The tables and columns a statement speaks of, other than those it adds.
Needs(s) ==
  CASE s.do = "create" -> {}
    [] s.do = "mark"   -> {<<s.table, c>> : c \in {"", "incident_text", s.column}}
    [] OTHER           -> {<<s.table, "">>}

\* What a statement adds to the schema, and the keys it gives a value.
Objects(stmts) == {<<s.table, s.column>> : s \in {s \in stmts : s.do \in {"create", "add"}}}
Keys(stmts)    == {s.column : s \in {s \in stmts : s.do = "default"}}
AllOf(n)       == {Statements[i] : i \in 1..n}
Whole          == AllOf(Len(Statements))

-----------------------------------------------------------------------------
VARIABLES
  schema,    \* tables <<t, "">> and added columns <<t, c>>
  settings,  \* the keys that have a value: "default" or "chosen"
  planning,  \* the rows: whether there is an incident text, and the flag
  audit,     \* the rows of audit_log, by id
  pc,        \* what the process is doing, or "down"
  at,        \* the number of the statement it runs next
  pending,   \* backfillAuditMeta's updates: metas for rows not yet updated, by id
  stored,    \* history: what this release was asked to store in each half-day
  count      \* how often the bounded things happened

vars == <<schema, settings, planning, audit, pc, at, pending, stored, count>>

Blank    == {<<"blank", TRUE>>}  \* the meta column's default, ''
NoRow    == [absent |-> TRUE]
Row      == [text : BOOLEAN, flag : BOOLEAN]
Readable(e) == Parses(e.action, Target(e))
MetaOf(e)   == Parsed(e.action, Target(e), Detail(e))
Stored   == {"old", "nothing", "plain", "incident", "textless"}
ParsedMeta == {MetaOf(e) : e \in {e \in LegacyEvent : Readable(e)}}
AuditRow   == [event : LegacyEvent \cup NewEvent,
               meta : {Blank} \cup {Rich(e) : e \in NewEvent} \cup ParsedMeta]

TypeOK ==
  /\ schema \subseteq Objects(Whole)
  /\ DOMAIN settings \subseteq Keys(Whole) /\ Range(settings) \subseteq {"default", "chosen"}
  /\ planning \in [Slot -> Row \cup {NoRow}]
  /\ audit \in Seq(AuditRow)
  /\ pc \in {"down", "migrating", "read", "update", "running"} /\ at \in 1..Len(Statements)
  /\ DOMAIN pending \subseteq DOMAIN audit /\ Range(pending) \subseteq ParsedMeta
  /\ stored \in [Slot -> Stored]
  /\ count \in [stops : 0..MaxStops, writes : 0..MaxWrites, events : 0..MaxEvents]

\* What a release that ran the first n statements left behind.
OldRows(n) ==
  LET done(s) == s \in AllOf(n) IN
  {NoRow} \cup
  {r \in Row :
     /\ done(Create("planning"))
     /\ r.text => done(Add("planning", "incident_text"))
     /\ r.flag => done(Add("planning", "is_incident"))
     /\ r.text /\ done(MarkIncidents) => r.flag}

\* A new file, or one that an older release left: complete or stopped midway.
Init == \E n \in 0..Len(Statements) :
  /\ schema = Objects(AllOf(n))
  /\ settings \in [Keys(AllOf(n)) -> {"default"}]
  /\ planning \in [Slot -> OldRows(n)]
  /\ \E old \in {<<>>} \cup {<<e>> : e \in LegacyEvent} :
       /\ <<"audit_log", "">> \notin schema => old = <<>>
       /\ audit = [i \in DOMAIN old |-> [event |-> old[i], meta |-> Blank]]
  /\ pc = "down" /\ at = 1 /\ pending = << >>
  /\ stored = [k \in Slot |-> "old"]
  /\ count = [stops |-> 0, writes |-> 0, events |-> 0]

-----------------------------------------------------------------------------
(* Starting.                                                                *)

Start ==
  /\ pc = "down"
  /\ pc' = "migrating" /\ at' = 1
  /\ UNCHANGED <<schema, settings, planning, audit, pending, stored, count>>

\* A mutant of Tolerated: a column that is there already is an error.
NothingTolerated(s) == FALSE

\* ALTER TABLE has no IF NOT EXISTS: the error is looked at.
Tolerated(s) == <<s.table, s.column>> \in schema
Duplicate(s) == s.do = "add" /\ <<s.table, s.column>> \in schema
Fails(s)     == ~(Needs(s) \subseteq schema) \/ (Duplicate(s) /\ ~Tolerated(s))

\* A mutant of Defaulted: INSERT OR REPLACE.
DefaultedAgain(key) ==
  [k \in DOMAIN settings \cup {key} |-> IF k = key THEN "default" ELSE settings[k]]
\* Another: a key that nothing reads.
DefaultedMistyped(key) ==
  LET name == IF key = "theme" THEN "themes" ELSE key IN
  [k \in DOMAIN settings \cup {name} |-> IF k \in DOMAIN settings THEN settings[k] ELSE "default"]
\* INSERT OR IGNORE.
Defaulted(key) ==
  [k \in DOMAIN settings \cup {key} |-> IF k \in DOMAIN settings THEN settings[k] ELSE "default"]

Marked(row) == IF row # NoRow /\ row.text THEN [row EXCEPT !.flag = TRUE] ELSE row

Migrate == LET s == Statements[at] IN
  /\ pc = "migrating"
  /\ ~Fails(s)
  /\ schema' = schema \cup Objects({s})
  /\ settings' = IF s.do = "default" THEN Defaulted(s.column) ELSE settings
  /\ planning' = IF s.do = "mark" THEN [k \in Slot |-> Marked(planning[k])] ELSE planning
  /\ IF at = Len(Statements) THEN pc' = "read" /\ at' = 1 ELSE pc' = pc /\ at' = at + 1
  /\ UNCHANGED <<audit, pending, stored, count>>

\* A mutant of Lacking: every row is parsed anew.
LackingAny(row) == TRUE
Lacking(row) == row.meta = Blank

BackfillRead ==
  /\ pc = "read"
  /\ LET rows == {id \in DOMAIN audit : Lacking(audit[id]) /\ Readable(audit[id].event)} IN
     pending' = [id \in rows |-> MetaOf(audit[id].event)]
  /\ pc' = "update"
  /\ UNCHANGED <<schema, settings, planning, audit, at, stored, count>>

BackfillUpdate(id) ==
  /\ pc = "update"
  /\ audit' = [audit EXCEPT ![id].meta = pending[id]]
  /\ pending' = Restrict(pending, DOMAIN pending \ {id})
  /\ UNCHANGED <<schema, settings, planning, pc, at, stored, count>>

Ready ==
  /\ pc = "update" /\ pending = << >>
  /\ pc' = "running"
  /\ UNCHANGED <<schema, settings, planning, audit, at, pending, stored, count>>

\* The process dies, or a statement fails: New returns an error, and it exits.
Stop ==
  LET failing == pc = "migrating" /\ Fails(Statements[at]) IN
  /\ pc # "down" /\ (failing \/ count.stops < MaxStops)
  /\ count' = IF failing THEN count ELSE [count EXCEPT !.stops = @ + 1]
  /\ pc' = "down" /\ at' = 1 /\ pending' = << >>
  /\ UNCHANGED <<schema, settings, planning, audit, stored>>

-----------------------------------------------------------------------------
(* Running.                                                                 *)

Write ==
  /\ pc = "running" /\ count.writes < MaxWrites
  /\ count' = [count EXCEPT !.writes = @ + 1]

\* A mutant of RowFor: the text of an incident outlives it.
RowForKept(k, what) ==
  [text |-> what = "incident" \/ (planning[k] # NoRow /\ planning[k].text),
   flag |-> what \in {"incident", "textless"}]

\* SetSlot replaces the row.
RowFor(k, what) ==
  [text |-> what = "incident", flag |-> what \in {"incident", "textless"}]

SetSlot(k) == \E what \in {"plain", "incident", "textless"} :
  /\ Write
  /\ planning' = [planning EXCEPT ![k] = RowFor(k, what)]
  /\ stored' = [stored EXCEPT ![k] = what]
  /\ UNCHANGED <<schema, settings, audit, pc, at, pending>>

ClearSlot(k) ==
  /\ Write
  /\ planning' = [planning EXCEPT ![k] = NoRow]
  /\ stored' = [stored EXCEPT ![k] = "nothing"]
  /\ UNCHANGED <<schema, settings, audit, pc, at, pending>>

SetSetting == \E key \in Keys(Whole) :
  /\ Write
  /\ settings' = [settings EXCEPT ![key] = "chosen"]
  /\ UNCHANGED <<schema, planning, audit, pc, at, pending, stored>>

\* A mutant of Recorded: the meta is left at its default.
RecordedBlank(e) == Blank
Recorded(e) == Rich(e)

RecordEvent == \E e \in NewEvent :
  /\ pc = "running" /\ count.events < MaxEvents
  /\ count' = [count EXCEPT !.events = @ + 1]
  /\ audit' = Append(audit, [event |-> e, meta |-> Recorded(e)])
  /\ UNCHANGED <<schema, settings, planning, pc, at, pending, stored>>

Startup == Start \/ Migrate \/ BackfillRead \/ Ready
             \/ \E id \in DOMAIN pending : BackfillUpdate(id)

Next == Startup \/ Stop \/ RecordEvent \/ SetSetting
          \/ \E k \in Slot : SetSlot(k) \/ ClearSlot(k)

Spec == Init /\ [][Next]_vars

\* The process goes on, and whoever runs it starts it again.
FairSpec == Spec /\ WF_vars(Startup)

-----------------------------------------------------------------------------
(* What a start promises.                                                   *)

\* Requests are served on the whole schema only: every column and default is
\* there, every row with an incident text is an incident, and no event that can
\* be read is left without a meta, wherever earlier starts were stopped.
ServesMigratedData ==
  pc = "running" =>
    /\ schema = Objects(Whole) /\ DOMAIN settings = Keys(Whole)
    /\ \A k \in Slot : planning[k] # NoRow /\ planning[k].text => planning[k].flag
    /\ \A id \in DOMAIN audit :
         audit[id].meta = Blank => ~Readable(audit[id].event)

\* Migration 008 marks incidents at every start, not once: what this release
\* stored in a half-day must still read the same after any number of starts.
Reads(row) ==
  IF row = NoRow THEN "nothing"
  ELSE IF row.flag THEN (IF row.text THEN "incident" ELSE "textless") ELSE "plain"
RestartKeepsPlanning ==
  \A k \in Slot : stored[k] # "old" => Reads(planning[k]) = stored[k]

\* A start never changes a setting that has a value, nor a meta that an event has.
RestartKeepsChoices ==
  [][Startup =>
       /\ \A key \in DOMAIN settings : settings'[key] = settings[key]
       /\ \A id \in DOMAIN audit :
            audit[id].meta # Blank => audit'[id].meta = audit[id].meta]_vars

\* However often it is stopped, the server ends up running.
StartSucceeds == []<>(pc = "running")

\* What is between the fields of an event in its texts is not in the fields, and the
\* names of projects do not look like another kind of half-day.
Separable(e) ==
  /\ e.action \in SlotActions \cup DutyActions \cup {"planning_copy"} => " " \notin Range(e.person)
  /\ e.action \in SlotActions => " " \notin Range(e.date)
  /\ e.action = "planning_copy" => " -> " \notin Range(e.from)
  /\ e.action = "planning_set" /\ e.data.kind = "project" =>
       /\ \A i \in DOMAIN e.data.names : {",", "+run"} \cap Range(e.data.names[i]) = {}
       /\ \A word \in {"away:", "incident:"} : ~IsPrefix(<<word>>, e.data.names[1])
       /\ e.data.names # << <<"run">> >>

\* The meta read out of the texts says what the handler would have recorded,
\* except for ranges and for a half-day that holds a bare state.
Bare(e) == e.action = "planning_set" /\ e.data.kind = "bare"
BackfillAgrees ==
  \A id \in DOMAIN audit :
    LET e == audit[id].event IN
    audit[id].meta # Blank /\ Separable(e) /\ e.action \notin RangeActions /\ ~Bare(e)
      => Agree(audit[id].meta, Rich(e))

-----------------------------------------------------------------------------
(* What a comment says and the code does not do.                            *)

\* store.go, "target = STARTDATE-STARTSLOT ENDDATE-ENDSLOT": a backfilled range
\* starts and ends on its dates.
BackfilledRangesKeepTheirDates ==
  \A id \in DOMAIN audit :
    audit[id].meta # Blank /\ audit[id].event.action \in RangeActions
      => Agree(audit[id].meta, Rich(audit[id].event))
=============================================================================
