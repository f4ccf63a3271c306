----------------------------- MODULE AuditText -----------------------------
(***************************************************************************)
(* What an audit event says, three times over: the target and detail texts *)
(* the handlers write (internal/api/writes.go), the structured meta they   *)
(* write beside them, and the meta that parseLegacyAuditMeta               *)
(* (internal/store/store.go) reads out of the texts of older rows.         *)
(*                                                                         *)
(* A text is a sequence of tokens; a separator is a token.  A meta is a    *)
(* set of fields, pairs of a name and a value.                             *)
(***************************************************************************)
EXTENDS Naturals, Sequences, SequencesExt

CONSTANTS
  Token,      \* what texts are made of
  Number      \* the tokens that are decimal digits

\* The separators and the words that the texts are written with.
Words == {" ", "-", " -> ", ",", "away:", "incident:", "run", "+run", "person", " people",
          "weeks_old ", "deleted ", "created ", " updated "}
ASSUME TokenAssumption == Words \cup Number \subseteq Token /\ Words \cap Number = {}

Text == Seq(Token)

\* strings.SplitN, token by token: the last of the parts so far gets longer, or a new one
\* begins; strings.Split is the one without a limit.
SplitN(text, sep, n) ==
  LET last(i) == Min({n, Cardinality({j \in 1..(i - 1) : text[j] = sep}) + 1})
      upto[i \in 0..Len(text)] ==
        IF i = 0 THEN << <<>> >>
        ELSE IF text[i] = sep /\ last(i) < n THEN Append(upto[i - 1], <<>>)
        ELSE [upto[i - 1] EXCEPT ![last(i)] = Append(@, text[i])]
  IN upto[Len(text)]
Split(text, sep) == SplitN(text, sep, Len(text) + 1)

\* strings.Join.
Joined(texts, sep) ==
  LET upto[k \in 0..Len(texts)] ==
        IF k = 0 THEN <<>>
        ELSE IF k = 1 THEN texts[1]
        ELSE upto[k - 1] \o <<sep>> \o texts[k]
  IN upto[Len(texts)]

\* strings.TrimPrefix of the token, strings.TrimSuffix of "+run".
Without(text, word) == IF text # <<>> /\ Head(text) = word THEN Tail(text) ELSE text
WithoutRun(text)    == IF Last(text) = "+run" THEN Front(text) ELSE text

\* strings.TrimSpace.
Trimmed(text) ==
  LET solid == {i \in 1..Len(text) : text[i] # " "} IN
  IF solid = {} THEN <<>> ELSE SubSeq(text, Min(solid), Max(solid))

\* A field of a meta that may be missing.
Opt(present, name, value) == IF present THEN {<<name, value>>} ELSE {}

-----------------------------------------------------------------------------
(* Events.  The data of a half-day is an absence, an incident, projects,    *)
(* run duty alone, or a bare state ("filled" when only remote is set).      *)

SlotActions  == {"planning_set", "planning_clear"}
RangeActions == {"planning_range", "planning_range_clear"}
DutyActions  == {"oncall_set", "oncall_remove"}
IdActions    == {"person_delete", "person_archive", "person_unarchive"}
NameField    == [person_add |-> "person_name", person_update |-> "person_name",
                 project_add |-> "project_name", project_update |-> "project_name",
                 project_delete |-> "project_id"]

Data ==
  [kind : {"away"}, type : Text] \cup [kind : {"incident"}, text : Text]
    \cup [kind : {"project"}, names : Seq(Text) \ {<<>>}, run : BOOLEAN]
    \cup [kind : {"run"}] \cup [kind : {"bare"}, state : Token]
Event ==
  [action : {"planning_set"}, person : Text, date : Text, slot : Text, data : Data]
    \cup [action : {"planning_clear"}, person : Text, date : Text, slot : Text]
    \cup [action : RangeActions, start : Text, startSlot : Text, end : Text, endSlot : Text,
          count : Number]
    \cup [action : {"planning_copy"}, person : Text, from : Text, to : Text]
    \cup [action : DutyActions, person : Text, week : Text]
    \cup [action : IdActions, person : Text]
    \cup [action : DOMAIN NameField, name : Text]
    \cup [action : {"prune"}, weeks : Number, deleted : Number]
    \cup [action : {"project_import_csv"}, created : Number, updated : Number]
    \cup [action : {"settings_update", "reset"}]

Target(e) ==
  CASE e.action \in SlotActions    -> Joined(<<e.person, e.date, e.slot>>, " ")
    [] e.action \in RangeActions   -> e.start \o <<"-">> \o e.startSlot \o <<" ">>
                                        \o e.end \o <<"-">> \o e.endSlot
    [] e.action = "planning_copy"  -> Joined(<<e.from, e.to>>, " -> ")
    [] e.action \in DutyActions    -> Joined(<<e.person, e.week>>, " ")
    [] e.action \in IdActions      -> e.person
    [] e.action \in DOMAIN NameField -> e.name
    [] e.action = "prune"          -> <<"weeks_old ", e.weeks>>
    [] OTHER                       -> <<>>

\* Router.setSlot.
SlotDetail(d) ==
  CASE d.kind = "away"     -> <<"away:">> \o d.type
    [] d.kind = "incident" -> <<"incident:">> \o d.text
    [] d.kind = "project"  -> Joined(d.names, ",") \o (IF d.run THEN <<"+run">> ELSE <<>>)
    [] d.kind = "run"      -> <<"run">>
    [] d.kind = "bare"     -> <<d.state>>

Detail(e) ==
  CASE e.action = "planning_set"       -> SlotDetail(e.data)
    [] e.action \in RangeActions       -> <<e.count, " people">>
    [] e.action = "planning_copy"      -> <<"person">> \o e.person
    [] e.action = "prune"              -> <<"deleted ", e.deleted>>
    [] e.action = "project_import_csv" -> <<"created ", e.created, " updated ", e.updated>>
    [] OTHER                           -> <<>>

\* applySlotDataMeta.
DataMeta(d) ==
  CASE d.kind = "away"     -> {<<"state", "away">>, <<"away_type", d.type>>}
    [] d.kind = "incident" ->
         {<<"state", "incident">>} \cup Opt(d.text # <<>>, "incident_text", d.text)
    [] d.kind = "project"  ->
         {<<"state", "project">>, <<"projects", d.names>>} \cup Opt(d.run, "run", TRUE)
    [] d.kind = "run"      -> {<<"state", "run">>}
    [] d.kind = "bare"     -> {<<"state", d.state>>}

\* The meta the handlers record.
Rich(e) ==
  CASE e.action = "planning_set" ->
         {<<"person_ids", <<e.person>> >>, <<"date", e.date>>, <<"slot", e.slot>>}
           \cup DataMeta(e.data)
    [] e.action = "planning_clear" ->
         {<<"person_ids", <<e.person>> >>, <<"date", e.date>>, <<"slot", e.slot>>,
          <<"state", "cleared">>}
    [] e.action \in RangeActions ->
         {<<"people_count", e.count>>, <<"start_date", e.start>>, <<"start_slot", e.startSlot>>,
          <<"end_date", e.end>>, <<"end_slot", e.endSlot>>}
    [] e.action = "planning_copy" ->
         {<<"person_ids", <<e.person>> >>, <<"from_week", e.from>>, <<"to_week", e.to>>}
    [] e.action \in DutyActions -> {<<"person_ids", <<e.person>> >>, <<"week_start", e.week>>}
    [] e.action \in IdActions   -> {<<"person_ids", <<e.person>> >>}
    [] e.action \in DOMAIN NameField -> {<<NameField[e.action], e.name>>}
    [] e.action = "prune" -> {<<"weeks_old", e.weeks>>, <<"deleted", e.deleted>>}
    [] e.action = "project_import_csv" -> {<<"created", e.created>>, <<"updated", e.updated>>}
    [] OTHER -> {}

-----------------------------------------------------------------------------
(* Reading the texts.                                                       *)

\* applyDetailMeta: the first that applies.
DetailMeta(detail) ==
  IF detail = <<>> THEN {}
  ELSE IF Head(detail) = "away:"
       THEN {<<"state", "away">>, <<"away_type", Tail(detail)>>}
  ELSE IF Head(detail) = "incident:"
       THEN {<<"state", "incident">>, <<"incident_text", Tail(detail)>>}
  ELSE IF detail = <<"run">> THEN {<<"state", "run">>}
  ELSE IF "+run" \in Range(detail)
       THEN {<<"state", "project">>, <<"run", TRUE>>,
             <<"projects", Split(WithoutRun(detail), ",")>>}
  ELSE {<<"state", "project">>, <<"projects", Split(detail, ",")>>}

\* extractFirstInt of the text, or of its part from the first such word on.
Count(field, text) ==
  LET i == SelectInSeq(text, LAMBDA token : token \in Number) IN Opt(i # 0, field, text[i])
From(text, word) ==
  LET i == SelectInSeq(text, LAMBDA token : token = word) IN
  IF i = 0 THEN <<>> ELSE SubSeq(text, i, Len(text))

\* A mutant of SlotParts: the date swallows the slot.
SlotPartsTwo(target) == SplitN(target, " ", 2)

SlotParts(target) == SplitN(target, " ", 3)

\* One end of a range, split at its first dash.
EndMeta(date, slot, text) ==
  LET parts == SplitN(text, "-", 2) IN
  {<<date, parts[1]>>} \cup Opt(Len(parts) = 2, slot, parts[2])

\* parseLegacyAuditMeta; Parses is whether it returns anything.
Parses(action, target) ==
  \/ action \in SlotActions \cup RangeActions \cup DutyActions
                \cup {"planning_copy", "prune", "project_import_csv"}
  \/ action \in IdActions \cup DOMAIN NameField /\ target # <<>>

Parsed(action, target, detail) ==
  CASE action \in SlotActions ->
         LET parts == SlotParts(target) IN
         {<<"person_ids", <<parts[1]>> >>} \cup Opt(Len(parts) >= 2, "date", parts[2])
           \cup Opt(Len(parts) = 3, "slot", parts[3]) \cup DetailMeta(detail)
    [] action \in RangeActions ->
         LET ends == SplitN(target, " ", 2) IN
         (IF Len(ends) = 2 THEN EndMeta("start_date", "start_slot", ends[1])
                                  \cup EndMeta("end_date", "end_slot", ends[2])
                           ELSE {})
           \cup Count("people_count", detail)
    [] action = "planning_copy" ->
         LET weeks == SplitN(target, " -> ", 2)
             pid   == Trimmed(Without(detail, "person")) IN
         Opt(pid # <<>>, "person_ids", <<pid>>)
           \cup Opt(Len(weeks) = 2, "from_week", weeks[1])
           \cup Opt(Len(weeks) = 2, "to_week", weeks[2])
    [] action \in DutyActions ->
         LET parts == SplitN(target, " ", 2) IN
         {<<"person_ids", <<parts[1]>> >>} \cup Opt(Len(parts) = 2, "week_start", parts[2])
    [] action \in IdActions -> {<<"person_ids", <<target>> >>}
    [] action \in DOMAIN NameField -> {<<NameField[action], target>>}
    [] action = "prune" -> Count("weeks_old", target) \cup Count("deleted", detail)
    [] action = "project_import_csv" ->
         Count("created", From(detail, "created ")) \cup Count("updated", From(detail, " updated "))

\* Two metas say the same in the fields that both have.
Agree(m, n) == \A f \in m, g \in n : f[1] = g[1] => f[2] = g[2]
=============================================================================
