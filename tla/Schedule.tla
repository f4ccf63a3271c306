------------------------------ MODULE Schedule ------------------------------
(***************************************************************************)
(* What the store promises about the team's schedule, with every operation *)
(* a single step: a save or a clear of a range happens as a whole or not   *)
(* at all, a copied week only fills empty half-days and never with an      *)
(* absence or an incident, and nothing is ever scheduled for somebody who  *)
(* is not in the team.                                                     *)
(***************************************************************************)
EXTENDS ScheduleData

\* The saves users ask for: records of a set of half-days and an entry.
CONSTANT Saves

VARIABLES
  people,     \* who is in the team
  planning,   \* what each half-day holds
  rotation,   \* who is run person in which week
  oncall      \* who is on call in which week

schedule == <<people, planning, rotation, oncall>>

TypeOK ==
  /\ people \subseteq Person
  /\ planning \in [Key -> Entry]
  /\ rotation \subseteq Person \X Week
  /\ oncall \subseteq Person \X Week

Save == \E s \in Saves :
  /\ s.entry # NoEntry => PersonsOf(s.keys) \subseteq people
  /\ planning' = With(planning, s.keys, s.entry)
  /\ UNCHANGED <<people, rotation, oncall>>

Fill == \E k \in Key, e \in Kind \ Unplanned :
  /\ planning[k] = NoEntry
  /\ k[1] \in people
  /\ planning' = With(planning, {k}, e)
  /\ UNCHANGED <<people, rotation, oncall>>

Join == \E p \in Person :
  /\ people' = people \cup {p}
  /\ UNCHANGED <<planning, rotation, oncall>>

\* Whoever leaves takes every entry about them along.
Leave == \E p \in people :
  /\ people' = people \ {p}
  /\ planning' = With(planning, KeysOf(p), NoEntry)
  /\ rotation' = rotation \ DutiesOf(p)
  /\ oncall' = oncall \ DutiesOf(p)

Forget == \E w \in Week :
  /\ planning' = With(planning, KeysBefore(w), NoEntry)
  /\ UNCHANGED <<people, rotation, oncall>>

Wipe ==
  /\ people' = {} /\ planning' = [k \in Key |-> NoEntry]
  /\ rotation' = {} /\ oncall' = {}

\* One duty is given to or taken from one person.
Duty == \E p \in Person, w \in Week :
  /\ \/ rotation' \in {rotation \cup {<<p, w>>}, rotation \ {<<p, w>>}} /\ UNCHANGED oncall
     \/ oncall' \in {oncall \cup {<<p, w>>}, oncall \ {<<p, w>>}} /\ UNCHANGED rotation
  /\ rotation' \cup oncall' \subseteq (people \X Week)
  /\ UNCHANGED <<people, planning>>

Next == Save \/ Fill \/ Join \/ Leave \/ Forget \/ Wipe \/ Duty

\* Nothing is scheduled for somebody who is not in the team.
NoStrangers ==
  /\ \A k \in Key : planning[k] # NoEntry => k[1] \in people
  /\ rotation \cup oncall \subseteq (people \X Week)

Init == TypeOK /\ NoStrangers

Spec == Init /\ [][Next]_schedule
=============================================================================
