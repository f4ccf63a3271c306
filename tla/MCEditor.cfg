\* Two people's half-days from a Friday to a Monday, edited once, with another user's write
\* or a failed one in between.
SPECIFICATION Spec
CONSTANTS
  ann = ann
  bob = bob
  apollo = apollo
  none = none
  noText = noText
  aNote = aNote
  ticket = ticket
  None = none
  NoText = noText
  People <- Team
  Project = {apollo}
  AwayType = {"vacation", "training"}
  Text = {noText, aNote, ticket}
  Opening <- FridayPm
  Closing <- MondayAm
  Seeds <- Plannings
  Other <- TakenByOthers
  Contested <- OthersHalfDays
  TypedProjects <- NewProjects
  TypedAway <- NewAway
  TypedIncident <- NewIncident
  TypedNote <- NewNote
  TypedFilter <- ProjectFilter
  TypedRange <- NewRange
  MaxInputs = 2
  MaxApplies = 1
  MaxDisturbances = 1
INVARIANTS
  TypeOK
  EntriesAreWellFormed
  
  
PROPERTIES
  UntouchedFlagsStay
  UnchangedFormIsHarmless
  DragSelects
\* Applies are bounded: nothing is left to do after the last.
CHECK_DEADLOCK FALSE
