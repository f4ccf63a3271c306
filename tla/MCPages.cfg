\* Two weeks of different years: one assignment of the user's, one change by others, and
\* three moves between tabs, trimesters, years and weeks.
SPECIFICATION Spec
CONSTANTS
  ann = ann
  bob = bob
  none = none
  noText = noText
  None = none
  NoText = noText
  People <- Team
  Week <- TwoWeeks
  Comment = {noText}
  Rosters <- AnnOnCall
  Contested <- OthersChange
  Today <- LastOf2026
  WindowWeeks = 1
  Habits <- OneOfThePages
  Limit = 1
  Cap = 2
  MaxOwn = 1
  MaxOthers = 1
  MaxEvents = 3
  MaxUnderWay = 2
  MaxMoves = 2
INVARIANTS
  TypeOK
  OncallTabIsComplete
  FeedIsComplete
  SharesAddUp
PROPERTIES
  LoadingEnds
\* Moves and changes are bounded: the system ends when all are over.
CHECK_DEADLOCK FALSE
