\* A user who undoes an edit that is out of sight.
SPECIFICATION Spec
CONSTANTS
  b1 = b1
  b2 = b2
  s1 = s1
  s2 = s2
  x = x
  y = y
  none = none
  Browser <- OneBrowser
  Slot <- TwoSlots
  Kind <- OneKind
  NoEntry = none
  Window <- Weeks
  Home <- FirstWeek
  UndoDepth = 2
  Patient = TRUE
  MaxTasks = 2
  MaxScrolls = 1
  MaxFailures = 0
  MaxLosses = 0
INVARIANT UndoReverts
\* Tasks are bounded: the system ends when all are over.
CHECK_DEADLOCK FALSE
