\* Two users of one half-day, who need not wait for anything; a request may fail.
SPECIFICATION Spec
CONSTANTS
  b1 = b1
  b2 = b2
  s1 = s1
  s2 = s2
  x = x
  y = y
  none = none
  Browser <- TwoBrowsers
  Slot <- OneSlot
  Kind <- TwoKinds
  NoEntry = none
  Window <- OneWindow
  Home <- OneSlot
  UndoDepth = 2
  Patient = FALSE
  MaxTasks = 2
  MaxScrolls = 0
  MaxFailures = 1
  MaxLosses = 0
SYMMETRY Symmetry
INVARIANTS
  WatchersAreCurrent
  UndoingIsReset
\* Tasks are bounded: the system ends when all are over.
CHECK_DEADLOCK FALSE
