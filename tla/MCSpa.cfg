\* One user of two half-days: edits, undo and redo, with a failure, a loss and a
\* move of the window.
SPECIFICATION Spec
CONSTANTS
  b1 = b1
  b2 = b2
  s1 = s1
  s2 = s2
  x = x
  y = y
  none = none
  Browser <- OneBrowser
  Slot <- TwoSlots
  Kind <- OneKind
  NoEntry = none
  Window <- WholeWindow
  Home <- TwoSlots
  UndoDepth = 2
  Patient = TRUE
  MaxTasks = 3
  MaxScrolls = 1
  MaxFailures = 1
  MaxLosses = 1
SYMMETRY Symmetry
INVARIANTS
  TypeOK
  
  OwnEditsAreShown
\* Tasks are bounded: the system ends when all are over.
CHECK_DEADLOCK FALSE
