\* A copied week, a run week and a saved half-day; the disk works.
SPECIFICATION Spec
CONSTANTS
  ann = ann
  bob = bob
  am = am
  pm = pm
  project = project
  run = run
  away = away
  none = none
  r1 = r1
  r2 = r2
  nobody = nobody
  Person <- TwoPeople
  Week <- Weeks
  HalfDay <- AmPm
  Kind <- Kinds
  NoEntry = none
  Unplanned <- Absences
  Request <- TwoRequests
  Ops <- FillOrSave
  WorkOrder <- WorkDays
  RunDuty = run
  Nobody = nobody
  InitialPeople <- JustAnn
  InitialPlanning <- AnnsFullWeek
  DiskFails = FALSE
  MaxCrashes = 0
INVARIANT ChangesAreAnnounced
CHECK_DEADLOCK FALSE
