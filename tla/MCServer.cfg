\* Two concurrent requests of any kind, and a crash.
SPECIFICATION FairSpec
CONSTANTS
  ann = ann
  bob = bob
  am = am
  pm = pm
  project = project
  run = run
  away = away
  none = none
  r1 = r1
  r2 = r2
  nobody = nobody
  Person <- TwoPeople
  Week <- Weeks
  HalfDay <- AmPm
  Kind <- Kinds
  NoEntry = none
  Unplanned <- Absences
  Request <- TwoRequests
  Ops <- Requests
  WorkOrder <- WorkDays
  RunDuty = run
  Nobody = nobody
  InitialPeople <- JustAnn
  InitialPlanning <- AnnsWeek
  DiskFails = TRUE
  MaxCrashes = 1
INVARIANTS
  TypeOK
  NoStrangers
  AtomicChangesAreAnnounced
  FeedFollowsAudit
PROPERTIES
  ImplementsSchedule
  EveryRequestIsAnswered
\* Requests are finite: the system ends when all are answered.
CHECK_DEADLOCK FALSE
