\* Databases of every age, stopped up to twice, written to in between.
SPECIFICATION FairSpec
CONSTANTS
  s1 = s1
  Slot <- OneSlot
  Token <- Tokens
  Number <- Digits
  LegacyEvent <- OldEvents
  NewEvent <- NewEvents
  MaxStops = 2
  MaxWrites = 2
  MaxEvents = 1
INVARIANTS
  TypeOK
  ServesMigratedData
  RestartKeepsPlanning
  BackfillAgrees
PROPERTIES
  RestartKeepsChoices
  StartSucceeds
\* Stops and writes are bounded: a running server ends up doing nothing more.
CHECK_DEADLOCK FALSE
