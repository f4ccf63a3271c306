\* One person, two requests at a time, one worker, changing groups.
SPECIFICATION Spec
CONSTANTS
  u1 = u1
  r1 = r1
  r2 = r2
  w1 = w1
  User <- OneUser
  Request <- TwoRequests
  Worker <- OneWorker
  Memberships <- SomeGroups
  CacheTTL = 1
  SessionTTL = 1
  MaxTime = 2
  MaxChanges = 1
  MaxLogins = 1
INVARIANTS
  TypeOK
  RolesAreRecent
  SessionsAreRecent
  OnlyMembersAreKnown
  KnownMembersAreServed
SYMMETRY Symmetry
