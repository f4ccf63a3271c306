\* A connection that ends before the hub has served its register.
SPECIFICATION Spec
CONSTANTS
  c1 = c1
  c2 = c2
  Client <- TwoClients
  RegisterCap = 2
  UnregisterCap = 2
  BroadcastCap = 2
  SendCap = 4
  MaxChanges = 0
INVARIANT NoGhostClient
CHECK_DEADLOCK FALSE
