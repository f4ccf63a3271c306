\* Two connections, their presence messages and one change from a request
\* handler; every channel fills up.
SPECIFICATION FairSpec
CONSTANTS
  c1 = c1
  c2 = c2
  Client <- TwoClients
  RegisterCap = 1
  UnregisterCap = 1
  BroadcastCap = 1
  SendCap = 1
  MaxChanges = 1
INVARIANTS
  TypeOK
  ConnectionProtocol
  NeverSendOnClosed
PROPERTIES
  BroadcastNeverBlocksForever
  DisconnectIsCleanedUp
  BufferedMessagesAreWritten
\* Connections and changes are finite: the system ends when all are done.
CHECK_DEADLOCK FALSE
