----------------------------- MODULE HubProofs -----------------------------
(***************************************************************************)
(* For any set of connections, any channel capacities and any number of    *)
(* changes: Hub's variables stay in their types, with no channel over its  *)
(* capacity, and no goroutine ever sends on a closed channel.              *)
(***************************************************************************)
EXTENDS Hub, TLAPS

\* Presence messages and welcomes are messages.
LEMMA MessagesAreMessages ==
  /\ \A cs \in SUBSET Client : Presence(cs) \in Message
  /\ Change \in Message
  /\ Welcome \in Message
BY DEF Presence, Change, Welcome, Message

\* Taking the head of a non-empty channel.
LEMMA Receive ==
  ASSUME NEW S, NEW q \in Seq(S), q # <<>>
  PROVE  /\ Head(q) \in S
         /\ Tail(q) \in Seq(S)
         /\ Len(Tail(q)) = Len(q) - 1
         /\ Len(q) \in Nat /\ Len(q) > 0
         /\ \A i \in 1..Len(Tail(q)) : Tail(q)[i] = q[i + 1]
OBVIOUS

\* The hub starts with the right types.
LEMMA TypeInit == Init => TypeOK
BY CapacityAssumption DEF Init, TypeOK, HandlerState

\* A step of the hub goroutine keeps the types.
LEMMA TypeHub == TypeOK /\ HubStep => TypeOK'
<1> SUFFICES ASSUME TypeOK, HubStep PROVE TypeOK'
  OBVIOUS
<1> USE DEF TypeOK, HandlerState, hubVars, goVars, msgVars
<1>1. CASE HubRegister
  <2>1. Head(register) \in Client /\ Tail(register) \in Seq(Client)
        /\ Len(Tail(register)) <= RegisterCap
    BY <1>1, Receive, CapacityAssumption DEF HubRegister
  <2>2. clients' \subseteq Client
    BY <1>1, <2>1 DEF HubRegister
  <2>3. waiting' \in [Message -> Nat]
    BY <1>1, <2>2, MessagesAreMessages DEF HubRegister, AnnouncePresence
  <2>. QED
    BY <1>1, <2>1, <2>2, <2>3 DEF HubRegister, AnnouncePresence
<1>2. CASE HubUnregister
  <2>1. Head(unregister) \in Client /\ Tail(unregister) \in Seq(Client)
        /\ Len(Tail(unregister)) <= UnregisterCap
    BY <1>2, Receive, CapacityAssumption DEF HubUnregister
  <2>2. clients' \subseteq Client
    BY <1>2 DEF HubUnregister, Without
  <2>3. waiting' \in [Message -> Nat]
    BY <1>2, <2>2, MessagesAreMessages DEF HubUnregister, AnnouncePresence
  <2>. QED
    BY <1>2, <2>1, <2>2, <2>3 DEF HubUnregister, AnnouncePresence
<1>3. CASE HubBroadcast
  <2>1. Head(broadcast) \in Message /\ Tail(broadcast) \in Seq(Message)
        /\ Len(Tail(broadcast)) <= BroadcastCap
    BY <1>3, Receive, CapacityAssumption DEF HubBroadcast
  <2>2. send' \in [Client -> Seq(Message)] /\ \A c \in Client : Len(send'[c]) <= SendCap
    BY <1>3, <2>1, CapacityAssumption DEF HubBroadcast, FanOut, RoomIn
  <2>. QED
    BY <1>3, <2>1, <2>2 DEF HubBroadcast
<1>. QED
  BY <1>1, <1>2, <1>3 DEF HubStep

\* A step of a caller of Broadcast keeps the types.
LEMMA TypeBroadcast ==
  TypeOK /\ (HandlerBroadcasts \/ \E m \in Message : Enqueue(m)) => TypeOK'
<1> USE DEF TypeOK, HandlerState, hubVars, goVars, msgVars
<1>1. ASSUME TypeOK, HandlerBroadcasts PROVE TypeOK'
  <2>1. waiting' \in [Message -> Nat]
    BY <1>1, MessagesAreMessages DEF HandlerBroadcasts
  <2>2. changes' \in 0..MaxChanges
    BY <1>1, CapacityAssumption DEF HandlerBroadcasts
  <2>. QED
    BY <1>1, <2>1, <2>2 DEF HandlerBroadcasts
<1>2. ASSUME TypeOK, NEW m \in Message, Enqueue(m) PROVE TypeOK'
  <2>1. broadcast' \in Seq(Message) /\ Len(broadcast') <= BroadcastCap
    BY <1>2, CapacityAssumption DEF Enqueue, RoomIn
  <2>2. waiting' \in [Message -> Nat]
    BY <1>2 DEF Enqueue
  <2>. QED
    BY <1>2, <2>1, <2>2 DEF Enqueue
<1>. QED
  BY <1>1, <1>2

\* A step of a request goroutine, a writer or the network keeps the types.
LEMMA TypeConnection ==
  ASSUME NEW c \in Client, TypeOK, HandlerStep(c) \/ WriterStep(c) \/ PeerLeaves(c)
  PROVE  TypeOK'
<1> USE DEF TypeOK, HandlerState, hubVars, goVars, msgVars
<1>1. CASE Upgrade(c)
  BY <1>1 DEF Upgrade
<1>2. CASE Register(c)
  <2>1. register' \in Seq(Client) /\ Len(register') <= RegisterCap
    BY <1>2, CapacityAssumption DEF Register, RoomIn
  <2>. QED
    BY <1>2, <2>1 DEF Register, AfterRegister
<1>3. CASE SendWelcome(c)
  <2>1. send' \in [Client -> Seq(Message)] /\ \A d \in Client : Len(send'[d]) <= SendCap
    BY <1>3, MessagesAreMessages, CapacityAssumption DEF SendWelcome, RoomIn
  <2>. QED
    BY <1>3, <2>1 DEF SendWelcome, StartWriter
<1>4. CASE ReadError(c)
  BY <1>4 DEF ReadError, AfterReadError
<1>5. CASE Unregister(c)
  <2>1. unregister' \in Seq(Client) /\ Len(unregister') <= UnregisterCap
    BY <1>5, CapacityAssumption DEF Unregister, RoomIn
  <2>. QED
    BY <1>5, <2>1 DEF Unregister
<1>6. CASE CloseConn(c)
  BY <1>6 DEF CloseConn
<1>7. CASE WriterDelivers(c) \/ WriterFails(c)
  <2>1. /\ Head(send[c]) \in Message
        /\ send' \in [Client -> Seq(Message)]
        /\ \A d \in Client : Len(send'[d]) <= SendCap
    <3>1. Head(send[c]) \in Message /\ Tail(send[c]) \in Seq(Message)
          /\ Len(Tail(send[c])) <= SendCap
      BY <1>7, Receive, CapacityAssumption DEF WriterDelivers, WriterFails
    <3>2. send' = [send EXCEPT ![c] = Tail(@)]
      BY <1>7 DEF WriterDelivers, WriterFails
    <3>. QED
      BY <3>1, <3>2
  <2>2. CASE WriterDelivers(c)
    BY <2>1, <2>2 DEF WriterDelivers
  <2>3. CASE WriterFails(c)
    BY <2>1, <2>3 DEF WriterFails, WriterStops
  <2>. QED
    BY <1>7, <2>2, <2>3
<1>8. CASE PingFails(c) \/ WriterSeesClose(c)
  <2>1. WriterStops(c) /\ UNCHANGED send
    BY <1>8 DEF PingFails, WriterSeesClose
  <2>. QED
    BY <2>1 DEF WriterStops
<1>9. CASE PeerLeaves(c)
  BY <1>9 DEF PeerLeaves
<1> HIDE DEF TypeOK, HandlerState, hubVars, goVars, msgVars
<1>. QED
  BY <1>1, <1>2, <1>3, <1>4, <1>5, <1>6, <1>7, <1>8, <1>9 DEF HandlerStep, Goroutine, WriterStep

\* Every variable of the hub keeps its type and no channel exceeds its capacity.
THEOREM TypeCorrect == Spec => []TypeOK
<1>1. TypeOK /\ [Next]_vars => TypeOK'
  <2> SUFFICES ASSUME TypeOK, [Next]_vars PROVE TypeOK'
    OBVIOUS
  <2>1. CASE UNCHANGED vars
    BY <2>1 DEF TypeOK, vars
  <2>2. CASE Next
    BY <2>2, TypeHub, TypeBroadcast, TypeConnection DEF Next
  <2>. QED
    BY <2>1, <2>2
<1>. QED
  BY <1>1, TypeInit, PTL DEF Spec

-----------------------------------------------------------------------------
(* The connection protocol.                                                 *)

\* What is queued after an append, and after a receive.
LEMMA QueuedAppend ==
  ASSUME NEW S, NEW q \in Seq(S), NEW e \in S
  PROVE  /\ Queued(Append(q, e)) = Queued(q) \cup {e}
         /\ DOMAIN Append(q, e) = 1..(Len(q) + 1)
         /\ \A i \in 1..Len(q) : Append(q, e)[i] = q[i]
         /\ Append(q, e)[Len(q) + 1] = e
<1>1. /\ DOMAIN Append(q, e) = 1..(Len(q) + 1) /\ DOMAIN q = 1..Len(q)
      /\ \A i \in 1..Len(q) : Append(q, e)[i] = q[i]
      /\ Append(q, e)[Len(q) + 1] = e
      /\ Len(q) \in Nat
  OBVIOUS
<1>2. Queued(Append(q, e)) \subseteq Queued(q) \cup {e}
  <2>1. \A i \in 1..(Len(q) + 1) : i \in 1..Len(q) \/ i = Len(q) + 1
    BY <1>1
  <2>. QED
    BY <1>1, <2>1 DEF Queued
<1>3. Queued(q) \cup {e} \subseteq Queued(Append(q, e))
  <2>1. 1..Len(q) \subseteq 1..(Len(q) + 1) /\ Len(q) + 1 \in 1..(Len(q) + 1)
    BY <1>1
  <2>. QED
    BY <1>1, <2>1 DEF Queued
<1>. QED
  BY <1>1, <1>2, <1>3

\* A receive takes from the queue what was queued once, and nothing else.
LEMMA QueuedTail ==
  ASSUME NEW S, NEW q \in Seq(S), q # <<>>
  PROVE  /\ Head(q) \in Queued(q)
         /\ Queued(Tail(q)) \subseteq Queued(q)
<1>1. DOMAIN q = 1..Len(q) /\ DOMAIN Tail(q) = 1..Len(Tail(q)) /\ Head(q) = q[1]
  OBVIOUS
<1>2. 1 \in 1..Len(q) /\ \A i \in 1..Len(Tail(q)) : i + 1 \in 1..Len(q)
  BY Receive
<1>. QED
  BY <1>1, <1>2, Receive DEF Queued

\* No connection is anywhere in the hub at the start.
LEMMA ProtocolInit == Init => ConnectionProtocol
BY DEF Init, ConnectionProtocol, RegisteredOnce, InOrder, Queued

\* The hub takes a connection out of `register` and into the map.
LEMMA ProtocolHubRegister ==
  ASSUME TypeOK, ConnectionProtocol, HubRegister PROVE ConnectionProtocol'
<1> DEFINE h == Head(register)
<1>1. /\ register \in Seq(Client) /\ register # <<>> /\ register' = Tail(register)
      /\ clients' = clients \cup {h}
      /\ UNCHANGED <<unregister, closed, handler>>
  BY DEF TypeOK, HubRegister, goVars
<1>2. /\ DOMAIN register = 1..Len(register) /\ DOMAIN Tail(register) = 1..Len(Tail(register))
      /\ h = register[1] /\ 1 \in 1..Len(register)
      /\ \A i \in 1..Len(Tail(register)) :
           i + 1 \in 1..Len(register) /\ i + 1 # 1 /\ Tail(register)[i] = register[i + 1]
  BY <1>1, Receive
<1>3. h \notin Queued(Tail(register))
  BY <1>2 DEF ConnectionProtocol, RegisteredOnce, Queued
<1>4. RegisteredOnce'
  <2> SUFFICES ASSUME NEW i \in 1..Len(Tail(register)), NEW j \in 1..Len(Tail(register)),
                      Tail(register)[i] = Tail(register)[j]
               PROVE  i = j
    BY <1>1, <1>2 DEF RegisteredOnce
  <2>1. i + 1 = j + 1
    BY <1>2 DEF ConnectionProtocol, RegisteredOnce
  <2>. QED
    BY <2>1
<1>5. ASSUME NEW c \in Client PROVE InOrder(c)'
  <2>1. h \in Queued(register) /\ Queued(Tail(register)) \subseteq Queued(register)
    BY <1>1, QueuedTail
  <2>2. Queued(register)' = Queued(Tail(register)) /\ Queued(unregister)' = Queued(unregister)
    BY <1>1 DEF Queued
  <2>3. InOrder(c)
    BY DEF ConnectionProtocol
  <2>. QED
    BY <1>1, <1>3, <2>1, <2>2, <2>3 DEF InOrder
<1>. QED
  BY <1>4, <1>5 DEF ConnectionProtocol

\* The hub takes a connection out of `unregister`, the map and the open channels.
LEMMA ProtocolHubUnregister ==
  ASSUME TypeOK, ConnectionProtocol, HubUnregister PROVE ConnectionProtocol'
<1> DEFINE h == Head(unregister)
<1>1. /\ unregister \in Seq(Client) /\ unregister # <<>> /\ unregister' = Tail(unregister)
      /\ clients' = clients \ {h} /\ closed' = closed \cup ({h} \cap clients)
      /\ UNCHANGED <<register, handler>>
  BY DEF TypeOK, HubUnregister, Without, goVars
<1>2. h \in Queued(unregister) /\ Queued(Tail(unregister)) \subseteq Queued(unregister)
  BY <1>1, QueuedTail
<1>3. Queued(register)' = Queued(register) /\ Queued(unregister)' = Queued(Tail(unregister))
  BY <1>1 DEF Queued
<1>4. ASSUME NEW c \in Client PROVE InOrder(c)'
  <2>1. InOrder(c)
    BY DEF ConnectionProtocol
  <2>. QED
    BY <1>1, <1>2, <1>3, <2>1 DEF InOrder
<1>5. RegisteredOnce'
  BY <1>1 DEF ConnectionProtocol, RegisteredOnce
<1>. QED
  BY <1>4, <1>5 DEF ConnectionProtocol

\* ServeWS queues its connection for the first and only time.
LEMMA ProtocolRegister ==
  ASSUME NEW d \in Client, TypeOK, ConnectionProtocol, Register(d)
  PROVE  ConnectionProtocol'
<1>1. /\ register \in Seq(Client) /\ register' = Append(register, d)
      /\ handler[d] = "registering" /\ handler \in [Client -> HandlerState]
      /\ handler' = [handler EXCEPT ![d] = "welcoming"]
      /\ UNCHANGED <<clients, unregister, closed>>
  BY DEF TypeOK, Register, AfterRegister
<1>2. InOrder(d) /\ d \notin Queued(register)
  BY <1>1 DEF ConnectionProtocol, InOrder
<1>3. Queued(register)' = Queued(register) \cup {d} /\ Queued(unregister)' = Queued(unregister)
  BY <1>1, QueuedAppend DEF Queued
<1>4. ASSUME NEW c \in Client PROVE InOrder(c)'
  <2>1. InOrder(c)
    BY DEF ConnectionProtocol
  <2>. QED
    BY <1>1, <1>2, <1>3, <2>1 DEF InOrder
<1>5. RegisteredOnce'
  <2>1. /\ DOMAIN register = 1..Len(register) /\ Len(register) \in Nat
        /\ \A i \in 1..Len(register) : register[i] # d
    BY <1>1, <1>2 DEF Queued
  <2>2. /\ DOMAIN register' = 1..(Len(register) + 1)
        /\ \A i \in 1..Len(register) : register'[i] = register[i]
        /\ register'[Len(register) + 1] = d
    BY <1>1, QueuedAppend
  <2>3. \A i \in 1..(Len(register) + 1) : i \in 1..Len(register) \/ i = Len(register) + 1
    BY <2>1
  <2>. QED
    BY <2>1, <2>2, <2>3 DEF ConnectionProtocol, RegisteredOnce
<1>. QED
  BY <1>4, <1>5 DEF ConnectionProtocol

\* readPump's last words: its connection is queued for removal.
LEMMA ProtocolUnregister ==
  ASSUME NEW d \in Client, TypeOK, ConnectionProtocol, Unregister(d)
  PROVE  ConnectionProtocol'
<1>1. /\ unregister \in Seq(Client) /\ unregister' = Append(unregister, d)
      /\ handler[d] = "leaving" /\ handler \in [Client -> HandlerState]
      /\ handler' = [handler EXCEPT ![d] = "closing"]
      /\ UNCHANGED <<clients, register, closed>>
  BY DEF TypeOK, Unregister
<1>2. Queued(unregister)' = Queued(unregister) \cup {d} /\ Queued(register)' = Queued(register)
  BY <1>1, QueuedAppend DEF Queued
<1>3. ASSUME NEW c \in Client PROVE InOrder(c)'
  <2>1. InOrder(c)
    BY DEF ConnectionProtocol
  <2>. QED
    BY <1>1, <1>2, <2>1 DEF InOrder
<1>4. RegisteredOnce'
  BY <1>1 DEF ConnectionProtocol, RegisteredOnce
<1>. QED
  BY <1>3, <1>4 DEF ConnectionProtocol

\* Every other step leaves the queues, the map and the closed channels alone,
\* and moves no handler backwards.
LEMMA ProtocolOther ==
  ASSUME TypeOK, ConnectionProtocol,
         UNCHANGED <<clients, register, unregister, closed>>,
         \A c \in Client :
           \/ handler'[c] = handler[c]
           \/ handler[c] = "idle"
           \/ handler[c] \in {"welcoming", "reading"} /\ handler'[c] \in {"reading", "leaving"}
           \/ handler[c] = "closing" /\ handler'[c] = "done"
  PROVE  ConnectionProtocol'
<1>1. Queued(register)' = Queued(register) /\ Queued(unregister)' = Queued(unregister)
  BY DEF Queued
<1>2. ASSUME NEW c \in Client PROVE InOrder(c)'
  <2>1. InOrder(c)
    BY DEF ConnectionProtocol
  <2>. QED
    BY <1>1, <2>1 DEF InOrder
<1>3. RegisteredOnce'
  BY DEF ConnectionProtocol, RegisteredOnce
<1>. QED
  BY <1>2, <1>3 DEF ConnectionProtocol

\* Every step keeps the protocol.
LEMMA ProtocolNext ==
  ASSUME TypeOK, ConnectionProtocol, [Next]_vars PROVE ConnectionProtocol'
<1>1. ASSUME NEW c \in Client,
             Upgrade(c) \/ SendWelcome(c) \/ ReadError(c) \/ CloseConn(c)
      PROVE  ConnectionProtocol'
  <2>1. UNCHANGED <<clients, register, unregister, closed>>
    BY <1>1 DEF Upgrade, SendWelcome, ReadError, CloseConn, hubVars
  <2>2. \E s \in HandlerState :
          /\ handler' = [handler EXCEPT ![c] = s]
          /\ \/ handler[c] = "idle"
             \/ handler[c] \in {"welcoming", "reading"} /\ s \in {"reading", "leaving"}
             \/ handler[c] = "closing" /\ s = "done"
    BY <1>1 DEF Upgrade, SendWelcome, ReadError, CloseConn, AfterReadError, HandlerState
  <2>3. handler \in [Client -> HandlerState]
    BY DEF TypeOK
  <2>4. PICK s \in HandlerState :
          /\ handler' = [handler EXCEPT ![c] = s]
          /\ \/ handler[c] = "idle"
             \/ handler[c] \in {"welcoming", "reading"} /\ s \in {"reading", "leaving"}
             \/ handler[c] = "closing" /\ s = "done"
    BY <2>2
  <2>. QED
    BY <2>1, <2>3, <2>4, ProtocolOther
<1>2. ASSUME NEW c \in Client, WriterStep(c) \/ PeerLeaves(c) PROVE ConnectionProtocol'
  <2>1. UNCHANGED <<clients, register, unregister, closed, handler>>
    BY <1>2 DEF WriterStep, WriterDelivers, WriterFails, PingFails, WriterSeesClose,
                WriterStops, PeerLeaves, hubVars, goVars
  <2>. QED
    BY <2>1, ProtocolOther
<1>3. CASE HubBroadcast \/ HandlerBroadcasts \/ \E m \in Message : Enqueue(m)
  <2>1. UNCHANGED <<clients, register, unregister, closed, handler>>
    BY <1>3 DEF HubBroadcast, HandlerBroadcasts, Enqueue, hubVars, goVars
  <2>. QED
    BY <2>1, ProtocolOther
<1>4. CASE UNCHANGED vars
  BY <1>4, ProtocolOther DEF vars
<1>. QED
  BY <1>1, <1>2, <1>3, <1>4, ProtocolHubRegister, ProtocolHubUnregister,
     ProtocolRegister, ProtocolUnregister DEF Next, HubStep, HandlerStep, Goroutine

\* Every connection goes through the hub once and in order.
THEOREM ProtocolHolds == Spec => []ConnectionProtocol
<1>1. TypeOK /\ ConnectionProtocol /\ [Next]_vars => ConnectionProtocol'
  BY ProtocolNext
<1>. QED
  BY <1>1, ProtocolInit, TypeCorrect, PTL DEF Spec

\* No goroutine sends on a closed channel: neither Hub.Run to a client of its
\* map, nor ServeWS its welcome.
THEOREM NoSendOnClosed == Spec => []NeverSendOnClosed
<1>1. ConnectionProtocol => NeverSendOnClosed
  BY DEF ConnectionProtocol, InOrder, NeverSendOnClosed
<1>. QED
  BY <1>1, ProtocolHolds, PTL
=============================================================================
