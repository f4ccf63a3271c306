-------------------------------- MODULE Hub --------------------------------
(***************************************************************************)
(* The WebSocket hub (internal/ws): one goroutine running Hub.Run, which   *)
(* owns the set of clients, and for every connection a request goroutine   *)
(* (ServeWS, which becomes readPump) and a writer goroutine (writePump).   *)
(* They talk through bounded Go channels: a send to a full channel blocks, *)
(* except in Hub.Run's own fan-out, which skips a client whose buffer is   *)
(* full.                                                                   *)
(*                                                                         *)
(* A step is what a goroutine does between two channel or network          *)
(* operations.  Only Hub.Run touches `clients`, so one iteration of its    *)
(* loop is one step.                                                       *)
(***************************************************************************)
EXTENDS Naturals, Sequences, FiniteSets

CONSTANTS
  Client,         \* the connections ever made: one per ServeWS call
  RegisterCap,    \* capacities of the hub's channels (64, 64, 256) ...
  UnregisterCap,
  BroadcastCap,
  SendCap,        \* ... and of each client's send channel (64)
  MaxChanges      \* bound: how many messages the request handlers broadcast

ASSUME CapacityAssumption ==
  /\ RegisterCap \in Nat \ {0}
  /\ UnregisterCap \in Nat \ {0}
  /\ BroadcastCap \in Nat \ {0}
  /\ SendCap \in Nat \ {0}
  /\ MaxChanges \in Nat

VARIABLES
  clients,     \* Hub.clients
  register,    \* Hub.register, a channel of clients
  unregister,  \* Hub.unregister, a channel of clients
  broadcast,   \* Hub.broadcast, a channel of messages
  send,        \* Client.send, a channel of messages per client
  closed,      \* the clients whose send channel was closed
  handler,     \* where each request goroutine (ServeWS, readPump) is
  writer,      \* where each writer goroutine (writePump) is
  conn,        \* each connection, as the server's end sees it
  waiting,     \* how many goroutines are inside Broadcast with each message
  changes      \* how many messages the request handlers gave to Broadcast

hubVars  == <<clients, register, unregister, broadcast>>
goVars   == <<handler, writer, conn>>
msgVars  == <<waiting, changes>>
vars     == <<clients, register, unregister, broadcast, send, closed, handler,
              writer, conn, waiting, changes>>

-----------------------------------------------------------------------------
(* Messages.  The payload of a change is left out; a presence message       *)
(* carries the users connected when it was made.                            *)
Presence(cs) == [type |-> "presence", users |-> cs]
Change       == [type |-> "change", users |-> {}]
Welcome      == [type |-> "connected", users |-> {}]
Message      == {Presence(cs) : cs \in SUBSET Client} \cup {Change, Welcome}

RoomInOffByOne(ch, cap) == Len(ch) <= cap  \* a mutant of RoomIn

\* A send on channel ch would not block.
RoomIn(ch, cap) == Len(ch) < cap

HandlerState ==
  {"idle", "registering", "welcoming", "reading", "leaving", "closing", "done"}

TypeOK ==
  /\ clients \subseteq Client
  /\ closed \subseteq Client
  /\ register \in Seq(Client) /\ Len(register) <= RegisterCap
  /\ unregister \in Seq(Client) /\ Len(unregister) <= UnregisterCap
  /\ broadcast \in Seq(Message) /\ Len(broadcast) <= BroadcastCap
  /\ send \in [Client -> Seq(Message)]
  /\ \A c \in Client : Len(send[c]) <= SendCap
  /\ handler \in [Client -> HandlerState]
  /\ writer \in [Client -> {"none", "running", "done"}]
  /\ conn \in [Client -> {"none", "open", "broken", "closed"}]
  /\ waiting \in [Message -> Nat]
  /\ changes \in 0..MaxChanges

Init ==
  /\ clients = {} /\ closed = {}
  /\ register = <<>> /\ unregister = <<>> /\ broadcast = <<>>
  /\ send = [c \in Client |-> <<>>]
  /\ handler = [c \in Client |-> "idle"]
  /\ writer = [c \in Client |-> "none"]
  /\ conn = [c \in Client |-> "none"]
  /\ waiting = [m \in Message |-> 0] /\ changes = 0

-----------------------------------------------------------------------------
(* Broadcast(msg): the goroutine that calls it is in `waiting` until its    *)
(* message fits in the channel.  Waiting goroutines proceed in any order.   *)

\* broadcastPresence: snapshot the users, then `go h.Broadcast(...)`, so the
\* hub itself does not wait.
AnnouncePresence(cs) ==
  /\ waiting' = [waiting EXCEPT ![Presence(cs)] = @ + 1]
  /\ UNCHANGED changes

\* A request handler has stored a change and calls Broadcast.
HandlerBroadcasts ==
  /\ changes < MaxChanges
  /\ waiting' = [waiting EXCEPT ![Change] = @ + 1]
  /\ changes' = changes + 1
  /\ UNCHANGED <<hubVars, send, closed, goVars>>

Enqueue(m) ==
  /\ waiting[m] > 0
  /\ RoomIn(broadcast, BroadcastCap)
  /\ broadcast' = Append(broadcast, m)
  /\ waiting' = [waiting EXCEPT ![m] = @ - 1]
  /\ UNCHANGED <<clients, register, unregister, send, closed, goVars, changes>>

-----------------------------------------------------------------------------
(* Hub.Run: the three cases of its select.                                  *)

HubRegister ==
  /\ register # <<>>
  /\ clients' = clients \cup {Head(register)}
  /\ register' = Tail(register)
  /\ AnnouncePresence(clients')
  /\ UNCHANGED <<unregister, broadcast, send, closed, goVars>>

WithoutKept(c) == clients  \* a mutant of Without: the delete is missing
Without(c) == clients \ {c}

\* Only a client still in the map is deleted and has its channel closed.
HubUnregister ==
  /\ unregister # <<>>
  /\ clients' = Without(Head(unregister))
  /\ closed' = closed \cup ({Head(unregister)} \cap clients)
  /\ unregister' = Tail(unregister)
  /\ AnnouncePresence(clients')
  /\ UNCHANGED <<register, broadcast, send, goVars>>

\* A mutant of FanOut: without its default case the select waits for room.
FanOutWaits(m) ==
  /\ \A c \in clients : RoomIn(send[c], SendCap)
  /\ send' = [c \in Client |->
                IF c \in clients THEN Append(send[c], m) ELSE send[c]]

FanOut(m) ==
  send' = [c \in Client |->
             IF c \in clients /\ RoomIn(send[c], SendCap)
             THEN Append(send[c], m) ELSE send[c]]

\* The fan-out: a client whose buffer is full is skipped.
HubBroadcast ==
  /\ broadcast # <<>>
  /\ FanOut(Head(broadcast))
  /\ broadcast' = Tail(broadcast)
  /\ UNCHANGED <<clients, register, unregister, closed, goVars, msgVars>>

-----------------------------------------------------------------------------
(* ServeWS and readPump: the request goroutine of connection c.             *)

\* The upgrade succeeds, or fails and ServeWS returns.
Upgrade(c) ==
  /\ handler[c] = "idle"
  /\ \/ /\ handler' = [handler EXCEPT ![c] = "registering"]
        /\ conn' = [conn EXCEPT ![c] = "open"]
     \/ /\ handler' = [handler EXCEPT ![c] = "done"]
        /\ UNCHANGED conn
  /\ UNCHANGED <<hubVars, send, closed, writer, msgVars>>

AfterRegisterAgain == "registering"  \* a mutant: ServeWS registers again
AfterRegister == "welcoming"

\* h.register <- client
Register(c) ==
  /\ handler[c] = "registering"
  /\ RoomIn(register, RegisterCap)
  /\ register' = Append(register, c)
  /\ handler' = [handler EXCEPT ![c] = AfterRegister]
  /\ UNCHANGED <<clients, unregister, broadcast, send, closed, writer, conn,
                 msgVars>>

StartWriterForgotten(c) == UNCHANGED writer  \* a mutant of StartWriter
StartWriter(c) == writer' = [writer EXCEPT ![c] = "running"]

\* client.send <- welcome; go client.writePump(); client.readPump().  The send
\* blocks while the buffer is full, and nothing drains it before writePump.
SendWelcome(c) ==
  /\ handler[c] = "welcoming"
  /\ RoomIn(send[c], SendCap)
  /\ send' = [send EXCEPT ![c] = Append(@, Welcome)]
  /\ StartWriter(c)
  /\ handler' = [handler EXCEPT ![c] = "reading"]
  /\ UNCHANGED <<hubVars, closed, conn, msgVars>>

AfterReadErrorNoDefer == "closing"  \* a mutant: readPump never unregisters
AfterReadError == "leaving"

\* ReadMessage fails: the connection is broken or the writer closed it.
ReadError(c) ==
  /\ handler[c] = "reading"
  /\ conn[c] # "open"
  /\ handler' = [handler EXCEPT ![c] = AfterReadError]
  /\ UNCHANGED <<hubVars, send, closed, writer, conn, msgVars>>

\* readPump's deferred c.hub.unregister <- c ...
Unregister(c) ==
  /\ handler[c] = "leaving"
  /\ RoomIn(unregister, UnregisterCap)
  /\ unregister' = Append(unregister, c)
  /\ handler' = [handler EXCEPT ![c] = "closing"]
  /\ UNCHANGED <<clients, register, broadcast, send, closed, writer, conn,
                 msgVars>>

\* ... and then c.conn.Close().
CloseConn(c) ==
  /\ handler[c] = "closing"
  /\ conn' = [conn EXCEPT ![c] = "closed"]
  /\ handler' = [handler EXCEPT ![c] = "done"]
  /\ UNCHANGED <<hubVars, send, closed, writer, msgVars>>

-----------------------------------------------------------------------------
(* writePump: the writer goroutine of connection c.                         *)

\* Ends the writer: its deferred conn.Close() runs.
WriterStops(c) ==
  /\ writer' = [writer EXCEPT ![c] = "done"]
  /\ conn' = [conn EXCEPT ![c] = "closed"]
  /\ UNCHANGED <<hubVars, closed, handler, msgVars>>

\* A message is taken from send and written: delivered, if the connection is open.
WriterDelivers(c) ==
  /\ writer[c] = "running"
  /\ send[c] # <<>>
  /\ conn[c] # "closed"
  /\ send' = [send EXCEPT ![c] = Tail(@)]
  /\ UNCHANGED <<hubVars, closed, goVars, msgVars>>

\* A message is taken from send and writing it fails or exceeds writeWait.
WriterFails(c) ==
  /\ writer[c] = "running"
  /\ conn[c] # "open"
  /\ send[c] # <<>>
  /\ send' = [send EXCEPT ![c] = Tail(@)]
  /\ WriterStops(c)

\* The ticker fires and the ping cannot be written.
PingFails(c) ==
  /\ writer[c] = "running"
  /\ conn[c] # "open"
  /\ WriterStops(c)
  /\ UNCHANGED send

\* The channel is closed and drained: send a close frame and return.
WriterSeesClose(c) ==
  /\ writer[c] = "running"
  /\ send[c] = <<>>
  /\ c \in closed
  /\ WriterStops(c)
  /\ UNCHANGED send

-----------------------------------------------------------------------------
\* The connection stops working for the server: the browser left, the network
\* is gone or stalled past a deadline, or the peer broke the read limit.
PeerLeaves(c) ==
  /\ conn[c] = "open"
  /\ conn' = [conn EXCEPT ![c] = "broken"]
  /\ UNCHANGED <<hubVars, send, closed, handler, writer, msgVars>>

HubStep == HubRegister \/ HubUnregister \/ HubBroadcast

\* ServeWS up to its return, once the connection is upgraded; the writer.
Goroutine(c) ==
  Register(c) \/ SendWelcome(c) \/ ReadError(c) \/ Unregister(c) \/ CloseConn(c)
WriterStep(c) ==
  \/ WriterDelivers(c) \/ WriterFails(c) \/ PingFails(c) \/ WriterSeesClose(c)

HandlerStep(c) == Upgrade(c) \/ Goroutine(c)

Next ==
  \/ HubStep
  \/ HandlerBroadcasts
  \/ \E m \in Message : Enqueue(m)
  \/ \E c \in Client : HandlerStep(c) \/ WriterStep(c) \/ PeerLeaves(c)

(* Every goroutine that can run does.  Nothing makes a browser connect, leave  *)
(* or edit.  A read, a write or a ping on a connection that is no longer open *)
(* fails within the deadlines (pongWait, pingPeriod + writeWait).             *)
Fairness ==
  /\ WF_vars(HubStep) /\ WF_vars(\E m \in Message : Enqueue(m))
  /\ \A c \in Client : WF_vars(Goroutine(c)) /\ WF_vars(WriterStep(c))

Spec     == Init /\ [][Next]_vars
FairSpec == Spec /\ Fairness

-----------------------------------------------------------------------------
(* What the hub promises.                                                   *)

Queued(ch) == {ch[i] : i \in DOMAIN ch}

\* A connection goes through the hub once and in order: it enters `register`
\* before anything else knows it, leaves the map for good, and asks to be
\* removed (or has its channel closed) only when its goroutine is past its last
\* send.  This is what makes NeverSendOnClosed hold although the hub may serve
\* a connection's unregister before its register.
RegisteredOnce == \A i, j \in DOMAIN register : register[i] = register[j] => i = j
InOrder(c) ==
  /\ c \in Queued(register) => c \notin clients \cup closed
  /\ handler[c] \in {"idle", "registering"} =>
       c \notin Queued(register) \cup Queued(unregister) \cup clients \cup closed
  /\ c \in Queued(unregister) \cup closed => handler[c] \in {"closing", "done"}
  /\ c \notin clients \cap closed
ConnectionProtocol == RegisteredOnce /\ \A c \in Client : InOrder(c)

\* No goroutine sends on a closed channel, which would panic and take the
\* server down: ServeWS only sends its welcome, and Hub.Run only fans out to
\* the clients of its map, while the client's channel is open.
NeverSendOnClosed ==
  \A c \in Client : c \in clients \/ handler[c] = "welcoming" => c \notin closed

\* Hub.Run is never held up, so no caller of Broadcast waits for ever: neither
\* a request handler with a stored change nor a presence goroutine.  (There are
\* finitely many, so it is enough that all of them get through.)
NoneWaiting == \A m \in Message : waiting[m] = 0
BroadcastNeverBlocksForever == []<>NoneWaiting

\* A client the hub knows, whose readPump runs and whose connection ended, is
\* removed from the map, and both its goroutines end.
Leaving(c) ==
  /\ c \in clients
  /\ handler[c] = "leaving" \/ (handler[c] = "reading" /\ conn[c] # "open")
DisconnectIsCleanedUp ==
  \A c \in Client :
    Leaving(c) ~> (c \notin clients /\ handler[c] = "done" /\ writer[c] = "done")

\* Once readPump runs, whatever the hub buffered for a client is written to
\* its connection, unless the connection ends.
BufferedMessagesAreWritten ==
  \A c \in Client : []<>(handler[c] = "reading" /\ conn[c] = "open" => send[c] = <<>>)

-----------------------------------------------------------------------------
(* What the documentation says of the hub and the code does not do.         *)

\* README.md, "presence -- list of online users": a connection whose goroutines
\* ended, with nothing left for the hub to process, is not in the hub's map.
NoGhostClient ==
  \A c \in clients : handler[c] = "done" => c \in Queued(register) \cup Queued(unregister)
=============================================================================
