---------------------------- MODULE WebSocketHub ----------------------------
(***************************************************************************)
(* The WebSocket hub: one goroutine owns the set of clients and serves     *)
(* three channels; each client has a goroutine that reads its connection   *)
(* and one that writes it.  A client whose buffer is full is dropped.      *)
(***************************************************************************)
EXTENDS Integers, Sequences, FiniteSets

CONSTANTS Peer, NumEvents,
          QueueCap,   \* capacity of broadcast; 256 in the code
          SendCap     \* capacity of a client's send; 256 in the code

VARIABLES
  clients,    \* Hub.clients
  queue,      \* Hub.broadcast
  send,       \* Client.send
  closed,     \* clients whose send is closed
  conn,       \* connections that are open
  reader,     \* ReadPump of each client
  writer,     \* WritePump of each client
  active,     \* WSConnectionsActive
  panic,      \* a closed channel was closed or sent on
  log,        \* history: events in the order the hub took them
  joined,     \* history: length of log when the client was added
  got         \* history: what each connection was sent

vars == <<clients, queue, send, closed, conn, reader, writer, active, panic, log, joined, got>>

(* Channels, pumps and the gauge are well typed. *)
TypeOK ==
  /\ clients \subseteq Peer /\ Len(queue) <= QueueCap /\ \A p \in Peer : Len(send[p]) <= SendCap
  /\ reader \in [Peer -> {"new", "register", "read", "unregister", "done"}]
  /\ writer \in [Peer -> {"new", "run", "done"}] /\ active \in 0..Cardinality(Peer)

Init ==
  /\ clients = {} /\ queue = <<>> /\ send = [p \in Peer |-> <<>>] /\ closed = {} /\ conn = {}
  /\ reader = [p \in Peer |-> "new"] /\ writer = [p \in Peer |-> "new"] /\ active = 0 /\ panic = FALSE
  /\ log = <<>> /\ joined = [p \in Peer |-> 0] /\ got = [p \in Peer |-> <<>>]

-----------------------------------------------------------------------------
(* ServeWS: upgrade, Register, and the two pumps. *)
ServeWS(p) ==
  /\ reader[p] = "new"
  /\ conn' = conn \cup {p} /\ reader' = [reader EXCEPT ![p] = "register"]
  /\ UNCHANGED <<clients, queue, send, closed, writer, active, panic, log, joined, got>>

(* BroadcastEvent blocks while the queue is full.  Events are numbered. *)
BroadcastEvent ==
  /\ Len(queue) < QueueCap /\ Len(queue) + Len(log) < NumEvents
  /\ queue' = Append(queue, Len(queue) + Len(log) + 1)
  /\ UNCHANGED <<clients, send, closed, conn, reader, writer, active, panic, log, joined, got>>

-----------------------------------------------------------------------------
(* Hub.Run: one case of its select at a time.  register and unregister are    *)
(* unbuffered, so the pump that sends goes on in the same step.              *)
TakeRegister(p) ==
  /\ reader[p] = "register"
  /\ clients' = clients \cup {p} /\ active' = active + 1 /\ joined' = [joined EXCEPT ![p] = Len(log)]
  /\ reader' = [reader EXCEPT ![p] = "read"] /\ writer' = [writer EXCEPT ![p] = "run"]
  /\ UNCHANGED <<queue, send, closed, conn, panic, log, got>>

(* Faulty variant: the client is closed whether or not it is in the set. *)
TakeUnregisterAlways(p) ==
  /\ reader[p] = "unregister"
  /\ clients' = clients \ {p} /\ closed' = closed \cup {p} /\ panic' = (panic \/ p \in closed)
  /\ active' = active - 1
  /\ reader' = [reader EXCEPT ![p] = "done"] /\ conn' = conn \ {p}
  /\ UNCHANGED <<queue, send, writer, log, joined, got>>

(* Run, a client that unregisters. *)
TakeUnregister(p) ==
  /\ reader[p] = "unregister"
  /\ IF p \in clients
       THEN clients' = clients \ {p} /\ closed' = closed \cup {p} /\ panic' = (panic \/ p \in closed)
       ELSE UNCHANGED <<clients, closed, panic>>
  /\ active' = active - 1
  /\ reader' = [reader EXCEPT ![p] = "done"] /\ conn' = conn \ {p}
  /\ UNCHANGED <<queue, send, writer, log, joined, got>>

Full == {p \in clients : Len(send[p]) = SendCap}

(* Faulty variant: a client with a full buffer misses the event and stays. *)
TakeBroadcastSkip ==
  /\ queue # <<>>
  /\ queue' = Tail(queue) /\ log' = Append(log, Head(queue))
  /\ send' = [p \in Peer |-> IF p \in clients \ Full THEN Append(send[p], Head(queue)) ELSE send[p]]
  /\ UNCHANGED <<clients, closed, conn, reader, writer, active, panic, joined, got>>

TakeBroadcast ==
  /\ queue # <<>>
  /\ queue' = Tail(queue) /\ log' = Append(log, Head(queue))
  /\ send' = [p \in Peer |-> IF p \in clients \ Full THEN Append(send[p], Head(queue)) ELSE send[p]]
  /\ closed' = closed \cup Full /\ clients' = clients \ Full
  /\ panic' = (panic \/ clients \cap closed # {})
  /\ UNCHANGED <<conn, reader, writer, active, joined, got>>

-----------------------------------------------------------------------------
(* WritePump: all that is buffered goes out in one frame; a closed channel,   *)
(* a failed write or a failed ping ends it and closes the connection.        *)
WriteMessages(p) ==
  /\ writer[p] = "run" /\ send[p] # <<>>
  /\ send' = [send EXCEPT ![p] = <<>>]
  /\ IF p \in conn
       THEN got' = [got EXCEPT ![p] = @ \o send[p]] /\ UNCHANGED <<writer, conn>>
       ELSE writer' = [writer EXCEPT ![p] = "done"] /\ UNCHANGED <<got, conn>>
  /\ UNCHANGED <<clients, queue, closed, reader, active, panic, log, joined>>

WriteEnd(p) ==
  /\ writer[p] = "run" /\ send[p] = <<>> /\ (p \in closed \/ p \notin conn)
  /\ writer' = [writer EXCEPT ![p] = "done"] /\ conn' = conn \ {p}
  /\ UNCHANGED <<clients, queue, send, closed, reader, active, panic, log, joined, got>>

(* ReadPump ends when the connection does. *)
ReadEnd(p) ==
  /\ reader[p] = "read" /\ p \notin conn
  /\ reader' = [reader EXCEPT ![p] = "unregister"]
  /\ UNCHANGED <<clients, queue, send, closed, conn, writer, active, panic, log, joined, got>>

(* The peer goes away, or does not answer pings for pongWait. *)
Disconnect(p) ==
  /\ p \in conn /\ conn' = conn \ {p}
  /\ UNCHANGED <<clients, queue, send, closed, reader, writer, active, panic, log, joined, got>>

-----------------------------------------------------------------------------
HubStep  == TakeBroadcast \/ \E p \in Peer : TakeRegister(p) \/ TakeUnregister(p)
Writer(p) == WriteMessages(p) \/ WriteEnd(p)
Next == \/ HubStep \/ BroadcastEvent
        \/ \E p \in Peer : ServeWS(p) \/ Writer(p) \/ ReadEnd(p) \/ Disconnect(p)
Spec == /\ Init /\ [][Next]_vars
        /\ WF_vars(TakeBroadcast)
        /\ \A p \in Peer : WF_vars(Writer(p)) /\ WF_vars(ReadEnd(p)) /\ WF_vars(TakeRegister(p)) /\ WF_vars(TakeUnregister(p))

-----------------------------------------------------------------------------
(* The hub neither closes a closed channel nor sends on one, the gauge counts *)
(* the clients that were added and have not left, and a connection is sent    *)
(* the events from its arrival on, in order and without a gap: a client that  *)
(* cannot keep up is disconnected instead of missing one.                     *)
HubSound ==
  /\ ~panic
  /\ active = Cardinality({p \in Peer : reader[p] \in {"read", "unregister"}})
  /\ \A p \in Peer : LET all == got[p] \o send[p] IN
       writer[p] = "run" /\ p \in conn => all = SubSeq(log, joined[p] + 1, joined[p] + Len(all))
                                          /\ (p \in clients => joined[p] + Len(all) = Len(log))

(* A client that is dropped or goes away leaves the hub, with both of its     *)
(* pumps, and an event that was accepted is taken.                            *)
Leaving(p) == p \in closed \/ reader[p] = "unregister" \/ (reader[p] = "read" /\ p \notin conn)
HubSettles ==
  /\ \A p \in Peer : []<>(Leaving(p) => reader[p] = "done" /\ writer[p] = "done" /\ p \notin clients)
  /\ []<>(queue = << >>)
=============================================================================
