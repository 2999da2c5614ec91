-------------------------------- MODULE Queue --------------------------------
(***************************************************************************)
(* One queue of the CloudQueue service: QueueService and                   *)
(* PostgresQueueRepository on the queues and queue_messages tables.        *)
(*                                                                         *)
(* ReceiveMessages is a database transaction: rows it has selected FOR     *)
(* UPDATE stay locked until it ends, other receivers skip them and a       *)
(* DELETE of them waits.  NOW() is the database's clock, and in a          *)
(* transaction the time it began; time.Now() is the API server's, which is *)
(* off by Skew.  A receipt handle is a fresh UUID for each delivery: here  *)
(* the message and the number of the delivery.                             *)
(***************************************************************************)
EXTENDS Integers, FiniteSets

CONSTANTS Msg,        \* the messages that get sent
          Server,     \* API servers, each with at most one receive in progress
          Skew,       \* how far ahead of the database each server's clock is
          Timeout,    \* the queue's visibility_timeout
          Limits,     \* values of maxMessages that clients ask for
          MaxBatch,   \* the cap on it; 10 in the code
          MaxTime,    \* bound: the model's clock stops there
          MaxCount    \* bound: deliveries of one message

ASSUME ConstantsType ==
  /\ Skew \in [Server -> Int] /\ Timeout \in Int /\ Limits \subseteq Int
  /\ MaxBatch \in Nat /\ MaxTime \in Nat /\ MaxCount \in Nat

VARIABLES
  now,        \* the database's clock
  queue,      \* the row of queues
  row,        \* the rows of queue_messages
  tx,         \* the receive transaction of each server
  receipts,   \* the receipt handles clients have been given
  last        \* history: when the latest delivery of a message selected it

vars == <<now, queue, row, tx, receipts, last>>

Never == -1
NoTx  == [pc |-> "idle", start |-> 0, limit |-> 0, at |-> 0, msgs |-> {}]

RowType ==
  row \in [Msg -> [st : {"unsent", "in", "gone"}, visible : Int, count : Nat]]

TxType ==
  tx \in [Server -> [pc : {"idle", "begun", "selected"}, start : Nat, limit : Int,
                     at : Nat, msgs : SUBSET Msg]]

(* The clock, the tables, the transactions and the receipts are well typed. *)
TypeOK ==
  /\ now \in Nat
  /\ queue \in {"live", "gone"}
  /\ RowType
  /\ TxType
  /\ receipts \subseteq Msg \X Nat
  /\ last \in [Msg -> Nat \cup {Never}]

Init ==
  /\ now = 0
  /\ queue = "live"
  /\ row = [m \in Msg |-> [st |-> "unsent", visible |-> 0, count |-> 0]]
  /\ tx = [p \in Server |-> NoTx]
  /\ receipts = {}
  /\ last = [m \in Msg |-> Never]

-----------------------------------------------------------------------------
In     == {m \in Msg : row[m].st = "in"}
Locked == UNION {tx[p].msgs : p \in Server}

Tick ==
  /\ now < MaxTime
  /\ now' = now + 1
  /\ UNCHANGED <<queue, row, tx, receipts, last>>

(* Faulty variant of Sent: deliveries are counted from one less. *)
SentBefore(visible) == [st |-> "in", visible |-> visible, count |-> -1]

Sent(visible) == [st |-> "in", visible |-> visible, count |-> 0]

(* SendMessage: visible at NOW(), or, when the server stalled for a second  *)
(* since it made the message, at the server's time of then.  The foreign    *)
(* key needs the queue.                                                     *)
SendMessage(m) ==
  /\ queue = "live"
  /\ row[m].st = "unsent"
  /\ \/ row' = [row EXCEPT ![m] = Sent(now)]
     \/ \E t \in 0..(now - 1), p \in Server : row' = [row EXCEPT ![m] = Sent(t + Skew[p])]
  /\ UNCHANGED <<now, queue, tx, receipts, last>>

(* QueueService.ReceiveMessages: the default and the cap of maxMessages. *)
Clamp(k) == IF k <= 0 THEN 1 ELSE IF k > MaxBatch THEN MaxBatch ELSE k

ReceiveBegin(p) ==
  /\ queue = "live"
  /\ tx[p].pc = "idle"
  /\ \E k \in Limits :
       tx' = [tx EXCEPT ![p] = [pc |-> "begun", start |-> now, limit |-> Clamp(k),
                                at |-> 0, msgs |-> {}]]
  /\ UNCHANGED <<now, queue, row, receipts, last>>

(* Faulty variants of Candidates: FOR UPDATE without SKIP LOCKED that does   *)
(* not wait either; and no condition on visible_at.                         *)
CandidatesLocked(p) == {m \in In : row[m].visible <= tx[p].start}
CandidatesHidden(p) == In \ Locked

(* SELECT ... visible_at <= NOW() FOR UPDATE SKIP LOCKED LIMIT, in no       *)
(* particular order; then the server reads its clock.                       *)
Visible(m, t) == row[m].visible <= t
Candidates(p) == {m \in In : Visible(m, tx[p].start) /\ m \notin Locked}

ReceiveSelect(p) ==
  /\ tx[p].pc = "begun"
  /\ \E S \in SUBSET Candidates(p) :
       /\ \/ Cardinality(S) = tx[p].limit
          \/ Cardinality(S) < tx[p].limit /\ S = Candidates(p)
       /\ tx' = [tx EXCEPT ![p] = [pc |-> "selected", start |-> tx[p].start,
                                   limit |-> 0, at |-> now, msgs |-> S]]
  /\ UNCHANGED <<now, queue, row, receipts, last>>

(* The UPDATEs and the COMMIT: a new handle, hidden until visible_at by the *)
(* server's clock.  The answer reaches the client or is lost.               *)
ReceiveCommit(p) ==
  /\ tx[p].pc = "selected"
  /\ \A m \in tx[p].msgs : row[m].count < MaxCount
  /\ row' = [m \in Msg |-> IF m \in tx[p].msgs
                           THEN [st |-> row[m].st, visible |-> tx[p].at + Skew[p] + Timeout,
                                 count |-> row[m].count + 1]
                           ELSE row[m]]
  /\ last' = [m \in Msg |-> IF m \in tx[p].msgs THEN tx[p].at ELSE last[m]]
  /\ \/ receipts' = receipts \cup {<<m, row[m].count + 1>> : m \in tx[p].msgs}
     \/ UNCHANGED receipts
  /\ tx' = [tx EXCEPT ![p] = NoTx]
  /\ UNCHANGED <<now, queue>>

(* An error, a lost connection or a crash: the transaction is rolled back. *)
ReceiveAbort(p) ==
  /\ tx[p].pc # "idle"
  /\ tx' = [tx EXCEPT ![p] = NoTx]
  /\ UNCHANGED <<now, queue, row, receipts, last>>

(* Faulty variant of DeleteMessage: any handle the message ever had deletes it. *)
DeleteMessageAnyHandle(m, n) ==
  /\ queue = "live"
  /\ <<m, n>> \in receipts
  /\ m \in In \ Locked
  /\ row' = [row EXCEPT ![m].st = "gone"]
  /\ UNCHANGED <<now, queue, tx, receipts, last>>

(* DeleteMessage, by a receipt handle: a handle that is no longer the       *)
(* row's is an error and changes nothing.                                   *)
DeleteMessage(m, n) ==
  /\ queue = "live"
  /\ <<m, n>> \in receipts
  /\ m \in In \ Locked
  /\ row[m].count = n
  /\ row' = [row EXCEPT ![m].st = "gone"]
  /\ UNCHANGED <<now, queue, tx, receipts, last>>

DeleteRows == row' = [m \in Msg |-> IF m \in In THEN [row[m] EXCEPT !.st = "gone"] ELSE row[m]]

PurgeQueue ==
  /\ queue = "live"
  /\ In \cap Locked = {}
  /\ DeleteRows
  /\ UNCHANGED <<now, queue, tx, receipts, last>>

(* DeleteQueue: the messages go with the queue (ON DELETE CASCADE). *)
DeleteQueue ==
  /\ queue = "live"
  /\ In \cap Locked = {}
  /\ queue' = "gone"
  /\ DeleteRows
  /\ UNCHANGED <<now, tx, receipts, last>>

Receive(p) == ReceiveBegin(p) \/ ReceiveSelect(p) \/ ReceiveCommit(p) \/ ReceiveAbort(p)

Next ==
  \/ Tick
  \/ \E m \in Msg : SendMessage(m)
  \/ \E p \in Server : Receive(p)
  \/ \E r \in receipts : DeleteMessage(r[1], r[2])
  \/ PurgeQueue
  \/ DeleteQueue

Spec == Init /\ [][Next]_vars

-----------------------------------------------------------------------------
(* The queue as its users see it. *)
State(m) ==
  IF row[m].st # "in" THEN row[m].st ELSE IF Visible(m, now) THEN "ready" ELSE "hidden"

Pool == INSTANCE MessagePool WITH
          state <- [m \in Msg |-> State(m)],
          deliveries <- [m \in Msg |-> row[m].count]

(* The queue keeps the promises of MessagePool, whatever the clocks, the    *)
(* receives in progress and the answers lost.                               *)
ImplementsPool == Pool!Spec

(* A message that was received is not received again before the visibility  *)
(* timeout has passed, measured by the database's clock.                    *)
HiddenForTimeout ==
  [][\A m \in Msg : last[m] # Never /\ row'[m].count # row[m].count
                      => last'[m] >= last[m] + Timeout]_vars

(* While a delivery of a message is recent, at most the client of that      *)
(* delivery can delete it alone: a step that removes some messages and not  *)
(* all of them removes one whose latest receipt handle a client holds.      *)
StaleReceiptHarmless ==
  [][In' # {} => \A m \in In \ In' : <<m, row[m].count>> \in receipts]_vars

(* Two receives in progress never hold the same message, and what they hold *)
(* is still in the queue and was visible when they began.                   *)
LocksAreExclusive ==
  \A p \in Server :
    /\ tx[p].msgs \subseteq In
    /\ \A m \in tx[p].msgs : Visible(m, tx[p].start)
    /\ \A q \in Server \ {p} : tx[p].msgs \cap tx[q].msgs = {}

=============================================================================
