----------------------------- MODULE QueueCatalog -----------------------------
(***************************************************************************)
(* The requests of QueueService on the queues and queue_messages tables:   *)
(* each reads the queue's row (GetQueue) and then acts on the messages,    *)
(* while another request may have deleted the queue.  When a message can   *)
(* be received is module Queue; here one that is received is one that is   *)
(* in the queue.                                                           *)
(***************************************************************************)
EXTENDS Naturals, FiniteSets

CONSTANTS Queue, Msg, Caller,
          NoQueue,
          NoMsg,
          NameOf,     \* Queue -> the name it is created with
          Limit,      \* the max_message_size of the queues that are created with one
          Default,    \* that of the others; 262144 in the code
          Size,       \* Msg -> the length of its body
          MaxFaults

VARIABLES
  queues,     \* the life of each row of queues, and its max_message_size
  msgs,       \* the queue each row of queue_messages is in
  handles,    \* the messages whose receipt handle a caller holds
  qreq,       \* the request of each caller
  counted,    \* platform.QueueMessagesTotal, "send", of each queue
  faults,
  stored,     \* history: messages inserted in each queue
  uncounted   \* history: of those, the ones whose request died before it counted

vars == <<queues, msgs, handles, qreq, counted, faults, stored, uncounted>>

NoReq == [op |-> "none", q |-> NoQueue, max |-> 0, m |-> NoMsg]
Ops   == {"create", "send", "count", "receive", "ack", "purge", "delete"}

(* Rows and requests are well typed. *)
TypeOK ==
  /\ \A q \in Queue : queues[q].st \in {"none", "live", "gone"} /\ queues[q].max \in Nat
  /\ \A m \in Msg : msgs[m] \in Queue \cup {NoQueue}
  /\ \A c \in Caller : qreq[c].op \in Ops \cup {"none"} /\ qreq[c].q \in Queue \cup {NoQueue}
  /\ handles \subseteq Msg /\ faults \in 0..MaxFaults

Init ==
  /\ queues = [q \in Queue |-> [st |-> "none", max |-> 0]] /\ msgs = [m \in Msg |-> NoQueue]
  /\ handles = {} /\ qreq = [c \in Caller |-> NoReq] /\ counted = [q \in Queue |-> 0]
  /\ faults = 0 /\ stored = [q \in Queue |-> {}] /\ uncounted = [q \in Queue |-> 0]

Fault  == faults < MaxFaults /\ faults' = faults + 1
Ok     == UNCHANGED faults
Answer(c) == qreq' = [qreq EXCEPT ![c] = NoReq]
In(q)  == {m \in Msg : msgs[m] = q}
Sent   == UNION {stored[q] : q \in Queue}

-----------------------------------------------------------------------------
GetByName(n) == {q \in Queue : queues[q].st = "live" /\ NameOf[q] = n}
GetByID(q)   == queues[q].st = "live"

(* CreateQueue: no queue of that name; the options that are given replace  *)
(* the defaults;                                                           *)
CreateRead(c, q) ==
  /\ qreq[c] = NoReq /\ queues[q].st = "none" /\ \A d \in Caller : qreq[d].q # q
  /\ GetByName(NameOf[q]) = {}
  /\ qreq' = [qreq EXCEPT ![c] = [NoReq EXCEPT !.op = "create", !.q = q,
                                    !.max = IF q \in DOMAIN Limit THEN Limit[q] ELSE Default]]
  /\ UNCHANGED <<queues, msgs, handles, counted, faults, stored, uncounted>>

(* the INSERT, which a queue of that name created meanwhile makes fail. *)
CreateQueue(c) ==
  /\ qreq[c].op = "create" /\ Answer(c)
  /\ LET q == qreq[c].q IN
       \/ Ok /\ GetByName(NameOf[q]) = {} /\ queues' = [queues EXCEPT ![q] = [st |-> "live", max |-> qreq[c].max]]
       \/ (IF GetByName(NameOf[q]) = {} THEN Fault ELSE Ok) /\ UNCHANGED queues
  /\ UNCHANGED <<msgs, handles, counted, stored, uncounted>>

(* GetQueue, with which every other request begins. *)
GetQueue(c, q) ==
  /\ qreq[c] = NoReq /\ GetByID(q)
  /\ \E op \in {"send", "receive", "purge", "delete"} :
       qreq' = [qreq EXCEPT ![c] = [NoReq EXCEPT !.op = op, !.q = q, !.max = queues[q].max]]
  /\ UNCHANGED <<queues, msgs, handles, counted, faults, stored, uncounted>>

(* SendMessage: the body against the limit that was read, and the INSERT,  *)
(* which needs the queue;                                                  *)
SendMessage(c, m) ==
  /\ qreq[c].op = "send" /\ m \notin Sent
  /\ LET q == qreq[c].q IN
       \/ /\ Ok /\ Size[m] <= qreq[c].max /\ GetByID(q)
          /\ msgs' = [msgs EXCEPT ![m] = q] /\ stored' = [stored EXCEPT ![q] = @ \cup {m}]
          /\ qreq' = [qreq EXCEPT ![c].op = "count"]
       \/ /\ IF Size[m] <= qreq[c].max /\ GetByID(q) THEN Fault ELSE Ok
          /\ Answer(c) /\ UNCHANGED <<msgs, stored>>
  /\ UNCHANGED <<queues, handles, counted, uncounted>>

(* and the counter, whether or not the event could be recorded. *)
CountSend(c) ==
  /\ qreq[c].op = "count" /\ Answer(c)
  /\ counted' = [counted EXCEPT ![qreq[c].q] = @ + 1]
  /\ UNCHANGED <<queues, msgs, handles, faults, stored, uncounted>>

(* ReceiveMessages: a message of the queue, with a receipt handle, or none. *)
ReceiveMessages(c) ==
  /\ qreq[c].op = "receive" /\ Answer(c)
  /\ handles' \in {handles} \cup {handles \cup {m} : m \in In(qreq[c].q)}
  /\ UNCHANGED <<queues, msgs, counted, faults, stored, uncounted>>

(* DeleteMessage with a handle, in the queue that the caller names. *)
DeleteMessageGet(c, q, m) ==
  /\ qreq[c] = NoReq /\ GetByID(q) /\ m \in handles
  /\ qreq' = [qreq EXCEPT ![c] = [NoReq EXCEPT !.op = "ack", !.q = q, !.m = m]]
  /\ UNCHANGED <<queues, msgs, handles, counted, faults, stored, uncounted>>
DeleteMessage(c) ==
  /\ qreq[c].op = "ack" /\ Answer(c)
  /\ LET m == qreq[c].m IN
       \/ Ok /\ msgs' = IF msgs[m] = qreq[c].q THEN [msgs EXCEPT ![m] = NoQueue] ELSE msgs
       \/ Fault /\ UNCHANGED msgs
  /\ UNCHANGED <<queues, handles, counted, stored, uncounted>>

Emptied(q) == msgs' = [m \in Msg |-> IF msgs[m] = q THEN NoQueue ELSE msgs[m]]
PurgeQueue(c) ==
  /\ qreq[c].op = "purge" /\ Answer(c)
  /\ \/ Ok /\ Emptied(qreq[c].q)
     \/ Fault /\ UNCHANGED msgs
  /\ UNCHANGED <<queues, handles, counted, stored, uncounted>>

(* Faulty variant: the messages of a deleted queue stay. *)
DeleteQueueOnly(c) ==
  /\ qreq[c].op = "delete" /\ Answer(c) /\ Ok
  /\ queues' = [queues EXCEPT ![qreq[c].q].st = "gone"]
  /\ UNCHANGED <<msgs, handles, counted, stored, uncounted>>

(* DeleteQueue: the DELETE takes the messages with it (ON DELETE CASCADE). *)
DeleteQueue(c) ==
  /\ qreq[c].op = "delete" /\ Answer(c)
  /\ LET q == qreq[c].q IN
       \/ Ok /\ GetByID(q) /\ queues' = [queues EXCEPT ![q].st = "gone"] /\ Emptied(q)
       \/ (IF GetByID(q) THEN Fault ELSE Ok) /\ UNCHANGED <<queues, msgs>>
  /\ UNCHANGED <<handles, counted, stored, uncounted>>

(* A request is cut off. *)
Crash(c) ==
  /\ qreq[c] # NoReq /\ Fault /\ Answer(c)
  /\ uncounted' = IF qreq[c].op = "count" THEN [uncounted EXCEPT ![qreq[c].q] = @ + 1] ELSE uncounted
  /\ UNCHANGED <<queues, msgs, handles, counted, stored>>

-----------------------------------------------------------------------------
QueueRequest(c) ==
  \/ CreateQueue(c) \/ CountSend(c) \/ ReceiveMessages(c) \/ DeleteMessage(c) \/ PurgeQueue(c) \/ DeleteQueue(c)
  \/ \E m \in Msg : SendMessage(c, m)
  \/ \E q \in Queue : CreateRead(c, q) \/ GetQueue(c, q) \/ \E m \in Msg : DeleteMessageGet(c, q, m)
Next == \E c \in Caller : QueueRequest(c) \/ Crash(c)
Spec == Init /\ [][Next]_vars

-----------------------------------------------------------------------------
(* Two queues never have one name; a stored message is in a queue that     *)
(* exists and was within its limit, though the limit and the queue were    *)
(* read before the INSERT; and the counter of sends is short only of       *)
(* requests that have not counted yet or died before they did.             *)
CatalogSound ==
  /\ \A q, p \in Queue : queues[q].st = "live" /\ queues[p].st = "live" /\ NameOf[q] = NameOf[p] => q = p
  /\ \A m \in Msg : msgs[m] # NoQueue => queues[msgs[m]].st = "live" /\ Size[m] <= queues[msgs[m]].max
  /\ \A q \in Queue :
       counted[q] + uncounted[q] + Cardinality({c \in Caller : qreq[c].op = "count" /\ qreq[c].q = q})
         = Cardinality(stored[q])

=============================================================================
