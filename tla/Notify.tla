------------------------------- MODULE Notify -------------------------------
(***************************************************************************)
(* CloudNotify: NotifyService and its repository.  Publish stores a        *)
(* message and starts one goroutine per subscription, which tries once.    *)
(***************************************************************************)
EXTENDS Integers, FiniteSets

CONSTANTS Topic, Name,         \* Name: Topic -> the name each is created with
          Sub, Endpoint,       \* Endpoint: Sub -> protocol and endpoint
          Msg, NoTopic, MaxFaults

VARIABLES
  topic,    \* topics
  sub,      \* subscriptions
  nreq,     \* CreateTopic requests between read and INSERT
  pub,      \* Publish requests
  sending,  \* deliver goroutines
  inbox,    \* messages at each endpoint, and how often
  faults,
  hist      \* history: the subscriptions each message was sent to, failed deliveries

vars == <<topic, sub, nreq, pub, sending, inbox, faults, hist>>

Ends   == {Endpoint[s] : s \in Sub}
NoSub  == [st |-> "none", t |-> NoTopic]
NoPub  == [pc |-> "none", t |-> NoTopic]

(* Rows, requests and deliveries are well typed. *)
TypeOK ==
  /\ topic \in [Topic -> {"none", "live", "deleted"}] /\ nreq \subseteq Topic
  /\ sub \in [Sub -> [st : {"none", "read", "live", "deleted"}, t : Topic \cup {NoTopic}]]
  /\ pub \in [Msg -> [pc : {"none", "read", "saved", "done"}, t : Topic \cup {NoTopic}]]
  /\ sending \subseteq Sub \X Msg /\ inbox \in [Ends -> [Msg -> Nat]]

Init ==
  /\ topic = [t \in Topic |-> "none"] /\ sub = [s \in Sub |-> NoSub] /\ nreq = {}
  /\ pub = [m \in Msg |-> NoPub] /\ sending = {} /\ inbox = [e \in Ends |-> [m \in Msg |-> 0]]
  /\ faults = 0 /\ hist = [sent |-> {}, failed |-> {}]

Fault   == faults < MaxFaults /\ faults' = faults + 1
NoFault == UNCHANGED faults

-----------------------------------------------------------------------------
(* PostgresNotifyRepository *)
GetTopicByID(t)      == topic[t] = "live"
GetTopicByName(n)    == {t \in Topic : Name[t] = n /\ topic[t] = "live"}
ListSubscriptions(t) == {s \in Sub : sub[s] = [st |-> "live", t |-> t]}
GetSubscriptionByID(s) == sub[s].st = "live"

(* CreateTopic: a name in use is refused, by the read, whose failure counts  *)
(* as not found, or by UNIQUE(user_id, name).                               *)
CreateTopic(t) ==
  /\ topic[t] = "none" /\ t \notin nreq
  /\ (GetTopicByName(Name[t]) = {} /\ NoFault) \/ Fault
  /\ nreq' = nreq \cup {t}
  /\ UNCHANGED <<topic, sub, pub, sending, inbox, hist>>

(* Faulty variant: without the constraint. *)
InsertAnyTopic(t) ==
  /\ t \in nreq
  /\ topic' = [topic EXCEPT ![t] = "live"]
  /\ nreq' = nreq \ {t}
  /\ UNCHANGED <<sub, pub, sending, inbox, faults, hist>>

(* CreateTopic, the INSERT, under the UNIQUE constraint on user and name. *)
InsertTopic(t) ==
  /\ t \in nreq
  /\ topic' = [topic EXCEPT ![t] = IF GetTopicByName(Name[t]) = {} THEN "live" ELSE "deleted"]
  /\ nreq' = nreq \ {t}
  /\ UNCHANGED <<sub, pub, sending, inbox, faults, hist>>

(* DeleteTopic: subscriptions and messages go with the row. *)
DeleteTopic(t) ==
  /\ GetTopicByID(t)
  /\ topic' = [topic EXCEPT ![t] = "deleted"]
  /\ sub' = [s \in Sub |-> IF s \in ListSubscriptions(t) THEN [sub[s] EXCEPT !.st = "deleted"] ELSE sub[s]]
  /\ UNCHANGED <<nreq, pub, sending, inbox, faults, hist>>

(* Subscribe: the topic is read; UNIQUE(topic_id, protocol, endpoint). *)
Subscribe(s, t) ==
  /\ sub[s].st = "none" /\ GetTopicByID(t)
  /\ sub' = [sub EXCEPT ![s] = [st |-> "read", t |-> t]]
  /\ UNCHANGED <<topic, nreq, pub, sending, inbox, faults, hist>>

CreateSubscription(s) ==
  /\ sub[s].st = "read"
  /\ LET t == sub[s].t
         ok == GetTopicByID(t) /\ \A r \in ListSubscriptions(t) : Endpoint[r] # Endpoint[s] IN
       sub' = [sub EXCEPT ![s].st = IF ok THEN "live" ELSE "deleted"]
  /\ UNCHANGED <<topic, nreq, pub, sending, inbox, faults, hist>>

Unsubscribe(s) ==
  /\ GetSubscriptionByID(s)
  /\ sub' = [sub EXCEPT ![s].st = "deleted"]
  /\ UNCHANGED <<topic, nreq, pub, sending, inbox, faults, hist>>

-----------------------------------------------------------------------------
(* Publish: topic, message, subscriptions, one goroutine for each. *)
Publish(m, t) ==
  /\ pub[m].pc = "none" /\ GetTopicByID(t)
  /\ pub' = [pub EXCEPT ![m] = [pc |-> "read", t |-> t]]
  /\ UNCHANGED <<topic, sub, nreq, sending, inbox, faults, hist>>

SaveMessage(m) ==
  /\ pub[m].pc = "read"
  /\ \/ NoFault /\ pub' = [pub EXCEPT ![m].pc = IF GetTopicByID(pub[m].t) THEN "saved" ELSE "done"]
     \/ Fault /\ pub' = [pub EXCEPT ![m].pc = "done"]
  /\ UNCHANGED <<topic, sub, nreq, sending, inbox, hist>>

FanOut(m) ==
  /\ pub[m].pc = "saved"
  /\ LET subs == ListSubscriptions(pub[m].t) IN
       \/ /\ NoFault
          /\ sending' = sending \cup (subs \X {m})
          /\ hist' = [hist EXCEPT !.sent = @ \cup (subs \X {m})]
       \/ Fault /\ UNCHANGED <<sending, hist>>
  /\ pub' = [pub EXCEPT ![m].pc = "done"]
  /\ UNCHANGED <<topic, sub, nreq, inbox>>

(* Faulty variant: an error is taken for a reason to try again. *)
DeliverAgain(d) ==
  /\ d \in sending
  /\ inbox[Endpoint[d[1]]][d[2]] < 2
  /\ inbox' = [inbox EXCEPT ![Endpoint[d[1]]][d[2]] = @ + 1]
  /\ \E again \in BOOLEAN : sending' = IF again THEN sending ELSE sending \ {d}
  /\ UNCHANGED <<topic, sub, nreq, pub, faults, hist>>

(* deliver: SendMessage to a queue or a POST to a webhook, once; its failure  *)
(* is only logged.                                                          *)
Deliver(d) ==
  /\ d \in sending
  /\ \/ inbox' = [inbox EXCEPT ![Endpoint[d[1]]][d[2]] = @ + 1] /\ UNCHANGED hist
     \/ hist' = [hist EXCEPT !.failed = @ \cup {d}] /\ UNCHANGED inbox
  /\ sending' = sending \ {d}
  /\ UNCHANGED <<topic, sub, nreq, pub, faults>>

(* The process ends, and requests and goroutines with it. *)
Crash ==
  /\ Fault
  /\ hist' = [hist EXCEPT !.failed = @ \cup sending] /\ sending' = {} /\ nreq' = {}
  /\ pub' = [m \in Msg |-> [pub[m] EXCEPT !.pc = IF @ = "none" THEN @ ELSE "done"]]
  /\ topic' = [t \in Topic |-> IF t \in nreq THEN "deleted" ELSE topic[t]]
  /\ sub' = [s \in Sub |-> IF sub[s].st = "read" THEN [sub[s] EXCEPT !.st = "deleted"] ELSE sub[s]]
  /\ UNCHANGED inbox

-----------------------------------------------------------------------------
TopicStep == \E t \in Topic : CreateTopic(t) \/ InsertTopic(t) \/ DeleteTopic(t)
SubStep   == \E s \in Sub : (\E t \in Topic : Subscribe(s, t)) \/ CreateSubscription(s) \/ Unsubscribe(s)
PubStep   == \E m \in Msg : (\E t \in Topic : Publish(m, t)) \/ SaveMessage(m) \/ FanOut(m)
Sending   == \E d \in Sub \X Msg : Deliver(d)

Next == TopicStep \/ SubStep \/ PubStep \/ Sending \/ Crash
Spec == Init /\ [][Next]_vars /\ WF_vars(Sending)

-----------------------------------------------------------------------------
(* An endpoint gets a message at most once, and only a message published to  *)
(* a topic it was subscribed to when the list was read; a name has one topic *)
(* and a topic at most one subscription of an endpoint.                      *)
AtMostOnce ==
  /\ \A e \in Ends : \A m \in Msg :
       /\ inbox[e][m] <= 1
       /\ inbox[e][m] > 0 => \E d \in hist.sent \ (hist.failed \cup sending) : d[2] = m /\ Endpoint[d[1]] = e
  /\ \A t \in Topic : Cardinality(GetTopicByName(Name[t])) <= 1
  /\ \A s, r \in Sub : s # r /\ sub[s].st = "live" /\ sub[r] = sub[s] => Endpoint[s] # Endpoint[r]

(* Everything sent arrives, or its single attempt fails or a restart ends it. *)
Arrives ==
  \A d \in Sub \X Msg : []<>(d \in hist.sent => inbox[Endpoint[d[1]]][d[2]] = 1 \/ d \in hist.failed)
=============================================================================
