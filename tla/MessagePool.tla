----------------------------- MODULE MessagePool -----------------------------
(***************************************************************************)
(* What a queue of the CloudQueue service promises its users.  A message   *)
(* that was sent stays until the holder of the receipt of its latest       *)
(* delivery deletes it, or the whole queue is purged; and a message that   *)
(* is hidden is not delivered until it comes back.                         *)
(***************************************************************************)
EXTENDS Naturals

CONSTANT Msg

VARIABLES state,       \* of every message
          deliveries,  \* how many times it was delivered
          receipts     \* receipts that consumers hold: message and delivery

vars == <<state, deliveries, receipts>>

Here == {m \in Msg : state[m] \in {"ready", "hidden"}}

Init ==
  /\ state = [m \in Msg |-> "unsent"]
  /\ deliveries = [m \in Msg |-> 0]
  /\ receipts = {}

Send(m) ==
  /\ state[m] = "unsent"
  /\ \E s \in {"ready", "hidden"} : state' = [state EXCEPT ![m] = s]
  /\ UNCHANGED <<deliveries, receipts>>

(* The messages of S are delivered; the consumer gets the receipts, or the  *)
(* answer is lost.  H are those still hidden when the answer is there.      *)
Deliver(S, H) ==
  /\ \A m \in S : state[m] = "ready"
  /\ state' = [m \in Msg |-> IF m \in H THEN "hidden" ELSE state[m]]
  /\ deliveries' = [m \in Msg |-> IF m \in S THEN deliveries[m] + 1 ELSE deliveries[m]]
  /\ \/ receipts' = receipts \cup {<<m, deliveries[m] + 1>> : m \in S}
     \/ UNCHANGED receipts

(* Hidden messages come back. *)
Expire(S) ==
  /\ \A m \in S : state[m] = "hidden"
  /\ state' = [m \in Msg |-> IF m \in S THEN "ready" ELSE state[m]]
  /\ UNCHANGED <<deliveries, receipts>>

(* The latest receipt of a message deletes it. *)
Acknowledge(m) ==
  /\ m \in Here
  /\ <<m, deliveries[m]>> \in receipts
  /\ state' = [state EXCEPT ![m] = "gone"]
  /\ UNCHANGED <<deliveries, receipts>>

Purge ==
  /\ state' = [m \in Msg |-> IF m \in Here THEN "gone" ELSE state[m]]
  /\ UNCHANGED <<deliveries, receipts>>

Next ==
  \/ \E m \in Msg : Send(m) \/ Acknowledge(m)
  \/ \E S \in SUBSET Msg : Expire(S) \/ \E H \in SUBSET S : Deliver(S, H)
  \/ Purge

Spec == Init /\ [][Next]_vars

=============================================================================
