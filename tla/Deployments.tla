----------------------------- MODULE Deployments -----------------------------
(***************************************************************************)
(* Container deployments: ContainerService, its repository and the loop of *)
(* ContainerWorker.  Neither a version nor a lock guards a row: a request  *)
(* and the worker each write back the row they read.  Instances are        *)
(* launched and terminated by InstanceService, one step each.              *)
(***************************************************************************)
EXTENDS Integers, FiniteSets, FiniteSetsExt

CONSTANTS Dep, Box, Client, NoDep, NoBox,
          Replicas,    \* replica counts in requests
          MaxFaults    \* bound: failed calls, restarts and lost instances

VARIABLES
  dep,      \* deployments
  link,     \* deployment_containers
  box,      \* running instances: the deployment each was launched for
  dreq,     \* requests between their read and their write
  loop,     \* the tick of the worker
  faults, lost  \* history: failures; instances lost by them

vars == <<dep, link, box, dreq, loop, faults, lost>>

Deployment == [st : {"none", "SCALING", "READY", "DELETING", "deleted"}, replicas : Nat, count : Nat]
NoRow  == [st |-> "none", replicas |-> 0, count |-> 0]
NoReq  == [op |-> "none", d |-> NoDep, row |-> NoRow]
Idle   == [pc |-> "idle", todo |-> {}, rows |-> [d \in Dep |-> NoRow], cur |-> NoDep,
           ids |-> {}, drop |-> {}, need |-> 0, new |-> NoBox]

(* Rows, links, requests and the worker's tick are well typed. *)
TypeOK ==
  /\ dep \in [Dep -> Deployment] /\ link \in [Dep -> SUBSET Box] /\ box \in [Box -> Dep \cup {NoDep}]
  /\ \A c \in Client : dreq[c].row \in Deployment
  /\ loop.cur \in Dep \cup {NoDep} /\ loop.ids \subseteq Box /\ loop.need \in Nat

Init ==
  /\ dep = [d \in Dep |-> NoRow] /\ link = [d \in Dep |-> {}] /\ box = [b \in Box |-> NoDep]
  /\ dreq = [c \in Client |-> NoReq] /\ loop = Idle /\ faults = 0 /\ lost = {}

Fault   == faults < MaxFaults /\ faults' = faults + 1
NoFault == UNCHANGED faults

-----------------------------------------------------------------------------
(* PostgresContainerRepository *)

GetDeploymentByID(d) == dep[d]
ListAllDeployments   == {d \in Dep : dep[d].st \notin {"none", "deleted"}}
UpdateDeployment(d, r) == dep' = [dep EXCEPT ![d] = IF d \in ListAllDeployments THEN r ELSE @]
AddContainer(d, b)     == link' = [link EXCEPT ![d] = @ \cup {b}]
RemoveContainer(d, b)  == link' = [link EXCEPT ![d] = @ \ {b}]
DeleteRow(d) == /\ dep' = [dep EXCEPT ![d] = [NoRow EXCEPT !.st = "deleted"]]
                /\ link' = [link EXCEPT ![d] = {}]

(* InstanceService.TerminateInstance; the links go with the row. *)
Terminate(b) == /\ box' = [box EXCEPT ![b] = NoDep]
                /\ link' = [d \in Dep |-> link[d] \ {b}]
                /\ lost' = lost \ {b}

-----------------------------------------------------------------------------
(* ContainerService *)

CreateDeployment(d, n) ==
  /\ dep[d].st = "none"
  /\ dep' = [dep EXCEPT ![d] = [st |-> "SCALING", replicas |-> n, count |-> 0]]
  /\ UNCHANGED <<link, box, dreq, loop, faults, lost>>

Get(c, d) ==
  /\ dreq[c].op = "none" /\ d \in ListAllDeployments
  /\ dreq' = [dreq EXCEPT ![c] = [op |-> "read", d |-> d, row |-> GetDeploymentByID(d)]]
  /\ UNCHANGED <<dep, link, box, loop, faults, lost>>

ScaleDeployment(c, n) ==
  /\ dreq[c].op = "read"
  /\ UpdateDeployment(dreq[c].d, [dreq[c].row EXCEPT !.replicas = n, !.st = "SCALING"])
  /\ dreq' = [dreq EXCEPT ![c] = NoReq]
  /\ UNCHANGED <<link, box, loop, faults, lost>>

DeleteDeployment(c) ==
  /\ dreq[c].op = "read"
  /\ UpdateDeployment(dreq[c].d, [dreq[c].row EXCEPT !.st = "DELETING"])
  /\ dreq' = [dreq EXCEPT ![c] = NoReq]
  /\ UNCHANGED <<link, box, loop, faults, lost>>

(* An instance of a deployment is terminated by its user. *)
InstanceGone(b) ==
  /\ box[b] # NoDep
  /\ Fault
  /\ Terminate(b)
  /\ UNCHANGED <<dep, dreq, loop>>

-----------------------------------------------------------------------------
(* ContainerWorker *)

At(p)   == loop.pc = p
Cur     == loop.rows[loop.cur]
Goto(p) == loop' = [loop EXCEPT !.pc = p]

Reconcile ==
  /\ At("idle")
  /\ loop' = [Idle EXCEPT !.pc = "next", !.todo = ListAllDeployments, !.rows = dep]
  /\ UNCHANGED <<dep, link, box, dreq, faults, lost>>

(* GetContainers, whose failure ends the work on this deployment. *)
GetContainers ==
  /\ At("next")
  /\ \/ loop.todo = {} /\ loop' = Idle /\ NoFault
     \/ \E d \in loop.todo :
          \/ /\ NoFault
             /\ loop' = [loop EXCEPT !.pc = "plan", !.todo = @ \ {d}, !.cur = d, !.ids = link[d]]
          \/ Fault /\ loop' = [loop EXCEPT !.todo = @ \ {d}]
  /\ UNCHANGED <<dep, link, box, dreq, lost>>

(* Faulty variant: no branch for too many containers. *)
PlanUpOnly ==
  /\ At("plan")
  /\ LET n == Cardinality(loop.ids) IN
       \/ /\ Cur.st = "DELETING" /\ n = 0
          /\ DeleteRow(loop.cur) /\ Goto("next")
       \/ /\ Cur.st = "DELETING" /\ n > 0
          /\ loop' = [loop EXCEPT !.pc = "drop", !.drop = loop.ids] /\ UNCHANGED <<dep, link>>
       \/ /\ Cur.st # "DELETING"
          /\ loop' = [loop EXCEPT !.pc = "launch", !.need = Cur.replicas - n] /\ UNCHANGED <<dep, link>>
  /\ UNCHANGED <<box, dreq, faults, lost>>

(* The branches of reconcileDeployment. *)
Plan ==
  /\ At("plan")
  /\ LET n == Cardinality(loop.ids) IN
       \/ /\ Cur.st = "DELETING" /\ n = 0
          /\ DeleteRow(loop.cur) /\ Goto("next")
       \/ /\ Cur.st = "DELETING" /\ n > 0
          /\ loop' = [loop EXCEPT !.pc = "drop", !.drop = loop.ids] /\ UNCHANGED <<dep, link>>
       \/ /\ Cur.st # "DELETING" /\ n <= Cur.replicas
          /\ loop' = [loop EXCEPT !.pc = "launch", !.need = Cur.replicas - n] /\ UNCHANGED <<dep, link>>
       \/ /\ Cur.st # "DELETING" /\ n > Cur.replicas
          /\ \E S \in kSubset(n - Cur.replicas, loop.ids) : loop' = [loop EXCEPT !.pc = "drop", !.drop = S]
          /\ UNCHANGED <<dep, link>>
  /\ UNCHANGED <<box, dreq, faults, lost>>

(* launchContainer: a failure ends the loop over the missing containers. *)
Free == {b \in Box : box[b] = NoDep /\ b \notin loop.ids}

LaunchContainer ==
  /\ At("launch")
  /\ \/ loop.need <= 0 /\ Goto("status") /\ NoFault /\ UNCHANGED box
     \/ /\ loop.need > 0 /\ Free # {} /\ NoFault
        /\ LET b == CHOOSE b \in Free : TRUE IN
             /\ box' = [box EXCEPT ![b] = loop.cur]
             /\ loop' = [loop EXCEPT !.pc = "link", !.new = b]
     \/ loop.need > 0 /\ Fault /\ Goto("status") /\ UNCHANGED box
  /\ UNCHANGED <<dep, link, dreq, lost>>

(* The INSERT needs both rows; when it fails the instance is terminated,    *)
(* and what comes of that is ignored.                                       *)
LinkContainer ==
  /\ At("link")
  /\ LET b == loop.new  ok == loop.cur \in ListAllDeployments /\ box[b] # NoDep IN
       \/ /\ ok /\ NoFault
          /\ AddContainer(loop.cur, b)
          /\ loop' = [loop EXCEPT !.pc = "launch", !.need = @ - 1, !.new = NoBox]
          /\ UNCHANGED <<box, lost>>
       \/ /\ \/ ~ok /\ NoFault
             \/ ok /\ Fault
          /\ Goto("undo") /\ UNCHANGED <<link, box, lost>>
  /\ UNCHANGED <<dep, dreq>>

(* Faulty variant: the instance is left. *)
UndoNothing ==
  /\ At("undo") /\ NoFault
  /\ loop' = [loop EXCEPT !.pc = "status", !.new = NoBox]
  /\ UNCHANGED <<dep, link, box, dreq, lost>>

(* It may fail too, which is not counted: a failure or the loss of the      *)
(* instance came before.                                                    *)
UndoLaunch ==
  /\ At("undo") /\ NoFault
  /\ \/ Terminate(loop.new)
     \/ lost' = lost \cup {b \in {loop.new} : box[b] # NoDep} /\ UNCHANGED <<box, link>>
  /\ loop' = [loop EXCEPT !.pc = "status", !.new = NoBox]
  /\ UNCHANGED <<dep, dreq>>

(* terminateContainer: an error ends the loop unless the deployment is      *)
(* DELETING.                                                                *)
AfterDrop(fails) == IF Cur.st # "DELETING" /\ fails THEN {} ELSE loop.drop

UnlinkContainer ==
  /\ At("drop")
  /\ \/ /\ loop.drop = {} /\ NoFault
        /\ Goto(IF Cur.st = "DELETING" THEN "next" ELSE "status")
        /\ UNCHANGED link
     \/ \E b \in loop.drop :
          \/ /\ NoFault /\ RemoveContainer(loop.cur, b)
             /\ loop' = [loop EXCEPT !.pc = "terminate", !.drop = @ \ {b}, !.new = b]
          \/ /\ Fault /\ UNCHANGED link
             /\ loop' = [loop EXCEPT !.drop = AfterDrop(TRUE) \ {b}]
  /\ UNCHANGED <<dep, box, dreq, lost>>

(* It also fails when the instance has gone meanwhile. *)
TerminateContainer ==
  /\ At("terminate")
  /\ LET b == loop.new IN
       \/ /\ NoFault /\ Terminate(b)
          /\ loop' = [loop EXCEPT !.pc = "drop", !.drop = AfterDrop(box[b] = NoDep), !.new = NoBox]
       \/ /\ Fault /\ box[b] # NoDep
          /\ loop' = [loop EXCEPT !.pc = "drop", !.drop = AfterDrop(TRUE), !.new = NoBox]
          /\ lost' = lost \cup {b} /\ UNCHANGED <<box, link>>
  /\ UNCHANGED <<dep, dreq>>

(* The status is that of the list read before the changes. *)
UpdateStatus ==
  /\ At("status")
  /\ LET n == Cardinality(loop.ids)
         st == IF n = Cur.replicas THEN "READY" ELSE "SCALING"
     IN \/ NoFault /\ IF Cur.st # st \/ Cur.count # n
                      THEN UpdateDeployment(loop.cur, [Cur EXCEPT !.st = st, !.count = n])
                      ELSE UNCHANGED dep
        \/ Fault /\ UNCHANGED dep
  /\ Goto("next")
  /\ UNCHANGED <<link, box, dreq, lost>>

Restart ==
  /\ ~At("idle")
  /\ Fault
  /\ lost' = lost \cup {b \in Box : b = loop.new /\ box[b] # NoDep /\ b \notin UNION {link[d] : d \in Dep}}
  /\ loop' = Idle
  /\ UNCHANGED <<dep, link, box, dreq>>

-----------------------------------------------------------------------------
ClientStep == \/ \E d \in Dep, n \in Replicas : CreateDeployment(d, n)
              \/ \E c \in Client, d \in Dep : Get(c, d)
              \/ \E c \in Client, n \in Replicas : ScaleDeployment(c, n)
              \/ \E c \in Client : DeleteDeployment(c)
              \/ \E b \in Box : InstanceGone(b)
WorkerStep == \/ Reconcile \/ GetContainers \/ Plan \/ LaunchContainer \/ LinkContainer \/ UndoLaunch
              \/ UnlinkContainer \/ TerminateContainer \/ UpdateStatus

Next == ClientStep \/ WorkerStep \/ Restart
Spec == Init /\ [][Next]_vars /\ WF_vars(WorkerStep)

-----------------------------------------------------------------------------
(* Every instance of a deployment is linked to it, is being linked or       *)
(* terminated, or was lost by a failed call: no interleaving of requests    *)
(* with the worker makes another one escape.                                *)
NoStrayBox == \A b \in Box : box[b] # NoDep => b \in link[box[b]] \/ b = loop.new \/ b \in lost

(* "ensures the current count of running instances matches the desired      *)
(* replicas": a deployment that is left alone gets its number of instances, *)
(* the count in the row and READY, and one left DELETING gets deleted, also *)
(* when calls fail and the process restarts.                                *)
Alone(d) == \A c \in Client : dreq[c].d # d
Settles == \A d \in Dep :
  /\ (<>[](Alone(d) /\ dep[d].st \in {"SCALING", "READY"}))
       => <>[](/\ dep[d].st = "READY" /\ dep[d].count = dep[d].replicas
               /\ Cardinality(link[d]) = dep[d].replicas)
  /\ ~<>[](dep[d].st = "DELETING")
=============================================================================
