----------------------------- MODULE AutoScaling -----------------------------
(***************************************************************************)
(* Scaling groups: AutoScalingService, AutoScalingRepo and the tick of     *)
(* AutoScalingWorker.  Instances are launched and terminated by            *)
(* InstanceService, here one step each that succeeds or fails.             *)
(*                                                                         *)
(* UpdateGroup is guarded by a version.  A worker writes a group that has  *)
(* instances in every tick (current_count is compared but never stored),   *)
(* so versions grow without bound; what counts is only whether the copy of *)
(* a row that a request or a worker holds still has the row's version.     *)
(* That is the field fresh of the copy.                                    *)
(***************************************************************************)
EXTENDS Integers, FiniteSets, FiniteSetsExt

CONSTANTS Group, Inst, Worker, Client,
          NoGroup, NoInst,
          Balanced,         \* the groups with a load balancer
          Sizes,            \* values of min, max and desired in requests
          HardLimit,        \* domain.MaxInstancesHardLimit
          GroupLimit,       \* domain.MaxScalingGroupsPerVPC
          OutStep, InStep,  \* the steps of a policy
          MaxFailureCount,  \* failures before the backoff
          MaxFaults         \* bound: failed calls, crashes, terminations by users

ASSUME NullIds   == NoGroup \notin Group /\ NoInst \notin Inst
ASSUME Actors    == Worker \cap Client = {}
ASSUME IdsFinite == IsFiniteSet(Inst)      \* UUIDs
ASSUME SizesType == Sizes \subseteq Nat /\ OutStep \in Nat /\ InStep \in Nat

VARIABLES
  grp,      \* scaling_groups
  members,  \* scaling_group_instances
  pol,      \* scaling_policies: at most one of each group
  inst,     \* running instances: the group each was launched for
  target,   \* instances registered with the load balancer of their group
  held,     \* the copies of rows in requests and workers
  req,      \* API requests in progress
  wk,       \* the tick of each worker
  faults, leaked, streak  \* history: failures; lost instances; failed launches in a row

tables == <<grp, members, pol>>
vars == <<grp, members, pol, inst, target, held, req, wk, faults, leaked, streak>>

Holder == Worker \cup Client
Stored == [st : {"none", "ACTIVE", "DELETING", "deleted"}, min : Sizes \cup {0},
           max : Sizes \cup {0}, desired : Nat]
NoRow  == [st |-> "none", min |-> 0, max |-> 0, desired |-> 0]

(* What ListAllGroups and GetGroupByID return: failure_count is not read. *)
Copy(g) == [st |-> grp[g].st, min |-> grp[g].min, max |-> grp[g].max,
            desired |-> grp[g].desired, failures |-> 0, fresh |-> TRUE]
NoCopy  == [st |-> "none", min |-> 0, max |-> 0, desired |-> 0, failures |-> 0, fresh |-> FALSE]
Row(r)  == [st |-> r.st, min |-> r.min, max |-> r.max, desired |-> r.desired]

Exists(g) == grp[g].st \in {"ACTIVE", "DELETING"}
NoReq     == [op |-> "none", g |-> NoGroup, min |-> 0, max |-> 0, desired |-> 0]
IdleTick  == [pc |-> "idle", todo |-> {}, cur |-> NoGroup, need |-> 0, drop |-> {}, new |-> NoInst,
              mem |-> [g \in Group |-> {}], pols |-> [g \in Group |-> "none"]]

(* Groups, copies and ticks are well typed, and rows satisfy the CHECKs. *)
TypeOK ==
  /\ grp \in [Group -> Stored]
  /\ \A g \in Group : grp[g].min <= grp[g].desired /\ grp[g].desired <= grp[g].max
  /\ members \in [Group -> SUBSET Inst] /\ target \subseteq Inst
  /\ pol \in [Group -> {"none", "ready", "cooling"}]
  /\ inst \in [Inst -> Group \cup {NoGroup}]
  /\ \A x \in Holder, g \in Group : Row(held[x][g]) \in Stored
  /\ \A w \in Worker : wk[w].cur \in Group \cup {NoGroup} /\ wk[w].mem \in [Group -> SUBSET Inst]

Init ==
  /\ grp = [g \in Group |-> NoRow]
  /\ members = [g \in Group |-> {}] /\ pol = [g \in Group |-> "none"]
  /\ inst = [i \in Inst |-> NoGroup] /\ target = {}
  /\ held = [x \in Holder |-> [g \in Group |-> NoCopy]]
  /\ req = [c \in Client |-> NoReq]
  /\ wk = [w \in Worker |-> IdleTick]
  /\ faults = 0 /\ leaked = {} /\ streak = [g \in Group |-> 0]

-----------------------------------------------------------------------------
Fault   == faults < MaxFaults /\ faults' = faults + 1
NoFault == UNCHANGED faults

(* Faulty variant of UpdateGroup: no condition on the version. *)
UpdateGroupBlind(x, g, r, kept) ==
  IF Exists(g) /\ r.min <= r.desired /\ r.desired <= r.max
  THEN /\ grp' = [grp EXCEPT ![g] = Row(r)]
       /\ held' = [y \in Holder |-> [held[y] EXCEPT ![g] =
                     IF y = x THEN kept ELSE [@ EXCEPT !.fresh = FALSE]]]
  ELSE UNCHANGED grp /\ held' = [held EXCEPT ![x][g] = kept]

(* AutoScalingRepo.UpdateGroup with x's copy r: it needs the row's version  *)
(* and the CHECK constraints.  x keeps a copy, or forgets it, in any case.  *)
UpdateGroup(x, g, r, kept) ==
  IF r.fresh /\ r.min <= r.desired /\ r.desired <= r.max
  THEN /\ grp' = [grp EXCEPT ![g] = Row(r)]
       /\ held' = [y \in Holder |-> [held[y] EXCEPT ![g] =
                     IF y = x THEN kept ELSE [@ EXCEPT !.fresh = FALSE]]]
  ELSE UNCHANGED grp /\ held' = [held EXCEPT ![x][g] = kept]

(* DELETE of the group; membership and policies go with it. *)
DeleteRow(g) ==
  /\ grp' = [grp EXCEPT ![g] = IF Exists(g) THEN [NoRow EXCEPT !.st = "deleted"] ELSE @]
  /\ members' = [members EXCEPT ![g] = {}]
  /\ pol' = [pol EXCEPT ![g] = "none"]
  /\ held' = [y \in Holder |-> [held[y] EXCEPT ![g].fresh = FALSE]]

(* DELETE of an instance; its rows in the link tables go with it. *)
DeleteInst(i) ==
  /\ inst' = [inst EXCEPT ![i] = NoGroup]
  /\ members' = [g \in Group |-> members[g] \ {i}]
  /\ target' = target \ {i}
  /\ leaked' = leaked \ {i}

-----------------------------------------------------------------------------
(* AutoScalingService, and the users of the instances. *)

Valid(mn, mx, d) == mx <= HardLimit /\ 0 <= mn /\ mn <= d /\ d <= mx
CountGroupsByVPC == Cardinality({g \in Group : Exists(g)})

(* A group stands for the idempotency key it is created with, used once. *)
GetGroupByIdempotencyKey(g) == grp[g].st # "none"

(* CreateGroup: validation and the limit, then the INSERT. *)
CreateCheck(c) ==
  /\ req[c].op = "none"
  /\ CountGroupsByVPC < GroupLimit
  /\ \E g \in Group, mn \in Sizes \cup {0}, mx \in Sizes, d \in Sizes :
       /\ ~GetGroupByIdempotencyKey(g)
       /\ Valid(mn, mx, d)
       /\ req' = [req EXCEPT ![c] = [op |-> "create", g |-> g, min |-> mn, max |-> mx, desired |-> d]]
  /\ UNCHANGED <<tables, inst, target, held, wk, faults, leaked, streak>>

CreateInsert(c) ==
  /\ req[c].op = "create"
  /\ LET r == req[c] IN
       grp' = [grp EXCEPT ![r.g] = IF @.st = "none"
                 THEN [st |-> "ACTIVE", min |-> r.min, max |-> r.max, desired |-> r.desired]
                 ELSE @]
  /\ req' = [req EXCEPT ![c] = NoReq]
  /\ UNCHANGED <<members, pol, inst, target, held, wk, faults, leaked, streak>>

(* DeleteGroup and SetDesiredCapacity read the row first. *)
Get(c) ==
  /\ req[c].op = "none"
  /\ \E g \in Group :
       /\ Exists(g)
       /\ held' = [held EXCEPT ![c][g] = Copy(g)]
       /\ \/ req' = [req EXCEPT ![c] = [NoReq EXCEPT !.op = "delete", !.g = g]]
          \/ \E d \in Sizes : /\ grp[g].min <= d /\ d <= grp[g].max
                              /\ req' = [req EXCEPT ![c] = [NoReq EXCEPT !.op = "set", !.g = g, !.desired = d]]
  /\ UNCHANGED <<tables, inst, target, wk, faults, leaked, streak>>

DeleteGroup(c) ==
  /\ req[c].op = "delete"
  /\ LET g == req[c].g IN
       UpdateGroup(c, g, [held[c][g] EXCEPT !.st = "DELETING", !.min = 0, !.desired = 0], NoCopy)
  /\ req' = [req EXCEPT ![c] = NoReq]
  /\ UNCHANGED <<members, pol, inst, target, wk, faults, leaked, streak>>

(* Faulty variant: the row is written without its constraints. *)
SetUnchecked(c) ==
  /\ req[c].op = "set"
  /\ grp' = [grp EXCEPT ![req[c].g].desired = req[c].desired]
  /\ req' = [req EXCEPT ![c] = NoReq]
  /\ UNCHANGED <<members, pol, inst, target, held, wk, faults, leaked, streak>>

SetDesiredCapacity(c) ==
  /\ req[c].op = "set"
  /\ LET g == req[c].g IN UpdateGroup(c, g, [held[c][g] EXCEPT !.desired = req[c].desired], NoCopy)
  /\ req' = [req EXCEPT ![c] = NoReq]
  /\ UNCHANGED <<members, pol, inst, target, wk, faults, leaked, streak>>

CreatePolicy(g) ==
  /\ Exists(g) /\ pol[g] = "none"
  /\ pol' = [pol EXCEPT ![g] = "ready"]
  /\ UNCHANGED <<grp, members, inst, target, held, req, wk, faults, leaked, streak>>

DeletePolicy(g) ==
  /\ pol[g] # "none"
  /\ pol' = [pol EXCEPT ![g] = "none"]
  /\ UNCHANGED <<grp, members, inst, target, held, req, wk, faults, leaked, streak>>

(* A user terminates an instance of a group. *)
UserTerminates(i) ==
  /\ inst[i] # NoGroup
  /\ Fault
  /\ DeleteInst(i)
  /\ UNCHANGED <<grp, pol, held, req, wk, streak>>

(* cooldown_sec passes, for the row and for the copies of it. *)
CooldownOver(g) ==
  /\ pol[g] = "cooling"
  /\ pol' = [pol EXCEPT ![g] = "ready"]
  /\ wk' = [w \in Worker |-> [wk[w] EXCEPT !.pols[g] = IF @ = "cooling" THEN "ready" ELSE @]]
  /\ UNCHANGED <<grp, members, inst, target, held, req, faults, leaked, streak>>

(* failureBackoffMinutes pass. *)
BackoffOver(g) ==
  /\ streak[g] >= MaxFailureCount
  /\ streak' = [streak EXCEPT ![g] = 0]
  /\ UNCHANGED <<tables, inst, target, held, req, wk, faults, leaked>>

-----------------------------------------------------------------------------
(* AutoScalingWorker.Evaluate *)

At(w, p)       == wk[w].pc = p
Goto(w, p)     == wk' = [wk EXCEPT ![w].pc = p]
GroupOf(w)     == held[w][wk[w].cur]          \* the worker's *domain.ScalingGroup
Current(w)     == Cardinality(wk[w].mem[wk[w].cur])

(* The three SELECTs of a tick.  A failure of a later one ends the tick. *)
ListAllGroups(w) ==
  /\ At(w, "idle")
  /\ held' = [held EXCEPT ![w] = [g \in Group |-> IF Exists(g) THEN Copy(g) ELSE NoCopy]]
  /\ wk' = [wk EXCEPT ![w].pc = "members", ![w].todo = {g \in Group : Exists(g)}]
  /\ UNCHANGED <<tables, inst, target, req, faults, leaked, streak>>

GetAllScalingGroupInstances(w) ==
  /\ At(w, "members")
  /\ \/ NoFault /\ wk' = [wk EXCEPT ![w].pc = "policies",
                          ![w].mem = [g \in Group |-> IF g \in wk[w].todo THEN members[g] ELSE {}]]
     \/ Fault /\ wk' = [wk EXCEPT ![w] = IdleTick]
  /\ UNCHANGED <<tables, inst, target, held, req, leaked, streak>>

GetAllPolicies(w) ==
  /\ At(w, "policies")
  /\ \/ NoFault /\ wk' = [wk EXCEPT ![w].pc = "next",
                          ![w].pols = [g \in Group |-> IF g \in wk[w].todo THEN pol[g] ELSE "none"]]
     \/ Fault /\ wk' = [wk EXCEPT ![w] = IdleTick]
  /\ UNCHANGED <<tables, inst, target, held, req, leaked, streak>>

(* The loop over the groups. *)
NextGroup(w) ==
  /\ At(w, "next")
  /\ \/ wk[w].todo = {} /\ wk' = [wk EXCEPT ![w] = IdleTick]
     \/ \E g \in wk[w].todo :
          wk' = [wk EXCEPT ![w].todo = @ \ {g}, ![w].cur = g, ![w].drop = wk[w].mem[g],
                   ![w].pc = IF held[w][g].st = "DELETING" THEN "cleanup"
                             ELSE IF wk[w].mem[g] # {} THEN "sync" ELSE "reconcile"]
  /\ UNCHANGED <<tables, inst, target, held, req, faults, leaked, streak>>

(* An UpdateGroup of the worker: conflicts and failures are ignored. *)
Save(w, r) ==
  \/ NoFault /\ UpdateGroup(w, wk[w].cur, r, r)
  \/ Fault /\ UNCHANGED grp /\ held' = [held EXCEPT ![w][wk[w].cur] = r]

(* The count differs from current_count, which is 0: the row is rewritten. *)
SyncCount(w) ==
  /\ At(w, "sync")
  /\ Save(w, GroupOf(w))
  /\ Goto(w, "reconcile")
  /\ UNCHANGED <<members, pol, inst, target, req, leaked, streak>>

(* shouldSkipDueToFailures: failure_count is not stored, and this copy of   *)
(* it is never more than one.                                               *)
Skip(w) == GroupOf(w).failures >= MaxFailureCount

(* Faulty variant: one instance too many. *)
ReconcileOneMore(w) ==
  /\ At(w, "reconcile")
  /\ IF Current(w) < GroupOf(w).desired
     THEN wk' = [wk EXCEPT ![w].pc = "launch", ![w].need = GroupOf(w).desired - Current(w) + 1]
     ELSE Goto(w, "evaluate")
  /\ UNCHANGED <<tables, inst, target, held, req, faults, leaked, streak>>

(* Faulty variant: excess instances stay. *)
ReconcileUpOnly(w) ==
  /\ At(w, "reconcile")
  /\ IF Current(w) < GroupOf(w).desired
     THEN wk' = [wk EXCEPT ![w].pc = "launch", ![w].need = GroupOf(w).desired - Current(w)]
     ELSE Goto(w, "evaluate")
  /\ UNCHANGED <<tables, inst, target, held, req, faults, leaked, streak>>

(* reconcileInstances: how many to launch, or which to remove.  The CHECKs  *)
(* keep desired_count between the bounds, so it is not clamped again.       *)
ReconcileInstances(w) ==
  /\ At(w, "reconcile")
  /\ LET d == GroupOf(w).desired IN
       \/ /\ Current(w) < d /\ ~Skip(w)
          /\ wk' = [wk EXCEPT ![w].pc = "launch", ![w].need = d - Current(w)]
       \/ /\ Current(w) > d
          /\ \E S \in kSubset(Current(w) - d, wk[w].mem[wk[w].cur]) :
               wk' = [wk EXCEPT ![w].pc = "shrink", ![w].drop = S]
       \/ /\ Current(w) = d \/ (Current(w) < d /\ Skip(w))
          /\ Goto(w, "evaluate")
  /\ UNCHANGED <<tables, inst, target, held, req, faults, leaked, streak>>

(* scaleOut, step by step; an id that is no longer in use stands for a new one. *)
Free == {i \in Inst : /\ inst[i] = NoGroup
                      /\ \A w \in Worker : wk[w].new # i /\ \A g \in Group : i \notin wk[w].mem[g]}

LaunchInstance(w) ==
  /\ At(w, "launch")
  /\ \/ /\ wk[w].need = 0
        /\ Goto(w, "evaluate")
        /\ UNCHANGED <<inst, faults, streak>>
     \/ /\ wk[w].need > 0 /\ Free # {} /\ NoFault
        /\ LET i == CHOOSE i \in Free : TRUE IN
             /\ inst' = [inst EXCEPT ![i] = wk[w].cur]
             /\ wk' = [wk EXCEPT ![w].pc = "join", ![w].new = i]
        /\ UNCHANGED streak
     \/ /\ wk[w].need > 0 /\ Fault
        /\ Goto(w, "record")
        /\ streak' = [streak EXCEPT ![wk[w].cur] = @ + 1]
        /\ UNCHANGED inst
  /\ UNCHANGED <<tables, target, held, req, leaked>>

AddInstanceToGroup(w) ==
  /\ At(w, "join")
  /\ LET i == wk[w].new  g == wk[w].cur IN
       \/ /\ Exists(g) /\ inst[i] # NoGroup /\ NoFault
          /\ members' = [members EXCEPT ![g] = @ \cup {i}]
          /\ Goto(w, "target")
          /\ UNCHANGED <<leaked, streak>>
       \/ /\ \/ ~(Exists(g) /\ inst[i] # NoGroup) /\ NoFault
             \/ Fault
          /\ leaked' = leaked \cup {j \in {i} : inst[j] # NoGroup}
          /\ streak' = [streak EXCEPT ![g] = @ + 1]
          /\ wk' = [wk EXCEPT ![w].pc = "record", ![w].new = NoInst]
          /\ UNCHANGED members
  /\ UNCHANGED <<grp, pol, inst, target, held, req>>

(* AddTarget; its failure is not the scale-out's. *)
AddTarget(w) ==
  /\ At(w, "target")
  /\ LET i == wk[w].new IN
       \/ NoFault /\ target' = target \cup {j \in {i} : wk[w].cur \in Balanced /\ inst[j] # NoGroup}
       \/ Fault /\ wk[w].cur \in Balanced /\ UNCHANGED target
  /\ streak' = [streak EXCEPT ![wk[w].cur] = 0]
  /\ wk' = [wk EXCEPT ![w].pc = "launch", ![w].need = @ - 1, ![w].new = NoInst]
  /\ UNCHANGED <<tables, inst, held, req, leaked>>

(* recordFailure; resetFailures has nothing to do, a copy's count is 0 in    *)
(* the loop.                                                                *)
RecordFailure(w) ==
  /\ At(w, "record")
  /\ Save(w, [GroupOf(w) EXCEPT !.failures = @ + 1])
  /\ Goto(w, "evaluate")
  /\ UNCHANGED <<members, pol, inst, target, req, leaked, streak>>

(* Faulty variant: the row goes after the loop whatever came of it. *)
CleanupAtOnce(w) ==
  /\ At(w, "cleanup") /\ wk[w].drop = {}
  /\ NoFault /\ DeleteRow(wk[w].cur)
  /\ Goto(w, "next")
  /\ UNCHANGED <<inst, target, req, leaked, streak>>

(* Faulty variant: the row is never deleted. *)
CleanupKeepsRow(w) ==
  /\ At(w, "cleanup") /\ wk[w].drop = {}
  /\ NoFault /\ Goto(w, "next")
  /\ UNCHANGED <<tables, held, inst, target, req, leaked, streak>>

(* cleanupGroup: the row goes when the snapshot had no instances. *)
CleanupGroup(w) ==
  /\ At(w, "cleanup") /\ wk[w].drop = {}
  /\ \/ wk[w].mem[wk[w].cur] = {} /\ NoFault /\ DeleteRow(wk[w].cur)
     \/ wk[w].mem[wk[w].cur] = {} /\ Fault /\ UNCHANGED <<tables, held>>
     \/ wk[w].mem[wk[w].cur] # {} /\ NoFault /\ UNCHANGED <<tables, held>>
  /\ Goto(w, "next")
  /\ UNCHANGED <<inst, target, req, leaked, streak>>

ShrinkDone(w) ==
  /\ At(w, "shrink") /\ wk[w].drop = {}
  /\ Goto(w, "evaluate")
  /\ UNCHANGED <<tables, inst, target, held, req, faults, leaked, streak>>

(* scaleIn, called by cleanupGroup and reconcileInstances: RemoveTarget,     *)
(* whose failure is ignored, then the membership, then the instance.        *)
RemoveTarget(w) ==
  /\ wk[w].pc \in {"cleanup", "shrink"}
  /\ \E i \in wk[w].drop :
       /\ \/ NoFault /\ target' = target \ {j \in {i} : wk[w].cur \in Balanced}
          \/ Fault /\ wk[w].cur \in Balanced /\ UNCHANGED target
       /\ wk' = [wk EXCEPT ![w].pc = IF @ = "cleanup" THEN "unlinkAll" ELSE "unlink",
                           ![w].drop = @ \ {i}, ![w].new = i]
  /\ UNCHANGED <<tables, inst, held, req, leaked, streak>>

(* A failure is the end of the loop in reconcileInstances only. *)
RemoveInstanceFromGroup(w) ==
  /\ wk[w].pc \in {"unlink", "unlinkAll"}
  /\ LET i == wk[w].new  all == At(w, "unlinkAll") IN
       \/ /\ NoFault
          /\ members' = [members EXCEPT ![wk[w].cur] = @ \ {i}]
          /\ Goto(w, IF all THEN "stopAll" ELSE "stop")
       \/ /\ Fault
          /\ wk' = [wk EXCEPT ![w].pc = IF all THEN "cleanup" ELSE "evaluate",
                              ![w].drop = IF all THEN @ ELSE {}, ![w].new = NoInst]
          /\ UNCHANGED members
  /\ UNCHANGED <<grp, pol, inst, target, held, req, leaked, streak>>

(* TerminateInstance; its failure is ignored. *)
TerminateInstance(w) ==
  /\ wk[w].pc \in {"stop", "stopAll"}
  /\ LET i == wk[w].new IN
       \/ NoFault /\ DeleteInst(i)
       \/ Fault /\ inst[i] # NoGroup /\ leaked' = leaked \cup {i} /\ UNCHANGED <<inst, members, target>>
  /\ wk' = [wk EXCEPT ![w].pc = IF @ = "stopAll" THEN "cleanup" ELSE "shrink", ![w].new = NoInst]
  /\ UNCHANGED <<grp, pol, held, req, streak>>

(* evaluatePolicies: GetAverageCPU, 0 of no instances, against the target   *)
(* and the buffer below it.  The count is the snapshot's.                   *)
NewDesired(w, cpu) ==
  LET r == GroupOf(w) IN
    IF cpu = "high" THEN Min({Current(w) + OutStep, r.max}) ELSE Max({Current(w) - InStep, r.min})

Triggers(w, cpu) ==
  \/ cpu = "high" /\ Current(w) < GroupOf(w).max /\ Current(w) > 0
  \/ cpu = "low" /\ Current(w) > GroupOf(w).min

EvaluatePolicies(w) ==
  /\ At(w, "evaluate")
  /\ \/ /\ wk[w].pols[wk[w].cur] = "ready"
        /\ \E cpu \in {"low", "high"} :
             /\ Triggers(w, cpu)
             /\ Save(w, [GroupOf(w) EXCEPT !.desired = NewDesired(w, cpu)])
        /\ Goto(w, "stamp")
     \/ NoFault /\ UNCHANGED <<grp, held>> /\ Goto(w, "next")
  /\ UNCHANGED <<members, pol, inst, target, req, leaked, streak>>

UpdatePolicyLastScaled(w) ==
  /\ At(w, "stamp")
  /\ \/ NoFault /\ pol' = [pol EXCEPT ![wk[w].cur] = IF @ = "none" THEN @ ELSE "cooling"]
     \/ Fault /\ UNCHANGED pol
  /\ Goto(w, "next")
  /\ UNCHANGED <<grp, members, inst, target, held, req, leaked, streak>>

(* The process stops and a new one starts; what it held is gone. *)
Restart(w) ==
  /\ ~At(w, "idle")
  /\ Fault
  /\ leaked' = leaked \cup {i \in Inst : i = wk[w].new /\ inst[i] # NoGroup
                                        /\ \A g \in Group : i \notin members[g]}
  /\ wk' = [wk EXCEPT ![w] = IdleTick]
  /\ held' = [held EXCEPT ![w] = [g \in Group |-> NoCopy]]
  /\ UNCHANGED <<tables, inst, target, req, streak>>

-----------------------------------------------------------------------------
ClientStep == \E c \in Client : CreateCheck(c) \/ CreateInsert(c) \/ Get(c)
                                \/ DeleteGroup(c) \/ SetDesiredCapacity(c)
PolicyStep == \E g \in Group : CreatePolicy(g) \/ DeletePolicy(g) \/ CooldownOver(g) \/ BackoffOver(g)
UserStep   == \E i \in Inst : UserTerminates(i)

Evaluate(w) ==
  \/ ListAllGroups(w) \/ GetAllScalingGroupInstances(w) \/ GetAllPolicies(w) \/ NextGroup(w)
  \/ SyncCount(w) \/ ReconcileInstances(w) \/ LaunchInstance(w) \/ AddInstanceToGroup(w)
  \/ AddTarget(w) \/ RecordFailure(w) \/ CleanupGroup(w) \/ ShrinkDone(w) \/ RemoveTarget(w)
  \/ RemoveInstanceFromGroup(w) \/ TerminateInstance(w) \/ EvaluatePolicies(w)
  \/ UpdatePolicyLastScaled(w)

WorkerStep == \E w \in Worker : Evaluate(w) \/ Restart(w)

Next == ClientStep \/ PolicyStep \/ UserStep \/ WorkerStep
Spec == Init /\ [][Next]_vars
FairSpec == Spec /\ \A w \in Worker : WF_vars(Evaluate(w))

-----------------------------------------------------------------------------
InFlight(g) == {wk[w].new : w \in {v \in Worker : wk[v].cur = g /\ wk[v].pc \in {"join", "target"}}}
Running(g)  == {i \in Inst : inst[i] = g}

(* Guide: a group has at most max instances.  With one worker, whatever    *)
(* requests, policies, failures and restarts do meanwhile, the members and *)
(* the instance being added never exceed the group's maximum.              *)
SizeBounded == \A g \in Group : Exists(g) =>
                 Cardinality(members[g] \cup (InFlight(g) \ {NoInst})) <= grp[g].max

(* An instance launched for a group is a member, or on its way in or out,   *)
(* or was lost by a failed call or a restart: without failures the group's *)
(* deletion leaves no instance behind.                                     *)
NoOrphan == \A g \in Group : \A i \in Running(g) :
              i \in members[g] \/ i \in leaked \/ \E w \in Worker : wk[w].new = i

(* A group on its way out stays so: no write of a worker or a request that *)
(* read it earlier makes it ACTIVE again.                                  *)
DeletingIsFinal == [][\A g \in Group : /\ grp[g].st = "DELETING" => grp'[g].st \in {"DELETING", "deleted"}
                                       /\ grp[g].st = "deleted" => grp'[g].st = "deleted"]_vars

(* Cleanup happens: a DELETING group's row is deleted, with its members    *)
(* gone, although steps of the cleanup fail and workers restart.           *)
DeletionCompletes == \A g \in Group : grp[g].st = "DELETING" ~> grp[g].st = "deleted"

(* Reconciliation: an ACTIVE group that is left alone (no policy, no        *)
(* request, no termination from some time on) comes to the desired size.   *)
Quiet(g) == grp[g].st = "ACTIVE" /\ pol[g] = "none" /\ \A c \in Client : req[c].op = "none"
Converges == \A g \in Group :
               (<>[]Quiet(g)) => <>[](Cardinality(members[g]) = grp[g].desired)

(* Guide: "After 5 consecutive failures to launch instances, the worker     *)
(* pauses scale-out attempts for that group": no further attempt fails      *)
(* before the backoff is over.                                             *)
BackoffRespected == \A g \in Group : streak[g] <= MaxFailureCount
=============================================================================
