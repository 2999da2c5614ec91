------------------------------- MODULE Stacks -------------------------------
(***************************************************************************)
(* Infrastructure as code: stackService and its repository.  A goroutine   *)
(* creates the resources of a template and rolls them back when one fails; *)
(* another deletes a stack.  The services that own the resources appear as *)
(* what one call of theirs does.                                           *)
(***************************************************************************)
EXTENDS Integers, FiniteSets, FiniteSetsExt

CONSTANTS Stack, Res,
          Type,        \* Res -> {"VPC", "Volume", "Instance", "Snapshot"}
          Ref,         \* Res -> the resource that VpcID or VolumeID names, or NoRes
          NoRes,
          Templates,   \* sets of resources
          BadTemplate, \* a text that is not YAML
          MaxFaults

VARIABLES
  stack,    \* stacks: status, whether status_reason is set, template
  links,    \* stack_resources
  phys,     \* what the stack's calls have made
  make,     \* the goroutine of CreateStack
  drop,     \* the goroutine of DeleteStack
  faults,
  astray    \* history: resources that a failure or a refusal left behind

vars == <<stack, links, phys, make, drop, faults, astray>>

Status == {"none", "CREATE_IN_PROGRESS", "CREATE_COMPLETE", "CREATE_FAILED", "ROLLBACK_IN_PROGRESS",
           "ROLLBACK_COMPLETE", "ROLLBACK_FAILED", "deleted"}
NoRow  == [st |-> "none", reason |-> FALSE, tmpl |-> BadTemplate]
NoMake == [pc |-> "none", made |-> {}, new |-> NoRes, todo |-> {}]
NoDrop == [pc |-> "none", todo |-> {}]

(* Rows and goroutines are well typed. *)
TypeOK ==
  /\ stack \in [Stack -> [st : Status, reason : BOOLEAN, tmpl : Templates \cup {BadTemplate}]]
  /\ links \in [Stack -> SUBSET Res] /\ phys \in [Stack -> [Res -> {"none", "live", "error"}]]
  /\ make \in [Stack -> [pc : {"none", "parse", "create", "link", "mark", "list", "undo", "clear", "end", "failed"},
                         made : SUBSET Res, new : Res \cup {NoRes}, todo : SUBSET Res]]
  /\ drop \in [Stack -> [pc : {"none", "list", "delete", "row"}, todo : SUBSET Res]]

Init ==
  /\ stack = [s \in Stack |-> NoRow] /\ links = [s \in Stack |-> {}]
  /\ phys = [s \in Stack |-> [r \in Res |-> "none"]]
  /\ make = [s \in Stack |-> NoMake] /\ drop = [s \in Stack |-> NoDrop]
  /\ faults = 0 /\ astray = [s \in Stack |-> {}]

Fault   == faults < MaxFaults /\ faults' = faults + 1
NoFault == UNCHANGED faults

-----------------------------------------------------------------------------
(* stackRepository.  status_reason is NULL until the first Update, and a    *)
(* NULL does not scan into the struct's string: the row cannot be read.     *)
Row(s)     == stack[s].st \notin {"none", "deleted"}
GetByID(s) == Row(s) /\ stack[s].reason
Update(s, st) == stack' = [stack EXCEPT ![s] = IF Row(s) THEN [@ EXCEPT !.st = st, !.reason = TRUE] ELSE @]
AddResource(s, r)  == links' = [links EXCEPT ![s] = @ \cup (IF Row(s) THEN {r} ELSE {})]
ListResources(s)   == links[s]
DeleteResources(s) == links' = [links EXCEPT ![s] = {}]

(* updateStackStatus: a failed write goes unseen. *)
UpdateStackStatus(s, st) ==
  \/ NoFault /\ Update(s, st)
  \/ Fault /\ UNCHANGED stack

(* deletePhysicalResource, whose errors are dropped.  A VPC that an instance *)
(* refers to stays; the snapshots of a volume go with it.                   *)
InUse(s, r) == Type[r] = "VPC" /\ \E i \in Res : Ref[i] = r /\ Type[i] = "Instance" /\ phys[s][i] # "none"
With(r)     == {r} \cup {q \in Res : Type[q] = "Snapshot" /\ Ref[q] = r}
DeletePhysicalResource(s, r) ==
  \/ /\ ~InUse(s, r) /\ NoFault
     /\ phys' = [phys EXCEPT ![s] = [q \in Res |-> IF q \in With(r) THEN "none" ELSE @[q]]]
     /\ UNCHANGED astray
  \/ /\ (InUse(s, r) /\ NoFault) \/ Fault
     /\ astray' = [astray EXCEPT ![s] = @ \cup {r}] /\ UNCHANGED phys

-----------------------------------------------------------------------------
(* CreateStack *)
CreateStack(s, t) ==
  /\ stack[s].st = "none"
  /\ stack' = [stack EXCEPT ![s] = [st |-> "CREATE_IN_PROGRESS", reason |-> FALSE, tmpl |-> t]]
  /\ make' = [make EXCEPT ![s].pc = "parse"]
  /\ UNCHANGED <<links, phys, drop, faults, astray>>

(* processStack: a text that is not YAML ends it. *)
Parse(s) ==
  /\ make[s].pc = "parse"
  /\ IF stack[s].tmpl = BadTemplate
       THEN UpdateStackStatus(s, "CREATE_FAILED") /\ make' = [make EXCEPT ![s] = NoMake]
       ELSE NoFault /\ make' = [make EXCEPT ![s].pc = "create"] /\ UNCHANGED stack
  /\ UNCHANGED <<links, phys, drop, astray>>

Pass == <<"VPC", "Volume", "Instance", "Snapshot">>
PassOf(r)  == CHOOSE p \in DOMAIN Pass : Pass[p] = Type[r]
Left(s)    == stack[s].tmpl \ make[s].made
ThisPass(s) == {r \in Left(s) : \A q \in Left(s) : PassOf(r) <= PassOf(q)}

(* resolveRefs *)
Resolved(s, r) == Ref[r] \in make[s].made

(* createVPC, createVolume, createInstance, createSnapshot: the service's    *)
(* call, which may be refused.  A failed launch leaves the instance in      *)
(* ERROR, in its VPC.                                                       *)
Create(s, r) ==
  /\ make[s].pc = "create" /\ r \in ThisPass(s)
  /\ \/ /\ Type[r] = "Snapshot" => Resolved(s, r)
        /\ phys' = [phys EXCEPT ![s][r] = "live"]
        /\ make' = [make EXCEPT ![s].pc = "link", ![s].new = r]
     \/ /\ \/ UNCHANGED phys
           \/ Type[r] = "Instance" /\ phys' = [phys EXCEPT ![s][r] = "error"]
        /\ make' = [make EXCEPT ![s].pc = "mark"]
  /\ UNCHANGED <<stack, links, drop, faults, astray>>

(* The row of the new resource, whose failure is ignored. *)
LinkResource(s) ==
  /\ make[s].pc = "link"
  /\ LET r == make[s].new IN
       /\ \/ NoFault /\ AddResource(s, r) /\ UNCHANGED astray
          \/ Fault /\ UNCHANGED links /\ astray' = [astray EXCEPT ![s] = @ \cup {r}]
       /\ make' = [make EXCEPT ![s] = [@ EXCEPT !.pc = "create", !.new = NoRes, !.made = @ \cup {r}]]
  /\ UNCHANGED <<stack, phys, drop>>

Complete(s) ==
  /\ make[s].pc = "create" /\ Left(s) = {}
  /\ UpdateStackStatus(s, "CREATE_COMPLETE")
  /\ make' = [make EXCEPT ![s] = NoMake]
  /\ UNCHANGED <<links, phys, drop, astray>>

(* startRollback and rollbackStack.  The rows come in no particular order.   *)
MarkRollback(s) ==
  /\ make[s].pc = "mark"
  /\ UpdateStackStatus(s, "ROLLBACK_IN_PROGRESS")
  /\ make' = [make EXCEPT ![s].pc = "list"]
  /\ UNCHANGED <<links, phys, drop, astray>>

ListRollback(s) ==
  /\ make[s].pc = "list"
  /\ \/ NoFault /\ make' = [make EXCEPT ![s].pc = "undo", ![s].todo = ListResources(s)]
     \/ Fault /\ make' = [make EXCEPT ![s].pc = "failed"]
  /\ UNCHANGED <<stack, links, phys, drop, astray>>

RollbackOne(s, r) ==
  /\ make[s].pc = "undo" /\ r \in make[s].todo
  /\ DeletePhysicalResource(s, r)
  /\ make' = [make EXCEPT ![s].todo = @ \ {r}]
  /\ UNCHANGED <<stack, links, drop>>

(* Faulty variant: the rows go although resources are left. *)
ClearEarly(s) ==
  /\ make[s].pc = "undo"
  /\ DeleteResources(s) /\ NoFault /\ make' = [make EXCEPT ![s].pc = "end"]
  /\ UNCHANGED <<stack, phys, drop, astray>>

ClearResources(s) ==
  /\ make[s].pc = "undo" /\ make[s].todo = {}
  /\ \/ DeleteResources(s) /\ NoFault /\ make' = [make EXCEPT ![s].pc = "end"]
     \/ UNCHANGED links /\ Fault /\ make' = [make EXCEPT ![s].pc = "failed"]
  /\ UNCHANGED <<stack, phys, drop, astray>>

(* Faulty variant: a failed rollback is not told. *)
EndRollbackSilently(s) ==
  /\ make[s].pc \in {"end", "failed"}
  /\ NoFault /\ UNCHANGED stack
  /\ make' = [make EXCEPT ![s] = NoMake]
  /\ UNCHANGED <<links, phys, drop, astray>>

(* startRollback, the status it ends with. *)
EndRollback(s) ==
  /\ make[s].pc \in {"end", "failed"}
  /\ UpdateStackStatus(s, IF make[s].pc = "end" THEN "ROLLBACK_COMPLETE" ELSE "ROLLBACK_FAILED")
  /\ make' = [make EXCEPT ![s] = NoMake]
  /\ UNCHANGED <<links, phys, drop, astray>>

-----------------------------------------------------------------------------
(* DeleteStack, and its goroutine: the list, which is empty when the read     *)
(* fails, its resources, the row.                                            *)
DeleteStack(s) ==
  /\ GetByID(s) /\ drop[s].pc = "none"
  /\ drop' = [drop EXCEPT ![s].pc = "list"]
  /\ UNCHANGED <<stack, links, phys, make, faults, astray>>

DropList(s) ==
  /\ drop[s].pc = "list"
  /\ \/ NoFault /\ drop' = [drop EXCEPT ![s] = [pc |-> "delete", todo |-> ListResources(s)]] /\ UNCHANGED astray
     \/ /\ Fault /\ drop' = [drop EXCEPT ![s] = [pc |-> "delete", todo |-> {}]]
        /\ astray' = [astray EXCEPT ![s] = @ \cup links[s]]
  /\ UNCHANGED <<stack, links, phys, make>>

DropOne(s, r) ==
  /\ drop[s].pc = "delete" /\ r \in drop[s].todo
  /\ DeletePhysicalResource(s, r)
  /\ drop' = [drop EXCEPT ![s].todo = @ \ {r}]
  /\ UNCHANGED <<stack, links, make>>

DropRow(s) ==
  /\ drop[s].pc = "delete" /\ drop[s].todo = {}
  /\ \/ NoFault /\ stack' = [stack EXCEPT ![s].st = "deleted"] /\ DeleteResources(s) /\ UNCHANGED astray
     \/ Fault /\ astray' = [astray EXCEPT ![s] = @ \cup links[s]] /\ UNCHANGED <<stack, links>>
  /\ drop' = [drop EXCEPT ![s] = NoDrop]
  /\ UNCHANGED <<phys, make>>

(* The process ends, and the goroutines with it. *)
Crash ==
  /\ Fault
  /\ astray' = [s \in Stack |-> IF make[s].pc # "none" \/ drop[s].pc # "none" THEN Res ELSE astray[s]]
  /\ make' = [s \in Stack |-> NoMake] /\ drop' = [s \in Stack |-> NoDrop]
  /\ UNCHANGED <<stack, links, phys>>

-----------------------------------------------------------------------------
RollbackStep(s) == \/ MarkRollback(s) \/ ListRollback(s) \/ \E r \in Res : RollbackOne(s, r)
                   \/ ClearResources(s) \/ EndRollback(s)
MakeStep(s) == \/ Parse(s) \/ \E r \in Res : Create(s, r)
               \/ LinkResource(s) \/ Complete(s) \/ RollbackStep(s)
DropStep(s) == DropList(s) \/ (\E r \in Res : DropOne(s, r)) \/ DropRow(s)
ClientStep(s) == DeleteStack(s) \/ \E t \in Templates \cup {BadTemplate} : CreateStack(s, t)

Next == (\E s \in Stack : ClientStep(s) \/ MakeStep(s) \/ DropStep(s)) \/ Crash
Spec == Init /\ [][Next]_vars /\ \A s \in Stack : WF_vars(MakeStep(s)) /\ WF_vars(DropStep(s))

-----------------------------------------------------------------------------
Dropped(s) == drop[s].pc # "none" \/ stack[s].st = "deleted"
Live(s)    == {r \in Res : phys[s][r] # "none"}

(* A resource that a stack has made can be found through it: it is listed,   *)
(* or about to be, or a failure or a refused deletion left it behind, or it  *)
(* is the instance whose launch failed; a stack that is CREATE_COMPLETE has  *)
(* all of its template, until it is being deleted.                           *)
NothingAstray ==
  \A s \in Stack :
    /\ \A r \in Live(s) : r \in links[s] \cup astray[s] \cup {make[s].new} \/ phys[s][r] = "error"
    /\ stack[s].st = "CREATE_COMPLETE" /\ ~Dropped(s) /\ astray[s] = {} =>
         Live(s) = stack[s].tmpl /\ links[s] = stack[s].tmpl

(* processStack and the rollback come to an end, and a deletion too: a stack *)
(* does not stay CREATE_IN_PROGRESS or ROLLBACK_IN_PROGRESS, nor half        *)
(* deleted, unless a failure or a restart gets in the way.                   *)
StacksSettle ==
  \A s \in Stack :
    /\ []<>(faults > 0 \/ stack[s].st \notin {"CREATE_IN_PROGRESS", "ROLLBACK_IN_PROGRESS"})
    /\ []<>(faults > 0 \/ drop[s].pc = "none" \/ stack[s].st = "deleted")

(* A rollback ends only when every resource that was listed has been         *)
(* deleted or refused, and says ROLLBACK_COMPLETE only then; a status never  *)
(* goes back to one before it.                                               *)
Rank == [st \in Status |-> CASE st = "none" -> 0 [] st = "CREATE_IN_PROGRESS" -> 1
                             [] st = "ROLLBACK_IN_PROGRESS" -> 2 [] st = "deleted" -> 4 [] OTHER -> 3]
RollbackStrict ==
  \A s \in Stack :
    /\ Rank[stack[s].st] <= Rank[stack'[s].st]
    /\ stack'[s].st = "ROLLBACK_COMPLETE" /\ stack[s].st # "ROLLBACK_COMPLETE" =>
         Live(s) \subseteq astray[s] \cup {r \in Res : phys[s][r] = "error"}
=============================================================================
