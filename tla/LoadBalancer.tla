---------------------------- MODULE LoadBalancer ----------------------------
(***************************************************************************)
(* The load balancer component: LBService (the API operations), LBRepository*)
(* (the load_balancers and lb_targets tables), LBWorker (the background    *)
(* loop of every API process) and the Docker LBProxyAdapter (one nginx     *)
(* container and one config file per load balancer).                       *)
(*                                                                         *)
(* The API operations and the workers share nothing but the database and   *)
(* the Docker host.  Each database statement and each Docker call is one   *)
(* atomic step; everything between two of them interleaves with the other  *)
(* requests and with the workers of the other API processes.  The order in *)
(* which ListAll returns rows (created_at DESC) is abstracted to any order.*)
(***************************************************************************)
EXTENDS Naturals, FiniteSets

CONSTANTS LB,          \* the ids LBService.Create may draw (uuid.New)
          Instance,    \* compute instances that can become targets
          Vpc, NoVpc,  \* VPCs, and the VpcID of an instance outside any VPC
          VpcOf,       \* the VpcID column of every instance
          Key, NoKey,  \* Idempotency-Key header values, NoKey the empty one
          Worker,      \* one LBWorker per API process
          Client,      \* concurrent API requests
          NoConf,      \* no config file, no nginx
          MaxVersion,  \* bound: no request writes a row at this version
          MaxFaults    \* bound: Docker, database and process failures

ASSUME VpcOfType == VpcOf \in [Instance -> Vpc \cup {NoVpc}]
ASSUME BoundsType == MaxVersion \in Nat /\ MaxFaults \in Nat

VARIABLES
  lb,        \* the load_balancers table, by id
  target,    \* the lb_targets table: health of each (lb, instance) row
  inst,      \* the instances that have a row
  proxy,     \* the container lb-<id>: its state and the worker that created it
  conf,      \* /tmp/thecloud/lb/<id>/nginx.conf: the upstreams it names
  serving,   \* the upstreams the running nginx has loaded
  leaked,    \* history: lbs whose container Docker refused to remove at cleanup
  pc, todo, snap, cur, tgs,  \* the workers: see WorkerType
  req, reply,                \* the API requests: see RequestType
  faults     \* failures so far

tables  == <<lb, target, inst>>
docker  == <<proxy, conf, serving, leaked>>
workers == <<pc, todo, snap, cur, tgs>>
clients == <<req, reply>>
vars    == <<tables, docker, workers, clients, faults>>

Health  == {"none", "unknown", "healthy", "unhealthy"}
Status  == {"absent", "CREATING", "ACTIVE", "DELETED", "gone"}
NoLB    == "no lb"
NoOne   == "no worker"
Upstreams == (SUBSET Instance) \cup {NoConf}

Live(l) == lb[l].status \in {"CREATING", "ACTIVE", "DELETED"}

NoRow       == [status |-> "absent", version |-> 0, key |-> NoKey, vpc |-> NoVpc]
NoContainer == [st |-> "none", by |-> NoOne]
NoTargets   == [i \in Instance |-> "none"]
NoRequest   == [op |-> "none", lb |-> NoLB, ver |-> 0, key |-> NoKey, vpc |-> NoVpc]
NoReply     == [lb |-> NoLB, key |-> NoKey, outcome |-> "none"]

Rows == [status : Status, version : Nat, key : Key \cup {NoKey}, vpc : Vpc \cup {NoVpc}]

PCs == {"tick", "creating", "write", "remove", "create", "start", "update",
        "listDeleting", "deleting", "rmConfig", "rmRow",
        "listActive", "active", "rewrite", "reload",
        "listHealth", "health", "probe"}

WorkerType ==
  /\ pc   \in [Worker -> PCs]
  /\ todo \in [Worker -> SUBSET LB]               \* rest of the phase's loop
  /\ snap \in [Worker -> [LB -> Nat]]             \* versions ListAll returned
  /\ cur  \in [Worker -> LB \cup {NoLB}]          \* the loop's current lb
  /\ tgs  \in [Worker -> [Instance -> Health]]    \* what ListTargets returned

RequestType ==
  /\ req   \in [Client -> [op : {"none", "create", "delete"}, lb : LB \cup {NoLB},
                           ver : Nat, key : Key \cup {NoKey}, vpc : Vpc \cup {NoVpc}]]
  /\ reply \in [Client -> [lb : LB \cup {NoLB}, key : Key \cup {NoKey},
                           outcome : {"none", "ok", "failed"}]]

TableType ==
  /\ lb      \in [LB -> Rows]
  /\ target  \in [LB -> [Instance -> Health]]
  /\ inst    \subseteq Instance

DockerType ==
  /\ proxy   \in [LB -> [st : {"none", "created", "running"}, by : Worker \cup {NoOne}]]
  /\ conf    \in [LB -> Upstreams]
  /\ serving \in [LB -> Upstreams]
  /\ leaked  \subseteq LB

(* The tables, the Docker host, the workers and the requests hold values of *)
(* the types the Go structs and the SQL columns give them.                  *)
TypeOK == TableType /\ DockerType /\ WorkerType /\ RequestType /\ faults \in 0..MaxFaults

Init ==
  /\ lb      = [l \in LB |-> NoRow]
  /\ target  = [l \in LB |-> NoTargets]
  /\ inst    = Instance
  /\ proxy   = [l \in LB |-> NoContainer]
  /\ conf    = [l \in LB |-> NoConf]
  /\ serving = [l \in LB |-> NoConf]
  /\ leaked  = {}
  /\ pc      = [w \in Worker |-> "tick"]
  /\ todo    = [w \in Worker |-> {}]
  /\ snap    = [w \in Worker |-> [l \in LB |-> 0]]
  /\ cur     = [w \in Worker |-> NoLB]
  /\ tgs     = [w \in Worker |-> NoTargets]
  /\ req     = [c \in Client |-> NoRequest]
  /\ reply   = [c \in Client |-> NoReply]
  /\ faults  = 0

-----------------------------------------------------------------------------
(* LBRepository *)

(* Faulty variant of UpdateRow: the UPDATE without its version condition. *)
UpdateRowBlind(l, ver, status) ==
  lb' = IF Live(l) THEN [lb EXCEPT ![l].status = status, ![l].version = @ + 1] ELSE lb

(* UPDATE ... SET status, version = version + 1 WHERE id AND version: no    *)
(* row is affected, and the caller gets a Conflict, unless ver is current.  *)
UpdateRow(l, ver, status) ==
  lb' = IF Live(l) /\ lb[l].version = ver
        THEN [lb EXCEPT ![l].status = status, ![l].version = @ + 1]
        ELSE lb

(* DELETE FROM load_balancers: the targets go with the row (ON DELETE CASCADE). *)
DeleteRow(l) ==
  IF Live(l)
  THEN /\ lb' = [lb EXCEPT ![l].status = "gone"]
       /\ target' = [target EXCEPT ![l] = NoTargets]
  ELSE UNCHANGED <<lb, target>>

(* Faulty variant of KeyTaken: only ACTIVE rows hold their key. *)
KeyTakenActive(k) == \E l \in LB : lb[l].status = "ACTIVE" /\ lb[l].key = k

(* UNIQUE (idempotency_key).  Create stores the empty key as '', which is a *)
(* value like any other to the constraint.                                  *)
KeyTaken(k) == \E l \in LB : Live(l) /\ lb[l].key = k

-----------------------------------------------------------------------------
(* LBService *)

(* Create, up to the INSERT: a non-empty key that is found answers the      *)
(* request with the existing row, whatever its status.                      *)
CreateCheck(c) ==
  \E k \in Key \cup {NoKey}, v \in Vpc :
    /\ req[c].op = "none"
    /\ IF k # NoKey /\ KeyTaken(k)
       THEN /\ \E l \in LB :
                 /\ Live(l)
                 /\ lb[l].key = k
                 /\ reply' = [reply EXCEPT ![c] = [lb |-> l, key |-> k, outcome |-> "ok"]]
            /\ UNCHANGED req
       ELSE /\ req' = [req EXCEPT ![c] = [op |-> "create", lb |-> NoLB, ver |-> 0,
                                              key |-> k, vpc |-> v]]
            /\ reply' = [reply EXCEPT ![c] = NoReply]
    /\ UNCHANGED <<tables, docker, workers, faults>>

(* Create, the INSERT. *)
CreateInsert(c) ==
  /\ req[c].op = "create"
  /\ IF KeyTaken(req[c].key)
     THEN /\ reply' = [reply EXCEPT ![c] = [lb |-> NoLB, key |-> req[c].key, outcome |-> "failed"]]
          /\ UNCHANGED lb
     ELSE \E l \in LB :
            /\ lb[l].status = "absent"
            /\ lb' = [lb EXCEPT ![l] = [status |-> "CREATING", version |-> 1,
                                        key |-> req[c].key, vpc |-> req[c].vpc]]
            /\ reply' = [reply EXCEPT ![c] = [lb |-> l, key |-> req[c].key, outcome |-> "ok"]]
  /\ req' = [req EXCEPT ![c] = NoRequest]
  /\ UNCHANGED <<target, inst, docker, workers, faults>>

(* Delete, the read of the row. *)
DeleteGet(c) ==
  \E l \in LB :
    /\ req[c].op = "none"
    /\ Live(l)
    /\ lb[l].version < MaxVersion
    /\ req' = [req EXCEPT ![c] = [op |-> "delete", lb |-> l, ver |-> lb[l].version,
                                      key |-> NoKey, vpc |-> NoVpc]]
    /\ UNCHANGED <<tables, docker, workers, reply, faults>>

(* Faulty variant of DeleteMark: the status that scaling groups use. *)
DeleteMarkDeleting(c) ==
  /\ req[c].op = "delete"
  /\ UpdateRow(req[c].lb, req[c].ver, "DELETING")
  /\ req' = [req EXCEPT ![c] = NoRequest]
  /\ UNCHANGED <<target, inst, docker, workers, reply, faults>>

(* Delete, the write of status DELETED. *)
DeleteMark(c) ==
  /\ req[c].op = "delete"
  /\ UpdateRow(req[c].lb, req[c].ver, "DELETED")
  /\ req' = [req EXCEPT ![c] = NoRequest]
  /\ UNCHANGED <<target, inst, docker, workers, reply, faults>>

(* Faulty variant of AddTarget: the VPCs are not compared. *)
AddTargetAnyVpc(l, i) ==
  /\ Live(l)
  /\ i \in inst
  /\ target[l][i] = "none"
  /\ target' = [target EXCEPT ![l][i] = "unknown"]
  /\ UNCHANGED <<lb, inst, docker, workers, clients, faults>>

(* AddTarget.  The reads only establish that both rows exist, which the     *)
(* foreign keys of the INSERT establish again, and compare two immutable    *)
(* columns; so the operation is one step.  The lb's status is not examined. *)
AddTarget(l, i) ==
  /\ Live(l)
  /\ i \in inst
  /\ VpcOf[i] # NoVpc
  /\ VpcOf[i] = lb[l].vpc
  /\ target[l][i] = "none"
  /\ target' = [target EXCEPT ![l][i] = "unknown"]
  /\ UNCHANGED <<lb, inst, docker, workers, clients, faults>>

RemoveTarget(l, i) ==
  /\ Live(l)
  /\ target[l][i] # "none"
  /\ target' = [target EXCEPT ![l][i] = "none"]
  /\ UNCHANGED <<lb, inst, docker, workers, clients, faults>>

(* InstanceService deletes the instance's row: its target rows cascade. *)
InstanceDeleted(i) ==
  /\ i \in inst
  /\ inst' = inst \ {i}
  /\ target' = [l \in LB |-> [target[l] EXCEPT ![i] = "none"]]
  /\ UNCHANGED <<lb, docker, workers, clients, faults>>

-----------------------------------------------------------------------------
(* LBWorker.  Run's tick is four phases; each lists the table anew, keeps   *)
(* the rows with the phase's status and works through them one by one.      *)

Fault == faults < MaxFaults /\ faults' = faults + 1
NoFault == UNCHANGED faults

Goto(w, p) == pc' = [pc EXCEPT ![w] = p]

(* ListAll at the head of a phase; the error path skips the phase. *)
ListPhase(w, from, to, skip, status) ==
  /\ pc[w] = from
  /\ \/ /\ NoFault
        /\ Goto(w, to)
        /\ todo' = [todo EXCEPT ![w] = {l \in LB : lb[l].status = status}]
        /\ snap' = [snap EXCEPT ![w] = [l \in LB |-> lb[l].version]]
     \/ /\ Fault
        /\ Goto(w, skip)
        /\ UNCHANGED <<todo, snap>>
  /\ UNCHANGED <<tables, docker, cur, tgs, clients>>

(* The loop of a phase has run out of rows. *)
EndPhase(w, from, to) ==
  /\ pc[w] = from
  /\ todo[w] = {}
  /\ Goto(w, to)
  /\ snap' = [snap EXCEPT ![w] = [l \in LB |-> 0]]
  /\ UNCHANGED <<tables, docker, todo, cur, tgs, clients, faults>>

(* The next row of the loop, and ListTargets of it; an error goes on to the *)
(* row after it.                                                            *)
NextRow(w, from, to) ==
  /\ pc[w] = from
  /\ \E l \in todo[w] :
       /\ todo' = [todo EXCEPT ![w] = @ \ {l}]
       /\ \/ /\ NoFault
             /\ Goto(w, to)
             /\ cur' = [cur EXCEPT ![w] = l]
             /\ tgs' = [tgs EXCEPT ![w] = target[l]]
          \/ /\ Fault
             /\ UNCHANGED <<pc, cur, tgs>>
  /\ UNCHANGED <<tables, docker, snap, clients>>

(* Back to the head of the loop: the row's locals go out of scope. *)
NextIteration(w, p) ==
  /\ Goto(w, p)
  /\ cur' = [cur EXCEPT ![w] = NoLB]
  /\ tgs' = [tgs EXCEPT ![w] = NoTargets]
  /\ UNCHANGED <<todo, snap>>

Step(w, p) == Goto(w, p) /\ UNCHANGED <<todo, snap, cur, tgs>>

(* Faulty variant of GenerateNginxConfig: unhealthy targets are left out. *)
GenerateHealthyOnly(w) == {i \in inst : tgs[w][i] \notin {"none", "unhealthy"}}

(* generateNginxConfig: targets whose instance is not found are left out. *)
GenerateNginxConfig(w) == {i \in inst : tgs[w][i] # "none"}

ProcessCreating(w) ==
  \/ ListPhase(w, "tick", "creating", "listDeleting", "CREATING")
  \/ NextRow(w, "creating", "write")
  \/ EndPhase(w, "creating", "listDeleting")

(* DeployProxy: pull, render, mkdir and write the config file. *)
DeployWrite(w) ==
  /\ pc[w] = "write"
  /\ \/ /\ NoFault
        /\ conf' = [conf EXCEPT ![cur[w]] = GenerateNginxConfig(w)]
        /\ Step(w, "remove")
     \/ /\ Fault
        /\ UNCHANGED conf
        /\ NextIteration(w, "creating")
  /\ UNCHANGED <<tables, proxy, serving, leaked, clients>>

(* Faulty variant of RemoveContainer: without Force, which a running          *)
(* container refuses.                                                         *)
RemoveStoppedContainer(l) ==
  IF proxy[l].st = "running"
  THEN UNCHANGED <<proxy, serving>>
  ELSE /\ proxy' = [proxy EXCEPT ![l] = NoContainer]
       /\ serving' = [serving EXCEPT ![l] = NoConf]

(* ContainerRemove with Force, of the container lb-<id>. *)
RemoveContainer(l) ==
  /\ proxy' = [proxy EXCEPT ![l] = NoContainer]
  /\ serving' = [serving EXCEPT ![l] = NoConf]

(* DeployProxy: force-remove a container of that name, ignoring errors, and *)
(* read the VPC, whose absence ends the deployment.                         *)
DeployRemove(w) ==
  /\ pc[w] = "remove"
  /\ \/ NoFault /\ RemoveContainer(cur[w]) /\ Step(w, "create")
     \/ Fault /\ UNCHANGED <<proxy, serving>> /\ Step(w, "create")
     \/ /\ Fault
        /\ RemoveContainer(cur[w]) \/ UNCHANGED <<proxy, serving>>
        /\ NextIteration(w, "creating")
  /\ UNCHANGED <<tables, conf, leaked, clients>>

(* DeployProxy: ContainerCreate, which refuses a name that is in use. *)
DeployCreate(w) ==
  /\ pc[w] = "create"
  /\ \/ /\ NoFault
        /\ IF proxy[cur[w]].st = "none"
           THEN /\ proxy' = [proxy EXCEPT ![cur[w]] = [st |-> "created", by |-> w]]
                /\ Step(w, "start")
           ELSE UNCHANGED proxy /\ NextIteration(w, "creating")
     \/ /\ Fault
        /\ UNCHANGED proxy
        /\ NextIteration(w, "creating")
  /\ UNCHANGED <<tables, conf, serving, leaked, clients>>

(* Faulty variant of DeployStart: the container is never started. *)
DeployWithoutStart(w) ==
  /\ pc[w] = "start"
  /\ Step(w, "update")
  /\ UNCHANGED <<tables, docker, clients, faults>>

(* DeployProxy: ContainerStart by the id just created.  It fails when that  *)
(* container has been removed or the file it mounts is gone.                *)
DeployStart(w) ==
  /\ pc[w] = "start"
  /\ \/ /\ NoFault
        /\ IF proxy[cur[w]].by = w /\ conf[cur[w]] # NoConf
           THEN /\ proxy' = [proxy EXCEPT ![cur[w]].st = "running"]
                /\ serving' = [serving EXCEPT ![cur[w]] = conf[cur[w]]]
                /\ Step(w, "update")
           ELSE UNCHANGED <<proxy, serving>> /\ NextIteration(w, "creating")
     \/ /\ Fault
        /\ UNCHANGED <<proxy, serving>>
        /\ NextIteration(w, "creating")
  /\ UNCHANGED <<tables, conf, leaked, clients>>

(* deployLB's last step: status ACTIVE at the version ListAll returned; a   *)
(* conflict or an error is only logged.                                     *)
DeployActivate(w) ==
  /\ pc[w] = "update"
  /\ \/ NoFault /\ UpdateRow(cur[w], snap[w][cur[w]], "ACTIVE")
     \/ Fault /\ UNCHANGED lb
  /\ NextIteration(w, "creating")
  /\ UNCHANGED <<target, inst, docker, clients>>

(* cleanupLB, RemoveProxy's first half: a failed removal is only logged. *)
CleanupContainer(w) ==
  /\ pc[w] = "deleting"
  /\ \E l \in todo[w] :
       /\ todo' = [todo EXCEPT ![w] = @ \ {l}]
       /\ cur' = [cur EXCEPT ![w] = l]
       /\ \/ /\ NoFault
             /\ RemoveContainer(l)
             /\ UNCHANGED leaked
          \/ /\ Fault
             /\ leaked' = leaked \cup {l}
             /\ UNCHANGED <<proxy, serving>>
  /\ Goto(w, "rmConfig")
  /\ UNCHANGED <<tables, conf, snap, tgs, clients>>

(* RemoveProxy's second half: it always returns nil. *)
CleanupConfig(w) ==
  /\ pc[w] = "rmConfig"
  /\ conf' = [conf EXCEPT ![cur[w]] = NoConf]
  /\ Step(w, "rmRow")
  /\ UNCHANGED <<tables, proxy, serving, leaked, clients, faults>>

(* cleanupLB: the row is deleted whatever became of the proxy. *)
CleanupRow(w) ==
  /\ pc[w] = "rmRow"
  /\ \/ NoFault /\ DeleteRow(cur[w])
     \/ Fault /\ UNCHANGED <<lb, target>>
  /\ NextIteration(w, "deleting")
  /\ UNCHANGED <<inst, docker, clients>>

ProcessDeleting(w) ==
  \/ ListPhase(w, "listDeleting", "deleting", "listActive", "DELETED")
  \/ CleanupContainer(w)
  \/ EndPhase(w, "deleting", "listActive")

ProcessActive(w) ==
  \/ ListPhase(w, "listActive", "active", "listHealth", "ACTIVE")
  \/ NextRow(w, "active", "rewrite")
  \/ EndPhase(w, "active", "listHealth")

(* UpdateProxyConfig: overwrite the file, which needs its directory. *)
ActiveRewrite(w) ==
  /\ pc[w] = "rewrite"
  /\ \/ /\ NoFault
        /\ IF conf[cur[w]] # NoConf
           THEN /\ conf' = [conf EXCEPT ![cur[w]] = GenerateNginxConfig(w)]
                /\ Step(w, "reload")
           ELSE UNCHANGED conf /\ NextIteration(w, "active")
     \/ /\ Fault
        /\ UNCHANGED conf
        /\ NextIteration(w, "active")
  /\ UNCHANGED <<tables, proxy, serving, leaked, clients>>

(* UpdateProxyConfig: start a stopped container, then nginx -s reload. *)
ActiveReload(w) ==
  /\ pc[w] = "reload"
  /\ \/ /\ NoFault
        /\ IF proxy[cur[w]].st # "none" /\ conf[cur[w]] # NoConf
           THEN /\ proxy' = [proxy EXCEPT ![cur[w]].st = "running"]
                /\ serving' = [serving EXCEPT ![cur[w]] = conf[cur[w]]]
           ELSE UNCHANGED <<proxy, serving>>
     \/ Fault /\ UNCHANGED <<proxy, serving>>
  /\ NextIteration(w, "active")
  /\ UNCHANGED <<tables, conf, leaked, clients>>

ProcessHealth(w) ==
  \/ ListPhase(w, "listHealth", "health", "tick", "ACTIVE")
  \/ NextRow(w, "health", "probe")
  \/ EndPhase(w, "health", "tick")

(* checkLBHealth, one target: a missing instance is skipped, the dial to    *)
(* the host port succeeds or not, and a changed health is written to the    *)
(* row if it still exists.                                                  *)
ProbeTarget(w) ==
  /\ pc[w] = "probe"
  /\ \E i \in Instance, h \in {"healthy", "unhealthy"} :
       /\ tgs[w][i] # "none"
       /\ tgs' = [tgs EXCEPT ![w][i] = "none"]
       /\ target' = IF i \in inst /\ h # tgs[w][i] /\ target[cur[w]][i] # "none"
                    THEN [target EXCEPT ![cur[w]][i] = h]
                    ELSE target
  /\ UNCHANGED <<lb, inst, docker, pc, todo, snap, cur, clients, faults>>

EndProbe(w) ==
  /\ pc[w] = "probe"
  /\ tgs[w] = NoTargets
  /\ NextIteration(w, "health")
  /\ UNCHANGED <<tables, docker, clients, faults>>

(* The API process dies and is started again: its worker begins a new tick. *)
Restart(w) ==
  /\ Fault
  /\ pc[w] # "tick"
  /\ Goto(w, "tick")
  /\ todo' = [todo EXCEPT ![w] = {}]
  /\ snap' = [snap EXCEPT ![w] = [l \in LB |-> 0]]
  /\ cur' = [cur EXCEPT ![w] = NoLB]
  /\ tgs' = [tgs EXCEPT ![w] = NoTargets]
  /\ UNCHANGED <<tables, docker, clients>>

WorkerStep(w) ==
  \/ ProcessCreating(w) \/ DeployWrite(w) \/ DeployRemove(w) \/ DeployCreate(w)
  \/ DeployStart(w) \/ DeployActivate(w)
  \/ ProcessDeleting(w) \/ CleanupConfig(w) \/ CleanupRow(w)
  \/ ProcessActive(w) \/ ActiveRewrite(w) \/ ActiveReload(w)
  \/ ProcessHealth(w) \/ ProbeTarget(w) \/ EndProbe(w)

ClientStep(c) ==
  CreateCheck(c) \/ CreateInsert(c) \/ DeleteGet(c) \/ DeleteMark(c)

TargetStep == \E l \in LB, i \in Instance : AddTarget(l, i) \/ RemoveTarget(l, i)

Next ==
  \/ \E w \in Worker : WorkerStep(w) \/ Restart(w)
  \/ \E c \in Client : ClientStep(c)
  \/ TargetStep
  \/ \E i \in Instance : InstanceDeleted(i)

Spec == Init /\ [][Next]_vars

(* Run loops on a 5 s ticker until shutdown, so a worker always takes its   *)
(* next step; failures are bounded by MaxFaults, so they end.  Requests     *)
(* come when they please.                                                   *)
FairSpec == Spec /\ \A w \in Worker : WF_vars(WorkerStep(w))

-----------------------------------------------------------------------------
(* A load balancer that was marked DELETED never comes back: deployLB, which *)
(* holds a row it read while the status was CREATING, cannot overwrite a     *)
(* Delete that came in between, and a deleted row stays deleted.             *)
NoResurrection ==
  [][\A l \in LB :
       /\ lb[l].status = "DELETED" => lb'[l].status \in {"DELETED", "gone"}
       /\ lb[l].status = "gone" => lb'[l].status = "gone"]_vars

(* Two Create requests with the same idempotency key are never told of two   *)
(* load balancers that both exist, although Create looks the key up and      *)
(* inserts the row in two steps.                                             *)
SameKeySameLB ==
  \A c, d \in Client :
    /\ reply[c].outcome = "ok" /\ reply[d].outcome = "ok"
    /\ reply[c].key = reply[d].key /\ reply[c].key # NoKey
    /\ Live(reply[c].lb) /\ Live(reply[d].lb)
    => reply[c].lb = reply[d].lb

(* nginx forwards only to instances of the load balancer's own VPC, however  *)
(* stale the target list and the config file it was started from are.        *)
ServesOwnVpc ==
  \A l \in LB :
    serving[l] # NoConf => \A i \in serving[l] : VpcOf[i] = lb[l].vpc

(* A load balancer shown as ACTIVE has its nginx container running.  The     *)
(* worker never re-creates the container of an ACTIVE row, so this must not  *)
(* be lost once deployLB has set the status.                                 *)
ActiveHasProxy ==
  \A l \in LB : lb[l].status = "ACTIVE" => proxy[l].st = "running"

(* An ACTIVE load balancer that has lost its nginx container gets it back,   *)
(* or stops being ACTIVE.                                                    *)
ActiveGetsProxy ==
  \A l \in LB :
    lb[l].status = "ACTIVE" /\ proxy[l].st # "running"
      ~> lb[l].status # "ACTIVE" \/ proxy[l].st = "running"

(* Once the row of a load balancer is deleted no container of it is left,    *)
(* unless Docker itself refused the removal that RemoveProxy only logs.      *)
NoOrphanProxy ==
  \A l \in LB :
    lb[l].status = "gone" /\ l \notin leaked => proxy[l].st = "none"

(* A load balancer does not stay in CREATING: the worker deploys it.         *)
CreatingSettles ==
  \A l \in LB : lb[l].status = "CREATING" ~> lb[l].status # "CREATING"

(* A load balancer marked DELETED is eventually removed from the table.      *)
DeletedIsCleaned ==
  \A l \in LB : lb[l].status = "DELETED" ~> lb[l].status = "gone"

(* nginx of an ACTIVE load balancer is out of step with lb_targets.          *)
Drift(l, i) ==
  /\ lb[l].status = "ACTIVE"
  /\ serving[l] # NoConf
  /\ (i \in serving[l]) # (target[l][i] # "none")

(* A target added to or removed from an ACTIVE load balancer, or lost with   *)
(* its instance, reaches or leaves the running nginx configuration.          *)
TargetsConverge ==
  \A l \in LB, i \in Instance : Drift(l, i) ~> ~Drift(l, i)

=============================================================================
