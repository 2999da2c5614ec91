------------------------- MODULE LoadBalancerProofs -------------------------
(* Theorems about LoadBalancer, for every value of its constants. *)
EXTENDS LoadBalancer, TLAPS

(* What the steps of a worker that only move its program counter, or end an *)
(* iteration of a loop, do to the worker's variables.                       *)
LEMMA StepType ==
  ASSUME WorkerType, NEW w \in Worker, NEW p \in PCs, Step(w, p) \/ NextIteration(w, p)
  PROVE  WorkerType'
<1>1. NoTargets \in [Instance -> Health]
  BY DEF NoTargets, Health
<1>2. CASE Step(w, p) BY <1>2 DEF WorkerType, Step, Goto
<1>3. CASE NextIteration(w, p) BY <1>1, <1>3 DEF WorkerType, NextIteration, Goto
<1> QED BY <1>2, <1>3

(* A failure is counted, and never beyond the bound. *)
LEMMA FaultType ==
  ASSUME faults \in 0..MaxFaults, Fault \/ NoFault
  PROVE  faults' \in 0..MaxFaults
BY BoundsType DEF Fault, NoFault

(* A container that is removed leaves well-typed Docker state. *)
LEMMA RemoveType ==
  ASSUME DockerType, NEW l, RemoveContainer(l) \/ UNCHANGED <<proxy, serving>>,
         UNCHANGED conf, leaked' \subseteq LB
  PROVE  DockerType'
<1>1. NoContainer \in [st : {"none", "created", "running"}, by : Worker \cup {NoOne}]
  BY DEF NoContainer
<1>2. CASE RemoveContainer(l) BY <1>1, <1>2, Zenon DEF DockerType, RemoveContainer, Upstreams
<1>3. CASE UNCHANGED <<proxy, serving>> BY <1>3 DEF DockerType
<1> QED BY <1>2, <1>3

(* The versioned UPDATE keeps the table well typed. *)
LEMMA UpdateType ==
  ASSUME TableType, NEW l, NEW ver, NEW status \in Status,
         UpdateRow(l, ver, status), UNCHANGED <<target, inst>>
  PROVE  TableType'
<1>1. CASE l \in LB
  BY <1>1 DEF TableType, UpdateRow, Rows
<1>2. CASE l \notin LB
  <2>1. lb' = lb BY <1>2 DEF TableType, UpdateRow
  <2> QED BY <2>1 DEF TableType
<1> QED BY <1>1, <1>2

(* So does the DELETE of a row and of its targets. *)
LEMMA DeleteType ==
  ASSUME TableType, NEW l, DeleteRow(l), UNCHANGED inst
  PROVE  TableType'
<1>1. NoTargets \in [Instance -> Health] BY DEF NoTargets, Health
<1>2. CASE l \in LB /\ Live(l)
  <2>0. lb' = [lb EXCEPT ![l].status = "gone"] BY <1>2 DEF DeleteRow
  <2>1. lb' \in [LB -> Rows] BY <1>2, <2>0, Zenon DEF TableType, Rows, Status
  <2>2. target' \in [LB -> [Instance -> Health]] BY <1>1, <1>2 DEF TableType, DeleteRow
  <2> QED BY <2>1, <2>2 DEF TableType
<1>3. CASE l \notin LB
  <2>1. lb' = lb /\ target' = target BY <1>3 DEF TableType, DeleteRow
  <2> QED BY <2>1 DEF TableType
<1>4. CASE ~Live(l)
  BY <1>4 DEF TableType, DeleteRow
<1> QED BY <1>2, <1>3, <1>4

LEMMA UnchangedType ==
  /\ TableType /\ UNCHANGED tables => TableType'
  /\ DockerType /\ UNCHANGED docker => DockerType'
  /\ WorkerType /\ UNCHANGED workers => WorkerType'
  /\ RequestType /\ UNCHANGED clients => RequestType'
BY DEF TableType, DockerType, WorkerType, RequestType, tables, docker, workers, clients

(* A container that is started keeps the Docker host well typed. *)
LEMMA StartType ==
  ASSUME DockerType, NEW l, UNCHANGED <<conf, leaked>>,
         proxy' = [proxy EXCEPT ![l].st = "running"],
         serving' = [serving EXCEPT ![l] = conf[l]]
  PROVE  DockerType'
<1>1. CASE l \in LB
  <2>1. proxy[l].by \in Worker \cup {NoOne} /\ conf[l] \in Upstreams
    BY <1>1 DEF DockerType
  <2>2. proxy' \in [LB -> [st : {"none", "created", "running"}, by : Worker \cup {NoOne}]]
    BY <1>1, <2>1 DEF DockerType
  <2>3. serving' \in [LB -> Upstreams] BY <2>1, Zenon DEF DockerType
  <2> QED BY <2>2, <2>3 DEF DockerType
<1>2. CASE l \notin LB
  <2>1. proxy' = proxy /\ serving' = serving BY <1>2 DEF DockerType
  <2> QED BY <2>1, Zenon DEF DockerType
<1> QED BY <1>1, <1>2

(* Every operation of LBService, every step of LBWorker and every restart   *)
(* keeps the state well typed.                                              *)
LEMMA TypeStep ==
  ASSUME TypeOK, [Next]_vars
  PROVE  TypeOK'
<1>1. CASE UNCHANGED vars
  BY <1>1, UnchangedType DEF vars, TypeOK
<1>2. ASSUME NEW w \in Worker, WorkerStep(w) PROVE TypeOK'
  <2>1. ASSUME NEW from \in PCs, NEW to \in PCs, NEW skip \in PCs, NEW status,
               ListPhase(w, from, to, skip, status) PROVE TypeOK'
    <3>1. [l \in LB |-> lb[l].version] \in [LB -> Nat] /\ {l \in LB : lb[l].status = status} \subseteq LB
      BY DEF TypeOK, TableType, Rows
    <3>2. WorkerType'
      <4>1. pc' \in [Worker -> PCs] BY <2>1 DEF TypeOK, WorkerType, ListPhase, Goto
      <4>2. todo' \in [Worker -> SUBSET LB] BY <2>1, <3>1 DEF TypeOK, WorkerType, ListPhase
      <4>3. snap' \in [Worker -> [LB -> Nat]] BY <2>1, <3>1, Zenon DEF TypeOK, WorkerType, ListPhase
      <4> QED BY <2>1, <4>1, <4>2, <4>3 DEF TypeOK, WorkerType, ListPhase
    <3> QED BY <2>1, <3>2, FaultType, UnchangedType DEF TypeOK, ListPhase, docker
  <2>2. ASSUME NEW from \in PCs, NEW to \in PCs, EndPhase(w, from, to) PROVE TypeOK'
    <3>1. WorkerType'
      BY <2>2 DEF TypeOK, WorkerType, EndPhase, Goto
    <3> QED BY <2>2, <3>1, UnchangedType DEF TypeOK, EndPhase, docker
  <2>3. ASSUME NEW from \in PCs, NEW to \in PCs, NextRow(w, from, to) PROVE TypeOK'
    <3>1. PICK l \in todo[w] : NextRow(w, from, to)!2!(l)
      BY <2>3, Zenon DEF NextRow
    <3>2. l \in LB /\ target[l] \in [Instance -> Health]
      BY <3>1 DEF TypeOK, WorkerType, TableType
    <3>3. WorkerType'
      <4>1. CASE NoFault /\ Goto(w, to) /\ cur' = [cur EXCEPT ![w] = l]
                 /\ tgs' = [tgs EXCEPT ![w] = target[l]]
        BY <2>3, <3>1, <3>2, <4>1 DEF TypeOK, WorkerType, NextRow, Goto
      <4>2. CASE UNCHANGED <<pc, cur, tgs>>
        BY <2>3, <3>1, <3>2, <4>2 DEF TypeOK, WorkerType, NextRow
      <4> QED BY <3>1, <4>1, <4>2
    <3> QED BY <2>3, <3>3, <3>1, FaultType, UnchangedType DEF TypeOK, NextRow, docker
  <2>4. CASE DeployWrite(w) \/ ActiveRewrite(w)
    <3>1. WorkerType' BY <2>4, StepType DEF TypeOK, DeployWrite, ActiveRewrite, PCs
    <3>2. GenerateNginxConfig(w) \in Upstreams
      BY DEF TypeOK, TableType, GenerateNginxConfig, Upstreams
    <3>3. DockerType' BY <2>4, <3>2 DEF TypeOK, DockerType, DeployWrite, ActiveRewrite
    <3> QED BY <2>4, <3>1, <3>3, FaultType, UnchangedType DEF TypeOK, DeployWrite, ActiveRewrite
  <2>5. CASE DeployRemove(w)
    <3>1. WorkerType' BY <2>5, StepType DEF TypeOK, DeployRemove, PCs
    <3>2. DockerType' BY <2>5, RemoveType DEF TypeOK, DockerType, DeployRemove
    <3> QED BY <2>5, <3>1, <3>2, FaultType, UnchangedType DEF TypeOK, DeployRemove
  <2>6. CASE DeployCreate(w)
    <3>1. WorkerType' BY <2>6, StepType DEF TypeOK, DeployCreate, PCs
    <3>2. DockerType' BY <2>6 DEF TypeOK, DockerType, DeployCreate
    <3> QED BY <2>6, <3>1, <3>2, FaultType, UnchangedType DEF TypeOK, DeployCreate
  <2>7. CASE DeployStart(w)
    <3>1. WorkerType' BY <2>7, StepType DEF TypeOK, DeployStart, PCs
    <3>2. DockerType'
      <4>1. CASE UNCHANGED docker BY <4>1, UnchangedType DEF TypeOK
      <4>2. CASE /\ proxy' = [proxy EXCEPT ![cur[w]].st = "running"]
                 /\ serving' = [serving EXCEPT ![cur[w]] = conf[cur[w]]]
        BY <2>7, <4>2, StartType, Zenon DEF TypeOK, DeployStart
      <4> QED BY <2>7, <4>1, <4>2 DEF DeployStart, docker
    <3> QED BY <2>7, <3>1, <3>2, FaultType, UnchangedType DEF TypeOK, DeployStart
  <2>8. CASE DeployActivate(w)
    <3>1. WorkerType' BY <2>8, StepType DEF TypeOK, DeployActivate, PCs
    <3>2. TableType' BY <2>8, UpdateType DEF TypeOK, TableType, DeployActivate, Status
    <3> QED BY <2>8, <3>1, <3>2, FaultType, UnchangedType DEF TypeOK, DeployActivate
  <2>9. CASE CleanupContainer(w)
    <3>1. PICK l \in todo[w] : CleanupContainer(w)!2!(l)
      BY <2>9, Zenon DEF CleanupContainer
    <3>2. l \in LB BY <3>1 DEF TypeOK, WorkerType
    <3>3. WorkerType' BY <2>9, <3>1, <3>2 DEF TypeOK, WorkerType, CleanupContainer, Goto, PCs
    <3>4. DockerType' BY <2>9, <3>1, <3>2, RemoveType DEF TypeOK, DockerType, CleanupContainer
    <3> QED BY <2>9, <3>1, <3>3, <3>4, FaultType, UnchangedType DEF TypeOK, CleanupContainer
  <2>10. CASE CleanupConfig(w)
    <3>1. WorkerType' BY <2>10, StepType DEF TypeOK, CleanupConfig, PCs
    <3>2. DockerType' BY <2>10, Zenon DEF TypeOK, DockerType, CleanupConfig, Upstreams
    <3> QED BY <2>10, <3>1, <3>2, UnchangedType DEF TypeOK, CleanupConfig
  <2>11. CASE CleanupRow(w)
    <3>1. WorkerType' BY <2>11, StepType DEF TypeOK, CleanupRow, PCs
    <3>2. TableType' BY <2>11, DeleteType, UnchangedType DEF TypeOK, TableType, CleanupRow
    <3> QED BY <2>11, <3>1, <3>2, FaultType, UnchangedType DEF TypeOK, CleanupRow
  <2>12. CASE ActiveReload(w)
    <3>1. WorkerType' BY <2>12, StepType DEF TypeOK, ActiveReload, PCs
    <3>2. DockerType'
      <4>1. CASE UNCHANGED docker BY <4>1, UnchangedType DEF TypeOK
      <4>2. CASE /\ proxy' = [proxy EXCEPT ![cur[w]].st = "running"]
                 /\ serving' = [serving EXCEPT ![cur[w]] = conf[cur[w]]]
        BY <2>12, <4>2, StartType, Zenon DEF TypeOK, ActiveReload
      <4> QED BY <2>12, <4>1, <4>2 DEF ActiveReload, docker
    <3> QED BY <2>12, <3>1, <3>2, FaultType, UnchangedType DEF TypeOK, ActiveReload
  <2>13. CASE ProbeTarget(w)
    <3>1. WorkerType' BY <2>13 DEF TypeOK, WorkerType, ProbeTarget, Health
    <3>2. PICK i \in Instance, h \in {"healthy", "unhealthy"} : ProbeTarget(w)!2!(i, h)
      BY <2>13, Zenon DEF ProbeTarget
    <3>3. target' \in [LB -> [Instance -> Health]]
      <4>1. CASE cur[w] \in LB BY <3>2, <4>1 DEF TypeOK, TableType, Health
      <4>2. CASE cur[w] \notin LB
        <5>1. target' = target BY <3>2, <4>2 DEF TypeOK, TableType
        <5> QED BY <5>1 DEF TypeOK, TableType
      <4> QED BY <4>1, <4>2
    <3>4. TableType' BY <2>13, <3>3 DEF TypeOK, TableType, ProbeTarget
    <3> QED BY <2>13, <3>1, <3>4, UnchangedType DEF TypeOK, ProbeTarget
  <2>14. CASE EndProbe(w)
    <3>1. WorkerType' BY <2>14, StepType DEF TypeOK, EndProbe, PCs
    <3> QED BY <2>14, <3>1, UnchangedType DEF TypeOK, EndProbe
  <2>15. {"tick", "creating", "write", "listDeleting", "deleting", "listActive", "active",
          "rewrite", "listHealth", "health", "probe"} \subseteq PCs
    BY DEF PCs
  <2> QED
    BY <1>2, <2>1, <2>2, <2>3, <2>4, <2>5, <2>6, <2>7, <2>8, <2>9, <2>10, <2>11,
       <2>12, <2>13, <2>14, <2>15
    DEF WorkerStep, ProcessCreating, ProcessDeleting, ProcessActive, ProcessHealth
<1>3. ASSUME NEW w \in Worker, Restart(w) PROVE TypeOK'
  <2>1. NoTargets \in [Instance -> Health] BY DEF NoTargets, Health
  <2>2. WorkerType' BY <1>3, <2>1 DEF TypeOK, WorkerType, Restart, Goto, PCs
  <2> QED BY <1>3, <2>2, FaultType, UnchangedType DEF TypeOK, Restart
<1>4. ASSUME NEW c \in Client, ClientStep(c) PROVE TypeOK'
  <2>1. CASE CreateCheck(c)
    <3>1. PICK k \in Key \cup {NoKey}, v \in Vpc : CreateCheck(c)!(k, v)
      BY <2>1 DEF CreateCheck
    <3>2. RequestType' BY <3>1 DEF TypeOK, RequestType, NoReply
    <3> QED BY <2>1, <3>2, UnchangedType DEF TypeOK, CreateCheck
  <2>2. CASE CreateInsert(c)
    <3>1. RequestType' BY <2>2 DEF TypeOK, RequestType, CreateInsert, NoRequest
    <3>2. TableType'
      <4>1. req[c].key \in Key \cup {NoKey} /\ req[c].vpc \in Vpc \cup {NoVpc}
        BY DEF TypeOK, RequestType
      <4>2. [status |-> "CREATING", version |-> 1, key |-> req[c].key, vpc |-> req[c].vpc] \in Rows
        BY <4>1 DEF Rows, Status
      <4>3. lb' = lb \/ \E l \in LB : lb' = [lb EXCEPT ![l] =
              [status |-> "CREATING", version |-> 1, key |-> req[c].key, vpc |-> req[c].vpc]]
        BY <2>2 DEF CreateInsert
      <4>4. lb' \in [LB -> Rows] BY <4>2, <4>3 DEF TypeOK, TableType
      <4>5. UNCHANGED <<target, inst>> BY <2>2 DEF CreateInsert
      <4> QED BY <4>4, <4>5 DEF TypeOK, TableType
    <3> QED BY <2>2, <3>1, <3>2, UnchangedType DEF TypeOK, CreateInsert
  <2>3. CASE DeleteGet(c)
    <3>1. RequestType' BY <2>3 DEF TypeOK, TableType, Rows, RequestType, DeleteGet, NoRequest
    <3> QED BY <2>3, <3>1, UnchangedType DEF TypeOK, DeleteGet
  <2>4. CASE DeleteMark(c)
    <3>1. RequestType' BY <2>4 DEF TypeOK, RequestType, DeleteMark, NoRequest
    <3>2. TableType' BY <2>4, UpdateType DEF TypeOK, DeleteMark, Status
    <3> QED BY <2>4, <3>1, <3>2, UnchangedType DEF TypeOK, DeleteMark
  <2> QED BY <1>4, <2>1, <2>2, <2>3, <2>4 DEF ClientStep
<1>5. ASSUME NEW l \in LB, NEW i \in Instance, AddTarget(l, i) \/ RemoveTarget(l, i)
      PROVE  TypeOK'
  <2>0. "unknown" \in Health /\ "none" \in Health BY DEF Health
  <2>a. target \in [LB -> [Instance -> Health]] BY DEF TypeOK, TableType
  <2>b. PICK h \in Health : target' = [target EXCEPT ![l][i] = h]
    BY <1>5, <2>0 DEF AddTarget, RemoveTarget
  <2>c. target' \in [LB -> [Instance -> Health]] BY <2>a, <2>b
  <2>d. UNCHANGED <<lb, inst>> BY <1>5 DEF AddTarget, RemoveTarget
  <2>1. TableType' BY <2>c, <2>d DEF TypeOK, TableType
  <2> QED BY <1>5, <2>1, UnchangedType DEF TypeOK, AddTarget, RemoveTarget
<1>6. ASSUME NEW i \in Instance, InstanceDeleted(i) PROVE TypeOK'
  <2>a. target \in [LB -> [Instance -> Health]] /\ "none" \in Health
    BY DEF TypeOK, TableType, Health
  <2>b. target' \in [LB -> [Instance -> Health]] BY <1>6, <2>a DEF InstanceDeleted
  <2>1. TableType' BY <1>6, <2>b DEF TypeOK, TableType, InstanceDeleted
  <2> QED BY <1>6, <2>1, UnchangedType DEF TypeOK, InstanceDeleted
<1> QED
  BY <1>1, <1>2, <1>3, <1>4, <1>5, <1>6 DEF Next, TargetStep

(* Every reachable state is well typed. *)
THEOREM TypeCorrect == Spec => []TypeOK
<1>1. Init => TypeOK
  BY BoundsType
  DEF Init, TypeOK, TableType, DockerType, WorkerType, RequestType, Rows, Upstreams,
      NoRow, NoTargets, NoContainer, NoRequest, NoReply, PCs, Health, Status
<1> QED
  BY <1>1, TypeStep, PTL DEF Spec

-----------------------------------------------------------------------------
(* Only four steps write a load_balancers row. *)
LEMMA RowWriters ==
  ASSUME [Next]_vars
  PROVE  \/ UNCHANGED lb
         \/ \E c \in Client : CreateInsert(c) \/ DeleteMark(c)
         \/ \E w \in Worker : DeployActivate(w) \/ CleanupRow(w)
<1>1. CASE UNCHANGED vars
  BY <1>1 DEF vars, tables
<1>2. ASSUME NEW w \in Worker, WorkerStep(w), ~DeployActivate(w), ~CleanupRow(w)
      PROVE  UNCHANGED lb
  <2>1. UNCHANGED tables \/ ProbeTarget(w)
    BY <1>2
    DEF WorkerStep, ProcessCreating, ProcessDeleting, ProcessActive, ProcessHealth,
        ListPhase, EndPhase, NextRow, DeployWrite, DeployRemove, DeployCreate,
        DeployStart, CleanupContainer, CleanupConfig, ActiveRewrite, ActiveReload, EndProbe
  <2> QED BY <2>1 DEF tables, ProbeTarget
<1>3. ASSUME NEW w \in Worker, Restart(w) PROVE UNCHANGED lb
  BY <1>3 DEF Restart, tables
<1>4. ASSUME NEW c \in Client, CreateCheck(c) \/ DeleteGet(c) PROVE UNCHANGED lb
  BY <1>4 DEF CreateCheck, DeleteGet, tables
<1>5. ASSUME NEW l \in LB, NEW i \in Instance, AddTarget(l, i) \/ RemoveTarget(l, i)
      PROVE  UNCHANGED lb
  BY <1>5 DEF AddTarget, RemoveTarget
<1>6. ASSUME NEW i \in Instance, InstanceDeleted(i) PROVE UNCHANGED lb
  BY <1>6 DEF InstanceDeleted
<1> QED
  BY <1>1, <1>2, <1>3, <1>4, <1>5, <1>6 DEF Next, ClientStep, TargetStep

(* The phase that deploys, and the part of it inside deployLB. *)
Deploying == {"creating", "write", "remove", "create", "start", "update"}
InDeploy  == Deploying \ {"creating"}

(* A row is CREATING only at version 1, and every later status has a later  *)
(* version; a worker that deploys holds version 1 of the rows it works on.  *)
RowVersions ==
  \A l \in LB :
    /\ lb[l].status = "CREATING" => lb[l].version = 1
    /\ lb[l].status \in {"ACTIVE", "DELETED"} => lb[l].version > 1

HeldVersions ==
  \A w \in Worker :
    /\ pc[w] \in Deploying => \A l \in todo[w] : snap[w][l] = 1
    /\ pc[w] \in InDeploy  => cur[w] \in LB /\ snap[w][cur[w]] = 1

VersionInv == TypeOK /\ RowVersions /\ HeldVersions

LEMMA UpdateVersions ==
  ASSUME TypeOK, RowVersions, NEW l, NEW ver, NEW status \in {"ACTIVE", "DELETED"},
         UpdateRow(l, ver, status)
  PROVE  RowVersions'
<1> SUFFICES ASSUME NEW m \in LB
             PROVE  /\ lb'[m].status = "CREATING" => lb'[m].version = 1
                    /\ lb'[m].status \in {"ACTIVE", "DELETED"} => lb'[m].version > 1
  BY DEF RowVersions
<1>1. lb \in [LB -> Rows] BY DEF TypeOK, TableType
<1>2. CASE lb'[m] = lb[m]
  BY <1>2 DEF RowVersions
<1>3. CASE m = l /\ Live(l) /\ lb[l].version = ver
  <2>1. lb[l].version \in Nat /\ lb[l].version >= 1
    BY <1>1, <1>3 DEF Live, RowVersions, Rows
  <2>2. lb'[l].status = status /\ lb'[l].version = lb[l].version + 1
    BY <1>1, <1>3 DEF UpdateRow, Rows
  <2> QED BY <1>3, <2>1, <2>2
<1> QED BY <1>1, <1>2, <1>3 DEF UpdateRow

(* The locals of worker v, except the target list. *)
Kept(v) ==
  pc'[v] = pc[v] /\ todo'[v] = todo[v] /\ snap'[v] = snap[v] /\ cur'[v] = cur[v]

(* A step of one worker leaves the locals of the others alone. *)
LEMMA OthersKeep ==
  ASSUME WorkerType, NEW w \in Worker, NEW v \in Worker, v # w, WorkerStep(w) \/ Restart(w)
  PROVE  Kept(v)
<1> USE DEF WorkerType
<1>1. ASSUME NEW p, Step(w, p) PROVE Kept(v)
  BY <1>1 DEF Step, Goto, Kept
<1>2. ASSUME NEW p, NextIteration(w, p) PROVE Kept(v)
  BY <1>2 DEF NextIteration, Goto, Kept
<1>3. ASSUME NEW from, NEW to, NEW skip, NEW status, ListPhase(w, from, to, skip, status)
      PROVE  Kept(v)
  BY <1>3 DEF ListPhase, Goto, Kept
<1>4. ASSUME NEW from, NEW to, EndPhase(w, from, to) PROVE Kept(v)
  BY <1>4 DEF EndPhase, Goto, Kept
<1>5. ASSUME NEW from, NEW to, NextRow(w, from, to) PROVE Kept(v)
  BY <1>5 DEF NextRow, Goto, Kept
<1>6. CASE DeployWrite(w) \/ DeployRemove(w) \/ DeployCreate(w) \/ DeployStart(w) \/ DeployActivate(w)
  BY <1>1, <1>2, <1>6 DEF DeployWrite, DeployRemove, DeployCreate, DeployStart, DeployActivate
<1>7. CASE CleanupContainer(w)
  BY <1>7 DEF CleanupContainer, Goto, Kept
<1>8. CASE CleanupConfig(w) \/ CleanupRow(w) \/ ActiveRewrite(w) \/ ActiveReload(w) \/ EndProbe(w)
  BY <1>1, <1>2, <1>8 DEF CleanupConfig, CleanupRow, ActiveRewrite, ActiveReload, EndProbe
<1>9. CASE ProbeTarget(w)
  BY <1>9 DEF ProbeTarget, Kept
<1>10. CASE Restart(w)
  BY <1>10 DEF Restart, Goto, Kept
<1> QED
  BY <1>3, <1>4, <1>5, <1>6, <1>7, <1>8, <1>9, <1>10
  DEF WorkerStep, ProcessCreating, ProcessDeleting, ProcessActive, ProcessHealth

LEMMA VersionStep ==
  ASSUME VersionInv, [Next]_vars
  PROVE  VersionInv'
<1>1. TypeOK' BY TypeStep DEF VersionInv
<1>2. RowVersions'
  <2>1. CASE UNCHANGED lb BY <2>1 DEF VersionInv, RowVersions
  <2>2. ASSUME NEW c \in Client, CreateInsert(c) PROVE RowVersions'
    BY <2>2 DEF VersionInv, RowVersions, CreateInsert, TypeOK, TableType
  <2>3. ASSUME NEW c \in Client, DeleteMark(c) PROVE RowVersions'
    BY <2>3, UpdateVersions DEF VersionInv, DeleteMark
  <2>4. ASSUME NEW w \in Worker, DeployActivate(w) PROVE RowVersions'
    <3>1. CASE UNCHANGED lb BY <3>1 DEF VersionInv, RowVersions
    <3> QED BY <2>4, <3>1, UpdateVersions DEF VersionInv, DeployActivate
  <2>5. ASSUME NEW w \in Worker, CleanupRow(w) PROVE RowVersions'
    BY <2>5 DEF VersionInv, RowVersions, CleanupRow, DeleteRow, TypeOK, TableType, Rows
  <2> QED BY <2>1, <2>2, <2>3, <2>4, <2>5, RowWriters
<1>3. HeldVersions'
  <2>1. ASSUME UNCHANGED workers PROVE HeldVersions'
    BY <2>1 DEF VersionInv, HeldVersions, workers
  <2>2. ASSUME NEW w \in Worker, WorkerStep(w) \/ Restart(w) PROVE HeldVersions'
    <3> SUFFICES ASSUME NEW v \in Worker
                 PROVE  /\ pc'[v] \in Deploying => \A l \in todo'[v] : snap'[v][l] = 1
                        /\ pc'[v] \in InDeploy  => cur'[v] \in LB /\ snap'[v][cur'[v]] = 1
      BY DEF HeldVersions
    <3> USE DEF VersionInv, HeldVersions, TypeOK, WorkerType
    <3>1. CASE v # w
      <4>1. Kept(v) BY <2>2, <3>1, OthersKeep
      <4> QED BY <4>1 DEF Kept
    <3>2. CASE v = w
      <4> USE DEF Deploying, InDeploy
      <4>1. CASE ListPhase(w, "tick", "creating", "listDeleting", "CREATING")
        <5>1. \/ pc'[w] = "listDeleting"
              \/ /\ pc'[w] = "creating"
                 /\ todo'[w] = {l \in LB : lb[l].status = "CREATING"}
                 /\ snap'[w] = [l \in LB |-> lb[l].version]
          BY <4>1, Zenon DEF ListPhase, Goto
        <5> QED BY <3>2, <5>1 DEF RowVersions
      <4>2. CASE NextRow(w, "creating", "write")
        <5>1. PICK l \in todo[w] : NextRow(w, "creating", "write")!2!(l)
          BY <4>2, Zenon DEF NextRow
        <5>2. todo'[w] = todo[w] \ {l} /\ snap' = snap /\ pc[w] = "creating"
          BY <4>2, <5>1 DEF NextRow
        <5>3. UNCHANGED <<pc, cur, tgs>> \/ cur'[w] = l
          BY <5>1
        <5> QED BY <3>2, <5>2, <5>3
      <4>3. CASE DeployWrite(w) \/ DeployRemove(w) \/ DeployCreate(w) \/ DeployStart(w)
        BY <3>2, <4>3
        DEF DeployWrite, DeployRemove, DeployCreate, DeployStart, Goto, Step, NextIteration
      <4>4. CASE DeployActivate(w)
        BY <3>2, <4>4 DEF DeployActivate, Goto, NextIteration
      <4>5. pc'[w] \notin Deploying \/ WorkerStep(w)!1 \/ DeployWrite(w) \/ DeployRemove(w)
              \/ DeployCreate(w) \/ DeployStart(w) \/ DeployActivate(w)
        BY <2>2
        DEF WorkerStep, ProcessDeleting, ProcessActive, ProcessHealth,
            ListPhase, EndPhase, NextRow, CleanupContainer, CleanupConfig, CleanupRow,
            ActiveRewrite, ActiveReload, ProbeTarget, EndProbe, Restart,
            Goto, Step, NextIteration
      <4>6. CASE EndPhase(w, "creating", "listDeleting") \/ pc'[w] \notin Deploying
        BY <3>2, <4>6 DEF EndPhase, Goto
      <4> QED BY <4>1, <4>2, <4>3, <4>4, <4>5, <4>6, Zenon DEF WorkerStep, ProcessCreating
    <3> QED BY <3>1, <3>2
  <2>3. UNCHANGED workers \/ \E w \in Worker : WorkerStep(w) \/ Restart(w)
    BY DEF Next, vars, ClientStep, TargetStep, CreateCheck, CreateInsert, DeleteGet, DeleteMark,
           AddTarget, RemoveTarget, InstanceDeleted
  <2> QED BY <2>1, <2>2, <2>3
<1> QED BY <1>1, <1>2, <1>3 DEF VersionInv

(* VersionInv holds in every reachable state. *)
THEOREM VersionsCorrect == Spec => []VersionInv
<1>1. Init => VersionInv
  <2>1. Init => TypeOK
    BY BoundsType
    DEF Init, TypeOK, TableType, DockerType, WorkerType, RequestType, Rows, Upstreams,
        NoRow, NoTargets, NoContainer, NoRequest, NoReply, PCs, Health, Status
  <2> QED
    BY <2>1 DEF Init, VersionInv, RowVersions, HeldVersions, NoRow, Deploying, InDeploy
<1> QED
  BY <1>1, VersionStep, PTL DEF Spec

(* A load balancer that was marked DELETED is never ACTIVE again, whatever  *)
(* deployments were under way when Delete was called: the versioned UPDATE  *)
(* of deployLB misses every row that is no longer at version 1.             *)
THEOREM DeletedStaysDeleted == Spec => NoResurrection
<1> DEFINE Keeps(l) ==
       /\ lb[l].status = "DELETED" => lb'[l].status \in {"DELETED", "gone"}
       /\ lb[l].status = "gone" => lb'[l].status = "gone"
<1>1. ASSUME VersionInv, [Next]_vars, NEW l \in LB PROVE Keeps(l)
  <2>1. lb \in [LB -> Rows] /\ lb[l] \in Rows
    BY <1>1 DEF VersionInv, TypeOK, TableType
  <2>2. CASE UNCHANGED lb BY <2>2
  <2>3. ASSUME NEW c \in Client, CreateInsert(c) PROVE Keeps(l)
    BY <2>1, <2>3 DEF CreateInsert
  <2>4. ASSUME NEW c \in Client, DeleteMark(c) PROVE Keeps(l)
    <3>1. lb'[l] = lb[l] \/ (Live(l) /\ lb'[l].status = "DELETED")
      BY <2>1, <2>4 DEF DeleteMark, UpdateRow, Rows
    <3> QED BY <3>1 DEF Live
  <2>5. ASSUME NEW w \in Worker, DeployActivate(w) PROVE Keeps(l)
    <3>1. snap[w][cur[w]] = 1
      BY <1>1, <2>5 DEF VersionInv, HeldVersions, DeployActivate, InDeploy, Deploying
    <3>2. lb'[l] = lb[l] \/ (Live(l) /\ lb[l].version = 1)
      BY <2>1, <2>5, <3>1 DEF DeployActivate, UpdateRow
    <3>3. lb[l].version = 1 => lb[l].status # "DELETED"
      BY <1>1 DEF VersionInv, RowVersions
    <3> QED BY <3>2, <3>3 DEF Live
  <2>6. ASSUME NEW w \in Worker, CleanupRow(w) PROVE Keeps(l)
    <3>1. lb'[l] = lb[l] \/ lb'[l].status = "gone"
      BY <2>1, <2>6 DEF CleanupRow, DeleteRow, Rows
    <3> QED BY <3>1
  <2> QED BY <1>1, <2>2, <2>3, <2>4, <2>5, <2>6, RowWriters
<1>2. VersionInv /\ [Next]_vars => [\A l \in LB : Keeps(l)]_vars
  BY <1>1
<1> QED
  BY <1>2, VersionsCorrect, PTL DEF Spec, NoResurrection


-----------------------------------------------------------------------------
(* A row that exists keeps the key and the VPC it was inserted with, is not  *)
(* forgotten, and does not come to life again once it is deleted.            *)
LEMMA RowStep ==
  ASSUME TypeOK, [Next]_vars, NEW l \in LB, lb[l].status # "absent"
  PROVE  /\ lb'[l].key = lb[l].key /\ lb'[l].vpc = lb[l].vpc
         /\ lb'[l].status # "absent"
         /\ Live(l)' => Live(l)
<1>1. lb \in [LB -> Rows] /\ lb[l] \in Rows BY DEF TypeOK, TableType
<1>2. CASE UNCHANGED lb BY <1>2 DEF Live
<1>3. ASSUME NEW c \in Client, CreateInsert(c) PROVE lb'[l] = lb[l]
  BY <1>1, <1>3 DEF CreateInsert
<1>4. ASSUME NEW m, NEW ver, NEW status \in {"ACTIVE", "DELETED"}, UpdateRow(m, ver, status)
      PROVE  \/ lb'[l] = lb[l]
             \/ /\ Live(l) /\ lb'[l].status = status
                /\ lb'[l].key = lb[l].key /\ lb'[l].vpc = lb[l].vpc
  BY <1>1, <1>4 DEF UpdateRow, Rows
<1>5. ASSUME NEW w \in Worker, CleanupRow(w)
      PROVE  \/ lb'[l] = lb[l]
             \/ /\ lb'[l].status = "gone"
                /\ lb'[l].key = lb[l].key /\ lb'[l].vpc = lb[l].vpc
  BY <1>1, <1>5 DEF CleanupRow, DeleteRow, Rows
<1>6. ASSUME NEW c \in Client, DeleteMark(c) PROVE UpdateRow(req[c].lb, req[c].ver, "DELETED")
  BY <1>6 DEF DeleteMark
<1>7. ASSUME NEW w \in Worker, DeployActivate(w), ~UNCHANGED lb
      PROVE  UpdateRow(cur[w], snap[w][cur[w]], "ACTIVE")
  BY <1>7 DEF DeployActivate
<1> QED BY <1>1, <1>2, <1>3, <1>4, <1>5, <1>6, <1>7, RowWriters, Zenon DEF Live

(* The UNIQUE constraint on idempotency_key: two rows of the table do not    *)
(* have the same key.                                                        *)
KeyUnique == \A l, m \in LB : Live(l) /\ Live(m) /\ lb[l].key = lb[m].key => l = m

(* An answered Create names a row that was inserted with the request's key. *)
RepliesTrue ==
  \A c \in Client :
    reply[c].outcome = "ok" =>
      /\ reply[c].lb \in LB
      /\ lb[reply[c].lb].status # "absent"
      /\ lb[reply[c].lb].key = reply[c].key

KeyInv == TypeOK /\ KeyUnique /\ RepliesTrue

(* Create is the only operation that inserts a row, and its INSERT fails on  *)
(* a key that is taken, even when the lookup before it found nothing.        *)
LEMMA KeyUniqueStep ==
  ASSUME KeyInv, [Next]_vars
  PROVE  KeyUnique'
<1> SUFFICES ASSUME NEW l \in LB, NEW m \in LB, Live(l)', Live(m)', lb'[l].key = lb'[m].key
             PROVE  l = m
  BY DEF KeyUnique, Live
<1>0. lb \in [LB -> Rows] BY DEF KeyInv, TypeOK, TableType
<1>1. CASE lb[l].status # "absent" /\ lb[m].status # "absent"
  BY <1>1, RowStep DEF KeyInv, KeyUnique
<1>2. CASE lb[l].status = "absent" \/ lb[m].status = "absent"
  <2>1. ASSUME ~\E c \in Client : CreateInsert(c), NEW n \in LB, lb[n].status = "absent"
        PROVE  lb'[n] = lb[n]
    <3>1. ~Live(n) BY <2>1 DEF Live
    <3> QED BY <1>0, <2>1, <3>1, RowWriters, Zenon
            DEF DeleteMark, DeployActivate, CleanupRow, UpdateRow, DeleteRow
  <2>2. PICK c \in Client : CreateInsert(c)
    BY <1>2, <2>1 DEF Live
  <2>3. CASE UNCHANGED lb BY <1>2, <2>3 DEF Live
  <2>4. CASE ~UNCHANGED lb
    <3>1. ~KeyTaken(req[c].key) BY <2>2, <2>4 DEF CreateInsert
    <3>2. PICK n \in LB : lb' = [lb EXCEPT ![n] = [status |-> "CREATING", version |-> 1,
                                        key |-> req[c].key, vpc |-> req[c].vpc]]
      BY <2>2, <2>4 DEF CreateInsert
    <3>3. ASSUME NEW k \in LB, k # n, Live(k)' PROVE lb'[k].key # lb'[n].key
      <4>1. lb'[k] = lb[k] /\ lb'[n].key = req[c].key BY <1>0, <3>2, <3>3
      <4> QED BY <3>1, <3>3, <4>1 DEF KeyTaken, Live
    <3> QED BY <1>0, <1>2, <3>2, <3>3 DEF Live
  <2> QED BY <2>3, <2>4
<1> QED BY <1>1, <1>2

(* Create answers with the row it found or the row it inserted. *)
LEMMA RepliesStep ==
  ASSUME KeyInv, [Next]_vars
  PROVE  RepliesTrue'
<1> SUFFICES ASSUME NEW d \in Client, reply'[d].outcome = "ok"
             PROVE  /\ reply'[d].lb \in LB
                    /\ lb'[reply'[d].lb].status # "absent"
                    /\ lb'[reply'[d].lb].key = reply'[d].key
  BY DEF RepliesTrue
<1>0. lb \in [LB -> Rows] /\ DOMAIN reply = Client
  BY DEF KeyInv, TypeOK, TableType, RequestType
<1>1. CASE reply'[d] = reply[d]
  BY <1>1, RowStep DEF KeyInv, RepliesTrue
<1>2. ASSUME NEW c \in Client, CreateCheck(c), reply'[d] # reply[d]
      PROVE  \E l \in LB : Live(l) /\ reply'[d].lb = l /\ reply'[d].key = lb[l].key /\ UNCHANGED lb
  <2>1. PICK k \in Key \cup {NoKey}, v \in Vpc : CreateCheck(c)!(k, v)
    BY <1>2 DEF CreateCheck
  <2>2. CASE reply' = [reply EXCEPT ![c] = NoReply]
    BY <1>0, <1>2, <2>2 DEF NoReply
  <2>3. CASE \E l \in LB : /\ Live(l) /\ lb[l].key = k
                           /\ reply' = [reply EXCEPT ![c] = [lb |-> l, key |-> k, outcome |-> "ok"]]
    BY <1>0, <1>2, <2>1, <2>3 DEF tables
  <2> QED BY <2>1, <2>2, <2>3
<1>3. ASSUME NEW c \in Client, CreateInsert(c), reply'[d] # reply[d]
      PROVE  \E l \in LB : /\ reply'[d].lb = l /\ reply'[d].key = lb'[l].key
                           /\ lb'[l].status = "CREATING"
  <2>1. CASE reply' = [reply EXCEPT ![c] = [lb |-> NoLB, key |-> req[c].key, outcome |-> "failed"]]
    BY <1>0, <1>3, <2>1
  <2>2. CASE \E l \in LB :
               /\ lb' = [lb EXCEPT ![l] = [status |-> "CREATING", version |-> 1,
                                           key |-> req[c].key, vpc |-> req[c].vpc]]
               /\ reply' = [reply EXCEPT ![c] = [lb |-> l, key |-> req[c].key, outcome |-> "ok"]]
    <3>1. PICK l \in LB :
            /\ lb' = [lb EXCEPT ![l] = [status |-> "CREATING", version |-> 1,
                                        key |-> req[c].key, vpc |-> req[c].vpc]]
            /\ reply' = [reply EXCEPT ![c] = [lb |-> l, key |-> req[c].key, outcome |-> "ok"]]
      BY <2>2
    <3>2. lb'[l].key = req[c].key /\ lb'[l].status = "CREATING" BY <1>0, <3>1
    <3>3. c = d /\ reply'[d].lb = l /\ reply'[d].key = req[c].key BY <1>0, <1>3, <3>1
    <3> QED BY <3>2, <3>3
  <2> QED BY <1>3, <2>1, <2>2, Zenon DEF CreateInsert
<1>4. UNCHANGED reply \/ \E c \in Client : CreateCheck(c) \/ CreateInsert(c)
  BY Zenon DEF Next, vars, clients, WorkerStep, ProcessCreating, ProcessDeleting, ProcessActive,
         ProcessHealth, ListPhase, EndPhase, NextRow, DeployWrite, DeployRemove, DeployCreate,
         DeployStart, DeployActivate, CleanupContainer, CleanupConfig, CleanupRow,
         ActiveRewrite, ActiveReload, ProbeTarget, EndProbe, Restart, ClientStep, DeleteGet,
         DeleteMark, TargetStep, AddTarget, RemoveTarget, InstanceDeleted
<1> QED BY <1>1, <1>2, <1>3, <1>4 DEF Live

(* Two Creates that were answered with the same idempotency key name the     *)
(* same load balancer as long as both exist, for any number of concurrent    *)
(* requests and of workers.                                                  *)
THEOREM OneLBPerKey == Spec => []SameKeySameLB
<1>1. Init => KeyUnique /\ RepliesTrue
  BY DEF Init, KeyUnique, RepliesTrue, Live, NoRow, NoReply
<1>2. KeyInv /\ [Next]_vars => KeyInv'
  BY KeyUniqueStep, RepliesStep, TypeStep DEF KeyInv
<1>3. KeyInv => SameKeySameLB
  BY Zenon DEF KeyInv, KeyUnique, RepliesTrue, SameKeySameLB
<1>4. Init /\ TypeOK => KeyInv BY <1>1 DEF KeyInv
<1> HIDE DEF KeyInv
<1> QED BY <1>2, <1>3, <1>4, TypeCorrect, PTL DEF Spec

-----------------------------------------------------------------------------
(* The load balancer l has a row and instance i is in its VPC. *)
InVpc(l, i) == lb[l].status # "absent" /\ VpcOf[i] = lb[l].vpc

(* The steps of a worker during which it holds what ListTargets returned. *)
HoldsTargets == {"write", "remove", "create", "start", "update", "rewrite", "reload", "probe"}

(* Only AddTarget compares the VPCs.  The rows of lb_targets, the worker's   *)
(* copy of them, the config file and the running nginx each take their       *)
(* instances from the one before, at times when that one may have changed.   *)
TargetsInVpc == \A l \in LB, i \in Instance : target[l][i] # "none" => InVpc(l, i)
CopyInVpc ==
  \A w \in Worker :
    /\ \A i \in Instance : tgs[w][i] # "none" => cur[w] \in LB /\ InVpc(cur[w], i)
    /\ pc[w] \notin HoldsTargets => tgs[w] = NoTargets
ConfInVpc    == \A l \in LB : conf[l] # NoConf => \A i \in conf[l] : InVpc(l, i)
ServingInVpc == \A l \in LB : serving[l] # NoConf => \A i \in serving[l] : InVpc(l, i)

VpcInv == TypeOK /\ TargetsInVpc /\ CopyInVpc /\ ConfInVpc /\ ServingInVpc

LEMMA InVpcKept ==
  ASSUME TypeOK, [Next]_vars, NEW l \in LB, NEW i, InVpc(l, i)
  PROVE  InVpc(l, i)'
BY RowStep DEF InVpc

(* A step that writes lb_targets is one of five; no other touches them. *)
LEMMA TargetWriters ==
  ASSUME [Next]_vars
  PROVE  \/ UNCHANGED target
         \/ TargetStep
         \/ \E i \in Instance : InstanceDeleted(i)
         \/ \E w \in Worker : ProbeTarget(w) \/ CleanupRow(w)
<1>1. ASSUME NEW w \in Worker, WorkerStep(w) \/ Restart(w), ~ProbeTarget(w), ~CleanupRow(w)
      PROVE  UNCHANGED target
  BY <1>1, Zenon
  DEF WorkerStep, ProcessCreating, ProcessDeleting, ProcessActive, ProcessHealth, ListPhase,
      EndPhase, NextRow, DeployWrite, DeployRemove, DeployCreate, DeployStart, DeployActivate,
      CleanupContainer, CleanupConfig, ActiveRewrite, ActiveReload, EndProbe, Restart, tables
<1>2. ASSUME NEW c \in Client, ClientStep(c) PROVE UNCHANGED target
  BY <1>2, Zenon DEF ClientStep, CreateCheck, CreateInsert, DeleteGet, DeleteMark, tables
<1>3. UNCHANGED vars => UNCHANGED target BY DEF vars, tables
<1> QED BY <1>1, <1>2, <1>3 DEF Next

(* A target row that exists after a step existed before it, or AddTarget has *)
(* just inserted it: a late health check inserts nothing.                    *)
LEMMA TargetOrigin ==
  ASSUME TypeOK, [Next]_vars, NEW l \in LB, NEW i \in Instance, target'[l][i] # "none"
  PROVE  target[l][i] # "none" \/ AddTarget(l, i)
<1>0. target \in [LB -> [Instance -> Health]] BY DEF TypeOK, TableType
<1>1. CASE UNCHANGED target BY <1>1
<1>2. ASSUME NEW m \in LB, NEW j \in Instance, AddTarget(m, j) \/ RemoveTarget(m, j)
      PROVE  target[l][i] # "none" \/ AddTarget(l, i)
  <2>1. CASE l = m /\ i = j BY <1>0, <1>2, <2>1 DEF RemoveTarget
  <2>2. CASE l # m \/ i # j
    <3>1. target'[l][i] = target[l][i] BY <1>0, <1>2, <2>2 DEF AddTarget, RemoveTarget
    <3> QED BY <3>1
  <2> QED BY <2>1, <2>2
<1>3. ASSUME NEW j \in Instance, InstanceDeleted(j) PROVE target[l][i] # "none"
  <2>1. target'[l] = [target[l] EXCEPT ![j] = "none"] BY <1>3 DEF InstanceDeleted
  <2> QED BY <1>0, <2>1
<1>4. ASSUME NEW w \in Worker, ProbeTarget(w) PROVE target[l][i] # "none"
  <2>1. PICK j \in Instance, h \in {"healthy", "unhealthy"} : ProbeTarget(w)!2!(j, h)
    BY <1>4, Zenon DEF ProbeTarget
  <2>2. CASE l = cur[w] /\ i = j BY <2>1, <2>2
  <2>3. CASE l # cur[w] \/ i # j
    <3>1. target'[l][i] = target[l][i] BY <1>0, <2>1, <2>3
    <3> QED BY <3>1
  <2> QED BY <2>2, <2>3
<1>5. ASSUME NEW w \in Worker, CleanupRow(w) PROVE target[l][i] # "none"
  <2>1. target'[l] = target[l] \/ target'[l] = NoTargets
    BY <1>0, <1>5 DEF CleanupRow, DeleteRow
  <2> QED BY <2>1 DEF NoTargets
<1> QED BY <1>1, <1>2, <1>3, <1>4, <1>5, TargetWriters DEF TargetStep

(* An upstream of a config file was there before the step, or the worker     *)
(* that rendered the file held it as a target of this load balancer.         *)
LEMMA ConfOrigin ==
  ASSUME TypeOK, [Next]_vars, NEW l \in LB, NEW i, conf'[l] # NoConf, i \in conf'[l]
  PROVE  \/ conf[l] # NoConf /\ i \in conf[l]
         \/ i \in Instance /\ \E w \in Worker : cur[w] = l /\ tgs[w][i] # "none"
<1>0. conf \in [LB -> Upstreams] /\ inst \subseteq Instance
  BY DEF TypeOK, DockerType, TableType
<1>1. CASE UNCHANGED conf BY <1>1
<1>2. ASSUME NEW w \in Worker, DeployWrite(w) \/ ActiveRewrite(w), conf'[l] # conf[l]
      PROVE  i \in Instance /\ cur[w] = l /\ tgs[w][i] # "none"
  <2>1. cur[w] = l /\ conf'[l] = GenerateNginxConfig(w)
    BY <1>0, <1>2 DEF DeployWrite, ActiveRewrite
  <2> QED BY <1>0, <2>1 DEF GenerateNginxConfig
<1>3. ASSUME NEW w \in Worker, CleanupConfig(w) PROVE conf'[l] = conf[l]
  BY <1>0, <1>3 DEF CleanupConfig
<1>4. ASSUME NEW w \in Worker, WorkerStep(w) \/ Restart(w), ~DeployWrite(w), ~ActiveRewrite(w),
             ~CleanupConfig(w)
      PROVE  UNCHANGED conf
  BY <1>4, Zenon
  DEF WorkerStep, ProcessCreating, ProcessDeleting, ProcessActive, ProcessHealth, ListPhase,
      EndPhase, NextRow, DeployRemove, DeployCreate, DeployStart, DeployActivate,
      CleanupContainer, CleanupRow, ActiveReload, ProbeTarget, EndProbe, Restart, docker
<1>5. UNCHANGED conf \/ \E w \in Worker : WorkerStep(w) \/ Restart(w)
  BY DEF Next, vars, docker, ClientStep, TargetStep, CreateCheck, CreateInsert, DeleteGet,
         DeleteMark, AddTarget, RemoveTarget, InstanceDeleted
<1> QED BY <1>1, <1>2, <1>3, <1>4, <1>5

(* nginx serves what it served before the step or what its file says. *)
LEMMA ServingOrigin ==
  ASSUME TypeOK, [Next]_vars, NEW l \in LB, serving'[l] # NoConf
  PROVE  serving'[l] = serving[l] \/ serving'[l] = conf[l]
<1>0. serving \in [LB -> Upstreams] BY DEF TypeOK, DockerType
<1>1. ASSUME NEW m, RemoveContainer(m) PROVE serving'[l] = serving[l]
  BY <1>0, <1>1 DEF RemoveContainer
<1>2. ASSUME NEW w \in Worker, DeployStart(w) \/ ActiveReload(w)
      PROVE  serving'[l] = serving[l] \/ serving'[l] = conf[l]
  BY <1>0, <1>2 DEF DeployStart, ActiveReload
<1>3. ASSUME NEW w \in Worker, DeployRemove(w) \/ CleanupContainer(w)
      PROVE  UNCHANGED serving \/ \E m \in LB \cup {NoLB} : RemoveContainer(m)
  BY <1>3 DEF DeployRemove, CleanupContainer, TypeOK, WorkerType
<1>4. ASSUME NEW w \in Worker, WorkerStep(w) \/ Restart(w), ~DeployRemove(w),
             ~CleanupContainer(w), ~DeployStart(w), ~ActiveReload(w)
      PROVE  UNCHANGED serving
  BY <1>4, Zenon
  DEF WorkerStep, ProcessCreating, ProcessDeleting, ProcessActive, ProcessHealth, ListPhase,
      EndPhase, NextRow, DeployWrite, DeployCreate, DeployActivate, CleanupConfig, CleanupRow,
      ActiveRewrite, ProbeTarget, EndProbe, Restart, docker
<1>5. UNCHANGED serving \/ \E w \in Worker : WorkerStep(w) \/ Restart(w)
  BY Zenon DEF Next, vars, docker, ClientStep, TargetStep, CreateCheck, CreateInsert, DeleteGet,
         DeleteMark, AddTarget, RemoveTarget, InstanceDeleted
<1> QED BY <1>1, <1>2, <1>3, <1>4, <1>5

(* No worker touches the target list of another. *)
LEMMA OthersKeepTargets ==
  ASSUME WorkerType, NEW w \in Worker, NEW v \in Worker, v # w, WorkerStep(w) \/ Restart(w)
  PROVE  tgs'[v] = tgs[v]
<1> USE DEF WorkerType
<1>1. ASSUME NEW p, Step(w, p) \/ NextIteration(w, p) PROVE tgs'[v] = tgs[v]
  BY <1>1 DEF Step, NextIteration
<1>2. ASSUME NEW from, NEW to, NEW skip, NEW status,
             ListPhase(w, from, to, skip, status) \/ EndPhase(w, from, to) \/ NextRow(w, from, to)
      PROVE  tgs'[v] = tgs[v]
  BY <1>2, Zenon DEF ListPhase, EndPhase, NextRow
<1>3. CASE DeployWrite(w) \/ DeployRemove(w) \/ DeployCreate(w) \/ DeployStart(w) \/ DeployActivate(w)
  BY <1>1, <1>3 DEF DeployWrite, DeployRemove, DeployCreate, DeployStart, DeployActivate
<1>4. CASE CleanupConfig(w) \/ CleanupRow(w) \/ ActiveRewrite(w) \/ ActiveReload(w) \/ EndProbe(w)
  BY <1>1, <1>4 DEF CleanupConfig, CleanupRow, ActiveRewrite, ActiveReload, EndProbe
<1>5. CASE CleanupContainer(w) \/ ProbeTarget(w) \/ Restart(w)
  BY <1>5 DEF CleanupContainer, ProbeTarget, Restart
<1> QED
  BY <1>2, <1>3, <1>4, <1>5, Zenon
  DEF WorkerStep, ProcessCreating, ProcessDeleting, ProcessActive, ProcessHealth

(* A worker's target list is dropped at the end of an iteration, loses an    *)
(* entry, stays with its load balancer, or is read from the table anew.      *)
LEMMA CopyOrigin ==
  ASSUME TypeOK, CopyInVpc, NEW w \in Worker, WorkerStep(w) \/ Restart(w)
  PROVE  /\ \A i \in Instance : tgs'[w][i] # "none" =>
              \/ tgs[w][i] # "none" /\ cur'[w] = cur[w]
              \/ cur'[w] \in LB /\ target[cur'[w]][i] # "none"
         /\ pc'[w] \notin HoldsTargets => tgs'[w] = NoTargets
<1> DEFINE Drops == tgs'[w] = NoTargets
           Stays == tgs'[w] = tgs[w] /\ cur'[w] = cur[w]
           Fresh == cur'[w] \in LB /\ tgs'[w] = target[cur'[w]]
<1>0. WorkerType BY DEF TypeOK
<1> USE DEF WorkerType
<1>1. ASSUME NEW p, Step(w, p) PROVE Stays /\ pc'[w] = p
  BY <1>0, <1>1 DEF Step, Goto
<1>2. ASSUME NEW p, NextIteration(w, p) PROVE Drops
  BY <1>0, <1>2 DEF NextIteration
<1>3. ASSUME NEW from, from \notin HoldsTargets, NEW to, NEW skip, NEW status,
             ListPhase(w, from, to, skip, status) \/ EndPhase(w, from, to)
      PROVE  Drops
  BY <1>0, <1>3, Zenon DEF ListPhase, EndPhase, CopyInVpc
<1>4. ASSUME NEW from, from \notin HoldsTargets, NEW to \in HoldsTargets, NextRow(w, from, to)
      PROVE  (Fresh /\ pc'[w] \in HoldsTargets) \/ Drops
  <2>1. PICK l \in todo[w] : NextRow(w, from, to)!2!(l)
    BY <1>4, Zenon DEF NextRow
  <2>2. l \in LB /\ pc[w] = from BY <1>0, <1>4, <2>1, Zenon DEF NextRow
  <2>3. tgs[w] = NoTargets BY <1>4, <2>2 DEF CopyInVpc
  <2> QED BY <1>0, <1>4, <2>1, <2>2, <2>3, Zenon DEF Goto
<1>5. CASE DeployWrite(w) \/ DeployRemove(w) \/ DeployCreate(w) \/ DeployStart(w)
             \/ DeployActivate(w) \/ ActiveRewrite(w) \/ ActiveReload(w)
  <2>1. (\E p \in HoldsTargets : Step(w, p)) \/ (\E p : NextIteration(w, p))
    BY <1>5 DEF DeployWrite, DeployRemove, DeployCreate, DeployStart, DeployActivate,
                ActiveRewrite, ActiveReload, HoldsTargets
  <2> QED BY <1>1, <1>2, <2>1, Zenon DEF NoTargets
<1>6. CASE CleanupContainer(w) \/ CleanupConfig(w)
  <2>1. pc[w] \in {"deleting", "rmConfig"} /\ tgs' = tgs
    BY <1>6 DEF CleanupContainer, CleanupConfig, Step
  <2>2. Drops BY <2>1 DEF CopyInVpc, HoldsTargets
  <2> QED BY <2>2 DEF NoTargets
<1>7. CASE CleanupRow(w) \/ EndProbe(w) \/ Restart(w)
  <2>1. Drops BY <1>0, <1>2, <1>7 DEF CleanupRow, EndProbe, Restart
  <2> QED BY <2>1 DEF NoTargets
<1>8. CASE ProbeTarget(w)
  <2>1. pc'[w] \in HoldsTargets /\ cur'[w] = cur[w] BY <1>8 DEF ProbeTarget, HoldsTargets
  <2>2. PICK j \in Instance : tgs' = [tgs EXCEPT ![w][j] = "none"]
    BY <1>8, Zenon DEF ProbeTarget
  <2>3. \A i \in Instance : tgs'[w][i] = "none" \/ tgs'[w][i] = tgs[w][i]
    BY <1>0, <2>2
  <2> QED BY <2>1, <2>3
<1>9. CASE Drops \/ (Fresh /\ pc'[w] \in HoldsTargets) BY <1>9 DEF NoTargets
<1>10. {"tick", "creating", "listDeleting", "deleting", "listActive", "active", "listHealth",
        "health"} \cap HoldsTargets = {}
       /\ {"write", "rewrite", "probe"} \subseteq HoldsTargets
  BY DEF HoldsTargets
<1>11. CASE ProcessCreating(w) \/ ProcessDeleting(w) \/ ProcessActive(w) \/ ProcessHealth(w)
  BY <1>3, <1>4, <1>6, <1>9, <1>10, <1>11, Zenon
  DEF ProcessCreating, ProcessDeleting, ProcessActive, ProcessHealth
<1> QED BY <1>5, <1>6, <1>7, <1>8, <1>11, Zenon DEF WorkerStep

LEMMA VpcStep ==
  ASSUME VpcInv, [Next]_vars
  PROVE  VpcInv'
<1>0. TypeOK /\ TypeOK' BY TypeStep DEF VpcInv
<1>1. TargetsInVpc'
  <2> SUFFICES ASSUME NEW l \in LB, NEW i \in Instance, target'[l][i] # "none"
               PROVE  InVpc(l, i)'
    BY Zenon DEF TargetsInVpc
  <2>1. CASE target[l][i] # "none"
    BY <1>0, <2>1, InVpcKept DEF VpcInv, TargetsInVpc
  <2>2. CASE AddTarget(l, i)
    <3>1. InVpc(l, i) BY <2>2 DEF AddTarget, InVpc, Live
    <3> QED BY <1>0, <3>1, InVpcKept
  <2> QED BY <1>0, <2>1, <2>2, TargetOrigin, Zenon
<1>2. ConfInVpc'
  <2> SUFFICES ASSUME NEW l \in LB, conf'[l] # NoConf, NEW i \in conf'[l]
               PROVE  InVpc(l, i)'
    BY DEF ConfInVpc
  <2>1. InVpc(l, i)
    BY <1>0, ConfOrigin DEF VpcInv, ConfInVpc, CopyInVpc
  <2> QED BY <1>0, <2>1, InVpcKept
<1>3. ServingInVpc'
  <2> SUFFICES ASSUME NEW l \in LB, serving'[l] # NoConf, NEW i \in serving'[l]
               PROVE  InVpc(l, i)'
    BY DEF ServingInVpc
  <2>1. InVpc(l, i)
    BY <1>0, ServingOrigin DEF VpcInv, ConfInVpc, ServingInVpc
  <2> QED BY <1>0, <2>1, InVpcKept
<1>4. CopyInVpc'
  <2> SUFFICES ASSUME NEW v \in Worker
               PROVE  /\ \A i \in Instance : tgs'[v][i] # "none" =>
                            cur'[v] \in LB /\ InVpc(cur[v], i)'
                      /\ pc'[v] \notin HoldsTargets => tgs'[v] = NoTargets
    BY DEF CopyInVpc, InVpc
  <2>1. ASSUME tgs'[v] = tgs[v], cur'[v] = cur[v], pc'[v] = pc[v]
        PROVE  /\ \A i \in Instance : tgs'[v][i] # "none" =>
                     cur'[v] \in LB /\ InVpc(cur[v], i)'
               /\ pc'[v] \notin HoldsTargets => tgs'[v] = NoTargets
    <3>1. ASSUME NEW i \in Instance, tgs[v][i] # "none"
          PROVE  cur'[v] \in LB /\ InVpc(cur[v], i)'
      <4>1. cur[v] \in LB /\ InVpc(cur[v], i) BY <3>1 DEF VpcInv, CopyInVpc
      <4>2. PICK l \in LB : l = cur[v] BY <4>1
      <4>3. InVpc(l, i)' BY <1>0, <4>1, <4>2, InVpcKept
      <4> QED BY <2>1, <4>2, <4>3 DEF InVpc
    <3> QED BY <2>1, <3>1 DEF VpcInv, CopyInVpc
  <2>2. CASE UNCHANGED workers
    BY <2>1, <2>2 DEF workers
  <2>3. ASSUME NEW w \in Worker, WorkerStep(w) \/ Restart(w), v # w
        PROVE  tgs'[v] = tgs[v] /\ cur'[v] = cur[v] /\ pc'[v] = pc[v]
    BY <1>0, <2>3, OthersKeep, OthersKeepTargets DEF TypeOK, Kept
  <2>4. ASSUME WorkerStep(v) \/ Restart(v)
        PROVE  /\ \A i \in Instance : tgs'[v][i] # "none" =>
                     cur'[v] \in LB /\ InVpc(cur[v], i)'
               /\ pc'[v] \notin HoldsTargets => tgs'[v] = NoTargets
    <3>1. PICK l : l = cur'[v] OBVIOUS
    <3>2. ASSUME NEW i \in Instance, tgs'[v][i] # "none"
          PROVE  l \in LB /\ InVpc(l, i)
      BY <1>0, <2>4, <3>1, <3>2, CopyOrigin DEF VpcInv, CopyInVpc, TargetsInVpc
    <3>3. ASSUME NEW i \in Instance, tgs'[v][i] # "none"
          PROVE  l \in LB /\ InVpc(l, i)'
      BY <1>0, <3>2, <3>3, InVpcKept
    <3> QED BY <1>0, <2>4, <3>1, <3>3, CopyOrigin DEF VpcInv, InVpc
  <2>5. UNCHANGED workers \/ \E w \in Worker : WorkerStep(w) \/ Restart(w)
    BY Zenon DEF Next, vars, ClientStep, TargetStep, CreateCheck, CreateInsert, DeleteGet, DeleteMark,
           AddTarget, RemoveTarget, InstanceDeleted
  <2> QED BY <2>1, <2>2, <2>3, <2>4, <2>5, Zenon
<1> QED BY <1>0, <1>1, <1>2, <1>3, <1>4 DEF VpcInv

(* nginx never forwards to an instance outside the load balancer's VPC, for  *)
(* any number of workers that render, start and reload it from stale copies  *)
(* of lb_targets.                                                            *)
THEOREM ServesOnlyOwnVpc == Spec => []ServesOwnVpc
<1>1. Init /\ TypeOK => VpcInv
  BY DEF Init, VpcInv, TargetsInVpc, CopyInVpc, ConfInVpc, ServingInVpc, NoTargets
<1>2. VpcInv => ServesOwnVpc
  BY Zenon DEF VpcInv, ServingInVpc, InVpc, ServesOwnVpc
<1> HIDE DEF VpcInv
<1> QED BY <1>1, <1>2, VpcStep, TypeCorrect, PTL DEF Spec

-----------------------------------------------------------------------------
(* With one worker, a row it is deploying is not ACTIVE or gone, and a row   *)
(* it is cleaning up is marked DELETED or gone.                              *)
OneWorker    == \A v, w \in Worker : v = w
Undeployed(l) == lb[l].status \in {"CREATING", "DELETED"}
Condemned(l)  == lb[l].status \in {"DELETED", "gone"}

DeployInv ==
  \A w \in Worker :
    /\ pc[w] \in Deploying => \A l \in todo[w] : Undeployed(l)
    /\ pc[w] \in InDeploy  => Undeployed(cur[w]) /\ cur[w] \notin todo[w]
    /\ pc[w] = "update"    => proxy[cur[w]].st = "running"

CleanupInv ==
  \A w \in Worker :
    /\ pc[w] \in {"deleting", "rmConfig", "rmRow"} => \A l \in todo[w] : Condemned(l)
    /\ pc[w] \in {"rmConfig", "rmRow"} =>
         /\ cur[w] \in LB
         /\ Condemned(cur[w])
         /\ cur[w] \in leaked \/ proxy[cur[w]].st = "none"

ProxyInv == VersionInv /\ DeployInv /\ CleanupInv /\ ActiveHasProxy /\ NoOrphanProxy

(* How the status of a row can change, for any number of workers. *)
LEMMA StatusStep ==
  ASSUME VersionInv, [Next]_vars, NEW l \in LB
  PROVE  \/ lb'[l].status = lb[l].status
         \/ lb[l].status = "absent" /\ lb'[l].status = "CREATING"
         \/ Live(l) /\ lb'[l].status = "DELETED"
         \/ /\ lb[l].status = "CREATING" /\ lb'[l].status = "ACTIVE"
            /\ \E w \in Worker : DeployActivate(w) /\ cur[w] = l
         \/ /\ lb'[l].status = "gone"
            /\ \E w \in Worker : CleanupRow(w) /\ cur[w] = l
<1>1. lb \in [LB -> Rows] /\ lb[l] \in Rows BY DEF VersionInv, TypeOK, TableType
<1>2. CASE UNCHANGED lb BY <1>2
<1>3. ASSUME NEW c \in Client, CreateInsert(c)
      PROVE  lb'[l] = lb[l] \/ (lb[l].status = "absent" /\ lb'[l].status = "CREATING")
  <2>1. CASE UNCHANGED lb BY <2>1
  <2>2. CASE ~UNCHANGED lb
    <3>1. PICK m \in LB : /\ lb[m].status = "absent"
                          /\ lb' = [lb EXCEPT ![m] = [status |-> "CREATING", version |-> 1,
                                                      key |-> req[c].key, vpc |-> req[c].vpc]]
      BY <1>3, <2>2, Zenon DEF CreateInsert
    <3> QED BY <1>1, <3>1
  <2> QED BY <2>1, <2>2
<1>4. ASSUME NEW c \in Client, DeleteMark(c)
      PROVE  lb'[l] = lb[l] \/ (Live(l) /\ lb'[l].status = "DELETED")
  BY <1>1, <1>4 DEF DeleteMark, UpdateRow, Rows
<1>5. ASSUME NEW w \in Worker, DeployActivate(w)
      PROVE  \/ lb'[l] = lb[l]
             \/ lb[l].status = "CREATING" /\ lb'[l].status = "ACTIVE" /\ cur[w] = l
  <2>1. snap[w][cur[w]] = 1
    BY <1>5 DEF VersionInv, HeldVersions, DeployActivate, InDeploy, Deploying
  <2>2. \/ lb'[l] = lb[l]
        \/ Live(l) /\ lb[l].version = 1 /\ lb'[l].status = "ACTIVE" /\ cur[w] = l
    BY <1>1, <1>5, <2>1 DEF DeployActivate, UpdateRow, Rows
  <2>3. Live(l) /\ lb[l].version = 1 => lb[l].status = "CREATING"
    BY DEF VersionInv, RowVersions, Live
  <2> QED BY <2>2, <2>3, Zenon
<1>6. ASSUME NEW w \in Worker, CleanupRow(w)
      PROVE  lb'[l] = lb[l] \/ (lb'[l].status = "gone" /\ cur[w] = l)
  BY <1>1, <1>6 DEF CleanupRow, DeleteRow, Rows
<1> QED BY <1>2, <1>3, <1>4, <1>5, <1>6, RowWriters, Zenon

LEMMA CondemnedKept ==
  ASSUME VersionInv, [Next]_vars, NEW l \in LB, Condemned(l)
  PROVE  Condemned(l)'
BY StatusStep DEF Condemned

LEMMA UndeployedKept ==
  ASSUME VersionInv, [Next]_vars, NEW l \in LB, Undeployed(l),
         ~\E w \in Worker : (DeployActivate(w) \/ CleanupRow(w)) /\ cur[w] = l
  PROVE  Undeployed(l)'
BY StatusStep DEF Undeployed

(* A running container is only stopped by the deployment or the cleanup of   *)
(* its own load balancer, and only a deployment makes one.                   *)
LEMMA ProxyStep ==
  ASSUME TypeOK, [Next]_vars, NEW l \in LB
  PROVE  /\ proxy[l].st = "running" /\ proxy'[l].st # "running" =>
              \E w \in Worker : \/ pc[w] = "remove" /\ cur[w] = l
                                \/ pc[w] = "deleting" /\ l \in todo[w]
         /\ proxy[l].st = "none" /\ proxy'[l].st # "none" =>
              \E w \in Worker : pc[w] \in InDeploy /\ cur[w] = l
         /\ leaked \subseteq leaked'
<1> DEFINE Goal ==
      /\ proxy[l].st = "running" /\ proxy'[l].st # "running" =>
           \E w \in Worker : \/ pc[w] = "remove" /\ cur[w] = l
                             \/ pc[w] = "deleting" /\ l \in todo[w]
      /\ proxy[l].st = "none" /\ proxy'[l].st # "none" =>
           \E w \in Worker : pc[w] \in InDeploy /\ cur[w] = l
      /\ leaked \subseteq leaked'
<1>0. /\ DOMAIN proxy = LB
      /\ proxy[l] \in [st : {"none", "created", "running"}, by : Worker \cup {NoOne}]
  BY DEF TypeOK, DockerType
<1>1. CASE UNCHANGED <<proxy, leaked>> BY <1>1
<1>2. ASSUME NEW w \in Worker, DeployRemove(w) PROVE Goal
  <2>1. proxy'[l] = proxy[l] \/ (proxy'[l].st = "none" /\ cur[w] = l)
    BY <1>0, <1>2 DEF DeployRemove, RemoveContainer, NoContainer
  <2> QED BY <1>2, <2>1 DEF DeployRemove
<1>3. ASSUME NEW w \in Worker, DeployCreate(w) PROVE Goal
  <2>1. proxy'[l] = proxy[l] \/ (cur[w] = l /\ proxy[l].st = "none")
    BY <1>0, <1>3 DEF DeployCreate
  <2> QED BY <1>3, <2>1 DEF DeployCreate, InDeploy, Deploying
<1>4. ASSUME NEW w \in Worker, DeployStart(w) PROVE Goal
  <2>1. proxy'[l] = proxy[l] \/ (cur[w] = l /\ proxy'[l].st = "running")
    BY <1>0, <1>4 DEF DeployStart
  <2> QED BY <1>4, <2>1 DEF DeployStart, InDeploy, Deploying
<1>5. ASSUME NEW w \in Worker, ActiveReload(w) PROVE Goal
  <2>1. proxy'[l] = proxy[l] \/ (proxy[l].st # "none" /\ proxy'[l].st = "running")
    BY <1>0, <1>5 DEF ActiveReload
  <2> QED BY <1>5, <2>1 DEF ActiveReload
<1>6. ASSUME NEW w \in Worker, CleanupContainer(w) PROVE Goal
  <2>1. PICK m \in todo[w] : CleanupContainer(w)!2!(m)
    BY <1>6, Zenon DEF CleanupContainer
  <2>2. proxy'[l] = proxy[l] \/ (proxy'[l].st = "none" /\ m = l)
    BY <1>0, <2>1 DEF RemoveContainer, NoContainer
  <2> QED BY <1>6, <2>1, <2>2 DEF CleanupContainer
<1>7. ASSUME NEW w \in Worker, WorkerStep(w) \/ Restart(w), ~DeployRemove(w), ~DeployCreate(w),
             ~DeployStart(w), ~ActiveReload(w), ~CleanupContainer(w)
      PROVE  UNCHANGED <<proxy, leaked>>
  BY <1>7, Zenon
  DEF WorkerStep, ProcessCreating, ProcessDeleting, ProcessActive, ProcessHealth, ListPhase,
      EndPhase, NextRow, DeployWrite, DeployActivate, CleanupConfig, CleanupRow,
      ActiveRewrite, ProbeTarget, EndProbe, Restart, docker
<1>8. UNCHANGED <<proxy, leaked>> \/ \E w \in Worker : WorkerStep(w) \/ Restart(w)
  BY Zenon DEF Next, vars, docker, ClientStep, TargetStep, CreateCheck, CreateInsert, DeleteGet,
         DeleteMark, AddTarget, RemoveTarget, InstanceDeleted
<1> QED BY <1>1, <1>2, <1>3, <1>4, <1>5, <1>6, <1>7, <1>8, Zenon

(* The two invariants hold after a step because the worker that removes or   *)
(* makes a container works on a row of the right status.                     *)
LEMMA ProxySafe ==
  ASSUME ProxyInv, [Next]_vars
  PROVE  ActiveHasProxy' /\ NoOrphanProxy'
<1>0. TypeOK /\ VersionInv BY DEF ProxyInv, VersionInv
<1>1. ASSUME NEW l \in LB, lb'[l].status = "ACTIVE" PROVE proxy'[l].st = "running"
  <2>1. CASE lb[l].status = "ACTIVE"
    <3>1. proxy[l].st = "running" BY <2>1 DEF ProxyInv, ActiveHasProxy
    <3>2. ASSUME NEW w \in Worker, pc[w] = "remove", cur[w] = l PROVE FALSE
      BY <2>1, <3>2 DEF ProxyInv, DeployInv, InDeploy, Deploying, Undeployed
    <3>3. ASSUME NEW w \in Worker, pc[w] = "deleting", l \in todo[w] PROVE FALSE
      BY <2>1, <3>3 DEF ProxyInv, CleanupInv, Condemned
    <3> QED BY <1>0, <3>1, <3>2, <3>3, ProxyStep, Zenon
  <2>2. CASE lb[l].status # "ACTIVE"
    <3>1. PICK w \in Worker : DeployActivate(w) /\ cur[w] = l
      BY <1>0, <1>1, <2>2, StatusStep
    <3> QED BY <3>1 DEF ProxyInv, DeployInv, DeployActivate, docker
  <2> QED BY <2>1, <2>2
<1>2. ASSUME NEW l \in LB, lb'[l].status = "gone", l \notin leaked' PROVE proxy'[l].st = "none"
  <2>0. l \notin leaked BY <1>0, <1>2, ProxyStep
  <2>1. CASE lb[l].status = "gone"
    <3>1. proxy[l].st = "none" BY <2>0, <2>1 DEF ProxyInv, NoOrphanProxy
    <3>2. ASSUME NEW w \in Worker, pc[w] \in InDeploy, cur[w] = l PROVE FALSE
      BY <2>1, <3>2 DEF ProxyInv, DeployInv, Undeployed
    <3> QED BY <1>0, <3>1, <3>2, ProxyStep
  <2>2. CASE lb[l].status # "gone"
    <3>1. PICK w \in Worker : CleanupRow(w) /\ cur[w] = l
      BY <1>0, <1>2, <2>2, StatusStep
    <3> QED BY <2>0, <3>1 DEF ProxyInv, CleanupInv, CleanupRow, docker
  <2> QED BY <2>1, <2>2
<1> QED BY <1>1, <1>2 DEF ActiveHasProxy, NoOrphanProxy

(* What a step does to the invariant of the only worker's deployments. *)
LEMMA DeployStep ==
  ASSUME OneWorker, ProxyInv, [Next]_vars
  PROVE  DeployInv'
<1> SUFFICES ASSUME NEW w \in Worker
             PROVE  /\ pc'[w] \in Deploying => \A l \in todo'[w] : Undeployed(l)'
                    /\ pc'[w] \in InDeploy  => Undeployed(cur[w])' /\ cur'[w] \notin todo'[w]
                    /\ pc'[w] = "update"    => proxy'[cur'[w]].st = "running"
  BY DEF DeployInv
<1> DEFINE Goal ==
      /\ pc'[w] \in Deploying => \A l \in todo'[w] : Undeployed(l)'
      /\ pc'[w] \in InDeploy  => Undeployed(cur[w])' /\ cur'[w] \notin todo'[w]
      /\ pc'[w] = "update"    => proxy'[cur'[w]].st = "running"
<1>0. TypeOK /\ VersionInv /\ WorkerType BY DEF ProxyInv, VersionInv, TypeOK
<1>a. todo[w] \subseteq LB BY <1>0 DEF WorkerType
<1>b. pc[w] \in InDeploy => cur[w] \in LB BY <1>0 DEF VersionInv, HeldVersions
<1>c. ASSUME UNCHANGED lb, NEW l, Undeployed(l) PROVE Undeployed(l)'
  BY <1>c DEF Undeployed
<1>d. Deploying \ InDeploy = {"creating"} /\ InDeploy \subseteq Deploying /\ "update" \in InDeploy
  BY DEF Deploying, InDeploy
<1>e. /\ pc[w] \in Deploying => \A l \in todo[w] : Undeployed(l)
      /\ pc[w] \in InDeploy  => Undeployed(cur[w]) /\ cur[w] \notin todo[w]
      /\ pc[w] = "update"    => proxy[cur[w]].st = "running"
  BY DEF ProxyInv, DeployInv
<1>1. CASE UNCHANGED <<workers, docker>> /\ ~\E v \in Worker : WorkerStep(v)
  <2>1. ASSUME NEW l \in LB, Undeployed(l) PROVE Undeployed(l)'
    BY <1>0, <1>1, <2>1, UndeployedKept DEF WorkerStep
  <2>2. pc'[w] = pc[w] /\ todo'[w] = todo[w] /\ cur'[w] = cur[w] /\ proxy' = proxy
    BY <1>1 DEF workers, docker
  <2>3. pc[w] \in InDeploy => Undeployed(cur[w])'
    <3>1. PICK l : l = cur[w] OBVIOUS
    <3>2. pc[w] \in InDeploy => Undeployed(l)' BY <1>b, <1>e, <2>1, <3>1, Zenon
    <3> QED BY <2>2, <3>1, <3>2 DEF Undeployed
  <2> QED BY <1>a, <1>e, <2>1, <2>2, <2>3
<1>2. ASSUME WorkerStep(w) \/ Restart(w) PROVE Goal
  <2>1. CASE ListPhase(w, "tick", "creating", "listDeleting", "CREATING")
    <3>1. \/ pc'[w] = "listDeleting"
          \/ pc'[w] = "creating" /\ todo'[w] = {l \in LB : lb[l].status = "CREATING"}
      BY <1>0, <2>1 DEF ListPhase, Goto, WorkerType
    <3>2. UNCHANGED lb BY <2>1 DEF ListPhase, tables
    <3> QED BY <3>1, <3>2 DEF Undeployed, InDeploy, Deploying
  <2>2. CASE NextRow(w, "creating", "write")
    <3>1. PICK l \in todo[w] : NextRow(w, "creating", "write")!2!(l)
      BY <2>2, Zenon DEF NextRow
    <3>2. todo'[w] = todo[w] \ {l} /\ pc[w] = "creating" /\ UNCHANGED lb
      BY <1>0, <2>2, <3>1 DEF NextRow, WorkerType, tables
    <3>3. (pc'[w] = "write" /\ cur'[w] = l) \/ pc'[w] = "creating"
      BY <1>0, <3>1, <3>2 DEF WorkerType, Goto
    <3>4. \A k \in todo[w] : Undeployed(k) BY <1>e, <3>2, Zenon DEF Deploying
    <3>5. \A k \in todo[w] : Undeployed(k)' BY <1>c, <3>2, <3>4
    <3> QED BY <3>2, <3>3, <3>5 DEF Undeployed, InDeploy, Deploying
  <2>3. CASE DeployWrite(w) \/ DeployRemove(w) \/ DeployCreate(w) \/ DeployStart(w)
    <3>1. pc[w] \in InDeploy /\ UNCHANGED lb
      BY <2>3 DEF DeployWrite, DeployRemove, DeployCreate, DeployStart, InDeploy, Deploying, tables
    <3>2. todo'[w] = todo[w] /\ (cur'[w] = cur[w] \/ pc'[w] = "creating")
      BY <1>0, <2>3
      DEF DeployWrite, DeployRemove, DeployCreate, DeployStart, Step, NextIteration, Goto, WorkerType
    <3>3. pc'[w] = "update" => DeployStart(w) /\ proxy' = [proxy EXCEPT ![cur[w]].st = "running"]
      BY <1>0, <2>3
      DEF DeployWrite, DeployRemove, DeployCreate, DeployStart, Step, NextIteration, Goto, WorkerType
    <3>4. pc'[w] = "update" => proxy'[cur[w]].st = "running"
      BY <1>0, <1>b, <3>1, <3>3 DEF TypeOK, DockerType
    <3>5. \A l \in todo[w] : Undeployed(l)' BY <1>c, <1>d, <1>e, <3>1, Zenon
    <3>6. cur'[w] = cur[w] => Undeployed(cur[w])'
      BY <1>e, <3>1 DEF Undeployed
    <3>7. pc'[w] = "update" => cur'[w] = cur[w] BY <3>2
    <3> QED BY <1>d, <1>e, <3>1, <3>2, <3>4, <3>5, <3>6, <3>7 DEF InDeploy
  <2>4. CASE DeployActivate(w)
    <3>1. pc[w] = "update" /\ pc'[w] = "creating" /\ todo'[w] = todo[w]
      BY <1>0, <2>4 DEF DeployActivate, NextIteration, Goto, WorkerType
    <3>2. ASSUME NEW l \in todo[w] PROVE Undeployed(l)'
      <4>1. l # cur[w] /\ Undeployed(l) /\ l \in LB BY <1>a, <1>d, <1>e, <3>1, Zenon
      <4>2. \A v \in Worker : v = w BY DEF OneWorker
      <4> QED BY <1>0, <4>1, <4>2, UndeployedKept
    <3> QED BY <3>1, <3>2 DEF InDeploy
  <2>5. CASE EndPhase(w, "creating", "listDeleting")
    BY <1>0, <2>5, Zenon DEF EndPhase, Goto, WorkerType, Deploying, InDeploy
  <2>6. CASE ProcessDeleting(w) \/ CleanupConfig(w) \/ CleanupRow(w) \/ ProcessActive(w)
             \/ ActiveRewrite(w) \/ ActiveReload(w) \/ ProcessHealth(w) \/ ProbeTarget(w)
             \/ EndProbe(w) \/ Restart(w)
    <3>1. pc'[w] \notin Deploying
      BY <1>0, <2>6
      DEF ProcessDeleting, ProcessActive, ProcessHealth, ListPhase, EndPhase, NextRow,
          CleanupContainer, CleanupConfig, CleanupRow, ActiveRewrite, ActiveReload, ProbeTarget,
          EndProbe, Restart, Goto, Step, NextIteration, WorkerType, Deploying
    <3> QED BY <1>d, <3>1
  <2> QED BY <1>2, <2>1, <2>2, <2>3, <2>4, <2>5, <2>6, Zenon DEF WorkerStep, ProcessCreating
<1>3. \/ WorkerStep(w) \/ Restart(w)
      \/ UNCHANGED <<workers, docker>> /\ ~\E v \in Worker : WorkerStep(v)
  <2>1. \A v \in Worker : v = w BY DEF OneWorker
  <2>2. UNCHANGED <<workers, docker>> \/ \E v \in Worker : WorkerStep(v) \/ Restart(v)
    BY Zenon DEF Next, vars, ClientStep, TargetStep, CreateCheck, CreateInsert, DeleteGet, DeleteMark,
           AddTarget, RemoveTarget, InstanceDeleted
  <2> QED BY <2>1, <2>2
<1> QED BY <1>1, <1>2, <1>3, Zenon

(* And to the invariant of its cleanups, which needs the steps of another    *)
(* worker excluded only for the container that must not come back.           *)
LEMMA CleanupStep ==
  ASSUME OneWorker, ProxyInv, [Next]_vars
  PROVE  CleanupInv'
<1> DEFINE Cleaning == {"deleting", "rmConfig", "rmRow"}
           Removing == {"rmConfig", "rmRow"}
<1> SUFFICES ASSUME NEW w \in Worker
             PROVE  /\ pc'[w] \in Cleaning => \A l \in todo'[w] : Condemned(l)'
                    /\ pc'[w] \in Removing =>
                         /\ cur'[w] \in LB
                         /\ Condemned(cur[w])'
                         /\ cur'[w] \in leaked' \/ proxy'[cur'[w]].st = "none"
  BY DEF CleanupInv
<1> DEFINE Goal ==
      /\ pc'[w] \in Cleaning => \A l \in todo'[w] : Condemned(l)'
      /\ pc'[w] \in Removing =>
           /\ cur'[w] \in LB
           /\ Condemned(cur[w])'
           /\ cur'[w] \in leaked' \/ proxy'[cur'[w]].st = "none"
<1>0. TypeOK /\ VersionInv /\ WorkerType BY DEF ProxyInv, VersionInv, TypeOK
<1>a. todo[w] \subseteq LB /\ todo'[w] \subseteq LB
  BY <1>0, TypeStep DEF TypeOK, WorkerType
<1>b. ASSUME NEW l \in LB, Condemned(l) PROVE Condemned(l)'
  BY <1>0, <1>b, CondemnedKept
<1>e. /\ pc[w] \in Cleaning => \A l \in todo[w] : Condemned(l)
      /\ pc[w] \in Removing =>
           cur[w] \in LB /\ Condemned(cur[w]) /\ (cur[w] \in leaked \/ proxy[cur[w]].st = "none")
  BY DEF ProxyInv, CleanupInv
<1>1. ASSUME pc'[w] = pc[w] \/ (pc[w] = "rmConfig" /\ pc'[w] = "rmRow"),
             todo'[w] = todo[w], cur'[w] = cur[w], UNCHANGED <<proxy, leaked>>
      PROVE  Goal
  <2>1. PICK l : l = cur[w] OBVIOUS
  <2>2. pc'[w] \in Removing => l \in LB /\ Condemned(l) BY <1>1, <1>e, <2>1
  <2>3. pc'[w] \in Removing => Condemned(l)' BY <1>b, <2>2
  <2>4. pc'[w] \in Removing => Condemned(cur[w])' BY <1>1, <2>1, <2>3 DEF Condemned
  <2> QED BY <1>1, <1>a, <1>b, <1>e, <2>4
<1>2. ASSUME WorkerStep(w) \/ Restart(w) PROVE Goal
  <2>1. CASE ListPhase(w, "listDeleting", "deleting", "listActive", "DELETED")
    <3>1. \/ pc'[w] = "listActive"
          \/ pc'[w] = "deleting" /\ todo'[w] = {l \in LB : lb[l].status = "DELETED"}
      BY <1>0, <2>1 DEF ListPhase, Goto, WorkerType
    <3>2. ASSUME NEW l \in LB, lb[l].status = "DELETED" PROVE Condemned(l)'
      BY <1>b, <3>2 DEF Condemned
    <3> QED BY <3>1, <3>2
  <2>2. CASE CleanupContainer(w)
    <3>1. PICK l \in todo[w] : CleanupContainer(w)!2!(l)
      BY <2>2, Zenon DEF CleanupContainer
    <3>2. l \in LB /\ cur'[w] = l /\ todo'[w] \subseteq todo[w]
      BY <1>0, <1>a, <3>1 DEF WorkerType
    <3>3. \A k \in todo[w] : Condemned(k)
      BY <1>e, <2>2 DEF CleanupContainer
    <3>4. \A k \in todo[w] : Condemned(k)' BY <1>a, <1>b, <3>3
    <3>5. l \in leaked' \/ proxy'[l].st = "none"
      BY <1>0, <3>1, <3>2 DEF RemoveContainer, NoContainer, TypeOK, DockerType
    <3>6. Condemned(cur[w])' BY <3>2, <3>4 DEF Condemned
    <3> QED BY <3>2, <3>4, <3>5, <3>6, Zenon
  <2>3. CASE CleanupConfig(w)
    BY <1>0, <1>1, <2>3, Zenon DEF CleanupConfig, Step, Goto, WorkerType
  <2>4. CASE CleanupRow(w)
    <3>1. pc[w] = "rmRow" /\ pc'[w] = "deleting" /\ todo'[w] = todo[w]
      BY <1>0, <2>4 DEF CleanupRow, NextIteration, Goto, WorkerType
    <3> QED BY <1>a, <1>b, <1>e, <3>1
  <2>5. CASE EndPhase(w, "deleting", "listActive")
    BY <1>0, <2>5, Zenon DEF EndPhase, Goto, WorkerType
  <2>6. CASE ProcessCreating(w) \/ DeployWrite(w) \/ DeployRemove(w) \/ DeployCreate(w)
             \/ DeployStart(w) \/ DeployActivate(w) \/ ProcessActive(w)
             \/ ActiveRewrite(w) \/ ActiveReload(w) \/ ProcessHealth(w) \/ ProbeTarget(w)
             \/ EndProbe(w) \/ Restart(w)
    BY <1>0, <2>6, Zenon
    DEF ProcessCreating, ProcessActive, ProcessHealth, ListPhase, EndPhase, NextRow,
        DeployWrite, DeployRemove, DeployCreate, DeployStart, DeployActivate, ActiveRewrite,
        ActiveReload, ProbeTarget, EndProbe, Restart, Goto, Step, NextIteration, WorkerType
  <2> QED BY <1>2, <2>1, <2>2, <2>3, <2>4, <2>5, <2>6, Zenon DEF WorkerStep, ProcessDeleting
<1>3. CASE UNCHANGED <<workers, docker>>
  <2>1. pc'[w] = pc[w] /\ todo'[w] = todo[w] /\ cur'[w] = cur[w] /\ UNCHANGED <<proxy, leaked>>
    BY <1>3 DEF workers, docker
  <2> QED BY <1>1, <2>1
<1>4. UNCHANGED <<workers, docker>> \/ WorkerStep(w) \/ Restart(w)
  <2>1. \A v \in Worker : v = w BY DEF OneWorker
  <2>2. UNCHANGED <<workers, docker>> \/ \E v \in Worker : WorkerStep(v) \/ Restart(v)
    BY Zenon DEF Next, vars, ClientStep, TargetStep, CreateCheck, CreateInsert, DeleteGet, DeleteMark,
           AddTarget, RemoveTarget, InstanceDeleted
  <2> QED BY <2>1, <2>2
<1> QED BY <1>2, <1>3, <1>4, Zenon

(* ProxyInv holds in every reachable state of a system with one worker. *)
LEMMA ProxiesCorrect ==
  ASSUME OneWorker
  PROVE  Spec => []ProxyInv
<1>1. ProxyInv /\ [Next]_vars => ProxyInv'
  BY VersionStep, DeployStep, CleanupStep, ProxySafe DEF ProxyInv
<1>2. Init /\ VersionInv => ProxyInv
  BY DEF Init, ProxyInv, DeployInv, CleanupInv, ActiveHasProxy, NoOrphanProxy, Deploying,
         InDeploy, NoRow
<1> HIDE DEF ProxyInv
<1> QED BY <1>1, <1>2, VersionsCorrect, PTL DEF Spec

(* With one API process a load balancer shown as ACTIVE has its nginx         *)
(* running, whatever fails, restarts or is deleted while it is deployed: the  *)
(* worker removes a container only on behalf of a row that is not ACTIVE.     *)
THEOREM ActiveProxyRuns ==
  ASSUME OneWorker
  PROVE  Spec => []ActiveHasProxy
<1>1. ProxyInv => ActiveHasProxy BY DEF ProxyInv
<1> QED BY <1>1, ProxiesCorrect, PTL

(* With one API process a load balancer whose row is deleted leaves no        *)
(* container but one that Docker refused to remove: no deployment of it is    *)
(* still under way that could create another.                                 *)
THEOREM DeletedLeavesNoProxy ==
  ASSUME OneWorker
  PROVE  Spec => []NoOrphanProxy
<1>1. ProxyInv => NoOrphanProxy BY DEF ProxyInv
<1> QED BY <1>1, ProxiesCorrect, PTL

=============================================================================
