---------------------------- MODULE ComputeProofs ----------------------------
(* Theorems about Compute, for every value of its constants. *)
EXTENDS Compute, TLAPS

Request == [pc : PCs, i : Inst \cup {NoInst}, v : Vol \cup {NoVol}, ver : Nat,
            cid : ContainerID, todo : SUBSET Vol, vols : SUBSET Vol]

(* A request that moves on or returns stays well typed. *)
LEMMA ControlType ==
  ASSUME RequestType, NEW r \in Req, NEW p \in PCs, Goto(r, p) \/ Return(r)
  PROVE  RequestType'
<1>1. Idle \in Request
  BY DEF Idle, Request, PCs, ContainerID
<1>2. req \in [Req -> Request]
  BY DEF RequestType, Request
<1>3. CASE Return(r)
  BY <1>1, <1>2, <1>3 DEF RequestType, Request, Return
<1>4. CASE Goto(r, p)
  BY <1>2, <1>4 DEF RequestType, Request, Goto
<1> QED BY <1>3, <1>4

(* A request that is replaced by a well-typed one stays well typed. *)
LEMMA RequestUpdate ==
  ASSUME RequestType, NEW r \in Req, NEW q \in Request, req' = [req EXCEPT ![r] = q]
  PROVE  RequestType'
BY DEF RequestType, Request

LEMMA BoundsStep ==
  ASSUME BoundsOK, Fault \/ NoFault \/ \E r \in Req : Begin(r)
  PROVE  BoundsOK'
BY BoundsType DEF BoundsOK, Fault, NoFault, Begin, bounds

TablesType == inst \in [Inst -> InstRows] /\ vol \in [Vol -> VolRows]
DockerType == box \in [Inst -> BoxState] /\ binds \in [Inst -> SUBSET Vol] /\ disk \subseteq Vol

LEMMA UnchangedType ==
  /\ TablesType /\ UNCHANGED tables => TablesType'
  /\ DockerType /\ UNCHANGED docker => DockerType'
BY DEF TablesType, DockerType, tables, docker

(* Writes of an instances row and of a volumes row keep the tables typed. *)
LEMMA UpdateInstType ==
  ASSUME TablesType, NEW i, NEW ver \in Nat, NEW status \in InstStatus, NEW cid \in ContainerID,
         UpdateInst(i, ver, status, cid), UNCHANGED vol
  PROVE  TablesType'
<1>1. [status |-> status, ver |-> ver + 1, cid |-> cid] \in InstRows
  BY DEF InstRows
<1>2. inst' \in [Inst -> InstRows]
  BY <1>1, Zenon DEF TablesType, UpdateInst
<1> QED BY <1>2 DEF TablesType

LEMMA UpdateVolType ==
  ASSUME TablesType, NEW v, NEW i \in Inst \cup {NoInst}, NEW status \in VolStatus,
         UpdateVol(v, status, i), UNCHANGED inst
  PROVE  TablesType'
<1>1. [status |-> status, inst |-> i] \in VolRows
  BY DEF VolRows
<1>2. vol' \in [Vol -> VolRows]
  BY <1>1, Zenon DEF TablesType, UpdateVol
<1> QED BY <1>2 DEF TablesType

LEMMA DeleteInstType ==
  ASSUME TablesType, NEW i, DeleteInst(i)
  PROVE  TablesType'
<1>1. inst' \in [Inst -> InstRows]
  <2>1. CASE i \in Inst /\ InstLive(i)
    <3>1. inst' = [inst EXCEPT ![i].status = "gone"] BY <2>1 DEF DeleteInst
    <3> QED BY <2>1, <3>1 DEF TablesType, InstRows, InstStatus
  <2>2. CASE i \notin Inst \/ ~InstLive(i)
    <3>1. inst' = inst BY <2>2 DEF DeleteInst, TablesType
    <3> QED BY <3>1 DEF TablesType
  <2> QED BY <2>1, <2>2
<1>2. vol' \in [Vol -> VolRows]
  BY DEF TablesType, DeleteInst, VolRows
<1> QED BY <1>1, <1>2 DEF TablesType

(* Every step of a request keeps the type invariant. *)
LEMMA TypeStep ==
  TypeOK /\ [Next]_vars => TypeOK'
<1> SUFFICES ASSUME TypeOK, [Next]_vars PROVE TypeOK'
  OBVIOUS
<1> USE DEF TypeOK
<1>a. TablesType /\ DockerType /\ RequestType
  BY DEF TablesType, DockerType
<1>b. SUFFICES TablesType' /\ DockerType' /\ RequestType'
               /\ BoundsOK'
  BY DEF TablesType, DockerType
<1> HIDE DEF TypeOK
<1>u. CASE UNCHANGED vars
  BY <1>u, <1>a, UnchangedType DEF vars, tables, docker, bounds, TypeOK, RequestType, BoundsOK
<1>n. CASE Next
  <2>0. PICK r \in Req : Launch(r) \/ Stop(r) \/ Terminate(r) \/ Volumes(r) \/ Crash(r)
    BY <1>n DEF Next
  <2>t. req[r] \in Request /\ req \in [Req -> Request]
    BY <1>a DEF RequestType, Request
  <2>f. BoundsOK
    BY DEF TypeOK
  <2>1. CASE LaunchRow(r)
    <3>1. TablesType'
      <4>1. [status |-> "STARTING", ver |-> 1, cid |-> "none"] \in InstRows
        BY DEF InstRows, InstStatus, ContainerID
      <4> QED BY <1>a, <2>1, <4>1 DEF LaunchRow, TablesType
    <3>2. DockerType'
      BY <1>a, <2>1, UnchangedType DEF LaunchRow
    <3>3. RequestType'
      <4>1. PICK i \in Inst, V \in SUBSET Vol : req' = [req EXCEPT ![r] = [Idle EXCEPT !.pc = "network", !.i = i, !.ver = 1, !.todo = V]]
        BY <2>1, Zenon DEF LaunchRow
      <4>2. [Idle EXCEPT !.pc = "network", !.i = i, !.ver = 1, !.todo = V] \in Request
        BY <1>a, <4>1, Zenon DEF Request, Idle, PCs, ContainerID
      <4> QED BY <1>a, <4>1, <4>2, RequestUpdate, Zenon
    <3>4. BoundsOK'
      BY <2>f, <2>1, BoundsStep DEF LaunchRow, NoFault
    <3> QED BY <3>1, <3>2, <3>3, <3>4
  <2>2. CASE LaunchNetwork(r)
    <3>1. TablesType'
      BY <1>a, <2>2, UnchangedType DEF LaunchNetwork
    <3>2. DockerType'
      BY <1>a, <2>2, UnchangedType DEF LaunchNetwork
    <3>3. RequestType'
      BY <1>a, <2>2, ControlType DEF LaunchNetwork, PCs
    <3>4. BoundsOK'
      BY <2>f, <2>2, BoundsStep DEF LaunchNetwork, NoFault
    <3> QED BY <3>1, <3>2, <3>3, <3>4
  <2>3. CASE LaunchResolve(r)
    <3>1. TablesType'
      BY <1>a, <2>3, UnchangedType DEF LaunchResolve
    <3>2. DockerType'
      BY <1>a, <2>3, UnchangedType DEF LaunchResolve
    <3>3. RequestType'
      <4>1. CASE req[r].todo = {}
        BY <1>a, <2>3, <4>1, ControlType DEF LaunchResolve, PCs
      <4>2. CASE req[r].todo # {}
        <5>1. PICK v \in req[r].todo :
                IF vol[v].status = "AVAILABLE"
                THEN req' = [req EXCEPT ![r].todo = @ \ {v}, ![r].vols = @ \cup {v}]
                ELSE Return(r)
          BY <2>3, <4>2 DEF LaunchResolve
        <5>2. CASE vol[v].status = "AVAILABLE"
          BY <2>t, <5>1, <5>2 DEF RequestType, Request
        <5>3. CASE vol[v].status # "AVAILABLE"
          BY <1>a, <5>1, <5>3, ControlType DEF PCs
        <5> QED BY <5>2, <5>3
      <4> QED BY <4>1, <4>2
    <3>4. BoundsOK'
      BY <2>f, <2>3, BoundsStep DEF LaunchResolve, NoFault
    <3> QED BY <3>1, <3>2, <3>3, <3>4
  <2>4. CASE LaunchCreate(r)
    <3>1. TablesType'
      BY <1>a, <2>4, UnchangedType DEF LaunchCreate
    <3>2. DockerType'
      BY <1>a, <2>t, <2>4 DEF LaunchCreate, DockerType, docker, BoxState, Request
    <3>3. RequestType'
      BY <1>a, <2>4, ControlType DEF LaunchCreate, PCs
    <3>4. BoundsOK'
      BY <2>f, <2>4, BoundsStep DEF LaunchCreate, NoFault
    <3> QED BY <3>1, <3>2, <3>3, <3>4
  <2>5. CASE LaunchStart(r)
    <3>1. TablesType'
      BY <1>a, <2>5, UnchangedType DEF LaunchStart
    <3>2. DockerType'
      BY <1>a, <2>t, <2>5 DEF LaunchStart, DockerType, BoxState, Request
    <3>3. RequestType'
      BY <1>a, <2>5, ControlType DEF LaunchStart, PCs
    <3>4. BoundsOK'
      BY <2>f, <2>5, BoundsStep DEF LaunchStart, NoFault
    <3> QED BY <3>1, <3>2, <3>3, <3>4
  <2>6. CASE LaunchError(r)
    <3>1. TablesType'
      BY <1>a, <2>t, <2>6, UpdateInstType DEF LaunchError, TablesType, Request, InstStatus, ContainerID
    <3>2. DockerType'
      BY <1>a, <2>6, UnchangedType DEF LaunchError
    <3>3. RequestType'
      BY <1>a, <2>6, ControlType DEF LaunchError, PCs
    <3>4. BoundsOK'
      BY <2>f, <2>6, BoundsStep DEF LaunchError, NoFault
    <3> QED BY <3>1, <3>2, <3>3, <3>4
  <2>7. CASE LaunchRunning(r)
    <3>1. TablesType'
      BY <1>a, <2>t, <2>7, UpdateInstType DEF LaunchRunning, TablesType, Request, InstStatus, ContainerID
    <3>2. DockerType'
      BY <1>a, <2>7, UnchangedType DEF LaunchRunning
    <3>3. RequestType'
      BY <1>a, <2>7, ControlType DEF LaunchRunning, PCs
    <3>4. BoundsOK'
      BY <2>f, <2>7, BoundsStep DEF LaunchRunning, NoFault
    <3> QED BY <3>1, <3>2, <3>3, <3>4
  <2>8. CASE StopMark(r)
    <3>1. TablesType'
      <4>1. req[r].ver \in Nat /\ req[r].cid \in ContainerID
        BY <2>t DEF Request
      <4>2. CASE UpdateInst(req[r].i, req[r].ver, "STOPPED", req[r].cid)
        BY <1>a, <2>8, <4>1, <4>2, UpdateInstType DEF StopMark, InstStatus
      <4>3. CASE UNCHANGED inst
        BY <1>a, <2>8, <4>3 DEF StopMark, TablesType
      <4> QED BY <2>8, <4>2, <4>3 DEF StopMark
    <3>2. DockerType'
      BY <1>a, <2>8, UnchangedType DEF StopMark
    <3>3. RequestType'
      BY <1>a, <2>8, ControlType DEF StopMark, PCs
    <3>4. BoundsOK'
      BY <2>f, <2>8, BoundsStep DEF StopMark, NoFault
    <3> QED BY <3>1, <3>2, <3>3, <3>4
  <2>9. CASE LaunchAttach(r)
    <3>1. TablesType'
      BY <1>a, <2>t, <2>9, UpdateVolType DEF LaunchAttach, TablesType, Request, VolStatus
    <3>2. DockerType'
      BY <1>a, <2>9, UnchangedType DEF LaunchAttach
    <3>3. RequestType'
      <4>1. CASE Return(r)
        BY <1>a, <4>1, ControlType DEF PCs
      <4>2. CASE \E v \in req[r].vols : req' = [req EXCEPT ![r].vols = @ \ {v}]
        BY <2>t, <4>2 DEF RequestType, Request
      <4> QED BY <2>9, <4>1, <4>2 DEF LaunchAttach
    <3>4. BoundsOK'
      BY <2>f, <2>9, BoundsStep DEF LaunchAttach, NoFault
    <3> QED BY <3>1, <3>2, <3>3, <3>4
  <2>10. CASE StopGet(r)
    <3>1. TablesType'
      BY <1>a, <2>10, UnchangedType DEF StopGet
    <3>2. DockerType'
      BY <1>a, <2>10, UnchangedType DEF StopGet
    <3>3. RequestType'
      <4>1. PICK i \in Inst : req' = [req EXCEPT ![r] = [Idle EXCEPT !.pc = "stop", !.i = i, !.ver = inst[i].ver, !.cid = inst[i].cid]]
        BY <2>10, Zenon DEF StopGet
      <4>2. [Idle EXCEPT !.pc = "stop", !.i = i, !.ver = inst[i].ver, !.cid = inst[i].cid] \in Request
        BY <1>a, <4>1, Zenon DEF Request, Idle, PCs, ContainerID, TablesType, InstRows
      <4> QED BY <1>a, <4>1, <4>2, RequestUpdate, Zenon
    <3>4. BoundsOK'
      BY <2>f, <2>10, BoundsStep DEF StopGet, NoFault
    <3> QED BY <3>1, <3>2, <3>3, <3>4
  <2>11. CASE TerminateGet(r)
    <3>1. TablesType'
      BY <1>a, <2>11, UnchangedType DEF TerminateGet
    <3>2. DockerType'
      BY <1>a, <2>11, UnchangedType DEF TerminateGet
    <3>3. RequestType'
      <4>1. PICK i \in Inst : req' = [req EXCEPT ![r] = [Idle EXCEPT !.pc = "remove", !.i = i]]
        BY <2>11, Zenon DEF TerminateGet
      <4>2. [Idle EXCEPT !.pc = "remove", !.i = i] \in Request
        BY <1>a, <4>1, Zenon DEF Request, Idle, PCs, ContainerID
      <4> QED BY <1>a, <4>1, <4>2, RequestUpdate, Zenon
    <3>4. BoundsOK'
      BY <2>f, <2>11, BoundsStep DEF TerminateGet, NoFault
    <3> QED BY <3>1, <3>2, <3>3, <3>4
  <2>12. CASE StopBox(r)
    <3>1. TablesType'
      BY <1>a, <2>12, UnchangedType DEF StopBox
    <3>2. DockerType'
      BY <1>a, <2>t, <2>12 DEF StopBox, DockerType, BoxState, Request
    <3>3. RequestType'
      BY <1>a, <2>12, ControlType DEF StopBox, PCs
    <3>4. BoundsOK'
      BY <2>f, <2>12, BoundsStep DEF StopBox, NoFault
    <3> QED BY <3>1, <3>2, <3>3, <3>4
  <2>13. CASE TerminateBox(r)
    <3>1. TablesType'
      BY <1>a, <2>13, UnchangedType DEF TerminateBox
    <3>2. DockerType'
      BY <1>a, <2>t, <2>13 DEF TerminateBox, DockerType, BoxState, Request
    <3>3. RequestType'
      BY <1>a, <2>13, ControlType DEF TerminateBox, PCs
    <3>4. BoundsOK'
      BY <2>f, <2>13, BoundsStep DEF TerminateBox, NoFault
    <3> QED BY <3>1, <3>2, <3>3, <3>4
  <2>14. CASE TerminateList(r)
    <3>1. TablesType'
      BY <1>a, <2>14, UnchangedType DEF TerminateList
    <3>2. DockerType'
      BY <1>a, <2>14, UnchangedType DEF TerminateList
    <3>3. RequestType'
      <4>1. CASE Goto(r, "delete")
        BY <1>a, <4>1, ControlType DEF PCs
      <4>2. CASE req' = [req EXCEPT ![r].pc = "release",
                              ![r].todo = {v \in Vol : VolLive(v) /\ vol[v].inst = req[r].i}]
        BY <2>t, <4>2, Zenon DEF RequestType, Request, PCs
      <4> QED BY <2>14, <4>1, <4>2 DEF TerminateList
    <3>4. BoundsOK'
      BY <2>f, <2>14, BoundsStep DEF TerminateList, NoFault
    <3> QED BY <3>1, <3>2, <3>3, <3>4
  <2>15. CASE TerminateRelease(r)
    <3>1. TablesType'
      BY <1>a, <2>t, <2>15, UpdateVolType DEF TerminateRelease, TablesType, Request, VolStatus
    <3>2. DockerType'
      BY <1>a, <2>15, UnchangedType DEF TerminateRelease
    <3>3. RequestType'
      <4>1. CASE Goto(r, "delete")
        BY <1>a, <4>1, ControlType DEF PCs
      <4>2. CASE \E v \in req[r].todo : req' = [req EXCEPT ![r].todo = @ \ {v}]
        BY <2>t, <4>2 DEF RequestType, Request
      <4> QED BY <2>15, <4>1, <4>2 DEF TerminateRelease
    <3>4. BoundsOK'
      BY <2>f, <2>15, BoundsStep DEF TerminateRelease, NoFault
    <3> QED BY <3>1, <3>2, <3>3, <3>4
  <2>16. CASE TerminateDelete(r)
    <3>1. TablesType'
      BY <1>a, <2>16, DeleteInstType, UnchangedType DEF TerminateDelete
    <3>2. DockerType'
      BY <1>a, <2>16, UnchangedType DEF TerminateDelete
    <3>3. RequestType'
      BY <1>a, <2>16, ControlType DEF TerminateDelete, PCs
    <3>4. BoundsOK'
      BY <2>f, <2>16, BoundsStep DEF TerminateDelete, NoFault
    <3> QED BY <3>1, <3>2, <3>3, <3>4
  <2>17. CASE CreateVolume(r)
    <3>1. TablesType'
      BY <1>a, <2>17, UnchangedType DEF CreateVolume
    <3>2. DockerType'
      BY <1>a, <2>17 DEF CreateVolume, DockerType
    <3>3. RequestType'
      <4>1. CASE UNCHANGED req
        BY <1>a, <4>1 DEF RequestType
      <4>2. CASE \E v \in Vol : req' = [req EXCEPT ![r] = [Idle EXCEPT !.pc = "volRow", !.v = v]]
        <5>1. PICK v \in Vol : req' = [req EXCEPT ![r] = [Idle EXCEPT !.pc = "volRow", !.v = v]]
          BY <4>2, Zenon
        <5>2. [Idle EXCEPT !.pc = "volRow", !.v = v] \in Request
          BY Zenon DEF Request, Idle, PCs, ContainerID
        <5> QED BY <1>a, <5>1, <5>2, RequestUpdate, Zenon
      <4> QED BY <2>17, <4>1, <4>2, Zenon DEF CreateVolume
    <3>4. BoundsOK'
      BY <2>f, <2>17, BoundsStep DEF CreateVolume, NoFault
    <3> QED BY <3>1, <3>2, <3>3, <3>4
  <2>18. CASE CreateVolumeRow(r)
    <3>1. TablesType'
      BY <1>a, <2>18 DEF CreateVolumeRow, TablesType, VolRows, VolStatus
    <3>2. DockerType'
      BY <1>a, <2>18, UnchangedType DEF CreateVolumeRow
    <3>3. RequestType'
      BY <1>a, <2>18, ControlType DEF CreateVolumeRow, PCs
    <3>4. BoundsOK'
      BY <2>f, <2>18, BoundsStep DEF CreateVolumeRow, NoFault
    <3> QED BY <3>1, <3>2, <3>3, <3>4
  <2>19. CASE DeleteVolumeRow(r)
    <3>1. TablesType'
      BY <1>a, <2>19 DEF DeleteVolumeRow, TablesType, VolRows, VolStatus
    <3>2. DockerType'
      BY <1>a, <2>19, UnchangedType DEF DeleteVolumeRow
    <3>3. RequestType'
      BY <1>a, <2>19, ControlType DEF DeleteVolumeRow, PCs
    <3>4. BoundsOK'
      BY <2>f, <2>19, BoundsStep DEF DeleteVolumeRow, NoFault
    <3> QED BY <3>1, <3>2, <3>3, <3>4
  <2>20. CASE CreateVolumeRollback(r)
    <3>1. TablesType'
      BY <1>a, <2>20, UnchangedType DEF CreateVolumeRollback
    <3>2. DockerType'
      BY <1>a, <2>20 DEF CreateVolumeRollback, DockerType
    <3>3. RequestType'
      BY <1>a, <2>20, ControlType DEF CreateVolumeRollback, PCs
    <3>4. BoundsOK'
      BY <2>f, <2>20, BoundsStep DEF CreateVolumeRollback, NoFault
    <3> QED BY <3>1, <3>2, <3>3, <3>4
  <2>21. CASE DeleteVolumeDisk(r)
    <3>1. TablesType'
      BY <1>a, <2>21, UnchangedType DEF DeleteVolumeDisk
    <3>2. DockerType'
      BY <1>a, <2>21 DEF DeleteVolumeDisk, DockerType
    <3>3. RequestType'
      BY <1>a, <2>21, ControlType DEF DeleteVolumeDisk, PCs
    <3>4. BoundsOK'
      BY <2>f, <2>21, BoundsStep DEF DeleteVolumeDisk, NoFault
    <3> QED BY <3>1, <3>2, <3>3, <3>4
  <2>22. CASE DeleteVolumeGet(r)
    <3>1. TablesType'
      BY <1>a, <2>22, UnchangedType DEF DeleteVolumeGet
    <3>2. DockerType'
      BY <1>a, <2>22, UnchangedType DEF DeleteVolumeGet
    <3>3. RequestType'
      <4>1. PICK v \in Vol : req' = [req EXCEPT ![r] = [Idle EXCEPT !.pc = "volRemove", !.v = v]]
        BY <2>22, Zenon DEF DeleteVolumeGet
      <4>2. [Idle EXCEPT !.pc = "volRemove", !.v = v] \in Request
        BY <1>a, <4>1, Zenon DEF Request, Idle, PCs, ContainerID
      <4> QED BY <1>a, <4>1, <4>2, RequestUpdate, Zenon
    <3>4. BoundsOK'
      BY <2>f, <2>22, BoundsStep DEF DeleteVolumeGet, NoFault
    <3> QED BY <3>1, <3>2, <3>3, <3>4
  <2>23. CASE Crash(r)
    <3>1. TablesType'
      BY <1>a, <2>23, UnchangedType DEF Crash
    <3>2. DockerType'
      BY <1>a, <2>23, UnchangedType DEF Crash
    <3>3. RequestType'
      BY <1>a, <2>23, ControlType DEF Crash, PCs
    <3>4. BoundsOK'
      BY <2>f, <2>23, BoundsType DEF Crash, BoundsOK
    <3> QED BY <3>1, <3>2, <3>3, <3>4
  <2> QED BY <2>0, <2>1, <2>2, <2>3, <2>4, <2>5, <2>6, <2>7, <2>8, <2>9, <2>10, <2>11, <2>12, <2>13, <2>14, <2>15, <2>16, <2>17, <2>18, <2>19, <2>20, <2>21, <2>22, <2>23
          DEF Launch, Stop, Terminate, Volumes
<1> QED BY <1>u, <1>n

LEMMA InitType == Init => TypeOK
<1> SUFFICES ASSUME Init PROVE TypeOK
  OBVIOUS
<1>1. inst \in [Inst -> InstRows]
  BY DEF Init, InstRows, InstStatus, ContainerID
<1>2. vol \in [Vol -> VolRows]
  BY DEF Init, VolRows, VolStatus
<1>3. Idle \in Request
  BY DEF Idle, Request, PCs, ContainerID
<1>4. RequestType
  BY <1>3 DEF Init, RequestType, Request
<1>5. DockerType
  BY DEF Init, DockerType, BoxState
<1>6. BoundsOK
  <2>1. faults = 0 /\ crashes = 0 /\ overlap = "never"
    BY DEF Init
  <2> QED BY <2>1, BoundsType DEF BoundsOK
<1> QED BY <1>1, <1>2, <1>4, <1>5, <1>6 DEF TypeOK, DockerType

(* The tables, the Docker host and the requests stay well typed whatever    *)
(* the interleaving, failures and crashes of InstanceService and            *)
(* VolumeService calls.                                                     *)
THEOREM TypeCorrect == Spec => []TypeOK
BY InitType, TypeStep, PTL DEF Spec

-----------------------------------------------------------------------------
(* The statuses only go forward because of the versions: a row is STARTING  *)
(* exactly at version 1, so the launch that inserted it can write it once;  *)
(* and a stop holds the container id that belongs to the version it holds.  *)
LaunchPCs == {"network", "resolve", "create", "start", "running", "error"}
StopPCs   == {"stop", "stopped"}

RowVersions ==
  \A i \in Inst :
    /\ inst[i].status = "STARTING" => inst[i].ver = 1 /\ inst[i].cid = "none"
    /\ inst[i].status \in {"RUNNING", "STOPPED", "ERROR"} => inst[i].ver > 1
    /\ inst[i].status = "absent" => inst[i].cid = "none"

HeldVersions ==
  \A r \in Req :
    /\ req[r].pc \in LaunchPCs => req[r].i \in Inst /\ req[r].ver = 1
    /\ req[r].pc \in StopPCs =>
         /\ req[r].i \in Inst
         /\ inst[req[r].i].status # "absent"
         /\ req[r].ver <= inst[req[r].i].ver
         /\ req[r].ver = inst[req[r].i].ver => req[r].cid = inst[req[r].i].cid

VersionInv == TypeOK /\ RowVersions /\ HeldVersions

(* The writers of the instances table: LaunchRow, LaunchError,              *)
(* LaunchRunning, StopMark and TerminateDelete.                             *)
Insert(i) == inst[i].status = "absent"
             /\ inst' = [inst EXCEPT ![i] = [status |-> "STARTING", ver |-> 1, cid |-> "none"]]

LEMMA RowWriters ==
  ASSUME TypeOK, NEW r \in Req, Launch(r) \/ Stop(r) \/ Terminate(r) \/ Volumes(r) \/ Crash(r)
  PROVE  \/ UNCHANGED inst
         \/ \E i \in Inst : Insert(i)
         \/ req[r].pc = "error" /\ UpdateInst(req[r].i, req[r].ver, "ERROR", "none")
         \/ req[r].pc = "running" /\ UpdateInst(req[r].i, req[r].ver, "RUNNING", "id")
         \/ req[r].pc = "stopped" /\ UpdateInst(req[r].i, req[r].ver, "STOPPED", req[r].cid)
         \/ DeleteInst(req[r].i)
<1>1. CASE Launch(r)
  BY <1>1, Zenon DEF Launch, LaunchRow, LaunchNetwork, LaunchResolve, LaunchCreate, LaunchStart,
     LaunchError, LaunchRunning, LaunchAttach, tables, Insert
<1>2. CASE Stop(r)
  BY <1>2, Zenon DEF Stop, StopGet, StopBox, StopMark, tables
<1>3. CASE Terminate(r)
  BY <1>3, Zenon DEF Terminate, TerminateGet, TerminateBox, TerminateList, TerminateRelease,
     TerminateDelete, tables
<1>4. CASE Volumes(r) \/ Crash(r)
  BY <1>4, Zenon DEF Volumes, CreateVolume, CreateVolumeRow, CreateVolumeRollback, DeleteVolumeGet,
     DeleteVolumeDisk, DeleteVolumeRow, Crash, tables
<1> QED BY <1>1, <1>2, <1>3, <1>4

(* What a step does to the version and container id a request holds. *)
Holds ==
  \A q \in Req :
    \/ req'[q] = req[q]
    \/ req'[q].pc \notin LaunchPCs \cup StopPCs
    \/ /\ req[q].pc \in LaunchPCs /\ req'[q].pc \in LaunchPCs
       /\ req'[q].i = req[q].i /\ req'[q].ver = req[q].ver
    \/ /\ req[q].pc \in StopPCs /\ req'[q].pc \in StopPCs
       /\ req'[q].i = req[q].i /\ req'[q].ver = req[q].ver /\ req'[q].cid = req[q].cid
    \/ req'[q].pc \in LaunchPCs /\ req'[q].i \in Inst /\ req'[q].ver = 1
    \/ /\ req'[q].pc \in StopPCs
       /\ \E i \in Inst : /\ req'[q].i = i /\ InstLive(i) /\ req'[q].ver = inst[i].ver
                         /\ req'[q].cid = inst[i].cid
       /\ UNCHANGED inst

LEMMA GotoHolds ==
  ASSUME req \in [Req -> Request], NEW r \in Req, NEW p, Goto(r, p),
         \/ p \notin LaunchPCs \cup StopPCs
         \/ req[r].pc \in LaunchPCs /\ p \in LaunchPCs
         \/ req[r].pc \in StopPCs /\ p \in StopPCs
  PROVE  Holds
<1>1. \A q \in Req : q # r => req'[q] = req[q]
  BY DEF Goto
<1>2. /\ req'[r].pc = p /\ req'[r].i = req[r].i
      /\ req'[r].ver = req[r].ver /\ req'[r].cid = req[r].cid
  BY DEF Goto, Request
<1> QED BY <1>1, <1>2 DEF Holds

LEMMA ReturnHolds ==
  ASSUME req \in [Req -> Request], NEW r \in Req, Return(r)
  PROVE  Holds
<1>1. \A q \in Req : q # r => req'[q] = req[q]
  BY DEF Return
<1>2. req'[r].pc = "idle"
  BY DEF Return, Idle
<1> QED BY <1>1, <1>2 DEF Holds, LaunchPCs, StopPCs

(* A request that starts, or goes through its loop over volumes. *)
LEMMA OtherHolds ==
  ASSUME req \in [Req -> Request], NEW r \in Req, NEW q, req' = [req EXCEPT ![r] = q],
         \/ q.pc \notin LaunchPCs \cup StopPCs
         \/ q.pc \in LaunchPCs /\ q.i \in Inst /\ q.ver = 1
         \/ /\ q.pc \in StopPCs /\ q.i \in Inst /\ InstLive(q.i)
            /\ q.ver = inst[q.i].ver /\ q.cid = inst[q.i].cid /\ UNCHANGED inst
  PROVE  Holds
<1>1. \A p \in Req : p # r => req'[p] = req[p]
  OBVIOUS
<1>2. req'[r] = q
  OBVIOUS
<1> QED BY <1>1, <1>2 DEF Holds

LEMMA Holders ==
  ASSUME TypeOK, NEW r \in Req, Launch(r) \/ Stop(r) \/ Terminate(r) \/ Volumes(r) \/ Crash(r)
  PROVE  Holds
<1>t. req \in [Req -> Request]
  BY DEF TypeOK, RequestType, Request
<1>1. CASE LaunchRow(r)
  <2>1. PICK i \in Inst, V \in SUBSET Vol : /\ req' = [req EXCEPT ![r] = [Idle EXCEPT !.pc = "network", !.i = i, !.ver = 1, !.todo = V]]
    BY <1>1, Zenon DEF LaunchRow
  <2> QED BY <1>t, <2>1, OtherHolds, Zenon DEF Idle, LaunchPCs, StopPCs
<1>2. CASE StopGet(r)
  <2>1. PICK i \in Inst : /\ req' = [req EXCEPT ![r] = [Idle EXCEPT !.pc = "stop", !.i = i,
                                              !.ver = inst[i].ver, !.cid = inst[i].cid]]
                      /\ InstLive(i) /\ UNCHANGED inst
    BY <1>2, Zenon DEF StopGet, tables
  <2> QED BY <1>t, <2>1, OtherHolds, Zenon DEF Idle, LaunchPCs, StopPCs
<1>3. CASE TerminateGet(r)
  <2>1. PICK i \in Inst : /\ req' = [req EXCEPT ![r] = [Idle EXCEPT !.pc = "remove", !.i = i]]
    BY <1>3, Zenon DEF TerminateGet
  <2> QED BY <1>t, <2>1, OtherHolds, Zenon DEF Idle, LaunchPCs, StopPCs
<1>4. CASE DeleteVolumeGet(r)
  <2>1. PICK v \in Vol : /\ req' = [req EXCEPT ![r] = [Idle EXCEPT !.pc = "volRemove", !.v = v]]
    BY <1>4, Zenon DEF DeleteVolumeGet
  <2> QED BY <1>t, <2>1, OtherHolds, Zenon DEF Idle, LaunchPCs, StopPCs
<1>5. CASE LaunchNetwork(r) \/ LaunchCreate(r)
  BY <1>t, <1>5, GotoHolds, ReturnHolds DEF LaunchNetwork, LaunchCreate, LaunchPCs, StopPCs
<1>6. CASE LaunchStart(r)
  BY <1>t, <1>6, GotoHolds, ReturnHolds DEF LaunchStart, LaunchPCs, StopPCs
<1>7. CASE LaunchError(r) \/ LaunchRunning(r)
  BY <1>t, <1>7, GotoHolds, ReturnHolds DEF LaunchError, LaunchRunning, LaunchPCs, StopPCs
<1>8. CASE StopBox(r) \/ StopMark(r)
  BY <1>t, <1>8, GotoHolds, ReturnHolds DEF StopBox, StopMark, LaunchPCs, StopPCs
<1>9. CASE TerminateBox(r) \/ TerminateDelete(r)
  BY <1>t, <1>9, GotoHolds, ReturnHolds DEF TerminateBox, TerminateDelete, LaunchPCs, StopPCs
<1>10. CASE CreateVolumeRow(r) \/ CreateVolumeRollback(r)
  BY <1>t, <1>10, GotoHolds, ReturnHolds DEF CreateVolumeRow, CreateVolumeRollback, LaunchPCs, StopPCs
<1>11. CASE DeleteVolumeDisk(r) \/ DeleteVolumeRow(r) \/ Crash(r)
  BY <1>t, <1>11, GotoHolds, ReturnHolds DEF DeleteVolumeDisk, DeleteVolumeRow, Crash, LaunchPCs, StopPCs
<1>12. CASE LaunchResolve(r)
  <2>1. CASE \E v \in Vol : req' = [req EXCEPT ![r].todo = @ \ {v}, ![r].vols = @ \cup {v}]
    <3>1. req[r].pc \in LaunchPCs
      BY <1>12 DEF LaunchResolve, LaunchPCs
    <3>2. \A q \in Req : q # r => req'[q] = req[q]
      BY <1>t, <2>1
    <3>3. /\ req'[r].pc = req[r].pc /\ req'[r].i = req[r].i /\ req'[r].ver = req[r].ver
      BY <1>t, <2>1 DEF Request
    <3> QED BY <3>1, <3>2, <3>3 DEF Holds
  <2>2. CASE Goto(r, "create") \/ Return(r)
    BY <1>t, <1>12, <2>2, GotoHolds, ReturnHolds DEF LaunchResolve, LaunchPCs
  <2>3. req[r].todo \subseteq Vol
    BY <1>t DEF Request
  <2> QED BY <1>12, <2>1, <2>2, <2>3 DEF LaunchResolve
<1>13. CASE LaunchAttach(r)
  <2>1. CASE \E v \in req[r].vols : req' = [req EXCEPT ![r].vols = @ \ {v}]
    BY <1>t, <1>13, <2>1 DEF LaunchAttach, Request, Holds, LaunchPCs, StopPCs
  <2>2. CASE Return(r)
    BY <1>t, <2>2, GotoHolds, ReturnHolds DEF LaunchPCs, StopPCs
  <2> QED BY <1>13, <2>1, <2>2 DEF LaunchAttach
<1>14. CASE TerminateRelease(r)
  <2>1. CASE \E v \in req[r].todo : req' = [req EXCEPT ![r].todo = @ \ {v}]
    BY <1>t, <1>14, <2>1 DEF TerminateRelease, Request, Holds, LaunchPCs, StopPCs
  <2>2. CASE Goto(r, "delete")
    BY <1>t, <2>2, GotoHolds, ReturnHolds DEF LaunchPCs, StopPCs
  <2> QED BY <1>14, <2>1, <2>2 DEF TerminateRelease
<1>15. CASE TerminateList(r)
  <2>1. CASE Goto(r, "delete")
    BY <1>t, <2>1, GotoHolds DEF LaunchPCs, StopPCs
  <2>2. CASE req' = [req EXCEPT ![r].pc = "release",
                          ![r].todo = {v \in Vol : VolLive(v) /\ vol[v].inst = req[r].i}]
    BY <1>t, <2>2 DEF Request, Holds, LaunchPCs, StopPCs
  <2> QED BY <1>15, <2>1, <2>2 DEF TerminateList
<1>16. CASE CreateVolume(r)
  <2>1. CASE UNCHANGED req
    BY <2>1 DEF Holds
  <2>2. CASE \E v \in Vol : req' = [req EXCEPT ![r] = [Idle EXCEPT !.pc = "volRow", !.v = v]]
    BY <1>t, <2>2, OtherHolds, Zenon DEF Idle, LaunchPCs, StopPCs
  <2> QED BY <1>16, <2>1, <2>2, Zenon DEF CreateVolume
<1> QED BY <1>1, <1>2, <1>3, <1>4, <1>5, <1>6, <1>7, <1>8, <1>9, <1>10, <1>11, <1>12, <1>13, <1>14, <1>15, <1>16
        DEF Launch, Stop, Terminate, Volumes

(* What a write under a version does to the row it names, and to others. *)
LEMMA UpdateRow ==
  ASSUME TypeOK, NEW i, NEW ver \in Nat, NEW status, NEW cid, UpdateInst(i, ver, status, cid)
  PROVE  \A j \in Inst :
           \/ inst'[j] = inst[j]
           \/ /\ j = i /\ InstLive(j) /\ inst[j].ver = ver
              /\ inst'[j] = [status |-> status, ver |-> ver + 1, cid |-> cid]
BY DEF TypeOK, UpdateInst, Hit

LEMMA DeleteRow ==
  ASSUME TypeOK, NEW i, DeleteInst(i)
  PROVE  \A j \in Inst :
           \/ inst'[j] = inst[j]
           \/ InstLive(j) /\ inst'[j] = [inst[j] EXCEPT !.status = "gone"]
BY DEF TypeOK, DeleteInst

(* The facts about one row that the invariant gives. *)
LEMMA RowFacts ==
  ASSUME TypeOK, RowVersions, NEW j \in Inst
  PROVE  /\ inst[j].status \in InstStatus /\ inst[j].ver \in Nat /\ inst[j].cid \in ContainerID
         /\ inst[j].status = "STARTING" => inst[j].ver = 1 /\ inst[j].cid = "none"
         /\ inst[j].status \in {"RUNNING", "STOPPED", "ERROR"} => inst[j].ver > 1
         /\ inst[j].status = "absent" => inst[j].cid = "none"
         /\ inst[j] = [status |-> inst[j].status, ver |-> inst[j].ver, cid |-> inst[j].cid]
<1>1. inst[j] \in InstRows
  BY DEF TypeOK
<1>2. /\ inst[j].status \in InstStatus /\ inst[j].ver \in Nat /\ inst[j].cid \in ContainerID
      /\ inst[j] = [status |-> inst[j].status, ver |-> inst[j].ver, cid |-> inst[j].cid]
  BY <1>1 DEF InstRows
<1> QED BY <1>2 DEF RowVersions

(* A row that is live and still at version 1 is STARTING. *)
LEMMA LiveRows ==
  ASSUME TypeOK, RowVersions, NEW j \in Inst, InstLive(j)
  PROVE  inst[j].ver >= 1 /\ (inst[j].ver = 1 => inst[j].status = "STARTING")
<1>1. inst[j].status = "STARTING" \/ inst[j].status \in {"RUNNING", "STOPPED", "ERROR"}
  BY RowFacts, Zenon DEF InstLive, InstStatus
<1>2. CASE inst[j].status = "STARTING"
  <2>1. inst[j].ver = 1
    BY <1>2, RowFacts, Zenon
  <2> QED BY <1>2, <2>1
<1>3. CASE inst[j].status \in {"RUNNING", "STOPPED", "ERROR"}
  <2>1. inst[j].ver > 1 /\ inst[j].ver \in Nat
    BY <1>3, RowFacts, Zenon
  <2>2. inst[j].ver >= 1 /\ inst[j].ver # 1
    BY <2>1
  <2> QED BY <2>2
<1> QED BY <1>1, <1>2, <1>3

(* One row in one step: untouched, inserted, deleted, or updated by the     *)
(* launch or the stop that holds its version.                               *)
RowStep(j) ==
  \/ inst'[j] = inst[j]
  \/ inst[j].status = "absent" /\ inst'[j] = [status |-> "STARTING", ver |-> 1, cid |-> "none"]
  \/ InstLive(j) /\ inst'[j] = [inst[j] EXCEPT !.status = "gone"]
  \/ /\ inst[j].status = "STARTING"
     /\ \E s \in {"ERROR", "RUNNING"}, c \in ContainerID :
          inst'[j] = [status |-> s, ver |-> inst[j].ver + 1, cid |-> c]
  \/ InstLive(j) /\ inst'[j] = [status |-> "STOPPED", ver |-> inst[j].ver + 1, cid |-> inst[j].cid]

LEMMA RowSteps ==
  ASSUME VersionInv, NEW r \in Req,
         Launch(r) \/ Stop(r) \/ Terminate(r) \/ Volumes(r) \/ Crash(r)
  PROVE  \A j \in Inst : RowStep(j)
<1> SUFFICES ASSUME NEW j \in Inst PROVE RowStep(j)
  OBVIOUS
<1>0. TypeOK /\ RowVersions /\ HeldVersions
  BY DEF VersionInv
<1>t. req[r].ver \in Nat /\ inst[j] \in InstRows
  BY <1>0 DEF TypeOK, RequestType
<1>1. CASE UNCHANGED inst
  BY <1>1 DEF RowStep
<1>2. CASE \E i \in Inst : Insert(i)
  BY <1>0, <1>2 DEF Insert, RowStep, TypeOK
<1>3. ASSUME NEW s \in {"ERROR", "RUNNING"}, NEW c \in ContainerID, req[r].pc \in LaunchPCs,
             UpdateInst(req[r].i, req[r].ver, s, c)
      PROVE  RowStep(j)
  <2>1. CASE inst'[j] = inst[j]
    BY <2>1 DEF RowStep
  <2>2. CASE /\ InstLive(j) /\ inst[j].ver = req[r].ver
             /\ inst'[j] = [status |-> s, ver |-> req[r].ver + 1, cid |-> c]
    <3>1. req[r].ver = 1
      BY <1>0, <1>3 DEF HeldVersions
    <3>2. inst[j].status = "STARTING"
      BY <1>0, <2>2, <3>1, LiveRows
    <3> QED BY <1>3, <2>2, <3>2 DEF RowStep
  <2> QED BY <1>0, <1>t, <1>3, <2>1, <2>2, UpdateRow
<1>4. CASE req[r].pc = "stopped" /\ UpdateInst(req[r].i, req[r].ver, "STOPPED", req[r].cid)
  <2>1. CASE inst'[j] = inst[j]
    BY <2>1 DEF RowStep
  <2>2. CASE /\ j = req[r].i /\ InstLive(j) /\ inst[j].ver = req[r].ver
             /\ inst'[j] = [status |-> "STOPPED", ver |-> req[r].ver + 1, cid |-> req[r].cid]
    <3>1. req[r].cid = inst[j].cid
      BY <1>0, <1>4, <2>2 DEF HeldVersions, StopPCs
    <3> QED BY <2>2, <3>1 DEF RowStep
  <2> QED BY <1>0, <1>t, <1>4, <2>1, <2>2, UpdateRow
<1>5. CASE DeleteInst(req[r].i)
  BY <1>0, <1>5, DeleteRow DEF RowStep
<1>6. "error" \in LaunchPCs /\ "running" \in LaunchPCs /\ "none" \in ContainerID /\ "id" \in ContainerID
  BY DEF LaunchPCs, ContainerID
<1> QED BY <1>0, <1>1, <1>2, <1>3, <1>4, <1>5, <1>6, RowWriters

LEMMA VersionStep ==
  VersionInv /\ [Next]_vars => VersionInv'
<1> SUFFICES ASSUME VersionInv, [Next]_vars PROVE VersionInv'
  OBVIOUS
<1>0. TypeOK /\ RowVersions /\ HeldVersions
  BY DEF VersionInv
<1>t. TypeOK'
  BY <1>0, TypeStep
<1>u. CASE UNCHANGED vars
  BY <1>0, <1>t, <1>u DEF vars, tables, VersionInv, RowVersions, HeldVersions
<1>n. CASE Next
  <2>0. PICK r \in Req : Launch(r) \/ Stop(r) \/ Terminate(r) \/ Volumes(r) \/ Crash(r)
    BY <1>n DEF Next
  <2>1. \A j \in Inst : RowStep(j)
    BY <2>0, RowSteps
  <2>2. Holds
    BY <1>0, <2>0, Holders
  <2>3. \A j \in Inst : inst[j] \in InstRows
    BY <1>0 DEF TypeOK
  <2>4. RowVersions'
    <3> SUFFICES ASSUME NEW j \in Inst
                 PROVE  /\ inst'[j].status = "STARTING" => inst'[j].ver = 1 /\ inst'[j].cid = "none"
                        /\ inst'[j].status \in {"RUNNING", "STOPPED", "ERROR"} => inst'[j].ver > 1
                        /\ inst'[j].status = "absent" => inst'[j].cid = "none"
      BY DEF RowVersions
    <3>1. RowStep(j) /\ inst[j] \in InstRows
      BY <2>1, <2>3
    <3>2. InstLive(j) => inst[j].ver >= 1
      BY <1>0, LiveRows
    <3>3. inst[j].ver \in Nat
      BY <1>0, RowFacts, Zenon
    <3>4. CASE inst'[j] = inst[j]
      BY <1>0, <3>4, RowFacts, Zenon
    <3>5. CASE inst'[j] = [status |-> "STARTING", ver |-> 1, cid |-> "none"]
      <4>1. inst'[j].status = "STARTING" /\ inst'[j].ver = 1 /\ inst'[j].cid = "none"
        BY <3>5
      <4> QED BY <4>1
    <3>6. CASE inst'[j] = [inst[j] EXCEPT !.status = "gone"]
      <4>1. inst'[j].status = "gone"
        BY <3>1, <3>6 DEF InstRows
      <4> QED BY <4>1
    <3>7. CASE /\ InstLive(j)
               /\ \E s \in {"ERROR", "RUNNING", "STOPPED"}, c \in ContainerID :
                    inst'[j] = [status |-> s, ver |-> inst[j].ver + 1, cid |-> c]
      <4>1. inst'[j].status \in {"ERROR", "RUNNING", "STOPPED"} /\ inst'[j].ver = inst[j].ver + 1
        BY <3>7
      <4>2. inst'[j].ver > 1
        BY <3>2, <3>3, <3>7, <4>1
      <4> QED BY <4>1, <4>2
    <3>8. inst[j].cid \in ContainerID
      BY <1>0, RowFacts, Zenon
    <3> QED BY <3>1, <3>4, <3>5, <3>6, <3>7, <3>8 DEF RowStep, InstLive
  <2>5. HeldVersions'
    <3>1. \A j \in Inst : inst[j].status # "absent" =>
            /\ inst'[j].status # "absent"
            /\ inst'[j].ver \in Nat
            /\ \/ inst'[j].ver = inst[j].ver /\ inst'[j].cid = inst[j].cid
               \/ inst'[j].ver = inst[j].ver + 1
      <4> SUFFICES ASSUME NEW j \in Inst, inst[j].status # "absent"
                   PROVE  /\ inst'[j].status # "absent"
                          /\ inst'[j].ver \in Nat
                          /\ \/ inst'[j].ver = inst[j].ver /\ inst'[j].cid = inst[j].cid
                             \/ inst'[j].ver = inst[j].ver + 1
        OBVIOUS
      <4>1. RowStep(j) /\ inst[j].ver \in Nat /\ inst[j] \in InstRows
        BY <1>0, <2>1, <2>3, RowFacts, Zenon
      <4>2. CASE inst'[j] = inst[j]
        BY <4>1, <4>2
      <4>3. CASE inst'[j] = [inst[j] EXCEPT !.status = "gone"]
        <5>1. inst'[j].status = "gone" /\ inst'[j].ver = inst[j].ver /\ inst'[j].cid = inst[j].cid
          BY <4>1, <4>3 DEF InstRows
        <5> QED BY <4>1, <5>1
      <4>4. CASE \E s \in {"ERROR", "RUNNING", "STOPPED"}, c \in ContainerID :
                   inst'[j] = [status |-> s, ver |-> inst[j].ver + 1, cid |-> c]
        <5>1. inst'[j].status \in {"ERROR", "RUNNING", "STOPPED"} /\ inst'[j].ver = inst[j].ver + 1
          BY <4>4
        <5> QED BY <4>1, <5>1
      <4> QED BY <1>0, <4>1, <4>2, <4>3, <4>4, RowFacts DEF RowStep
    <3> SUFFICES ASSUME NEW q \in Req
                 PROVE  /\ req'[q].pc \in LaunchPCs => req'[q].i \in Inst /\ req'[q].ver = 1
                        /\ req'[q].pc \in StopPCs =>
                             /\ req'[q].i \in Inst
                             /\ inst'[req'[q].i].status # "absent"
                             /\ req'[q].ver <= inst'[req'[q].i].ver
                             /\ req'[q].ver = inst'[req'[q].i].ver => req'[q].cid = inst'[req'[q].i].cid
      BY DEF HeldVersions
    <3>2. req[q].ver \in Nat
      BY <1>0 DEF TypeOK, RequestType
    <3>3. LaunchPCs \cap StopPCs = {}
      BY DEF LaunchPCs, StopPCs
    <3>4. req'[q].pc \in LaunchPCs => req'[q].i \in Inst /\ req'[q].ver = 1
      BY <1>0, <2>2, <3>3 DEF Holds, HeldVersions
    <3>5. ASSUME req'[q].pc \in StopPCs
          PROVE  /\ req'[q].i \in Inst
                 /\ inst'[req'[q].i].status # "absent"
                 /\ req'[q].ver <= inst'[req'[q].i].ver
                 /\ req'[q].ver = inst'[req'[q].i].ver => req'[q].cid = inst'[req'[q].i].cid
      <4>1. CASE /\ req[q].pc \in StopPCs /\ req'[q].i = req[q].i
                 /\ req'[q].ver = req[q].ver /\ req'[q].cid = req[q].cid
        <5>1. /\ req[q].i \in Inst /\ inst[req[q].i].status # "absent"
              /\ req[q].ver <= inst[req[q].i].ver
              /\ req[q].ver = inst[req[q].i].ver => req[q].cid = inst[req[q].i].cid
              /\ inst[req[q].i].ver \in Nat
          BY <1>0, <2>3, <4>1 DEF HeldVersions, InstRows
        <5> QED BY <3>1, <3>2, <4>1, <5>1
      <4>2. CASE /\ \E i \in Inst : /\ req'[q].i = i /\ InstLive(i) /\ req'[q].ver = inst[i].ver
                                   /\ req'[q].cid = inst[i].cid
                 /\ UNCHANGED inst
        BY <2>3, <4>2 DEF InstLive, InstRows
      <4> QED BY <2>2, <3>3, <3>5, <4>1, <4>2 DEF Holds
    <3> QED BY <3>4, <3>5
  <2> QED BY <1>t, <2>4, <2>5 DEF VersionInv
<1> QED BY <1>u, <1>n

(* Rows are STARTING exactly at version 1, and every request holds a        *)
(* version and a container id that belong together.                         *)
THEOREM VersionsCorrect == Spec => []VersionInv
<1>1. Init => VersionInv
  <2> SUFFICES ASSUME Init PROVE RowVersions /\ HeldVersions /\ TypeOK
    BY DEF VersionInv
  <2>1. RowVersions
    BY DEF Init, RowVersions
  <2>2. HeldVersions
    BY DEF Init, HeldVersions, Idle, LaunchPCs, StopPCs
  <2>3. TypeOK
    BY InitType
  <2> QED BY <2>1, <2>2, <2>3
<1> QED BY <1>1, VersionStep, PTL DEF Spec

(* No launch, stop or termination that finishes late takes the status of an *)
(* instance back, or loses its container id: optimistic locking in          *)
(* InstanceRepository.Update is enough for that.                            *)
THEOREM StatusOnlyForward == Spec => StatusForward
<1>1. VersionInv /\ [Next]_vars => [\A i \in Inst : Forward(i)]_vars
  <2> SUFFICES ASSUME VersionInv, Next, NEW i \in Inst PROVE Forward(i)
    OBVIOUS
  <2>1. RowStep(i)
    BY RowSteps DEF Next
  <2>2. inst[i] \in InstRows /\ RowVersions
    BY DEF VersionInv, TypeOK
  <2>3. inst[i].status = "STARTING" \/ inst[i].status = "absent" => inst[i].cid = "none"
    BY RowFacts, Zenon DEF VersionInv
  <2>4. CASE inst'[i] = inst[i]
    BY <2>4 DEF Forward
  <2>5. CASE inst'[i] = [inst[i] EXCEPT !.status = "gone"]
    <3>1. inst'[i].status = "gone" /\ inst'[i].cid = inst[i].cid
      BY <2>2, <2>5 DEF InstRows
    <3> QED BY <3>1 DEF Forward
  <2>6. CASE inst[i].status = "absent" \/ inst[i].status = "STARTING"
    BY <2>3, <2>6 DEF Forward
  <2>7. CASE InstLive(i) /\ inst'[i] = [status |-> "STOPPED", ver |-> inst[i].ver + 1, cid |-> inst[i].cid]
    <3>1. inst'[i].status = "STOPPED" /\ inst'[i].cid = inst[i].cid
      BY <2>7
    <3> QED BY <2>7, <3>1 DEF Forward, InstLive
  <2> QED BY <2>1, <2>4, <2>5, <2>6, <2>7 DEF RowStep
<1> QED BY <1>1, VersionsCorrect, PTL DEF Spec, StatusForward

-----------------------------------------------------------------------------
(* The writers of the volumes table. *)
LEMMA VolWriters ==
  ASSUME TypeOK, NEW r \in Req, Launch(r) \/ Stop(r) \/ Terminate(r) \/ Volumes(r) \/ Crash(r)
  PROVE  \/ UNCHANGED vol
         \/ UNCHANGED inst /\ \E v \in Vol : UpdateVol(v, "IN-USE", req[r].i)
         \/ UNCHANGED inst /\ \E v \in Vol : UpdateVol(v, "AVAILABLE", NoInst)
         \/ UNCHANGED inst /\ \E s \in VolStatus :
              vol' = [vol EXCEPT ![req[r].v] = [status |-> s, inst |-> NoInst]]
         \/ DeleteInst(req[r].i)
<1>t. req[r].vols \subseteq Vol /\ req[r].todo \subseteq Vol
  BY DEF TypeOK, RequestType
<1>1. CASE Launch(r)
  BY <1>t, <1>1, Zenon DEF Launch, LaunchRow, LaunchNetwork, LaunchResolve, LaunchCreate, LaunchStart,
     LaunchError, LaunchRunning, LaunchAttach, tables
<1>2. CASE Stop(r) \/ Crash(r)
  BY <1>2, Zenon DEF Stop, StopGet, StopBox, StopMark, Crash, tables
<1>3. CASE Terminate(r)
  BY <1>t, <1>3, Zenon DEF Terminate, TerminateGet, TerminateBox, TerminateList, TerminateRelease,
     TerminateDelete, tables
<1>4. CASE Volumes(r)
  BY <1>4, Zenon DEF Volumes, CreateVolume, CreateVolumeRow, CreateVolumeRollback, DeleteVolumeGet,
     DeleteVolumeDisk, DeleteVolumeRow, VolStatus, tables
<1> QED BY <1>1, <1>2, <1>3, <1>4, Zenon

(* No step but DeleteInst ends the life of a row. *)
LEMMA LifeStep ==
  ASSUME VersionInv, NEW r \in Req,
         Launch(r) \/ Stop(r) \/ Terminate(r) \/ Volumes(r) \/ Crash(r),
         NEW j \in Inst, InstLive(j)
  PROVE  InstLive(j)' \/ (DeleteInst(req[r].i) /\ j = req[r].i)
<1>0. TypeOK /\ inst[j] \in InstRows
  BY DEF VersionInv, TypeOK
<1>1. CASE DeleteInst(req[r].i) /\ j # req[r].i
  BY <1>0, <1>1 DEF DeleteInst, InstLive, TypeOK
<1>2. CASE ~DeleteInst(req[r].i)
  <2>1. ASSUME NEW i, NEW ver \in Nat, NEW s \in {"ERROR", "RUNNING", "STOPPED"}, NEW c,
               UpdateInst(i, ver, s, c)
        PROVE  InstLive(j)'
    <3>1. inst'[j] = inst[j] \/ inst'[j].status = s
      <4>1. \/ inst'[j] = inst[j]
            \/ inst'[j] = [status |-> s, ver |-> ver + 1, cid |-> c]
        BY <1>0, <2>1, UpdateRow
      <4> QED BY <4>1
    <3> QED BY <2>1, <3>1 DEF InstLive
  <2>2. CASE \E i \in Inst : Insert(i)
    BY <1>0, <2>2 DEF Insert, InstLive, TypeOK
  <2>3. req[r].ver \in Nat
    BY <1>0 DEF TypeOK, RequestType
  <2> QED BY <1>0, <1>2, <2>1, <2>2, <2>3, RowWriters, Zenon DEF InstLive
<1> QED BY <1>1, <1>2

(* A volume never names an instance that has no row: neither a late attach  *)
(* of LaunchInstance nor a late release of TerminateInstance can leave a    *)
(* reference to an instance that InstanceRepository.Delete has removed.     *)
THEOREM AttachmentsNameInstances == Spec => []NoDanglingAttachment
<1>1. Init => NoDanglingAttachment
  BY DEF Init, NoDanglingAttachment
<1>2. VersionInv /\ NoDanglingAttachment /\ [Next]_vars => NoDanglingAttachment'
  <2> SUFFICES ASSUME VersionInv, NoDanglingAttachment, [Next]_vars, NEW v \in Vol,
                      vol'[v].inst # NoInst
               PROVE  InstLive(vol[v].inst)' /\ vol'[v].status = "IN-USE"
    BY DEF NoDanglingAttachment
  <2>t. vol \in [Vol -> VolRows] /\ vol[v] \in VolRows /\ vol[v].inst \in Inst \cup {NoInst}
    BY DEF VersionInv, TypeOK, VolRows
  <2>u. CASE UNCHANGED vars
    BY <2>u DEF vars, tables, NoDanglingAttachment, InstLive
  <2>n. CASE Next
    <3>0. PICK r \in Req : Launch(r) \/ Stop(r) \/ Terminate(r) \/ Volumes(r) \/ Crash(r)
      BY <2>n DEF Next
    <3>1. CASE DeleteInst(req[r].i)
      <4>1. vol'[v] = vol[v] /\ vol[v].inst # req[r].i
        <5>1. vol'[v] = IF vol[v].inst = req[r].i THEN [vol[v] EXCEPT !.inst = NoInst] ELSE vol[v]
          BY <3>1 DEF DeleteInst
        <5>2. CASE vol[v].inst = req[r].i
          BY <2>t, <5>1, <5>2 DEF VolRows
        <5> QED BY <5>1, <5>2
      <4>2. InstLive(vol[v].inst) /\ vol[v].status = "IN-USE" /\ vol[v].inst \in Inst
        BY <2>t, <4>1 DEF NoDanglingAttachment
      <4>3. InstLive(vol[v].inst)'
        BY <3>1, <4>1, <4>2 DEF DeleteInst, InstLive, VersionInv, TypeOK
      <4> QED BY <4>1, <4>2, <4>3
    <3>2. CASE ~DeleteInst(req[r].i) /\ vol'[v] = vol[v]
      <4>1. InstLive(vol[v].inst) /\ vol[v].status = "IN-USE" /\ vol[v].inst \in Inst
        BY <2>t, <3>2 DEF NoDanglingAttachment
      <4>2. InstLive(vol[v].inst)'
        <5>1. \A j \in Inst : InstLive(j) => inst'[j].status \notin {"absent", "gone"}
          BY <3>0, <3>2, LifeStep DEF InstLive
        <5> QED BY <3>2, <4>1, <5>1 DEF InstLive
      <4> QED BY <3>2, <4>1, <4>2
    <3>3. CASE UNCHANGED inst /\ \E u \in Vol : UpdateVol(u, "IN-USE", req[r].i)
      <4>1. PICK u \in Vol : UpdateVol(u, "IN-USE", req[r].i)
        BY <3>3
      <4>2. CASE vol'[v] = vol[v]
        BY <2>t, <3>3, <4>2 DEF InstLive, NoDanglingAttachment
      <4>3. CASE /\ vol'[v] = [status |-> "IN-USE", inst |-> req[r].i]
                 /\ req[r].i = NoInst \/ InstLive(req[r].i)
        <5>1. vol'[v].inst = req[r].i /\ vol'[v].status = "IN-USE"
          BY <4>3
        <5> QED BY <3>3, <4>3, <5>1 DEF InstLive
      <4> QED BY <2>t, <4>1, <4>2, <4>3 DEF UpdateVol
    <3>4. CASE UNCHANGED inst /\ \E u \in Vol : UpdateVol(u, "AVAILABLE", NoInst)
      BY <2>t, <3>4 DEF UpdateVol, InstLive, NoDanglingAttachment
    <3>5. CASE UNCHANGED inst /\ \E s \in VolStatus :
              vol' = [vol EXCEPT ![req[r].v] = [status |-> s, inst |-> NoInst]]
      BY <2>t, <3>5 DEF InstLive, NoDanglingAttachment
    <3> QED BY <3>0, <3>1, <3>2, <3>3, <3>4, <3>5, VolWriters DEF VersionInv
  <2> QED BY <2>u, <2>n
<1> QED BY <1>1, <1>2, VersionsCorrect, PTL DEF Spec
=============================================================================
