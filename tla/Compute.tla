------------------------------- MODULE Compute -------------------------------
(***************************************************************************)
(* Instances and block volumes: InstanceService and VolumeService, the     *)
(* instances and volumes tables, and the Docker compute backend.           *)
(*                                                                         *)
(* A request is a thread of the API server.  It goes through its service   *)
(* method one database statement or Docker call at a time, and the steps   *)
(* of several requests interleave.  instances rows are written under their *)
(* version (optimistic locking); volumes rows are written blindly.         *)
(***************************************************************************)
EXTENDS Naturals, FiniteSets

CONSTANTS Inst,        \* the ids LaunchInstance may draw (uuid.New)
          Vol,         \* the ids CreateVolume may draw
          Req,         \* requests in progress at a time
          NoInst,      \* a NULL instance_id, or no instance
          NoVol,
          MaxFaults,   \* bound: calls to Docker or the database that fail
          MaxCrashes   \* bound: requests cut short by a crash of the server

ASSUME NullIds == NoInst \notin Inst /\ NoVol \notin Vol
ASSUME BoundsType == MaxFaults \in Nat /\ MaxCrashes \in Nat

VARIABLES
  inst,       \* the instances table: status, version, container_id
  box,        \* the container thecloud-<id> of each instance
  binds,      \* the volumes that container mounts
  vol,        \* the volumes table: status and instance_id
  disk,       \* the Docker volumes thecloud-vol-<id> that exist
  req,        \* the requests: see RequestType
  faults, crashes,
  overlap     \* history: whether two requests were ever in progress together

tables == <<inst, vol>>
docker == <<box, binds, disk>>
bounds == <<faults, crashes, overlap>>
vars   == <<tables, docker, req, bounds>>

InstStatus == {"absent", "STARTING", "RUNNING", "STOPPED", "ERROR", "gone"}
BoxState   == {"none", "created", "running", "stopped"}
ContainerID == {"none", "id"}   \* none: container_id is empty; an instance gets one container
VolStatus  == {"absent", "AVAILABLE", "IN-USE", "gone"}

PCs == {"idle",
        "network", "resolve", "create", "start", "running", "error", "attach",
        "stop", "stopped",
        "remove", "list", "release", "delete",
        "volRow", "volRollback", "volRemove", "volDelete"}

Idle == [pc |-> "idle", i |-> NoInst, v |-> NoVol, ver |-> 0, cid |-> "none",
         todo |-> {}, vols |-> {}]

InstRows == [status : InstStatus, ver : Nat, cid : ContainerID]
VolRows  == [status : VolStatus, inst : Inst \cup {NoInst}]

RequestType ==
  req \in [Req -> [pc : PCs,
                   i : Inst \cup {NoInst},     \* the instance it works on
                   v : Vol \cup {NoVol},       \* the volume it works on
                   ver : Nat, cid : ContainerID,   \* of the row it has read
                   todo : SUBSET Vol,          \* rest of its loop over volumes
                   vols : SUBSET Vol]]         \* attachedVolumes of a launch

BoundsOK ==
  faults \in 0..MaxFaults /\ crashes \in 0..MaxCrashes /\ overlap \in {"never", "some"}

(* The tables, the Docker host and the requests are well typed. *)
TypeOK ==
  /\ inst  \in [Inst -> InstRows]
  /\ box   \in [Inst -> BoxState]
  /\ binds \in [Inst -> SUBSET Vol]
  /\ vol   \in [Vol -> VolRows]
  /\ disk  \subseteq Vol
  /\ RequestType
  /\ BoundsOK

Init ==
  /\ inst  = [i \in Inst |-> [status |-> "absent", ver |-> 0, cid |-> "none"]]
  /\ box   = [i \in Inst |-> "none"]
  /\ binds = [i \in Inst |-> {}]
  /\ vol   = [v \in Vol |-> [status |-> "absent", inst |-> NoInst]]
  /\ disk  = {}
  /\ req   = [r \in Req |-> Idle]
  /\ faults = 0
  /\ crashes = 0
  /\ overlap = "never"

-----------------------------------------------------------------------------
InstLive(i) == inst[i].status \notin {"absent", "gone"}
VolLive(v)  == vol[v].status \notin {"absent", "gone"}

Fault   == faults < MaxFaults /\ faults' = faults + 1 /\ UNCHANGED <<crashes, overlap>>
NoFault == UNCHANGED bounds

(* A request comes in. *)
Begin(r) ==
  /\ req[r].pc = "idle"
  /\ overlap' = IF \A q \in Req : req[q].pc = "idle" THEN overlap ELSE "some"
  /\ UNCHANGED <<faults, crashes>>

(* r's next program counter; its locals stay, or go when it returns. *)
Goto(r, p) == req' = [req EXCEPT ![r].pc = p]
Return(r)  == req' = [req EXCEPT ![r] = Idle]

(* Faulty variant of Hit: the UPDATE without its version condition. *)
HitAnyVersion(i, ver) == InstLive(i)

(* InstanceRepository.Update: WHERE version = ver.  Hit is the case of one  *)
(* affected row; otherwise the caller gets a Conflict.                      *)
Hit(i, ver) == InstLive(i) /\ inst[i].ver = ver

UpdateInst(i, ver, status, cid) ==
  inst' = IF Hit(i, ver)
          THEN [inst EXCEPT ![i] = [status |-> status, ver |-> ver + 1, cid |-> cid]]
          ELSE inst

(* Faulty variants of UpdateVol: no foreign key; and a status that is not   *)
(* the domain's when the volume is released.                                *)
UpdateVolNoForeignKey(v, status, i) ==
  vol' = IF VolLive(v) THEN [vol EXCEPT ![v] = [status |-> status, inst |-> i]] ELSE vol

UpdateVolDetached(v, status, i) ==
  vol' = IF VolLive(v) /\ (i = NoInst \/ InstLive(i))
         THEN [vol EXCEPT ![v] = [status |-> IF i = NoInst THEN "DETACHED" ELSE status, inst |-> i]]
         ELSE vol

(* VolumeRepository.Update of status and instance_id: blind.  The foreign   *)
(* key refuses an instance that is gone; a volume that is gone affects no   *)
(* row; the callers only log errors.                                        *)
UpdateVol(v, status, i) ==
  vol' = IF VolLive(v) /\ (i = NoInst \/ InstLive(i))
         THEN [vol EXCEPT ![v] = [status |-> status, inst |-> i]]
         ELSE vol

-----------------------------------------------------------------------------
(* InstanceService.LaunchInstance *)

(* The ports are valid; the row is inserted as STARTING at version 1. *)
LaunchRow(r) ==
  \E i \in Inst, V \in SUBSET Vol :
    /\ Begin(r)
    /\ inst[i].status = "absent"
    /\ inst' = [inst EXCEPT ![i] = [status |-> "STARTING", ver |-> 1, cid |-> "none"]]
    /\ req' = [req EXCEPT ![r] = [Idle EXCEPT !.pc = "network", !.i = i, !.ver = 1, !.todo = V]]
    /\ UNCHANGED <<vol, docker>>

(* resolveNetworkConfig: an unknown VPC or subnet, or no free address, ends *)
(* the request and leaves the row STARTING.                                 *)
LaunchNetwork(r) ==
  /\ req[r].pc = "network"
  /\ \/ NoFault /\ Goto(r, "resolve")
     \/ Fault /\ Return(r)
  /\ UNCHANGED <<tables, docker>>

(* resolveVolumes, one attachment: the volume must exist and be AVAILABLE   *)
(* now; otherwise the request ends and leaves the row STARTING.             *)
LaunchResolve(r) ==
  /\ req[r].pc = "resolve"
  /\ IF req[r].todo = {}
     THEN Goto(r, "create")
     ELSE \E v \in req[r].todo :
            IF vol[v].status = "AVAILABLE"
            THEN req' = [req EXCEPT ![r].todo = @ \ {v}, ![r].vols = @ \cup {v}]
            ELSE Return(r)
  /\ UNCHANGED <<tables, docker, bounds>>

(* CreateInstance up to ContainerCreate.  A bind of a named volume that     *)
(* does not exist makes Docker create it.                                   *)
LaunchCreate(r) ==
  /\ req[r].pc = "create"
  /\ \/ /\ NoFault
        /\ box' = [box EXCEPT ![req[r].i] = "created"]
        /\ binds' = [binds EXCEPT ![req[r].i] = req[r].vols]
        /\ disk' = disk \cup req[r].vols
        /\ Goto(r, "start")
     \/ /\ Fault
        /\ UNCHANGED docker
        /\ Goto(r, "error")
  /\ UNCHANGED tables

(* CreateInstance's ContainerStart: it fails if the container is gone, and  *)
(* a container that does not start is left behind.                          *)
LaunchStart(r) ==
  /\ req[r].pc = "start"
  /\ \/ /\ NoFault
        /\ IF box[req[r].i] = "none"
           THEN UNCHANGED box /\ Goto(r, "error")
           ELSE box' = [box EXCEPT ![req[r].i] = "running"] /\ Goto(r, "running")
     \/ Fault /\ UNCHANGED box /\ Goto(r, "error")
  /\ UNCHANGED <<tables, binds, disk>>

(* The failure path: status ERROR, if the row is still the one inserted. *)
LaunchError(r) ==
  /\ req[r].pc = "error"
  /\ \/ NoFault /\ UpdateInst(req[r].i, req[r].ver, "ERROR", "none")
     \/ Fault /\ UNCHANGED inst
  /\ Return(r)
  /\ UNCHANGED <<vol, docker>>

(* The success path: RUNNING with the container id; a Conflict or an error  *)
(* ends the request before any volume is marked.                            *)
LaunchRunning(r) ==
  /\ req[r].pc = "running"
  /\ \/ /\ NoFault
        /\ UpdateInst(req[r].i, req[r].ver, "RUNNING", "id")
        /\ IF Hit(req[r].i, req[r].ver) THEN Goto(r, "attach") ELSE Return(r)
     \/ Fault /\ UNCHANGED inst /\ Return(r)
  /\ UNCHANGED <<vol, docker>>

(* updateVolumesAfterLaunch, one volume. *)
LaunchAttach(r) ==
  /\ req[r].pc = "attach"
  /\ \/ /\ req[r].vols = {}
        /\ Return(r)
        /\ NoFault
        /\ UNCHANGED vol
     \/ \E v \in req[r].vols :
          /\ req' = [req EXCEPT ![r].vols = @ \ {v}]
          /\ \/ NoFault /\ UpdateVol(v, "IN-USE", req[r].i)
             \/ Fault /\ UNCHANGED vol
  /\ UNCHANGED <<inst, docker>>

-----------------------------------------------------------------------------
(* InstanceService.StopInstance *)

(* GetInstance; an instance that is STOPPED is left alone. *)
StopGet(r) ==
  \E i \in Inst :
    /\ Begin(r)
    /\ InstLive(i)
    /\ inst[i].status # "STOPPED"
    /\ req' = [req EXCEPT ![r] = [Idle EXCEPT !.pc = "stop", !.i = i, !.ver = inst[i].ver,
                                              !.cid = inst[i].cid]]
    /\ UNCHANGED <<tables, docker>>

(* ContainerStop: an error if there is no such container; no effect on one  *)
(* that is not running.                                                     *)
StopBox(r) ==
  /\ req[r].pc = "stop"
  /\ \/ /\ NoFault
        /\ box[req[r].i] # "none"
        /\ box' = [box EXCEPT ![req[r].i] = IF @ = "running" THEN "stopped" ELSE @]
        /\ Goto(r, "stopped")
     \/ /\ IF box[req[r].i] = "none" THEN NoFault ELSE Fault
        /\ UNCHANGED box
        /\ Return(r)
  /\ UNCHANGED <<tables, binds, disk>>

(* The UPDATE writes back every column it has read, container_id included. *)
StopMark(r) ==
  /\ req[r].pc = "stopped"
  /\ \/ NoFault /\ UpdateInst(req[r].i, req[r].ver, "STOPPED", req[r].cid)
     \/ Fault /\ UNCHANGED inst
  /\ Return(r)
  /\ UNCHANGED <<vol, docker>>

-----------------------------------------------------------------------------
(* InstanceService.TerminateInstance *)

TerminateGet(r) ==
  \E i \in Inst :
    /\ Begin(r)
    /\ InstLive(i)
    /\ req' = [req EXCEPT ![r] = [Idle EXCEPT !.pc = "remove", !.i = i]]
    /\ UNCHANGED <<tables, docker>>

(* Faulty variant of TerminateBox: the container goes with its volumes. *)
TerminateBoxAndDisks(r) ==
  /\ req[r].pc = "remove"
  /\ box' = [box EXCEPT ![req[r].i] = "none"]
  /\ disk' = disk \ binds[req[r].i]
  /\ binds' = [binds EXCEPT ![req[r].i] = {}]
  /\ Goto(r, "list")
  /\ NoFault
  /\ UNCHANGED tables

(* removeInstanceContainer: forced; a container that is not there is fine. *)
TerminateBox(r) ==
  /\ req[r].pc = "remove"
  /\ \/ /\ NoFault
        /\ box' = [box EXCEPT ![req[r].i] = "none"]
        /\ binds' = [binds EXCEPT ![req[r].i] = {}]
        /\ Goto(r, "list")
     \/ Fault /\ UNCHANGED <<box, binds>> /\ Return(r)
  /\ UNCHANGED <<tables, disk>>

(* Faulty variant of TerminateList: the volumes are not released. *)
TerminateKeepsVolumes(r) ==
  /\ req[r].pc = "list"
  /\ Goto(r, "delete")
  /\ NoFault
  /\ UNCHANGED <<tables, docker>>

(* releaseAttachedVolumes: the list of volumes; an error is only logged. *)
TerminateList(r) ==
  /\ req[r].pc = "list"
  /\ \/ /\ NoFault
        /\ req' = [req EXCEPT ![r].pc = "release",
                              ![r].todo = {v \in Vol : VolLive(v) /\ vol[v].inst = req[r].i}]
     \/ Fault /\ Goto(r, "delete")
  /\ UNCHANGED <<tables, docker>>

(* releaseAttachedVolumes, one volume; an error goes on to the next one. *)
TerminateRelease(r) ==
  /\ req[r].pc = "release"
  /\ \/ /\ req[r].todo = {}
        /\ Goto(r, "delete")
        /\ NoFault
        /\ UNCHANGED vol
     \/ \E v \in req[r].todo :
          /\ req' = [req EXCEPT ![r].todo = @ \ {v}]
          /\ \/ NoFault /\ UpdateVol(v, "AVAILABLE", NoInst)
             \/ Fault /\ UNCHANGED vol
  /\ UNCHANGED <<inst, docker>>

(* InstanceRepository.Delete; volumes.instance_id is set to NULL where it   *)
(* named the instance, and volumes.status stays what it was.                *)
DeleteInst(i) ==
  /\ inst' = IF InstLive(i) THEN [inst EXCEPT ![i].status = "gone"] ELSE inst
  /\ vol' = [v \in Vol |-> IF vol[v].inst = i THEN [vol[v] EXCEPT !.inst = NoInst] ELSE vol[v]]

TerminateDelete(r) ==
  /\ req[r].pc = "delete"
  /\ \/ NoFault /\ DeleteInst(req[r].i)
     \/ Fault /\ UNCHANGED tables
  /\ Return(r)
  /\ UNCHANGED docker

-----------------------------------------------------------------------------
(* VolumeService *)

(* CreateVolume, the Docker volume. *)
CreateVolume(r) ==
  \E v \in Vol :
    /\ vol[v].status = "absent" /\ v \notin disk
    /\ \/ /\ Begin(r)
          /\ disk' = disk \cup {v}
          /\ req' = [req EXCEPT ![r] = [Idle EXCEPT !.pc = "volRow", !.v = v]]
       \/ Fault /\ req[r].pc = "idle" /\ UNCHANGED <<disk, req>>
    /\ UNCHANGED <<tables, box, binds>>

(* CreateVolume, the INSERT: it fails on a name that is taken. *)
CreateVolumeRow(r) ==
  /\ req[r].pc = "volRow"
  /\ \/ /\ NoFault
        /\ vol' = [vol EXCEPT ![req[r].v] = [status |-> "AVAILABLE", inst |-> NoInst]]
        /\ Return(r)
     \/ Fault /\ UNCHANGED vol /\ Goto(r, "volRollback")
  /\ UNCHANGED <<inst, docker>>

(* CreateVolume, the rollback of the Docker volume. *)
CreateVolumeRollback(r) ==
  /\ req[r].pc = "volRollback"
  /\ \/ NoFault /\ disk' = disk \ {req[r].v}
     \/ Fault /\ UNCHANGED disk
  /\ Return(r)
  /\ UNCHANGED <<tables, box, binds>>

(* DeleteVolume, the read: a volume that is IN-USE is refused. *)
DeleteVolumeGet(r) ==
  \E v \in Vol :
    /\ Begin(r)
    /\ vol[v].status = "AVAILABLE"
    /\ req' = [req EXCEPT ![r] = [Idle EXCEPT !.pc = "volRemove", !.v = v]]
    /\ UNCHANGED <<tables, docker>>

(* DeleteVolume, VolumeRemove: Docker refuses a volume that a container     *)
(* mounts; any error is only logged.                                        *)
DeleteVolumeDisk(r) ==
  /\ req[r].pc = "volRemove"
  /\ \/ /\ NoFault
        /\ disk' = IF \E i \in Inst : req[r].v \in binds[i] THEN disk ELSE disk \ {req[r].v}
     \/ Fault /\ UNCHANGED disk
  /\ Goto(r, "volDelete")
  /\ UNCHANGED <<tables, box, binds>>

(* DeleteVolume, the DELETE, whatever the row's status is by now. *)
DeleteVolumeRow(r) ==
  /\ req[r].pc = "volDelete"
  /\ \/ /\ NoFault
        /\ vol' = IF VolLive(req[r].v)
                  THEN [vol EXCEPT ![req[r].v] = [status |-> "gone", inst |-> NoInst]]
                  ELSE vol
     \/ Fault /\ UNCHANGED vol
  /\ Return(r)
  /\ UNCHANGED <<inst, docker>>

-----------------------------------------------------------------------------
(* The server dies, or the caller's context is cancelled, between two steps. *)
Crash(r) ==
  /\ req[r].pc # "idle"
  /\ crashes < MaxCrashes
  /\ crashes' = crashes + 1
  /\ Return(r)
  /\ UNCHANGED <<tables, docker, faults, overlap>>

Launch(r) ==
  \/ LaunchRow(r) \/ LaunchNetwork(r) \/ LaunchResolve(r) \/ LaunchCreate(r)
  \/ LaunchStart(r) \/ LaunchError(r) \/ LaunchRunning(r) \/ LaunchAttach(r)

Stop(r) == StopGet(r) \/ StopBox(r) \/ StopMark(r)

Terminate(r) ==
  \/ TerminateGet(r) \/ TerminateBox(r) \/ TerminateList(r)
  \/ TerminateRelease(r) \/ TerminateDelete(r)

Volumes(r) ==
  \/ CreateVolume(r) \/ CreateVolumeRow(r) \/ CreateVolumeRollback(r)
  \/ DeleteVolumeGet(r) \/ DeleteVolumeDisk(r) \/ DeleteVolumeRow(r)

Next == \E r \in Req : Launch(r) \/ Stop(r) \/ Terminate(r) \/ Volumes(r) \/ Crash(r)

Spec == Init /\ [][Next]_vars

-----------------------------------------------------------------------------
(* An instance's status never goes back: a launch that finishes late cannot *)
(* turn a row that StopInstance has written into RUNNING or ERROR, and the  *)
(* container id, once stored, is never lost by a write that read the row    *)
(* before it was stored.                                                    *)
Forward(i) ==
  /\ inst[i].status = "RUNNING" => inst'[i].status \in {"RUNNING", "STOPPED", "gone"}
  /\ inst[i].status = "ERROR"   => inst'[i].status \in {"ERROR", "STOPPED", "gone"}
  /\ inst[i].status = "STOPPED" => inst'[i].status \in {"STOPPED", "gone"}
  /\ inst[i].status = "gone"    => inst'[i].status = "gone"
  /\ inst[i].cid # "none"         => inst'[i].cid = inst[i].cid

(* Every step of every request moves every instance forward. *)
StatusForward == [][\A i \in Inst : Forward(i)]_vars

(* A volume names only an instance that has a row, and only while IN-USE:   *)
(* neither a late attach after TerminateInstance nor a late release can     *)
(* leave a reference to a deleted instance.                                 *)
NoDanglingAttachment ==
  \A v \in Vol : vol[v].inst # NoInst => InstLive(vol[v].inst) /\ vol[v].status = "IN-USE"

(* As long as no call fails, every volume row that no request is deleting   *)
(* has its Docker volume: CreateVolume makes the Docker volume first, and a *)
(* launch that mounts a volume another request has just removed brings it   *)
(* back.                                                                    *)
VolumeHasDisk ==
  faults = 0 /\ crashes = 0 =>
    \A v \in Vol :
      VolLive(v) /\ (\A r \in Req : req[r].pc = "volDelete" => req[r].v # v) => v \in disk

(* No request is at work, none ever ran beside another, and nothing failed. *)
Undisturbed ==
  faults = 0 /\ crashes = 0 /\ overlap = "never" /\ \A r \in Req : req[r].pc = "idle"

(* Every sequence of calls, one at a time, leaves the tables and the Docker *)
(* host in agreement: a volume is IN-USE by an instance exactly when that   *)
(* instance's container, and no other, mounts it; an instance runs exactly  *)
(* when it is RUNNING and has a stopped container exactly when STOPPED; and *)
(* the Docker volumes are those of the volumes table.                       *)
Consistent ==
  Undisturbed =>
    /\ \A v \in Vol : {i \in Inst : v \in binds[i]} =
                        IF vol[v].status = "IN-USE" THEN {vol[v].inst} ELSE {}
    /\ \A i \in Inst : inst[i].status = "RUNNING" <=> box[i] = "running"
    /\ \A i \in Inst : inst[i].status = "STOPPED" <=> box[i] = "stopped"
    /\ disk = {v \in Vol : VolLive(v)}

(* A terminated instance has no container once no request works on it.      *)
TerminateRemovesBox ==
  \A i \in Inst :
    inst[i].status = "gone" /\ (\A r \in Req : req[r].i # i) => box[i] = "none"

=============================================================================
