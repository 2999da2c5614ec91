-------------------------- MODULE ComputeDiskProofs --------------------------
(* The theorems about the Docker volumes behind volume rows, and about what *)
(* rows say when calls are made one at a time.                              *)
EXTENDS ComputeProofs

(* A step of one request leaves the locals of the others alone. *)
LEMMA OthersKeep ==
  ASSUME TypeOK, NEW r \in Req, Launch(r) \/ Stop(r) \/ Terminate(r) \/ Volumes(r) \/ Crash(r),
         NEW q \in Req, q # r
  PROVE  req'[q] = req[q]
<1>t. req \in [Req -> Request]
  BY DEF TypeOK, RequestType, Request
<1>g. \A p : Goto(r, p) => req'[q] = req[q]
  BY <1>t DEF Goto
<1>r. Return(r) => req'[q] = req[q]
  BY <1>t DEF Return
<1>1. CASE LaunchRow(r) \/ StopGet(r) \/ TerminateGet(r) \/ CreateVolume(r) \/ DeleteVolumeGet(r)
  <2>1. UNCHANGED req \/ \E x : req' = [req EXCEPT ![r] = x]
    BY <1>1, Zenon DEF LaunchRow, StopGet, TerminateGet, CreateVolume, DeleteVolumeGet
  <2> QED BY <1>t, <2>1
<1>2. CASE LaunchResolve(r) \/ LaunchAttach(r)
  BY <1>t, <1>g, <1>r, <1>2, Zenon DEF LaunchResolve, LaunchAttach
<1>3. CASE TerminateList(r) \/ TerminateRelease(r)
  BY <1>t, <1>g, <1>r, <1>3 DEF TerminateList, TerminateRelease
<1>4. CASE LaunchNetwork(r) \/ LaunchCreate(r) \/ LaunchStart(r) \/ LaunchError(r) \/ LaunchRunning(r)
  BY <1>g, <1>r, <1>4 DEF LaunchNetwork, LaunchCreate, LaunchStart, LaunchError, LaunchRunning
<1>5. CASE StopBox(r) \/ StopMark(r) \/ TerminateBox(r) \/ TerminateDelete(r) \/ Crash(r)
  BY <1>g, <1>r, <1>5 DEF StopBox, StopMark, TerminateBox, TerminateDelete, Crash
<1>6. CASE CreateVolumeRow(r) \/ CreateVolumeRollback(r) \/ DeleteVolumeDisk(r) \/ DeleteVolumeRow(r)
  BY <1>g, <1>r, <1>6 DEF CreateVolumeRow, CreateVolumeRollback, DeleteVolumeDisk, DeleteVolumeRow
<1> QED BY <1>1, <1>2, <1>3, <1>4, <1>5, <1>6 DEF Launch, Stop, Terminate, Volumes

(* Nothing has failed. *)
Quiet == faults = 0 /\ crashes = 0

(* A failure or a crash is not forgotten. *)
LEMMA QuietStep ==
  ASSUME BoundsOK, NEW r \in Req, Launch(r) \/ Stop(r) \/ Terminate(r) \/ Volumes(r) \/ Crash(r),
         Quiet'
  PROVE  Quiet /\ ~Fault /\ ~Crash(r)
<1>0. faults \in Nat /\ crashes \in Nat
  BY BoundsType DEF BoundsOK
<1>1. ~Fault BY <1>0 DEF Fault, Quiet
<1>2. ~Crash(r) BY <1>0 DEF Crash, Quiet
<1>3. UNCHANGED bounds \/ Begin(r)
  BY <1>1, <1>2, Zenon
  DEF Launch, LaunchRow, LaunchNetwork, LaunchResolve, LaunchCreate, LaunchStart, LaunchError,
      LaunchRunning, LaunchAttach, Stop, StopGet, StopBox, StopMark, Terminate, TerminateGet,
      TerminateBox, TerminateList, TerminateRelease, TerminateDelete, Volumes, CreateVolume,
      CreateVolumeRow, CreateVolumeRollback, DeleteVolumeGet, DeleteVolumeDisk, DeleteVolumeRow,
      NoFault
<1> QED BY <1>1, <1>2, <1>3 DEF Quiet, bounds, Begin

VolPCs == {"volRow", "volRollback", "volRemove", "volDelete"}

(* The operations on instances neither insert nor delete a volumes row, and  *)
(* only ever add Docker volumes.                                             *)
LEMMA InstanceStep ==
  ASSUME TypeOK, NEW r \in Req, Launch(r) \/ Stop(r) \/ Terminate(r)
  PROVE  /\ req'[r].pc \notin VolPCs
         /\ disk \subseteq disk'
         /\ \A v \in Vol : \A s \in {"absent", "gone"} :
              vol'[v].status = s <=> vol[v].status = s
<1>t. req \in [Req -> Request] /\ vol \in [Vol -> VolRows]
  BY DEF TypeOK, RequestType, Request
<1>1. req'[r].pc \notin VolPCs
  <2>g. ASSUME NEW p, Goto(r, p) PROVE req'[r].pc = p BY <1>t, <2>g DEF Goto, Request
  <2>r. Return(r) => req'[r].pc = "idle" BY <1>t DEF Return, Idle
  <2>1. CASE LaunchRow(r) \/ StopGet(r) \/ TerminateGet(r)
    <3>1. req'[r].pc \in {"network", "stop", "remove"}
      BY <1>t, <2>1, ZenonT(30) DEF LaunchRow, StopGet, TerminateGet, Idle
    <3> QED BY <3>1 DEF VolPCs
  <2>2. CASE LaunchResolve(r) \/ LaunchAttach(r)
    <3>1. req'[r].pc \in {"resolve", "create", "attach", "idle"}
      BY <1>t, <2>g, <2>r, <2>2, ZenonT(30) DEF LaunchResolve, LaunchAttach, Request
    <3> QED BY <3>1 DEF VolPCs
  <2>3. CASE TerminateList(r) \/ TerminateRelease(r)
    <3>1. req'[r].pc \in {"release", "delete"}
      BY <1>t, <2>g, <2>3 DEF TerminateList, TerminateRelease, Request
    <3> QED BY <3>1 DEF VolPCs
  <2>4. CASE LaunchNetwork(r) \/ LaunchCreate(r) \/ LaunchStart(r) \/ LaunchError(r) \/ LaunchRunning(r)
    BY <2>g, <2>r, <2>4
    DEF LaunchNetwork, LaunchCreate, LaunchStart, LaunchError, LaunchRunning, VolPCs
  <2>5. CASE StopBox(r) \/ StopMark(r) \/ TerminateBox(r) \/ TerminateDelete(r)
    BY <2>g, <2>r, <2>5 DEF StopBox, StopMark, TerminateBox, TerminateDelete, VolPCs
  <2> QED BY <2>1, <2>2, <2>3, <2>4, <2>5 DEF Launch, Stop, Terminate
<1>2. disk \subseteq disk'
  BY Zenon DEF Launch, LaunchRow, LaunchNetwork, LaunchResolve, LaunchCreate, LaunchStart, LaunchError,
      LaunchRunning, LaunchAttach, Stop, StopGet, StopBox, StopMark, Terminate, TerminateGet,
      TerminateBox, TerminateList, TerminateRelease, TerminateDelete, docker
<1>3. ASSUME NEW v \in Vol, NEW s \in {"absent", "gone"}
      PROVE  vol'[v].status = s <=> vol[v].status = s
  <2>0. vol[v] \in VolRows BY <1>t
  <2>1. ASSUME NEW u, NEW t \in {"IN-USE", "AVAILABLE"}, NEW i, UpdateVol(u, t, i)
        PROVE  vol'[v].status = s <=> vol[v].status = s
    <3>1. vol'[v] = vol[v] \/ (VolLive(v) /\ vol'[v].status = t)
      BY <1>t, <2>1 DEF UpdateVol
    <3> QED BY <2>1, <3>1 DEF VolLive
  <2>2. ASSUME NEW i, DeleteInst(i) PROVE vol'[v].status = vol[v].status
    <3>1. vol'[v] = IF vol[v].inst = i THEN [vol[v] EXCEPT !.inst = NoInst] ELSE vol[v]
      BY <2>2 DEF DeleteInst
    <3> QED BY <2>0, <3>1 DEF VolRows
  <2>3. \/ UNCHANGED vol
        \/ \E u, i : UpdateVol(u, "IN-USE", i) \/ UpdateVol(u, "AVAILABLE", i)
        \/ DeleteInst(req[r].i)
    BY Zenon
    DEF Launch, LaunchRow, LaunchNetwork, LaunchResolve, LaunchCreate, LaunchStart, LaunchError,
        LaunchRunning, LaunchAttach, Stop, StopGet, StopBox, StopMark, Terminate, TerminateGet,
        TerminateBox, TerminateList, TerminateRelease, TerminateDelete, tables
  <2> QED BY <2>1, <2>2, <2>3
<1> QED BY <1>1, <1>2, <1>3

(* While nothing has failed, a request that is about to insert a volumes row *)
(* is the only one for its volume and has made the Docker volume, and one    *)
(* that deletes a volume deletes one that has or had a row.                  *)
Drafted(r) == req[r].v \in Vol /\ vol[req[r].v].status = "absent" /\ req[r].v \in disk
Known(r)   == req[r].v \in Vol /\ vol[req[r].v].status # "absent"

DiskRequests ==
  /\ \A r \in Req :
       /\ req[r].pc # "volRollback"
       /\ req[r].pc = "volRow" => Drafted(r)
       /\ req[r].pc \in {"volRemove", "volDelete"} => Known(r)
  /\ \A q, r \in Req :
       req[q].pc = "volRow" /\ req[r].pc = "volRow" /\ req[q].v = req[r].v => q = r

DiskRows ==
  \A v \in Vol :
    VolLive(v) /\ (\A r \in Req : req[r].pc = "volDelete" => req[r].v # v) => v \in disk

DiskInv == TypeOK /\ (Quiet => DiskRequests /\ DiskRows)

LEMMA DiskStep ==
  ASSUME DiskInv, NEW r \in Req, Launch(r) \/ Stop(r) \/ Terminate(r) \/ Volumes(r) \/ Crash(r),
         Quiet'
  PROVE  DiskRequests' /\ DiskRows'
<1>0. TypeOK /\ DiskRequests /\ DiskRows /\ ~Fault /\ ~Crash(r)
  BY QuietStep DEF DiskInv, TypeOK
<1>t. /\ req \in [Req -> Request] /\ vol \in [Vol -> VolRows] /\ req[r] \in Request
      /\ disk \subseteq Vol
  BY <1>0 DEF TypeOK, RequestType, Request
<1>o. ASSUME NEW q \in Req, q # r PROVE req'[q] = req[q]
  BY <1>0, <1>o, OthersKeep
<1>1. CASE Launch(r) \/ Stop(r) \/ Terminate(r)
  <2>1. /\ req'[r].pc \notin VolPCs
        /\ disk \subseteq disk'
        /\ \A v \in Vol : \A s \in {"absent", "gone"} :
              vol'[v].status = s <=> vol[v].status = s
    BY <1>0, <1>1, InstanceStep
  <2>2. DiskRequests'
    BY <1>0, <1>o, <2>1 DEF DiskRequests, Drafted, Known, VolPCs
  <2>3. req[r].pc # "volDelete"
    BY <1>1, Zenon DEF Launch, LaunchRow, LaunchNetwork, LaunchResolve, LaunchCreate, LaunchStart,
      LaunchError, LaunchRunning, LaunchAttach, Stop, StopGet, StopBox, StopMark, Terminate,
      TerminateGet, TerminateBox, TerminateList, TerminateRelease, TerminateDelete, Begin
  <2>4. DiskRows'
    <3> SUFFICES ASSUME NEW v \in Vol, VolLive(v)',
                        \A q \in Req : req'[q].pc = "volDelete" => req'[q].v # v
                 PROVE  v \in disk'
      BY DEF DiskRows, VolLive
    <3>1. VolLive(v) BY <2>1 DEF VolLive
    <3>2. \A q \in Req : req[q].pc = "volDelete" => req[q].v # v BY <1>o, <2>3
    <3> QED BY <1>0, <2>1, <3>1, <3>2 DEF DiskRows
  <2> QED BY <2>2, <2>4
<1>2. CASE CreateVolume(r)
  <2>1. PICK v \in Vol : /\ vol[v].status = "absent" /\ v \notin disk
                         /\ req[r].pc = "idle"
                         /\ disk' = disk \cup {v}
                         /\ req' = [req EXCEPT ![r] = [Idle EXCEPT !.pc = "volRow", !.v = v]]
                         /\ UNCHANGED vol
    BY <1>0, <1>2, Zenon DEF CreateVolume, Begin, tables
  <2>2. req'[r].pc = "volRow" /\ req'[r].v = v BY <1>t, <2>1 DEF Idle
  <2>3. DiskRequests'
    BY <1>0, <1>o, <2>1, <2>2 DEF DiskRequests, Drafted, Known
  <2>4. DiskRows'
    <3> SUFFICES ASSUME NEW u \in Vol, VolLive(u),
                        \A q \in Req : req'[q].pc = "volDelete" => req'[q].v # u
                 PROVE  u \in disk'
      BY <2>1 DEF DiskRows, VolLive
    <3>1. \A q \in Req : req[q].pc = "volDelete" => req[q].v # u BY <1>o, <2>1
    <3> QED BY <1>0, <2>1, <3>1 DEF DiskRows
  <2> QED BY <2>3, <2>4
<1>3. CASE CreateVolumeRow(r)
  <2>1. /\ req[r].pc = "volRow" /\ Return(r) /\ UNCHANGED disk
        /\ vol' = [vol EXCEPT ![req[r].v] = [status |-> "AVAILABLE", inst |-> NoInst]]
    BY <1>0, <1>3, Zenon DEF CreateVolumeRow, docker
  <2>2. PICK v \in Vol : v = req[r].v /\ vol[v].status = "absent" /\ v \in disk
    BY <1>0, <2>1 DEF DiskRequests, Drafted
  <2>3. req'[r].pc = "idle" BY <1>t, <2>1 DEF Return, Idle
  <2>4. vol'[v].status = "AVAILABLE" /\ \A u \in Vol : u # v => vol'[u] = vol[u]
    BY <1>t, <2>1, <2>2
  <2>5. \A q \in Req : q # r /\ req[q].pc = "volRow" => req[q].v # v
    BY <1>0, <2>1, <2>2 DEF DiskRequests
  <2>6. DiskRequests'
    BY <1>0, <1>o, <2>1, <2>3, <2>4, <2>5 DEF DiskRequests, Drafted, Known
  <2>7. DiskRows'
    <3> SUFFICES ASSUME NEW u \in Vol, VolLive(u)',
                        \A q \in Req : req'[q].pc = "volDelete" => req'[q].v # u
                 PROVE  u \in disk
      BY <2>1 DEF DiskRows, VolLive
    <3>1. \A q \in Req : req[q].pc = "volDelete" => req[q].v # u BY <1>o, <2>1
    <3>2. CASE u = v BY <2>2, <3>2
    <3>3. CASE u # v BY <1>0, <2>4, <3>1, <3>3 DEF DiskRows, VolLive
    <3> QED BY <3>2, <3>3
  <2> QED BY <2>6, <2>7
<1>4. CASE CreateVolumeRollback(r)
  BY <1>0, <1>4 DEF CreateVolumeRollback, DiskRequests
<1>5. CASE DeleteVolumeGet(r)
  <2>1. PICK v \in Vol : /\ vol[v].status = "AVAILABLE"
                         /\ req[r].pc = "idle"
                         /\ req' = [req EXCEPT ![r] = [Idle EXCEPT !.pc = "volRemove", !.v = v]]
                         /\ UNCHANGED <<vol, disk>>
    BY <1>5, Zenon DEF DeleteVolumeGet, Begin, tables, docker
  <2>2. req'[r].pc = "volRemove" /\ req'[r].v = v BY <1>t, <2>1 DEF Idle
  <2>3. DiskRequests'
    BY <1>0, <1>o, <2>1, <2>2 DEF DiskRequests, Drafted, Known
  <2>4. DiskRows'
    <3> SUFFICES ASSUME NEW u \in Vol, VolLive(u),
                        \A q \in Req : req'[q].pc = "volDelete" => req'[q].v # u
                 PROVE  u \in disk
      BY <2>1 DEF DiskRows, VolLive
    <3>1. \A q \in Req : req[q].pc = "volDelete" => req[q].v # u BY <1>o, <2>1
    <3> QED BY <1>0, <3>1 DEF DiskRows
  <2> QED BY <2>3, <2>4
<1>6. CASE DeleteVolumeDisk(r)
  <2>1. /\ req[r].pc = "volRemove" /\ Goto(r, "volDelete") /\ UNCHANGED vol
        /\ disk' = disk \/ disk' = disk \ {req[r].v}
    BY <1>0, <1>6, Zenon DEF DeleteVolumeDisk, tables
  <2>2. PICK v \in Vol : v = req[r].v /\ vol[v].status # "absent"
    BY <1>0, <2>1 DEF DiskRequests, Known
  <2>3. req'[r].pc = "volDelete" /\ req'[r].v = v BY <1>t, <2>1, <2>2 DEF Goto, Request
  <2>4. \A u \in disk : u # v => u \in disk' BY <2>1, <2>2
  <2>5. DiskRequests'
    BY <1>0, <1>o, <2>1, <2>2, <2>3, <2>4, Zenon DEF DiskRequests, Drafted, Known
  <2>6. DiskRows'
    <3> SUFFICES ASSUME NEW u \in Vol, VolLive(u),
                        \A q \in Req : req'[q].pc = "volDelete" => req'[q].v # u
                 PROVE  u \in disk'
      BY <2>1 DEF DiskRows, VolLive
    <3>1. u # v BY <2>3
    <3>2. \A q \in Req : req[q].pc = "volDelete" => req[q].v # u BY <1>o, <2>1
    <3> QED BY <1>0, <2>4, <3>1, <3>2 DEF DiskRows
  <2> QED BY <2>5, <2>6
<1>7. CASE DeleteVolumeRow(r)
  <2>1. /\ req[r].pc = "volDelete" /\ Return(r) /\ UNCHANGED disk
        /\ vol' = IF VolLive(req[r].v)
                  THEN [vol EXCEPT ![req[r].v] = [status |-> "gone", inst |-> NoInst]]
                  ELSE vol
    BY <1>0, <1>7, Zenon DEF DeleteVolumeRow, docker
  <2>2. PICK v \in Vol : v = req[r].v /\ vol[v].status # "absent"
    BY <1>0, <2>1 DEF DiskRequests, Known
  <2>3. req'[r].pc = "idle" BY <1>t, <2>1 DEF Return, Idle
  <2>4. vol'[v].status = "gone" /\ \A u \in Vol : u # v => vol'[u] = vol[u]
    BY <1>t, <2>1, <2>2 DEF VolLive
  <2>5. DiskRequests'
    BY <1>0, <1>o, <2>1, <2>2, <2>3, <2>4, SMTT(30) DEF DiskRequests, Drafted, Known
  <2>6. DiskRows'
    <3> SUFFICES ASSUME NEW u \in Vol, VolLive(u)',
                        \A q \in Req : req'[q].pc = "volDelete" => req'[q].v # u
                 PROVE  u \in disk
      BY <2>1 DEF DiskRows, VolLive
    <3>1. u # v BY <2>4 DEF VolLive
    <3>2. \A q \in Req : req[q].pc = "volDelete" => req[q].v # u BY <1>o, <2>2, <3>1
    <3> QED BY <1>0, <2>4, <3>1, <3>2 DEF DiskRows, VolLive
  <2> QED BY <2>5, <2>6
<1> QED BY <1>0, <1>1, <1>2, <1>3, <1>4, <1>5, <1>6, <1>7 DEF Volumes

(* For any number of requests and volumes, and as long as no call has        *)
(* failed, a volumes row that no DeleteVolume is about to delete has its     *)
(* Docker volume.                                                            *)
THEOREM VolumesHaveDisks == Spec => []VolumeHasDisk
<1>1. Init /\ TypeOK => DiskInv
  BY DEF Init, DiskInv, DiskRequests, DiskRows, Idle, VolLive
<1>2. DiskInv /\ [Next]_vars => DiskInv'
  <2> SUFFICES ASSUME DiskInv, [Next]_vars, Quiet'
               PROVE  DiskRequests' /\ DiskRows'
    BY TypeStep DEF DiskInv
  <2>1. CASE UNCHANGED vars
    BY <2>1 DEF vars, tables, docker, bounds, DiskInv, Quiet, DiskRequests, DiskRows, Drafted,
                Known, VolLive
  <2>2. CASE Next
    BY <2>2, DiskStep DEF Next
  <2> QED BY <2>1, <2>2
<1>3. DiskInv => VolumeHasDisk
  BY DEF DiskInv, Quiet, DiskRows, VolumeHasDisk
<1> HIDE DEF DiskInv
<1> QED BY <1>1, <1>2, <1>3, TypeCorrect, PTL DEF Spec

-----------------------------------------------------------------------------
(* Histories in which nothing failed and no request ran beside another.  The *)
(* tables and the Docker host then agree about every instance and volume but *)
(* the one the request in progress works on, and Progress says how far that  *)
(* request has come with it.                                                 *)
Serial == Quiet /\ overlap = "never"

Mounted(v, i) == vol[v].status = "IN-USE" /\ vol[v].inst = i
Bare(i)       == box[i] = "none" /\ binds[i] = {}
Free(V)       == \A v \in V : vol[v].status = "AVAILABLE"

Settled(i) ==
  /\ inst[i].status # "ERROR"
  /\ inst[i].status = "RUNNING" => box[i] = "running"
  /\ inst[i].status = "STOPPED" => box[i] = "stopped"
  /\ inst[i].status \notin {"RUNNING", "STOPPED"} => Bare(i)
  /\ \A v \in Vol : v \in binds[i] <=> Mounted(v, i)

Starting == {"network", "resolve", "create", "start", "running"}
Removing == {"list", "release", "delete"}
AtWork   == {"start", "running", "attach", "stopped"} \cup Removing

Progress(q) ==
  /\ q.pc \notin {"error", "volRollback"}
  /\ q.pc \in Starting \cup Removing \cup {"attach", "stop", "stopped", "remove"} =>
       q.i \in Inst /\ InstLive(q.i)
  /\ q.pc \in Starting => inst[q.i].status = "STARTING" /\ inst[q.i].ver = q.ver
  /\ q.pc = "network" => q.vols = {}
  /\ q.pc \in {"resolve", "create", "start", "running", "attach"} => Free(q.vols)
  /\ q.pc \in {"start", "running"} => binds[q.i] = q.vols /\ \A u \in Vol : ~Mounted(u, q.i)
  /\ q.pc = "start" => box[q.i] = "created"
  /\ q.pc = "running" => box[q.i] = "running"
  /\ q.pc = "attach" =>
       /\ inst[q.i].status = "RUNNING" /\ box[q.i] = "running"
       /\ \A u \in Vol : u \in binds[q.i] <=> u \in q.vols \/ Mounted(u, q.i)
  /\ q.pc \in {"stop", "stopped"} => inst[q.i].ver = q.ver /\ inst[q.i].status # "STOPPED"
  /\ q.pc = "stopped" =>
       /\ inst[q.i].status = "RUNNING" /\ box[q.i] = "stopped"
       /\ \A u \in Vol : u \in binds[q.i] <=> Mounted(u, q.i)
  /\ q.pc \in Removing => Bare(q.i)
  /\ q.pc = "release" =>
       /\ \A u \in Vol : Mounted(u, q.i) => u \in q.todo
       /\ \A u \in q.todo : vol[u].inst = q.i
  /\ q.pc = "delete" => \A u \in Vol : ~Mounted(u, q.i)
  /\ q.pc = "volRow" => q.v \in Vol /\ vol[q.v].status = "absent" /\ q.v \in disk
  /\ q.pc \in {"volRemove", "volDelete"} => q.v \in Vol /\ vol[q.v].status = "AVAILABLE"
  /\ q.pc = "volDelete" => q.v \notin disk

Owned == \A v \in Vol : vol[v].status = "IN-USE" => vol[v].inst \in Inst
InstancesSettled(q) == \A i \in Inst : ~(q.pc \in AtWork /\ q.i = i) => Settled(i)
DisksSettled(q) ==
  \A v \in Vol : ~(q.pc \in {"volRow", "volDelete"} /\ q.v = v) => (v \in disk <=> VolLive(v))

Solo(q) == Owned /\ InstancesSettled(q) /\ DisksSettled(q) /\ Progress(q)

SerialInv ==
  Serial =>
    /\ \A q, r \in Req : req[q].pc # "idle" /\ req[r].pc # "idle" => q = r
    /\ \A r \in Req : req[r].pc # "idle" => Solo(req[r])
    /\ (\A r \in Req : req[r].pc = "idle") => Solo(Idle)

(* What Solo says does not change with what a step leaves alone. *)
LEMMA SettledKept ==
  ASSUME NEW i \in Inst, Settled(i), inst'[i] = inst[i], box'[i] = box[i], binds'[i] = binds[i],
         \A v \in Vol : Mounted(v, i)' <=> Mounted(v, i)
  PROVE  Settled(i)'
BY Zenon DEF Settled, Bare

LEMMA RestKept ==
  ASSUME NEW q, NEW p, Solo(q), UNCHANGED <<tables, docker>>,
         q.pc \in AtWork => p.pc \in AtWork /\ p.i = q.i,
         q.pc \in {"volRow", "volDelete"} => p.pc \in {"volRow", "volDelete"} /\ p.v = q.v
  PROVE  Owned' /\ InstancesSettled(p)' /\ DisksSettled(p)'
<1>0. UNCHANGED <<inst, vol, box, binds, disk>> BY Zenon DEF tables, docker
<1>1. Owned' BY <1>0 DEF Solo, Owned
<1>2. DisksSettled(p)' BY <1>0 DEF Solo, DisksSettled, VolLive
<1>3. InstancesSettled(p)'
  <2> SUFFICES ASSUME NEW i \in Inst, ~(p.pc \in AtWork /\ p.i = i) PROVE Settled(i)'
    BY DEF InstancesSettled
  <2>1. Settled(i) BY DEF Solo, InstancesSettled
  <2> QED BY <1>0, <2>1, SettledKept DEF Mounted
<1> QED BY <1>1, <1>2, <1>3, Zenon

LEMMA GotoKeeps ==
  ASSUME NEW r \in Req, req \in [Req -> Request], NEW c, Goto(r, c)
  PROVE  /\ req'[r].pc = c /\ req'[r].i = req[r].i /\ req'[r].v = req[r].v
         /\ req'[r].ver = req[r].ver /\ req'[r].todo = req[r].todo /\ req'[r].vols = req[r].vols
<1>1. PICK q \in Request : q = req[r] OBVIOUS
<1>2. req'[r] = [q EXCEPT !.pc = c] BY <1>1 DEF Goto
<1> QED BY <1>1, <1>2 DEF Request

(* The steps of LaunchInstance: r, the only request, turns q into p. *)
LEMMA SoloLaunch ==
  ASSUME TypeOK, NEW r \in Req, Launch(r), ~Fault, NEW q,
         q = IF req[r].pc = "idle" THEN Idle ELSE req[r], Solo(q), NEW p, p = req'[r]
  PROVE  Solo(p)' /\ (p.pc = "idle" => p = Idle)
<1>t. /\ req \in [Req -> Request] /\ req[r] \in Request /\ q \in Request
      /\ inst \in [Inst -> InstRows] /\ vol \in [Vol -> VolRows]
      /\ box \in [Inst -> BoxState] /\ binds \in [Inst -> SUBSET Vol] /\ disk \subseteq Vol
  BY Zenon DEF TypeOK, RequestType, Request, Idle, PCs, ContainerID
<1>i. Idle.pc = "idle" BY Zenon DEF Idle
<1>s. Owned /\ InstancesSettled(q) /\ DisksSettled(q) /\ Progress(q) BY Zenon DEF Solo
<1>r. Return(r) => p = Idle BY <1>t DEF Return
<1>f. Progress(Idle)' BY <1>i DEF Progress, Starting, Removing
<1>1. CASE LaunchRow(r)
  <2>1. PICK i \in Inst, V \in SUBSET Vol :
          /\ req[r].pc = "idle" /\ inst[i].status = "absent"
          /\ inst' = [inst EXCEPT ![i] = [status |-> "STARTING", ver |-> 1, cid |-> "none"]]
          /\ req' = [req EXCEPT ![r] = [Idle EXCEPT !.pc = "network", !.i = i, !.ver = 1, !.todo = V]]
          /\ UNCHANGED <<vol, box, binds, disk>>
    BY <1>1, Zenon DEF LaunchRow, Begin, docker
  <2>2. p.pc = "network" /\ p.i = i /\ p.ver = 1 /\ p.vols = {} /\ q = Idle
    BY <1>t, <2>1 DEF Idle
  <2>3. inst'[i].status = "STARTING" /\ inst'[i].ver = 1 /\ \A j \in Inst : j # i => inst'[j] = inst[j]
    BY <1>t, <2>1
  <2>4. ASSUME NEW j \in Inst PROVE Settled(j)'
    <3>1. Settled(j) BY <1>s, <1>i, <2>2 DEF InstancesSettled, AtWork, Removing
    <3>2. CASE j # i BY <2>1, <2>3, <3>1, <3>2, SettledKept DEF Mounted
    <3>3. CASE j = i BY <2>1, <2>3, <3>1, <3>3 DEF Settled, Bare, Mounted
    <3> QED BY <3>2, <3>3
  <2>5. InstancesSettled(p)' BY <2>4 DEF InstancesSettled
  <2>6. Owned' /\ DisksSettled(p)'
    BY <1>s, <1>i, <2>1, <2>2 DEF Owned, DisksSettled, VolLive
  <2>7. Progress(p)' BY <2>1, <2>2, <2>3 DEF Progress, Starting, Removing, InstLive
  <2> QED BY <2>2, <2>5, <2>6, <2>7, Zenon DEF Solo
<1>2. CASE LaunchNetwork(r)
  <2>1. req[r].pc = "network" /\ Goto(r, "resolve") /\ UNCHANGED <<tables, docker>>
    BY <1>2, Zenon DEF LaunchNetwork
  <2>2. q = req[r] /\ q.pc = "network" BY <2>1
  <2>3. p.pc = "resolve" /\ p.i = q.i /\ p.ver = q.ver /\ p.vols = q.vols
    BY <1>t, GotoKeeps, <2>1, <2>2 DEF Request
  <2>4. Owned' /\ InstancesSettled(p)' /\ DisksSettled(p)'
    BY <2>1, <2>2, RestKept DEF AtWork, Removing
  <2>5. Progress(p)'
    BY <1>s, <2>1, <2>2, <2>3, Zenon DEF Progress, Starting, Removing, InstLive, Free, tables, docker
  <2> QED BY <2>3, <2>4, <2>5 DEF Solo
<1>3. CASE LaunchResolve(r)
  <2>1. req[r].pc = "resolve" /\ UNCHANGED <<tables, docker>> BY <1>3 DEF LaunchResolve
  <2>2. q = req[r] /\ q.pc = "resolve" BY <2>1, Zenon
  <2>3. UNCHANGED <<inst, vol, box, binds, disk>> BY <2>1 DEF tables, docker
  <2>4. CASE Return(r)
    BY <1>r, <1>f, <1>i, <2>1, <2>2, <2>4, RestKept DEF AtWork, Removing, Solo
  <2>5. CASE Goto(r, "create")
    <3>1. p.pc = "create" /\ p.i = q.i /\ p.ver = q.ver /\ p.vols = q.vols
      BY <1>t, GotoKeeps, <2>2, <2>5 DEF Request
    <3>2. Owned' /\ InstancesSettled(p)' /\ DisksSettled(p)'
      BY <2>1, <2>2, <3>1, RestKept DEF AtWork, Removing
    <3>3. Progress(p)'
      BY <1>s, <2>2, <2>3, <3>1, Zenon DEF Progress, Starting, Removing, InstLive, Free
    <3> QED BY <3>1, <3>2, <3>3 DEF Solo
  <2>6. CASE \E v \in req[r].todo :
               /\ vol[v].status = "AVAILABLE"
               /\ req' = [req EXCEPT ![r].todo = @ \ {v}, ![r].vols = @ \cup {v}]
    <3>0. PICK v \in req[r].todo :
               /\ vol[v].status = "AVAILABLE"
               /\ req' = [req EXCEPT ![r].todo = @ \ {v}, ![r].vols = @ \cup {v}]
      BY <2>6, Zenon
    <3>1. p.pc = "resolve" /\ p.i = q.i /\ p.ver = q.ver /\ p.vols = q.vols \cup {v}
      BY <1>t, <2>2, <3>0 DEF Request
    <3>2. Owned' /\ InstancesSettled(p)' /\ DisksSettled(p)'
      BY <2>1, <2>2, <3>1, RestKept DEF AtWork, Removing
    <3>3. Free(p.vols)'
      BY <1>s, <2>2, <2>3, <3>0, <3>1 DEF Progress, Free
    <3>4. Progress(p)'
      BY <1>s, <2>2, <2>3, <3>1, <3>3, Zenon DEF Progress, Starting, Removing, InstLive
    <3> QED BY <3>1, <3>2, <3>4, Zenon DEF Solo
  <2> QED BY <1>3, <2>4, <2>5, <2>6, Zenon DEF LaunchResolve
<1>4. CASE LaunchCreate(r)
  <2>1. /\ req[r].pc = "create" /\ UNCHANGED <<inst, vol>> /\ Goto(r, "start")
        /\ box' = [box EXCEPT ![req[r].i] = "created"]
        /\ binds' = [binds EXCEPT ![req[r].i] = req[r].vols]
        /\ disk' = disk \cup req[r].vols
    BY <1>4, Zenon DEF LaunchCreate, tables
  <2>2. q = req[r] /\ q.pc = "create" /\ q.vols \subseteq Vol BY <1>t, <2>1 DEF Request
  <2>3. p.pc = "start" /\ p.i = q.i /\ p.ver = q.ver /\ p.vols = q.vols
    BY <1>t, GotoKeeps, <2>1, <2>2, SMTT(30) DEF Request
  <2>4. PICK i \in Inst : i = q.i BY <1>s, <2>2, Zenon DEF Progress, Starting
  <2>5. /\ InstLive(i) /\ inst[i].status = "STARTING" /\ inst[i].ver = q.ver /\ Free(q.vols)
    BY <1>s, <2>2, <2>4, Zenon DEF Progress, Starting
  <2>6. ASSUME NEW j \in Inst PROVE Settled(j)
    BY <1>s, <2>2 DEF InstancesSettled, AtWork, Removing
  <2>7. ASSUME NEW u \in Vol PROVE ~Mounted(u, i) BY <2>5, <2>6, SMTT(30) DEF Settled, Bare
  <2>8. box'[i] = "created" /\ binds'[i] = q.vols
        /\ \A j \in Inst : j # i => box'[j] = box[j] /\ binds'[j] = binds[j]
    BY <1>t, <2>1, <2>2, <2>4, SMTT(30)
  <2>9. disk' = disk
    <3>1. ASSUME NEW v \in q.vols PROVE v \in disk
      BY <1>s, <2>2, <2>5 DEF DisksSettled, Free, VolLive
    <3> QED BY <2>1, <2>2, <3>1
  <2>10. InstancesSettled(p)'
    <3> SUFFICES ASSUME NEW j \in Inst, j # i PROVE Settled(j)'
      BY <2>3, <2>4 DEF InstancesSettled, AtWork
    <3> QED BY <2>1, <2>6, <2>8, SettledKept DEF Mounted
  <2>11. Owned' /\ DisksSettled(p)'
    BY <1>s, <2>1, <2>2, <2>3, <2>9, SMTT(30) DEF Owned, DisksSettled, VolLive
  <2>12. Progress(p)'
    BY <2>1, <2>3, <2>4, <2>5, <2>7, <2>8, SMTT(30) DEF Progress, Starting, Removing, InstLive, Free, Mounted
  <2> QED BY <2>3, <2>10, <2>11, <2>12, Zenon DEF Solo
<1>5. CASE LaunchStart(r)
  <2>0. req[r].pc = "start" /\ UNCHANGED <<inst, vol, binds, disk>>
    BY <1>5, SMTT(30) DEF LaunchStart, tables
  <2>2. q = req[r] /\ q.pc = "start" BY <2>0
  <2>3. PICK i \in Inst : i = q.i BY <1>s, <2>2, Zenon DEF Progress, Starting
  <2>4. box[i] = "created" BY <1>s, <2>2, <2>3, Zenon DEF Progress
  <2>5. box' = [box EXCEPT ![i] = "running"] /\ Goto(r, "running")
    BY <1>5, <2>2, <2>3, <2>4 DEF LaunchStart
  <2>6. p.pc = "running" /\ p.i = i /\ p.ver = q.ver /\ p.vols = q.vols
    BY <1>t, GotoKeeps, <2>2, <2>3, <2>5 DEF Request
  <2>7. box'[i] = "running" /\ \A j \in Inst : j # i => box'[j] = box[j]
    BY <1>t, <2>5
  <2>8. InstancesSettled(p)'
    <3> SUFFICES ASSUME NEW j \in Inst, j # i PROVE Settled(j)'
      BY <2>6 DEF InstancesSettled, AtWork
    <3>1. Settled(j) BY <1>s, <2>3 DEF InstancesSettled
    <3> QED BY <2>0, <2>7, <3>1, SettledKept DEF Mounted
  <2>9. Owned' /\ DisksSettled(p)'
    BY <1>s, <2>0, <2>2, <2>6 DEF Owned, DisksSettled, VolLive
  <2>10. Progress(p)'
    <3>1. /\ InstLive(i) /\ inst[i].status = "STARTING" /\ inst[i].ver = q.ver
          /\ Free(q.vols) /\ binds[i] = q.vols /\ \A u \in Vol : ~Mounted(u, i)
      BY <1>s, <2>2, <2>3, Zenon DEF Progress, Starting
    <3>2. /\ InstLive(i)' /\ inst'[i].status = "STARTING" /\ inst'[i].ver = q.ver
          /\ Free(q.vols)' /\ binds'[i] = q.vols /\ \A u \in Vol : ~Mounted(u, i)'
      BY <2>0, <3>1 DEF InstLive, Free, Mounted
    <3> QED BY <2>6, <2>7, <3>2 DEF Progress, Starting, Removing
  <2> QED BY <2>6, <2>8, <2>9, <2>10, Zenon DEF Solo
<1>6. CASE LaunchError(r)
  <2>1. q.pc = "error" BY <1>6, Zenon DEF LaunchError
  <2> QED BY <1>s, <2>1, Zenon DEF Progress
<1>7. CASE LaunchRunning(r)
  <2>1. /\ req[r].pc = "running" /\ UNCHANGED <<vol, box, binds, disk>>
        /\ UpdateInst(req[r].i, req[r].ver, "RUNNING", "id")
        /\ IF Hit(req[r].i, req[r].ver) THEN Goto(r, "attach") ELSE Return(r)
    BY <1>7, Zenon DEF LaunchRunning, docker
  <2>2. q = req[r] /\ q.pc = "running" BY <2>1
  <2>3. PICK i \in Inst : i = q.i BY <1>s, <2>2, SMTT(30) DEF Progress, Starting
  <2>4. InstLive(i) /\ inst[i].ver = q.ver BY <1>s, <2>2, <2>3, Zenon DEF Progress, Starting
  <2>5. Hit(req[r].i, req[r].ver) BY <2>2, <2>3, <2>4 DEF Hit
  <2>6. inst' = [inst EXCEPT ![i] = [status |-> "RUNNING", ver |-> q.ver + 1, cid |-> "id"]]
    BY <2>1, <2>2, <2>3, <2>5 DEF UpdateInst
  <2>7. inst'[i].status = "RUNNING" /\ \A j \in Inst : j # i => inst'[j] = inst[j]
    BY <1>t, <2>6
  <2>8. p.pc = "attach" /\ p.i = i /\ p.vols = q.vols
    BY <1>t, GotoKeeps, <2>1, <2>2, <2>3, <2>5, Zenon DEF Request
  <2>9. InstancesSettled(p)'
    <3> SUFFICES ASSUME NEW j \in Inst, j # i PROVE Settled(j)'
      BY <2>8, SMTT(30) DEF InstancesSettled, AtWork
    <3>1. Settled(j) BY <1>s, <2>3 DEF InstancesSettled
    <3> QED BY <2>1, <2>7, <3>1, SettledKept, Zenon DEF Mounted
  <2>10. Owned' /\ DisksSettled(p)'
    BY <1>s, <2>1, <2>2, <2>8 DEF Owned, DisksSettled, VolLive
  <2>11. Progress(p)'
    <3>1. Free(q.vols) /\ binds[i] = q.vols /\ box[i] = "running" /\ \A u \in Vol : ~Mounted(u, i)
      BY <1>s, <2>2, <2>3, Zenon DEF Progress, Starting
    <3>2. /\ InstLive(i)' /\ Free(q.vols)' /\ box'[i] = "running"
          /\ \A u \in Vol : u \in binds'[i] <=> u \in q.vols \/ Mounted(u, i)'
      BY <2>1, <2>7, <3>1 DEF InstLive, Free, Mounted
    <3> QED BY <2>7, <2>8, <3>2 DEF Progress, Starting, Removing
  <2> QED BY <2>8, <2>9, <2>10, <2>11 DEF Solo
<1>8. CASE LaunchAttach(r)
  <2>0. req[r].pc = "attach" /\ UNCHANGED <<inst, box, binds, disk>>
    BY <1>8 DEF LaunchAttach, docker
  <2>2. q = req[r] /\ q.pc = "attach" /\ q.vols \subseteq Vol BY <1>t, <2>0 DEF Request
  <2>3. PICK i \in Inst : i = q.i BY <1>s, <2>2, Zenon DEF Progress
  <2>4. /\ InstLive(i) /\ Free(q.vols) /\ inst[i].status = "RUNNING" /\ box[i] = "running"
        /\ \A u \in Vol : u \in binds[i] <=> u \in q.vols \/ Mounted(u, i)
    BY <1>s, <2>2, <2>3, Zenon DEF Progress
  <2>5. ASSUME NEW j \in Inst, j # i PROVE Settled(j)
    BY <1>s, <2>3, <2>5, SMTT(30) DEF InstancesSettled
  <2>6. CASE req[r].vols = {} /\ Return(r) /\ UNCHANGED vol
    <3>1. Settled(i) BY <2>2, <2>4, <2>6, Zenon DEF Settled
    <3>2. InstancesSettled(p)'
      <4> SUFFICES ASSUME NEW j \in Inst PROVE Settled(j)' BY DEF InstancesSettled
      <4> QED BY <2>0, <2>5, <2>6, <3>1, SettledKept, Zenon DEF Mounted
    <3>3. Owned' /\ DisksSettled(p)'
      BY <1>s, <2>0, <2>2, <2>6, Zenon DEF Owned, DisksSettled, VolLive
    <3> QED BY <1>r, <1>f, <2>6, <3>2, <3>3 DEF Solo
  <2>7. CASE \E v \in req[r].vols : /\ req' = [req EXCEPT ![r].vols = @ \ {v}]
                                    /\ UpdateVol(v, "IN-USE", req[r].i)
    <3>0. PICK v \in req[r].vols : /\ req' = [req EXCEPT ![r].vols = @ \ {v}]
                                   /\ UpdateVol(v, "IN-USE", req[r].i)
      BY <2>7, Zenon
    <3>1. v \in Vol /\ vol[v].status = "AVAILABLE" BY <2>2, <2>4 DEF Free
    <3>2. p.pc = "attach" /\ p.i = i /\ p.vols = q.vols \ {v}
      BY <1>t, <2>2, <2>3, <3>0 DEF Request
    <3>3. vol' = [vol EXCEPT ![v] = [status |-> "IN-USE", inst |-> i]]
      BY <2>2, <2>3, <2>4, <3>0, <3>1 DEF UpdateVol, VolLive
    <3>4. /\ vol'[v].status = "IN-USE" /\ vol'[v].inst = i
          /\ \A u \in Vol : u # v => vol'[u] = vol[u]
      BY <1>t, <3>1, <3>3
    <3>5. \A u \in Vol, j \in Inst : Mounted(u, j)' <=> Mounted(u, j) \/ (u = v /\ j = i)
      BY <3>1, <3>4 DEF Mounted
    <3>6. InstancesSettled(p)'
      <4> SUFFICES ASSUME NEW j \in Inst, j # i PROVE Settled(j)'
        BY <3>2 DEF InstancesSettled, AtWork
      <4> QED BY <2>0, <2>5, <3>5, SettledKept, Zenon
    <3>7. Owned' /\ DisksSettled(p)'
      BY <1>s, <2>0, <2>2, <3>1, <3>2, <3>4 DEF Owned, DisksSettled, VolLive
    <3>8. Free(p.vols)' BY <2>2, <2>4, <3>2, <3>4, SMTT(30) DEF Free
    <3>9. \A u \in Vol : u \in binds'[i] <=> u \in p.vols \/ Mounted(u, i)'
      BY <2>0, <2>2, <2>4, <3>0, <3>2, <3>5
    <3>10. Progress(p)'
      BY <2>0, <2>4, <3>2, <3>8, <3>9, Zenon DEF Progress, Starting, Removing, InstLive
    <3> QED BY <3>2, <3>6, <3>7, <3>10, Zenon DEF Solo
  <2> QED BY <1>8, <2>6, <2>7, Zenon DEF LaunchAttach
<1> QED BY <1>1, <1>2, <1>3, <1>4, <1>5, <1>6, <1>7, <1>8 DEF Launch

(* The steps of StopInstance and TerminateInstance. *)
LEMMA SoloStop ==
  ASSUME TypeOK, NEW r \in Req, Stop(r), ~Fault, NEW q,
         q = IF req[r].pc = "idle" THEN Idle ELSE req[r], Solo(q), NEW p, p = req'[r]
  PROVE  Solo(p)' /\ (p.pc = "idle" => p = Idle)
<1>t. /\ req \in [Req -> Request] /\ req[r] \in Request /\ q \in Request
      /\ inst \in [Inst -> InstRows] /\ vol \in [Vol -> VolRows]
      /\ box \in [Inst -> BoxState] /\ binds \in [Inst -> SUBSET Vol] /\ disk \subseteq Vol
  BY Zenon DEF TypeOK, RequestType, Request, Idle, PCs, ContainerID
<1>i. Idle.pc = "idle" BY Zenon DEF Idle
<1>s. Owned /\ InstancesSettled(q) /\ DisksSettled(q) /\ Progress(q) BY DEF Solo
<1>r. Return(r) => p = Idle BY <1>t DEF Return
<1>f. Progress(Idle)' BY <1>i DEF Progress, Starting, Removing
<1>1. CASE StopGet(r)
  <2>1. PICK i \in Inst :
          /\ req[r].pc = "idle" /\ InstLive(i) /\ inst[i].status # "STOPPED"
          /\ req' = [req EXCEPT ![r] = [Idle EXCEPT !.pc = "stop", !.i = i, !.ver = inst[i].ver,
                                                    !.cid = inst[i].cid]]
          /\ UNCHANGED <<tables, docker>>
    BY <1>1, Zenon DEF StopGet, Begin
  <2>2. p.pc = "stop" /\ p.i = i /\ p.ver = inst[i].ver /\ q = Idle
    BY <1>t, <2>1 DEF Idle
  <2>3. Owned' /\ InstancesSettled(p)' /\ DisksSettled(p)'
    BY <1>i, <2>1, <2>2, RestKept DEF AtWork, Removing
  <2>4. Progress(p)'
    BY <2>1, <2>2 DEF Progress, Starting, Removing, InstLive, tables
  <2> QED BY <2>2, <2>3, <2>4 DEF Solo
<1>2. CASE StopBox(r)
  <2>0. req[r].pc = "stop" /\ UNCHANGED <<inst, vol, binds, disk>>
    BY <1>2 DEF StopBox, tables
  <2>2. q = req[r] /\ q.pc = "stop" BY <2>0
  <2>3. PICK i \in Inst : i = q.i BY <1>s, <2>2, Zenon DEF Progress
  <2>4. InstLive(i) /\ inst[i].ver = q.ver /\ inst[i].status # "STOPPED"
    BY <1>s, <2>2, <2>3, Zenon DEF Progress
  <2>5. ASSUME NEW j \in Inst PROVE Settled(j)
    BY <1>s, <2>2 DEF InstancesSettled, AtWork, Removing
  <2>6. CASE box[i] = "none"
    <3>1. UNCHANGED box /\ Return(r) BY <1>2, <2>2, <2>3, <2>6 DEF StopBox
    <3> QED BY <1>r, <1>f, <1>i, <2>0, <2>2, <3>1, RestKept
            DEF AtWork, Removing, Solo, tables, docker
  <2>7. CASE box[i] # "none"
    <3>1. /\ box' = [box EXCEPT ![i] = IF @ = "running" THEN "stopped" ELSE @]
          /\ Goto(r, "stopped")
      BY <1>2, <2>2, <2>3, <2>7 DEF StopBox
    <3>2. inst[i].status = "RUNNING" /\ box[i] = "running"
          /\ \A u \in Vol : u \in binds[i] <=> Mounted(u, i)
      BY <2>4, <2>5, <2>7 DEF Settled, Bare
    <3>3. box'[i] = "stopped" /\ \A j \in Inst : j # i => box'[j] = box[j]
      BY <1>t, <3>1, <3>2
    <3>4. p.pc = "stopped" /\ p.i = i /\ p.ver = q.ver
      BY <1>t, GotoKeeps, <2>2, <2>3, <3>1
    <3>5. InstancesSettled(p)'
      <4> SUFFICES ASSUME NEW j \in Inst, j # i PROVE Settled(j)'
        BY <3>4, Zenon DEF InstancesSettled, AtWork
      <4> QED BY <2>0, <2>5, <3>3, SettledKept DEF Mounted
    <3>6. Owned' /\ DisksSettled(p)'
      BY <1>s, <2>0, <2>2, <3>4 DEF Owned, DisksSettled, VolLive
    <3>7. Progress(p)'
      BY <2>0, <2>4, <3>2, <3>3, <3>4, Zenon DEF Progress, Starting, Removing, InstLive, Mounted
    <3> QED BY <3>4, <3>5, <3>6, <3>7, Zenon DEF Solo
  <2> QED BY <2>6, <2>7
<1>3. CASE StopMark(r)
  <2>1. /\ req[r].pc = "stopped" /\ UNCHANGED <<vol, box, binds, disk>> /\ Return(r)
        /\ UpdateInst(req[r].i, req[r].ver, "STOPPED", req[r].cid)
    BY <1>3, Zenon DEF StopMark, docker
  <2>2. q = req[r] /\ q.pc = "stopped" BY <2>1, Zenon
  <2>3. PICK i \in Inst : i = q.i BY <1>s, <2>2, Zenon DEF Progress
  <2>4. InstLive(i) /\ inst[i].ver = q.ver /\ box[i] = "stopped"
        /\ \A u \in Vol : u \in binds[i] <=> Mounted(u, i)
    BY <1>s, <2>2, <2>3, Zenon DEF Progress
  <2>5. inst' = [inst EXCEPT ![i] = [status |-> "STOPPED", ver |-> q.ver + 1, cid |-> q.cid]]
    BY <2>1, <2>2, <2>3, <2>4, Zenon DEF UpdateInst, Hit
  <2>6. inst'[i].status = "STOPPED" /\ \A j \in Inst : j # i => inst'[j] = inst[j]
    BY <1>t, <2>5
  <2>7. InstancesSettled(p)'
    <3> SUFFICES ASSUME NEW j \in Inst PROVE Settled(j)' BY DEF InstancesSettled
    <3>1. CASE j = i BY <2>1, <2>4, <2>6, <3>1, Zenon DEF Settled, Mounted
    <3>2. CASE j # i
      <4>1. Settled(j) BY <1>s, <2>3, <3>2 DEF InstancesSettled
      <4> QED BY <2>1, <2>6, <3>2, <4>1, SettledKept, SMTT(30) DEF Mounted
    <3> QED BY <3>1, <3>2, Zenon
  <2>8. Owned' /\ DisksSettled(p)'
    BY <1>s, <2>1, <2>2 DEF Owned, DisksSettled, VolLive
  <2> QED BY <1>r, <1>f, <2>1, <2>7, <2>8, Zenon DEF Solo
<1> QED BY <1>1, <1>2, <1>3 DEF Stop

LEMMA SoloTerminate ==
  ASSUME TypeOK, NEW r \in Req, Terminate(r), ~Fault, NEW q,
         q = IF req[r].pc = "idle" THEN Idle ELSE req[r], Solo(q), NEW p, p = req'[r]
  PROVE  Solo(p)' /\ (p.pc = "idle" => p = Idle)
<1>t. /\ req \in [Req -> Request] /\ req[r] \in Request /\ q \in Request
      /\ inst \in [Inst -> InstRows] /\ vol \in [Vol -> VolRows]
      /\ box \in [Inst -> BoxState] /\ binds \in [Inst -> SUBSET Vol] /\ disk \subseteq Vol
  BY Zenon DEF TypeOK, RequestType, Request, Idle, PCs, ContainerID
<1>i. Idle.pc = "idle" BY Zenon DEF Idle
<1>s. Owned /\ InstancesSettled(q) /\ DisksSettled(q) /\ Progress(q) BY DEF Solo
<1>r. Return(r) => p = Idle BY <1>t DEF Return
<1>f. Progress(Idle)' BY <1>i DEF Progress, Starting, Removing
<1>1. CASE TerminateGet(r)
  <2>1. PICK i \in Inst :
          /\ req[r].pc = "idle" /\ InstLive(i)
          /\ req' = [req EXCEPT ![r] = [Idle EXCEPT !.pc = "remove", !.i = i]]
          /\ UNCHANGED <<tables, docker>>
    BY <1>1, Zenon DEF TerminateGet, Begin
  <2>2. p.pc = "remove" /\ p.i = i /\ q = Idle
    BY <1>t, <2>1 DEF Idle
  <2>3. Owned' /\ InstancesSettled(p)' /\ DisksSettled(p)'
    BY <1>i, <2>1, <2>2, RestKept DEF AtWork, Removing
  <2>4. Progress(p)'
    BY <2>1, <2>2 DEF Progress, Starting, Removing, InstLive, tables
  <2> QED BY <2>2, <2>3, <2>4, Zenon DEF Solo
<1>2. CASE TerminateBox(r)
  <2>1. /\ req[r].pc = "remove" /\ UNCHANGED <<inst, vol, disk>> /\ Goto(r, "list")
        /\ box' = [box EXCEPT ![req[r].i] = "none"]
        /\ binds' = [binds EXCEPT ![req[r].i] = {}]
    BY <1>2 DEF TerminateBox, tables
  <2>2. q = req[r] /\ q.pc = "remove" BY <2>1
  <2>3. PICK i \in Inst : i = q.i BY <1>s, <2>2, Zenon DEF Progress
  <2>4. InstLive(i) BY <1>s, <2>2, <2>3, Zenon DEF Progress
  <2>5. ASSUME NEW j \in Inst PROVE Settled(j)
    BY <1>s, <2>2 DEF InstancesSettled, AtWork, Removing
  <2>6. /\ box'[i] = "none" /\ binds'[i] = {}
        /\ \A j \in Inst : j # i => box'[j] = box[j] /\ binds'[j] = binds[j]
    BY <1>t, <2>1, <2>2, <2>3
  <2>7. p.pc = "list" /\ p.i = i BY <1>t, GotoKeeps, <2>1, <2>2, <2>3
  <2>8. InstancesSettled(p)'
    <3> SUFFICES ASSUME NEW j \in Inst, j # i PROVE Settled(j)'
      BY <2>7 DEF InstancesSettled, AtWork, Removing
    <3> QED BY <2>1, <2>5, <2>6, SettledKept DEF Mounted
  <2>9. Owned' /\ DisksSettled(p)'
    BY <1>s, <2>1, <2>2, <2>7, Zenon DEF Owned, DisksSettled, VolLive
  <2>10. Progress(p)'
    BY <2>1, <2>4, <2>6, <2>7, Zenon DEF Progress, Starting, Removing, InstLive, Bare
  <2> QED BY <2>7, <2>8, <2>9, <2>10 DEF Solo
<1>3. CASE TerminateList(r)
  <2>1. /\ req[r].pc = "list" /\ UNCHANGED <<tables, docker>>
        /\ req' = [req EXCEPT ![r].pc = "release",
                              ![r].todo = {v \in Vol : VolLive(v) /\ vol[v].inst = req[r].i}]
    BY <1>3 DEF TerminateList
  <2>2. q = req[r] /\ q.pc = "list" BY <2>1
  <2>3. /\ p.pc = "release" /\ p.i = q.i
        /\ p.todo = {v \in Vol : VolLive(v) /\ vol[v].inst = q.i}
    BY <1>t, <2>1, <2>2 DEF Request
  <2>4. Owned' /\ InstancesSettled(p)' /\ DisksSettled(p)'
    BY <2>1, <2>2, <2>3, RestKept, Zenon DEF AtWork, Removing
  <2>5. UNCHANGED <<inst, vol, box, binds, disk>> BY <2>1 DEF tables, docker
  <2>6. /\ \A u \in Vol : Mounted(u, p.i)' => u \in p.todo
        /\ \A u \in p.todo : vol'[u].inst = p.i
    BY <2>3, <2>5, Zenon DEF Mounted, VolLive
  <2>7. Progress(p)'
    BY <1>s, <2>2, <2>3, <2>5, <2>6, Zenon DEF Progress, Starting, Removing, InstLive, Bare
  <2> QED BY <2>3, <2>4, <2>7, Zenon DEF Solo
<1>4. CASE TerminateRelease(r)
  <2>0. req[r].pc = "release" /\ UNCHANGED <<inst, box, binds, disk>>
    BY <1>4 DEF TerminateRelease, docker
  <2>2. q = req[r] /\ q.pc = "release" /\ q.todo \subseteq Vol BY <1>t, <2>0 DEF Request
  <2>3. PICK i \in Inst : i = q.i BY <1>s, <2>2, Zenon DEF Progress, Removing
  <2>4. /\ InstLive(i) /\ Bare(i)
        /\ \A u \in Vol : Mounted(u, i) => u \in q.todo
        /\ \A u \in q.todo : vol[u].inst = i
    BY <1>s, <2>2, <2>3, Zenon DEF Progress, Removing
  <2>5. ASSUME NEW j \in Inst, j # i PROVE Settled(j)
    BY <1>s, <2>3, <2>5 DEF InstancesSettled
  <2>6. CASE req[r].todo = {} /\ Goto(r, "delete") /\ UNCHANGED vol
    <3>1. p.pc = "delete" /\ p.i = i BY <1>t, GotoKeeps, <2>2, <2>3, <2>6, Zenon
    <3>2. Owned' /\ InstancesSettled(p)' /\ DisksSettled(p)'
      BY <2>0, <2>2, <2>3, <2>6, <3>1, RestKept, Zenon DEF AtWork, Removing, tables, docker
    <3>3. Progress(p)'
      BY <2>0, <2>2, <2>4, <2>6, <3>1, Zenon DEF Progress, Starting, Removing, InstLive, Bare, Mounted
    <3> QED BY <3>1, <3>2, <3>3 DEF Solo
  <2>7. CASE \E v \in req[r].todo : /\ req' = [req EXCEPT ![r].todo = @ \ {v}]
                                    /\ UpdateVol(v, "AVAILABLE", NoInst)
    <3>0. PICK v \in req[r].todo : /\ req' = [req EXCEPT ![r].todo = @ \ {v}]
                                   /\ UpdateVol(v, "AVAILABLE", NoInst)
      BY <2>7, Zenon
    <3>1. v \in Vol /\ vol[v].inst = i BY <2>2, <2>4
    <3>2. p.pc = "release" /\ p.i = i /\ p.todo = q.todo \ {v}
      BY <1>t, <2>2, <2>3, <3>0 DEF Request
    <3>3. /\ \A u \in Vol : u # v => vol'[u] = vol[u]
          /\ vol'[v].status # "IN-USE"
          /\ VolLive(v)' <=> VolLive(v)
      BY <1>t, <3>0, <3>1 DEF UpdateVol, VolLive
    <3>5. \A u \in Vol, j \in Inst : Mounted(u, j)' <=> Mounted(u, j) /\ u # v
      BY <3>1, <3>3 DEF Mounted
    <3>6. InstancesSettled(p)'
      <4> SUFFICES ASSUME NEW j \in Inst, j # i PROVE Settled(j)'
        BY <3>2 DEF InstancesSettled, AtWork, Removing
      <4>1. ~Mounted(v, j) BY <3>1 DEF Mounted
      <4> QED BY <2>0, <2>5, <3>5, <4>1, SettledKept
    <3>7. Owned' BY <1>s, <3>1, <3>3 DEF Owned
    <3>8. DisksSettled(p)'
      BY <1>s, <2>0, <2>2, <3>1, <3>2, <3>3, Zenon DEF DisksSettled, VolLive
    <3>9. /\ \A u \in Vol : Mounted(u, i)' => u \in p.todo
          /\ \A u \in p.todo : vol'[u].inst = i
      BY <2>2, <2>4, <3>2, <3>3, <3>5, Zenon
    <3>10. Progress(p)'
      BY <2>0, <2>4, <3>2, <3>9, Zenon DEF Progress, Starting, Removing, InstLive, Bare
    <3> QED BY <3>2, <3>6, <3>7, <3>8, <3>10, Zenon DEF Solo
  <2> QED BY <1>4, <2>6, <2>7, Zenon DEF TerminateRelease
<1>5. CASE TerminateDelete(r)
  <2>1. /\ req[r].pc = "delete" /\ UNCHANGED <<box, binds, disk>> /\ Return(r)
        /\ DeleteInst(req[r].i)
    BY <1>5 DEF TerminateDelete, docker
  <2>2. q = req[r] /\ q.pc = "delete" BY <2>1
  <2>3. PICK i \in Inst : i = q.i BY <1>s, <2>2, Zenon DEF Progress, Removing
  <2>4. InstLive(i) /\ Bare(i) /\ \A u \in Vol : ~Mounted(u, i)
    BY <1>s, <2>2, <2>3, Zenon DEF Progress, Removing
  <2>5. /\ inst' = [inst EXCEPT ![i].status = "gone"]
        /\ vol' = [v \in Vol |-> IF vol[v].inst = i THEN [vol[v] EXCEPT !.inst = NoInst] ELSE vol[v]]
    BY <2>1, <2>2, <2>3, <2>4 DEF DeleteInst
  <2>6. inst'[i].status = "gone" /\ \A j \in Inst : j # i => inst'[j] = inst[j]
    BY <1>t, <2>5 DEF InstRows
  <2>7. ASSUME NEW v \in Vol
        PROVE  /\ vol'[v].status = vol[v].status
               /\ vol'[v].inst = IF vol[v].inst = i THEN NoInst ELSE vol[v].inst
    BY <1>t, <2>5 DEF VolRows
  <2>8. \A u \in Vol, j \in Inst : Mounted(u, j)' <=> Mounted(u, j)
    BY <2>4, <2>7, NullIds, Zenon DEF Mounted
  <2>9. InstancesSettled(p)'
    <3> SUFFICES ASSUME NEW j \in Inst PROVE Settled(j)' BY DEF InstancesSettled
    <3>1. CASE j = i BY <2>1, <2>4, <2>6, <2>8, <3>1, Zenon DEF Settled, Bare
    <3>2. CASE j # i
      <4>1. Settled(j) BY <1>s, <2>3, <3>2 DEF InstancesSettled
      <4> QED BY <2>1, <2>6, <2>8, <3>2, <4>1, SettledKept, Zenon
    <3> QED BY <3>1, <3>2
  <2>10. Owned' BY <1>s, <2>4, <2>7 DEF Owned, Mounted
  <2>11. DisksSettled(p)' BY <1>s, <2>1, <2>2, <2>7, Zenon DEF DisksSettled, VolLive
  <2> QED BY <1>r, <1>f, <2>1, <2>9, <2>10, <2>11, Zenon DEF Solo
<1> QED BY <1>1, <1>2, <1>3, <1>4, <1>5, SMTT(30) DEF Terminate

(* The steps of CreateVolume and DeleteVolume. *)
LEMMA SoloVolumes ==
  ASSUME TypeOK, NEW r \in Req, Volumes(r), ~Fault, NEW q,
         q = IF req[r].pc = "idle" THEN Idle ELSE req[r], Solo(q), NEW p, p = req'[r]
  PROVE  Solo(p)' /\ (p.pc = "idle" => p = Idle)
<1>t. /\ req \in [Req -> Request] /\ req[r] \in Request /\ q \in Request
      /\ inst \in [Inst -> InstRows] /\ vol \in [Vol -> VolRows]
      /\ box \in [Inst -> BoxState] /\ binds \in [Inst -> SUBSET Vol] /\ disk \subseteq Vol
  BY Zenon DEF TypeOK, RequestType, Request, Idle, PCs, ContainerID
<1>i. Idle.pc = "idle" BY Zenon DEF Idle
<1>s. Owned /\ InstancesSettled(q) /\ DisksSettled(q) /\ Progress(q) BY DEF Solo
<1>r. Return(r) => p = Idle BY <1>t DEF Return
<1>f. Progress(Idle)' BY <1>i DEF Progress, Starting, Removing
<1>q. ASSUME q.pc \in {"idle", "volRow", "volRemove", "volDelete"}, NEW j \in Inst
      PROVE  Settled(j)
  BY <1>s, <1>q, Zenon DEF InstancesSettled, AtWork, Removing
<1>1. CASE CreateVolume(r)
  <2>1. PICK v \in Vol :
          /\ req[r].pc = "idle" /\ vol[v].status = "absent" /\ disk' = disk \cup {v}
          /\ req' = [req EXCEPT ![r] = [Idle EXCEPT !.pc = "volRow", !.v = v]]
          /\ UNCHANGED <<inst, vol, box, binds>>
    BY <1>1, Zenon DEF CreateVolume, Begin, tables
  <2>2. p.pc = "volRow" /\ p.v = v /\ q = Idle BY <1>t, <2>1 DEF Idle
  <2>3. InstancesSettled(p)' BY <1>i, <1>q, <2>1, <2>2, SettledKept DEF InstancesSettled, Mounted
  <2>4. Owned' /\ DisksSettled(p)'
    BY <1>s, <1>i, <2>1, <2>2 DEF Owned, DisksSettled, VolLive
  <2>5. Progress(p)' BY <2>1, <2>2 DEF Progress, Starting, Removing
  <2> QED BY <2>2, <2>3, <2>4, <2>5 DEF Solo
<1>2. CASE CreateVolumeRow(r)
  <2>1. /\ req[r].pc = "volRow" /\ UNCHANGED <<inst, box, binds, disk>> /\ Return(r)
        /\ vol' = [vol EXCEPT ![req[r].v] = [status |-> "AVAILABLE", inst |-> NoInst]]
    BY <1>2, Zenon DEF CreateVolumeRow, docker
  <2>2. q = req[r] /\ q.pc = "volRow" BY <2>1, Zenon
  <2>3. PICK v \in Vol : v = q.v BY <1>s, <2>2, Zenon DEF Progress
  <2>4. vol[v].status = "absent" /\ v \in disk BY <1>s, <2>2, <2>3, Zenon DEF Progress
  <2>5. vol'[v].status = "AVAILABLE" /\ \A u \in Vol : u # v => vol'[u] = vol[u]
    BY <1>t, <2>1, <2>2, <2>3
  <2>6. \A u \in Vol, j \in Inst : Mounted(u, j)' <=> Mounted(u, j) BY <2>4, <2>5, Zenon DEF Mounted
  <2>7. InstancesSettled(p)' BY <1>q, <2>1, <2>2, <2>6, SettledKept, Zenon DEF InstancesSettled
  <2>8. Owned' BY <1>s, <2>5, Zenon DEF Owned
  <2>9. DisksSettled(p)'
    <3> SUFFICES ASSUME NEW u \in Vol PROVE u \in disk' <=> VolLive(u)' BY DEF DisksSettled
    <3> QED BY <1>s, <2>1, <2>2, <2>3, <2>4, <2>5, SMTT(30) DEF DisksSettled, VolLive
  <2> QED BY <1>r, <1>f, <2>1, <2>7, <2>8, <2>9, Zenon DEF Solo
<1>3. CASE CreateVolumeRollback(r)
  <2>1. q.pc = "volRollback" BY <1>3, Zenon DEF CreateVolumeRollback
  <2> QED BY <1>s, <2>1, Zenon DEF Progress
<1>4. CASE DeleteVolumeGet(r)
  <2>1. PICK v \in Vol :
          /\ req[r].pc = "idle" /\ vol[v].status = "AVAILABLE"
          /\ req' = [req EXCEPT ![r] = [Idle EXCEPT !.pc = "volRemove", !.v = v]]
          /\ UNCHANGED <<tables, docker>>
    BY <1>4, Zenon DEF DeleteVolumeGet, Begin
  <2>2. p.pc = "volRemove" /\ p.v = v /\ q = Idle BY <1>t, <2>1 DEF Idle
  <2>3. Owned' /\ InstancesSettled(p)' /\ DisksSettled(p)'
    BY <1>i, <2>1, <2>2, RestKept DEF AtWork, Removing
  <2>4. Progress(p)' BY <2>1, <2>2 DEF Progress, Starting, Removing, tables
  <2> QED BY <2>2, <2>3, <2>4, SMTT(30) DEF Solo
<1>5. CASE DeleteVolumeDisk(r)
  <2>1. /\ req[r].pc = "volRemove" /\ UNCHANGED <<inst, vol, box, binds>> /\ Goto(r, "volDelete")
        /\ disk' = IF \E i \in Inst : req[r].v \in binds[i] THEN disk ELSE disk \ {req[r].v}
    BY <1>5 DEF DeleteVolumeDisk, tables
  <2>2. q = req[r] /\ q.pc = "volRemove" BY <2>1
  <2>3. PICK v \in Vol : v = q.v BY <1>s, <2>2, Zenon DEF Progress
  <2>4. vol[v].status = "AVAILABLE" BY <1>s, <2>2, <2>3, Zenon DEF Progress
  <2>5. ASSUME NEW j \in Inst PROVE v \notin binds[j] BY <1>q, <2>2, <2>4 DEF Settled, Mounted
  <2>6. disk' = disk \ {v} BY <2>1, <2>2, <2>3, <2>5
  <2>7. p.pc = "volDelete" /\ p.v = v BY <1>t, GotoKeeps, <2>1, <2>2, <2>3, Zenon
  <2>8. InstancesSettled(p)' BY <1>q, <2>1, <2>2, SettledKept, Zenon DEF InstancesSettled, Mounted
  <2>9. Owned' /\ DisksSettled(p)'
    BY <1>s, <2>1, <2>2, <2>6, <2>7 DEF Owned, DisksSettled, VolLive
  <2>10. Progress(p)' BY <2>1, <2>4, <2>6, <2>7, Zenon DEF Progress, Starting, Removing
  <2> QED BY <2>7, <2>8, <2>9, <2>10 DEF Solo
<1>6. CASE DeleteVolumeRow(r)
  <2>1. /\ req[r].pc = "volDelete" /\ UNCHANGED <<inst, box, binds, disk>> /\ Return(r)
        /\ vol' = IF VolLive(req[r].v)
                  THEN [vol EXCEPT ![req[r].v] = [status |-> "gone", inst |-> NoInst]]
                  ELSE vol
    BY <1>6 DEF DeleteVolumeRow, docker
  <2>2. q = req[r] /\ q.pc = "volDelete" BY <2>1
  <2>3. PICK v \in Vol : v = q.v BY <1>s, <2>2, Zenon DEF Progress
  <2>4. vol[v].status = "AVAILABLE" /\ v \notin disk BY <1>s, <2>2, <2>3, Zenon DEF Progress
  <2>5. vol'[v].status = "gone" /\ \A u \in Vol : u # v => vol'[u] = vol[u]
    BY <1>t, <2>1, <2>2, <2>3, <2>4 DEF VolLive
  <2>6. \A u \in Vol, j \in Inst : Mounted(u, j)' <=> Mounted(u, j) BY <2>4, <2>5, Zenon DEF Mounted
  <2>7. InstancesSettled(p)' BY <1>q, <2>1, <2>2, <2>6, SettledKept, Zenon DEF InstancesSettled
  <2>8. Owned' BY <1>s, <2>5, Zenon DEF Owned
  <2>9. DisksSettled(p)'
    <3> SUFFICES ASSUME NEW u \in Vol PROVE u \in disk' <=> VolLive(u)' BY DEF DisksSettled
    <3> QED BY <1>s, <2>1, <2>2, <2>3, <2>4, <2>5, SMTT(30) DEF DisksSettled, VolLive
  <2> QED BY <1>r, <1>f, <2>1, <2>7, <2>8, <2>9, Zenon DEF Solo
<1> QED BY <1>1, <1>2, <1>3, <1>4, <1>5, <1>6, Zenon DEF Volumes

(* A request that begins where overlap stays "never" finds every other one  *)
(* idle; so SerialInv is an invariant.                                      *)
LEMMA SerialStep ==
  ASSUME TypeOK, SerialInv, Next
  PROVE  SerialInv'
<1> SUFFICES ASSUME Serial' PROVE
      /\ \A q, r \in Req : req'[q].pc # "idle" /\ req'[r].pc # "idle" => q = r
      /\ \A r \in Req : req'[r].pc # "idle" => Solo(req[r])'
      /\ (\A r \in Req : req'[r].pc = "idle") => Solo(Idle)'
  BY DEF SerialInv
<1>1. PICK r \in Req : Launch(r) \/ Stop(r) \/ Terminate(r) \/ Volumes(r) \/ Crash(r)
  BY DEF Next
<1>2. Quiet /\ ~Fault /\ ~Crash(r) BY <1>1, QuietStep DEF Serial, TypeOK
<1>3. ASSUME NEW s \in Req, s # r PROVE req'[s] = req[s]
  BY <1>1, <1>3, OthersKeep, Zenon
<1>4. \/ Begin(r)
      \/ req[r].pc # "idle" /\ UNCHANGED bounds
  <2>1. CASE Launch(r)
    BY <1>2, <2>1, Zenon DEF Launch, LaunchRow, LaunchNetwork, LaunchResolve, LaunchCreate, LaunchStart,
                      LaunchError, LaunchRunning, LaunchAttach, NoFault
  <2>2. CASE Stop(r)
    BY <1>2, <2>2, Zenon DEF Stop, StopGet, StopBox, StopMark, NoFault
  <2>3. CASE Terminate(r)
    BY <1>2, <2>3, Zenon DEF Terminate, TerminateGet, TerminateBox, TerminateList, TerminateRelease,
                      TerminateDelete, NoFault
  <2>4. CASE Volumes(r)
    BY <1>2, <2>4, Zenon DEF Volumes, CreateVolume, CreateVolumeRow, CreateVolumeRollback,
                      DeleteVolumeGet, DeleteVolumeDisk, DeleteVolumeRow, NoFault
  <2> QED BY <1>1, <1>2, <2>1, <2>2, <2>3, <2>4
<1>5. Serial /\ \A s \in Req : s # r => req[s].pc = "idle"
  <2>1. CASE Begin(r)
    <3>1. overlap' = "never" BY DEF Serial
    <3>2. \A s \in Req : req[s].pc = "idle"
      <4>1. SUFFICES ASSUME ~(\A s \in Req : req[s].pc = "idle") PROVE FALSE OBVIOUS
      <4>2. overlap' = "some" BY <2>1, <4>1 DEF Begin
      <4> QED BY <3>1, <4>2
    <3>3. overlap' = overlap BY <2>1, <3>2 DEF Begin
    <3> QED BY <1>2, <3>1, <3>2, <3>3 DEF Serial
  <2>2. CASE req[r].pc # "idle" /\ UNCHANGED bounds
    <3>1. Serial BY <1>2, <2>2 DEF Serial, bounds
    <3> QED BY <2>2, <3>1 DEF SerialInv
  <2> QED BY <1>4, <2>1, <2>2
<1>6. PICK q : q = IF req[r].pc = "idle" THEN Idle ELSE req[r] OBVIOUS
<1>7. Solo(q)
  <2>1. CASE req[r].pc = "idle"
    <3>1. \A s \in Req : req[s].pc = "idle" BY <1>5, <2>1
    <3> QED BY <1>5, <1>6, <2>1, <3>1 DEF SerialInv
  <2>2. CASE req[r].pc # "idle" BY <1>5, <1>6, <2>2 DEF SerialInv
  <2> QED BY <2>1, <2>2
<1>8. PICK p : p = req'[r] OBVIOUS
<1>9. Solo(p)' /\ (p.pc = "idle" => p = Idle)
  BY <1>1, <1>2, <1>6, <1>7, <1>8, SoloLaunch, SoloStop, SoloTerminate, SoloVolumes, Zenon
<1>10. ASSUME NEW s \in Req, req'[s].pc # "idle" PROVE s = r
  BY <1>3, <1>5, <1>10
<1>11. Solo(req[r])'
  <2>1. Owned' /\ InstancesSettled(p)' /\ DisksSettled(p)' /\ Progress(p)' BY <1>9, Zenon DEF Solo
  <2>2. InstancesSettled(req[r])' /\ DisksSettled(req[r])'
    BY <1>8, <2>1 DEF InstancesSettled, DisksSettled
  <2>3. Progress(req[r])' BY <1>8, <2>1, ZenonT(60) DEF Progress
  <2> QED BY <2>1, <2>2, <2>3, Zenon DEF Solo
<1>12. (\A s \in Req : req'[s].pc = "idle") => Solo(Idle)'
  BY <1>8, <1>9, Zenon
<1> QED BY <1>10, <1>11, <1>12

(* Calls made one at a time, none of which fails, leave the instances and   *)
(* volumes tables and the Docker host in agreement whenever no request is   *)
(* in progress.                                                             *)
THEOREM SerialCallsAgree == Spec => []Consistent
<1>1. Init => SerialInv
  <2> SUFFICES ASSUME Init PROVE SerialInv OBVIOUS
  <2>1. Idle.pc = "idle" BY DEF Idle
  <2>2. \A r \in Req : req[r].pc = "idle" BY <2>1 DEF Init
  <2>3. \A i \in Inst : Settled(i) BY DEF Init, Settled, Bare, Mounted
  <2>4. Owned /\ DisksSettled(Idle) BY DEF Init, Owned, DisksSettled, VolLive
  <2>5. Progress(Idle) BY <2>1, Zenon DEF Progress, Starting, Removing
  <2>6. Solo(Idle) BY <2>3, <2>4, <2>5 DEF Solo, InstancesSettled
  <2> QED BY <2>2, <2>6 DEF SerialInv
<1>2. TypeOK /\ SerialInv /\ [Next]_vars => SerialInv'
  <2>1. ASSUME TypeOK, SerialInv, Next PROVE SerialInv' BY <2>1, SerialStep
  <2>2. ASSUME SerialInv, UNCHANGED vars PROVE SerialInv'
    <3>1. UNCHANGED <<inst, vol, box, binds, disk, req, faults, crashes, overlap>>
      BY <2>2 DEF vars, tables, docker, bounds
    <3>2. ASSUME NEW q, Solo(q) PROVE Solo(q)'
      <4>1. Owned' /\ InstancesSettled(q)' /\ DisksSettled(q)'
        BY <3>1, <3>2, RestKept DEF tables, docker
      <4>2. Progress(q)'
        BY <3>1, <3>2, ZenonT(60) DEF Solo, Progress, Bare, Mounted, Free, InstLive
      <4> QED BY <4>1, <4>2 DEF Solo
    <3>3. ASSUME NEW r \in Req, Solo(req[r]) PROVE Solo(req[r])'
      <4>1. PICK q : q = req[r] OBVIOUS
      <4>2. Solo(q)' BY <3>2, <3>3, <4>1
      <4>3. Owned' /\ InstancesSettled(q)' /\ DisksSettled(q)' /\ Progress(q)' BY <4>2, Zenon DEF Solo
      <4>4. q = req'[r] BY <3>1, <4>1
      <4>5. InstancesSettled(req[r])' /\ DisksSettled(req[r])'
        BY <4>3, <4>4 DEF InstancesSettled, DisksSettled
      <4>6. Progress(req[r])' BY <4>3, <4>4, ZenonT(60) DEF Progress
      <4> QED BY <4>3, <4>5, <4>6, Zenon DEF Solo
    <3> QED BY <2>2, <3>1, <3>2, <3>3 DEF SerialInv, Serial, Quiet
  <2> QED BY <2>1, <2>2
<1>3. TypeOK /\ SerialInv => Consistent
  <2> SUFFICES ASSUME TypeOK, SerialInv, Undisturbed
               PROVE  /\ \A v \in Vol : {i \in Inst : v \in binds[i]} =
                                          IF vol[v].status = "IN-USE" THEN {vol[v].inst} ELSE {}
                      /\ \A i \in Inst : inst[i].status = "RUNNING" <=> box[i] = "running"
                      /\ \A i \in Inst : inst[i].status = "STOPPED" <=> box[i] = "stopped"
                      /\ disk = {v \in Vol : VolLive(v)}
    BY DEF Consistent
  <2>1. Solo(Idle) BY DEF SerialInv, Serial, Quiet, Undisturbed
  <2>2. Idle.pc = "idle" BY DEF Idle
  <2>3. Owned /\ (\A i \in Inst : Settled(i)) /\ \A v \in Vol : v \in disk <=> VolLive(v)
    BY <2>1, <2>2 DEF Solo, InstancesSettled, DisksSettled, AtWork, Removing
  <2>4. disk \subseteq Vol BY DEF TypeOK
  <2>5. \A i \in Inst : /\ inst[i].status = "RUNNING" <=> box[i] = "running"
                        /\ inst[i].status = "STOPPED" <=> box[i] = "stopped"
    BY <2>3 DEF Settled, Bare
  <2>6. ASSUME NEW v \in Vol
        PROVE  {i \in Inst : v \in binds[i]} =
                 IF vol[v].status = "IN-USE" THEN {vol[v].inst} ELSE {}
    <3>1. \A i \in Inst : v \in binds[i] <=> vol[v].status = "IN-USE" /\ vol[v].inst = i
      BY <2>3 DEF Settled, Mounted
    <3>2. vol[v].status = "IN-USE" => vol[v].inst \in Inst BY <2>3 DEF Owned
    <3> QED BY <3>1, <3>2
  <2> QED BY <2>3, <2>4, <2>5, <2>6
<1>4. Spec => []TypeOK BY TypeCorrect
<1> HIDE DEF SerialInv, Consistent
<1> QED BY <1>1, <1>2, <1>3, <1>4, PTL DEF Spec

=============================================================================
