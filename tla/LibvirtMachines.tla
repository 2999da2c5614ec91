--------------------------- MODULE LibvirtMachines --------------------------
(***************************************************************************)
(* Virtual machines of the libvirt backend: a root volume, a cloud-init    *)
(* image, a domain, and ports forwarded by a goroutine that waits for the  *)
(* machine's address.  Libvirt, the disk and iptables outlive the process. *)
(***************************************************************************)
EXTENDS Integers, FiniteSets

CONSTANTS VM,
          Task,       \* the machines that RunTask makes
          MaxFaults

VARIABLES
  dom,        \* libvirt's domain: "none", "shut" or "running"
  parts,      \* files of each machine: its root volume and its image
  vmreq,      \* CreateInstance or RunTask of each machine
  vmdel,      \* DeleteInstance of each machine
  fwd,        \* setupPortForwarding of each machine
  portMap,    \* LibvirtAdapter.portMappings: machines with an entry
  wait,       \* WaitTask of each task
  faults,
  remains     \* history: machines that a failure, a restart or a race left in pieces

vars == <<dom, parts, vmreq, vmdel, fwd, portMap, wait, faults, remains>>

(* Domains, files, requests and goroutines are well typed. *)
TypeOK ==
  /\ dom \in [VM -> {"none", "shut", "running"}] /\ parts \in [VM -> SUBSET {"root", "iso"}]
  /\ vmreq \in [VM -> {"new", "iso", "define", "start", "done"}] /\ vmdel \in [VM -> {"none", "ports", "files"}]
  /\ fwd \in [VM -> {"none", "wait", "set"}] /\ portMap \subseteq VM /\ wait \in [VM -> {"none", "poll", "ok", "error"}]
  /\ faults \in 0..MaxFaults /\ remains \subseteq VM

Init ==
  /\ dom = [v \in VM |-> "none"] /\ parts = [v \in VM |-> {}] /\ vmreq = [v \in VM |-> "new"]
  /\ vmdel = [v \in VM |-> "none"] /\ fwd = [v \in VM |-> "none"] /\ portMap = {}
  /\ wait = [v \in VM |-> "none"] /\ faults = 0 /\ remains = {}

Fault == faults < MaxFaults /\ faults' = faults + 1
Ok    == UNCHANGED faults
Step(v, s) == vmreq' = [vmreq EXCEPT ![v] = s]

-----------------------------------------------------------------------------
(* prepareRootVolume: a volume whose path cannot be had is deleted. *)
PrepareRootVolume(v) ==
  /\ vmreq[v] = "new"
  /\ \/ Ok /\ parts' = [parts EXCEPT ![v] = {"root"}] /\ Step(v, "iso")
     \/ Fault /\ UNCHANGED parts /\ Step(v, "done")
  /\ UNCHANGED <<dom, vmdel, fwd, portMap, wait, remains>>

(* generateCloudInitISO: needed or not; without it the machine starts all the same. *)
GenerateCloudInitISO(v) ==
  /\ vmreq[v] = "iso" /\ Step(v, "define")
  /\ \/ parts' = [parts EXCEPT ![v] = @ \cup {"iso"}]
     \/ UNCHANGED parts
  /\ UNCHANGED <<dom, vmdel, fwd, portMap, wait, faults, remains>>

(* DomainDefineXML; on failure the volume goes, and the image of an instance. *)
DefineDomain(v) ==
  /\ vmreq[v] = "define"
  /\ \/ Ok /\ dom' = [dom EXCEPT ![v] = "shut"] /\ Step(v, "start") /\ UNCHANGED <<parts, remains>>
     \/ /\ Fault /\ Step(v, "done") /\ UNCHANGED dom
        /\ parts' = [parts EXCEPT ![v] = IF v \in Task THEN @ \ {"root"} ELSE {}]
        /\ remains' = IF v \in Task THEN remains \cup {v} ELSE remains
  /\ UNCHANGED <<vmdel, fwd, portMap, wait>>

(* Faulty variant: a domain that does not start stays defined. *)
CreateInstanceKeeps(v) ==
  /\ vmreq[v] = "start" /\ Step(v, "done")
  /\ \/ Ok /\ dom' = [dom EXCEPT ![v] = "running"] /\ UNCHANGED parts
     \/ Fault /\ UNCHANGED dom /\ parts' = [parts EXCEPT ![v] = @ \ {"root"}]
  /\ UNCHANGED <<vmdel, portMap, wait, fwd, remains>>

(* DomainCreate; on failure the domain and the volume go, the image does not. *)
CreateInstance(v) ==
  /\ vmreq[v] = "start" /\ Step(v, "done")
  /\ \/ /\ Ok /\ dom' = [dom EXCEPT ![v] = "running"] /\ UNCHANGED <<parts, remains>>
        /\ fwd' = IF v \in Task THEN fwd ELSE [fwd EXCEPT ![v] = "wait"]
     \/ /\ Fault /\ dom' = [dom EXCEPT ![v] = "none"] /\ UNCHANGED fwd
        /\ parts' = [parts EXCEPT ![v] = @ \ {"root"}] /\ remains' = remains \cup {v}
  /\ UNCHANGED <<vmdel, portMap, wait>>

-----------------------------------------------------------------------------
(* GetInstanceIP needs the domain, running, and a lease. *)
GetInstanceIP(v) == dom[v] = "running"

(* waitInitialIP, for at most two minutes. *)
WaitInitialIP(v) ==
  /\ fwd[v] = "wait"
  /\ \/ GetInstanceIP(v) /\ fwd' = [fwd EXCEPT ![v] = "set"]
     \/ fwd' = [fwd EXCEPT ![v] = "none"]
  /\ UNCHANGED <<dom, parts, vmreq, vmdel, portMap, wait, faults, remains>>

(* configureIptables does not look whether the machine is still there. *)
ConfigureIptables(v) ==
  /\ fwd[v] = "set" /\ fwd' = [fwd EXCEPT ![v] = "none"]
  /\ portMap' = portMap \cup {v}
  /\ remains' = IF dom[v] = "none" THEN remains \cup {v} ELSE remains
  /\ UNCHANGED <<dom, parts, vmreq, vmdel, wait, faults>>

-----------------------------------------------------------------------------
StopInstance(v) ==
  /\ dom[v] = "running" /\ vmreq[v] = "done" /\ dom' = [dom EXCEPT ![v] = "shut"]
  /\ UNCHANGED <<parts, vmreq, vmdel, fwd, portMap, wait, faults, remains>>

(* DeleteInstance: destroy and undefine, or nothing if there is no domain; *)
DeleteDomain(v) ==
  /\ vmreq[v] = "done" /\ vmdel[v] = "none" /\ dom[v] # "none"
  /\ \/ Ok /\ dom' = [dom EXCEPT ![v] = "none"] /\ vmdel' = [vmdel EXCEPT ![v] = "ports"]
     \/ Fault /\ dom' = [dom EXCEPT ![v] = "shut"] /\ UNCHANGED vmdel
  /\ UNCHANGED <<parts, vmreq, fwd, portMap, wait, remains>>

(* the entry of the port map, under the lock; *)
DeletePorts(v) ==
  /\ vmdel[v] = "ports" /\ vmdel' = [vmdel EXCEPT ![v] = "files"]
  /\ portMap' = portMap \ {v}
  /\ UNCHANGED <<dom, parts, vmreq, fwd, wait, faults, remains>>

(* Faulty variant: the root volume is forgotten. *)
DeleteInstanceIso(v) ==
  /\ vmdel[v] = "files" /\ vmdel' = [vmdel EXCEPT ![v] = "none"]
  /\ parts' = [parts EXCEPT ![v] = @ \ {"iso"}]
  /\ UNCHANGED <<dom, vmreq, fwd, portMap, wait, faults, remains>>

(* the image and the root volume, whose failures are ignored. *)
DeleteInstance(v) ==
  /\ vmdel[v] = "files" /\ vmdel' = [vmdel EXCEPT ![v] = "none"]
  /\ \/ Ok /\ parts' = [parts EXCEPT ![v] = {}] /\ UNCHANGED remains
     \/ Fault /\ parts' \in {[parts EXCEPT ![v] = p] : p \in SUBSET parts[v]} /\ remains' = remains \cup {v}
  /\ UNCHANGED <<dom, vmreq, fwd, portMap, wait>>

-----------------------------------------------------------------------------
(* The task in the guest ends and shuts it down. *)
GuestEnds(v) ==
  /\ v \in Task /\ dom[v] = "running" /\ dom' = [dom EXCEPT ![v] = "shut"]
  /\ UNCHANGED <<parts, vmreq, vmdel, fwd, portMap, wait, faults, remains>>

(* WaitTask polls: an error if the domain is gone or the context ends, 0 if it is shut off. *)
WaitTaskBegin(v) ==
  /\ v \in Task /\ vmreq[v] = "done" /\ dom[v] # "none" /\ wait[v] = "none"
  /\ wait' = [wait EXCEPT ![v] = "poll"]
  /\ UNCHANGED <<dom, parts, vmreq, vmdel, fwd, portMap, faults, remains>>
WaitTask(v) ==
  /\ wait[v] = "poll"
  /\ \/ dom[v] = "none" /\ wait' = [wait EXCEPT ![v] = "error"]
     \/ dom[v] = "shut" /\ wait' = [wait EXCEPT ![v] = "ok"]
     \/ dom[v] = "running" /\ wait' = [wait EXCEPT ![v] = "error"]
  /\ UNCHANGED <<dom, parts, vmreq, vmdel, fwd, portMap, faults, remains>>

(* The process ends: requests, goroutines and the port map with it. *)
Restart ==
  /\ Fault /\ portMap' = {} /\ fwd' = [v \in VM |-> "none"] /\ vmdel' = [v \in VM |-> "none"]
  /\ vmreq' = [v \in VM |-> IF vmreq[v] = "new" THEN "new" ELSE "done"] /\ wait' = [v \in VM |-> "none"]
  /\ remains' = remains \cup {v \in VM : vmreq[v] \notin {"new", "done"} \/ vmdel[v] # "none"}
  /\ UNCHANGED <<dom, parts>>

-----------------------------------------------------------------------------
Making(v)   == PrepareRootVolume(v) \/ GenerateCloudInitISO(v) \/ DefineDomain(v) \/ CreateInstance(v)
Forward(v)  == WaitInitialIP(v) \/ ConfigureIptables(v)
Deleting(v) == DeletePorts(v) \/ DeleteInstance(v)
Next == \/ Restart
        \/ \E v \in VM : \/ Making(v) \/ Forward(v) \/ Deleting(v) \/ DeleteDomain(v)
                         \/ StopInstance(v) \/ GuestEnds(v) \/ WaitTaskBegin(v) \/ WaitTask(v)
Spec == /\ Init /\ [][Next]_vars
        /\ \A v \in VM : WF_vars(Forward(v)) /\ WF_vars(Deleting(v)) /\ WF_vars(WaitTask(v))

-----------------------------------------------------------------------------
(* A machine without a domain, and on which nothing works, has left no        *)
(* volume, no image and no forwarded port, unless a failure, a restart or     *)
(* a forwarding that came after its deletion is on record; a domain always    *)
(* has its root volume.                                                       *)
NoRemains ==
  \A v \in VM : v \in remains \/
    /\ dom[v] = "none" /\ vmreq[v] \in {"new", "done"} /\ vmdel[v] = "none" => parts[v] = {} /\ v \notin portMap
    /\ dom[v] # "none" => "root" \in parts[v]

(* Forwarding, deletion and waiting come to an end. *)
MachinesSettle ==
  \A v \in VM : []<>(fwd[v] = "none") /\ []<>(vmdel[v] = "none") /\ []<>(wait[v] # "poll")
=============================================================================
