------------------------------ MODULE Services ------------------------------
(***************************************************************************)
(* The services that share no state with one another, side by side.  A     *)
(* behaviour exercises one of them, its focus, chosen at the start: steps  *)
(* of services without common state commute, so nothing is lost, and the   *)
(* state spaces add up instead of multiplying.                             *)
(***************************************************************************)
EXTENDS Process   \* its MaxFaults bounds all failed calls, crashes and restarts

CONSTANTS Client,              \* one client; Caller: two, where the races are between clients
          Dep, Box, NoDep, NoBox, Replicas,                                      \* Deployments
          Job, Slot, NoJob,                                                      \* Cron
          Vol, Snap, Restore, NoVol, NoSnap, FirstVols,                          \* Snapshots
          Stack, Res, Type, Ref, NoRes, Templates, BadTemplate,                  \* Stacks
          Store, Cache, NoStore,                                                 \* ManagedStores
          Fn, Inv, NoFn,                                                         \* CloudFunctions
          Topic, Name, Sub, Endpoint, Msg, NoTopic,                              \* Notify
          Group, Rule, Inst, NoGroup, NoRule, NoInst, RuleOf,                    \* SecurityGroups, Dashboard
          Route, NoRoute, Prefix, Paths, BadTarget,                              \* Gateway
          Key, Upload, NoKey, NoFile, Size,                                      \* ObjectStorage
          VM, Task,                                                              \* LibvirtMachines
          Net, Disk, Target, FirstCounter, LastCounter,                          \* LibvirtHost
          Secret, Reader, NoSecret, Owner, NameOf, Plain,                        \* Secrets
          ApiKey,                                                                \* ApiKeys
          Queue, QMsg, NoQueue, NoMsg, QName, Limit, Default, QSize,             \* QueueCatalog
          Viewer, Limits, DefaultLimit, MaxLimit, MaxEvents,                     \* Dashboard
          Role, RName, Perm, Lists, NoRole, NoName, Gone                         \* Roles

VARIABLES
  focus,
  dep, link, box, dreq, loop, lost,
  job, runs, go, creq, started,
  vol, disk, snap, file, pack, helper, rest, sdel, vdel, hist,
  stack, links, phys, make, drop, astray,
  store, cont, mreq, gauge, late,
  fn, code, fdel, inv, recd, task, tmp, waste,
  topic, sub, nreq, pub, sending, inbox, nhist,
  bridge, group, rules, attached, insts, flows, greq, synced,
  rows, table, rreq, served, blurred,
  object, data, up, kdone,
  dom, parts, vmreq, vmdel, fwd, portMap, wait, remains,
  nets, counter, life, lvol, blob, qtmp, lsnap, addr, conf, nginx, hurt,
  secret, look, told,
  keys, used, kreq, keysActive, turned, twice, old,
  queues, msgs, handles, qreq, counted, stored, uncounted,
  dinst, dvol, events, view, honest,
  role, perms, rtx, owed

Deployments     == INSTANCE Deployments
Cron            == INSTANCE Cron
Snapshots       == INSTANCE Snapshots
Stacks          == INSTANCE Stacks
ManagedStores   == INSTANCE ManagedStores WITH Client <- Caller
CloudFunctions  == INSTANCE CloudFunctions
Notify          == INSTANCE Notify WITH hist <- nhist
SecurityGroups  == INSTANCE SecurityGroups WITH Client <- Caller
Gateway         == INSTANCE Gateway
ObjectStorage   == INSTANCE ObjectStorage
LibvirtMachines == INSTANCE LibvirtMachines
LibvirtHost     == INSTANCE LibvirtHost
Secrets         == INSTANCE Secrets
ApiKeys         == INSTANCE ApiKeys
QueueCatalog    == INSTANCE QueueCatalog WITH Msg <- QMsg, Size <- QSize, NameOf <- QName
Dashboard       == INSTANCE Dashboard WITH Vol <- FirstVols
Roles           == INSTANCE Roles

deployVars    == <<dep, link, box, dreq, loop, lost>>
cronVars      == <<job, runs, go, creq, started>>
snapshotVars  == <<vol, disk, snap, file, pack, helper, rest, sdel, vdel, hist>>
stackVars     == <<stack, links, phys, make, drop, astray>>
storeVars     == <<store, cont, mreq, gauge, late>>
functionVars  == <<fn, code, fdel, inv, recd, task, tmp, waste>>
notifyVars    == <<topic, sub, nreq, pub, sending, inbox, nhist>>
groupVars     == <<bridge, group, rules, attached, insts, flows, greq, synced>>
gatewayVars   == <<rows, table, rreq, served, blurred>>
objectVars    == <<object, data, up, kdone>>
machineVars   == <<dom, parts, vmreq, vmdel, fwd, portMap, wait, remains>>
hostVars      == <<nets, counter, life, lvol, blob, qtmp, lsnap, addr, conf, nginx, hurt>>
secretVars    == <<secret, look, told>>
keyVars       == <<keys, used, kreq, keysActive, turned, twice, old>>
catalogVars   == <<queues, msgs, handles, qreq, counted, stored, uncounted>>
dashboardVars == <<dinst, dvol, events, view, honest>>
roleVars      == <<role, perms, rtx, owed>>
vars == <<focus, faults, deployVars, cronVars, snapshotVars, stackVars, storeVars, 
          functionVars, notifyVars, groupVars, gatewayVars, objectVars, 
          machineVars, hostVars, secretVars, keyVars, catalogVars, 
          dashboardVars, roleVars, processVars>>

Focus == {"deployments", "cron", "snapshots", "stacks", "stores", "functions", "notify",
          "groups", "gateway", "objects", "machines", "networks", "volumes", "proxies",
          "secrets", "keys", "queues", "dashboard", "roles", "server", "hub", "limiter", "ports"}

(* The three parts of a libvirt host have nothing in common but restarts. *)
OfHost == {"networks", "volumes", "proxies"}

Init ==
  /\ focus \in Focus
  /\ Deployments!Init /\ Cron!Init /\ Snapshots!Init /\ Stacks!Init
  /\ ManagedStores!Init /\ CloudFunctions!Init /\ Notify!Init /\ SecurityGroups!Init
  /\ Gateway!Init /\ ObjectStorage!Init /\ LibvirtMachines!Init /\ LibvirtHost!Init
  /\ Secrets!Init /\ ApiKeys!Init /\ QueueCatalog!Init /\ Dashboard!Init
  /\ Roles!Init /\ ProcessInit
  /\ focus # "networks" => counter = 0
  /\ focus # "proxies" => addr = {}

-----------------------------------------------------------------------------
(* A step of the service in focus leaves the others as they are. *)
On(f) ==
  /\ focus = f /\ UNCHANGED focus
  /\ f # "deployments" => UNCHANGED deployVars
  /\ f # "cron" => UNCHANGED cronVars
  /\ f # "snapshots" => UNCHANGED snapshotVars
  /\ f # "stacks" => UNCHANGED stackVars
  /\ f # "stores" => UNCHANGED storeVars
  /\ f # "functions" => UNCHANGED functionVars
  /\ f # "notify" => UNCHANGED notifyVars
  /\ f # "groups" => UNCHANGED groupVars
  /\ f # "gateway" => UNCHANGED gatewayVars
  /\ f # "objects" => UNCHANGED objectVars
  /\ f # "machines" => UNCHANGED machineVars
  /\ f \notin OfHost => UNCHANGED hostVars
  /\ f # "secrets" => UNCHANGED secretVars
  /\ f # "keys" => UNCHANGED keyVars
  /\ f # "queues" => UNCHANGED catalogVars
  /\ f # "dashboard" => UNCHANGED dashboardVars
  /\ f # "roles" => UNCHANGED roleVars
  /\ f # "server" => UNCHANGED serverVars
  /\ f # "hub" => UNCHANGED hubVars
  /\ f # "limiter" => UNCHANGED limiterVars
  /\ f # "ports" => UNCHANGED portVars

DeploymentStep == On("deployments") /\ Deployments!Next
CronStep       == On("cron") /\ Cron!Next
SnapshotStep   == On("snapshots") /\ Snapshots!Next
StackStep      == On("stacks") /\ Stacks!Next
StoreStep      == On("stores") /\ ManagedStores!Next
FunctionStep   == On("functions") /\ CloudFunctions!Next
NotifyStep     == On("notify") /\ Notify!Next
GroupStep      == On("groups") /\ SecurityGroups!Next
GatewayStep    == On("gateway") /\ Gateway!Next
ObjectStep     == On("objects") /\ ObjectStorage!Next
MachineStep    == On("machines") /\ LibvirtMachines!Next
NetworkStep    == On("networks") /\ (LibvirtHost!NetStep \/ LibvirtHost!Restart)
VolumeStep     == On("volumes") /\ (LibvirtHost!VolumeStep \/ LibvirtHost!Restart)
ProxyStep      == On("proxies") /\ LibvirtHost!ProxyStep
SecretStep     == On("secrets") /\ Secrets!Next
KeyStep        == On("keys") /\ ApiKeys!Next
QueueStep      == On("queues") /\ QueueCatalog!Next
DashboardStep  == On("dashboard") /\ Dashboard!Next
RoleStep       == On("roles") /\ Roles!Next

Next ==
  \/ DeploymentStep \/ CronStep \/ SnapshotStep \/ StackStep \/ StoreStep
  \/ FunctionStep \/ NotifyStep \/ GroupStep \/ GatewayStep \/ ObjectStep
  \/ MachineStep \/ NetworkStep \/ VolumeStep \/ ProxyStep \/ SecretStep
  \/ KeyStep \/ QueueStep \/ DashboardStep \/ RoleStep
  \/ (On("server") /\ ServerStep) \/ (On("hub") /\ HubStep)
  \/ (On("limiter") /\ LimiterStep) \/ (On("ports") /\ PortStep)

(* What the scheduler of the Go runtime and the tickers of the workers      *)
(* guarantee: a goroutine that can go on does, and a worker's next tick     *)
(* comes.  Nothing is assumed of clients, and nothing of a request that the *)
(* process loses in a restart.                                              *)
Fairness ==
  /\ WF_vars(On("deployments") /\ Deployments!WorkerStep)
  /\ \A j \in Job : WF_vars(On("cron") /\ Cron!TimePasses(j))
  /\ \A s \in Slot : WF_vars(On("cron") /\ Cron!Running(s))
  /\ \A s \in Snap : WF_vars(On("snapshots") /\ Snapshots!GoStep(s))
  /\ \A s \in Stack : WF_vars(On("stacks") /\ Stacks!MakeStep(s))
  /\ \A s \in Stack : WF_vars(On("stacks") /\ Stacks!DropStep(s))
  /\ \A c \in Caller : WF_vars(On("stores") /\ ManagedStores!Handler(c))
  /\ \A i \in Inv : WF_vars(On("functions") /\ CloudFunctions!RunInvocation(i))
  /\ WF_vars(On("notify") /\ Notify!Sending)
  /\ \A u \in Upload : WF_vars(On("objects") /\ ObjectStorage!UploadStep(u))
  /\ \A v \in VM : WF_vars(On("machines") /\ LibvirtMachines!Forward(v))
  /\ \A v \in VM : WF_vars(On("machines") /\ LibvirtMachines!Deleting(v))
  /\ \A v \in VM : WF_vars(On("machines") /\ LibvirtMachines!WaitTask(v))
  /\ WF_vars(On("server") /\ Server!Stop)
  /\ \A w \in Worker : WF_vars(On("server") /\ Server!Iterate(w))
  /\ SF_vars(\/ On("cron") /\ Cron!ProcessJobs
             \/ On("server") /\ \E w \in Worker : Server!Done(w))
  /\ WF_vars(On("hub") /\ WebSocketHub!TakeBroadcast /\ UNCHANGED faults)
  /\ \A p \in Peer : WF_vars(On("hub") /\ WebSocketHub!Writer(p) /\ UNCHANGED faults)
  /\ \A p \in Peer : WF_vars(On("hub") /\ WebSocketHub!ReadEnd(p) /\ UNCHANGED faults)
  /\ \A p \in Peer : WF_vars(On("hub") /\ WebSocketHub!TakeRegister(p) /\ UNCHANGED faults)
  /\ \A p \in Peer : WF_vars(On("hub") /\ WebSocketHub!TakeUnregister(p) /\ UNCHANGED faults)

Spec == Init /\ [][Next]_vars /\ Fairness

-----------------------------------------------------------------------------
(* The tables, requests, goroutines and files of the service in focus are   *)
(* well typed; the others are in their initial states.                      *)
TypeOK ==
  CASE focus = "deployments" -> Deployments!TypeOK
    [] focus = "cron" -> Cron!TypeOK
    [] focus = "snapshots" -> Snapshots!TypeOK
    [] focus = "stacks" -> Stacks!TypeOK
    [] focus = "stores" -> ManagedStores!TypeOK
    [] focus = "functions" -> CloudFunctions!TypeOK
    [] focus = "notify" -> Notify!TypeOK
    [] focus = "groups" -> SecurityGroups!TypeOK
    [] focus = "gateway" -> Gateway!TypeOK
    [] focus = "objects" -> ObjectStorage!TypeOK
    [] focus = "machines" -> LibvirtMachines!TypeOK
    [] focus \in OfHost -> LibvirtHost!TypeOK
    [] focus = "secrets" -> Secrets!TypeOK
    [] focus = "keys" -> ApiKeys!TypeOK
    [] focus = "queues" -> QueueCatalog!TypeOK
    [] focus = "dashboard" -> Dashboard!TypeOK
    [] focus = "roles" -> Roles!TypeOK
    [] focus = "server" -> Server!TypeOK
    [] focus = "hub" -> WebSocketHub!TypeOK
    [] focus = "limiter" -> RateLimiter!TypeOK
    [] focus = "ports" -> PortMappings!TypeOK

(* Nothing is left behind: an instance, a Docker volume, a container, a     *)
(* stack's resource, a function's code, a machine's disk or a proxy's       *)
(* process belongs to a row or a request under way, unless a failure, a     *)
(* restart or a race that the service's module names put it on record.      *)
NoStrays ==
  /\ Deployments!NoStrayBox /\ Snapshots!NoSpareDisk /\ Stacks!NothingAstray
  /\ ManagedStores!NoStrayContainer /\ CloudFunctions!NothingWasted
  /\ LibvirtMachines!NoRemains /\ LibvirtHost!HostTidy

(* What a row, a counter or an answer says is so: a job's next run agrees   *)
(* with its status and its runs are recorded, an AVAILABLE snapshot and a   *)
(* finished upload are whole, a RUNNING store runs and the gauge counts it, *)
(* flows follow rules, the gateway's table follows its routes, a message    *)
(* goes to its subscribers once, ranges of networks are apart, secrets      *)
(* survive being read, API keys, queues, roles and counters add up, and the *)
(* dashboard's numbers add up.                                              *)
Consistent ==
  /\ Cron!ScheduledIffActive /\ Cron!RunRecorded /\ CloudFunctions!InvocationRecorded
  /\ Snapshots!AvailableIsWhole /\ ObjectStorage!UploadWhole
  /\ ManagedStores!RunningHasContainer /\ ManagedStores!GaugeExact
  /\ SecurityGroups!FlowsFollow /\ Gateway!TableCurrent /\ Gateway!TableSound
  /\ Notify!AtMostOnce /\ LibvirtHost!RangesApart /\ Secrets!SecretIntact
  /\ ApiKeys!KeysAccounted /\ QueueCatalog!CatalogSound /\ Roles!RolesWhole
  /\ Dashboard!DashboardHonest

(* No step takes a stack's status back or ends a rollback with listed       *)
(* resources left, and no step installs a flow that is not a rule's.        *)
StepsSound == [][Stacks!RollbackStrict /\ SecurityGroups!FlowsFromRules]_vars

(* What was begun comes to an end: deployments reach their replicas or go,  *)
(* ACTIVE jobs run again and again, snapshots, stacks and stores leave the  *)
(* states of work in progress, invocations, uploads, deliveries and         *)
(* libvirt's background work end, clients of the hub leave it, and a server *)
(* that was told to stop stops.                                             *)
Settles ==
  /\ Deployments!Settles /\ Cron!KeepsRunning /\ Snapshots!PackSettles /\ Stacks!StacksSettle
  /\ ManagedStores!CreatingEnds /\ CloudFunctions!InvocationEnds /\ Notify!Arrives
  /\ ObjectStorage!UploadEnds /\ LibvirtMachines!MachinesSettle /\ WebSocketHub!HubSettles
  /\ Server!ServerStops
=============================================================================
