------------------------------- MODULE Network -------------------------------
(***************************************************************************)
(* VPCs, subnets and private addresses: VpcService, SubnetService, the     *)
(* address allocation of InstanceService.LaunchInstance, and the vpcs,     *)
(* subnets and instances tables with their foreign keys.                   *)
(*                                                                         *)
(* Addresses are Width-bit numbers; 32 in the code.  An address is written *)
(* by Go as "a.b.c.d" and by PostgreSQL's cast of inet to text as          *)
(* "a.b.c.d/32": the two texts are kept apart, because allocateIP compares *)
(* them.  A request goes through its service method one database statement *)
(* or Open vSwitch command at a time.                                      *)
(***************************************************************************)
EXTENDS Integers, FiniteSetsExt

CONSTANTS Vpc, Subnet, Inst,        \* ids the services may draw (uuid.New)
          NoVpc, NoSubnet, NoInst,  \* NULL ids
          Req,                      \* requests in progress at a time
          Width,                    \* bits of an address
          VpcCidrs, SubnetCidrs,    \* the CIDR blocks requests ask for
          MaxFaults                 \* bound: commands, statements and requests that fail

Addr   == 0..(2^Width - 1)
NoAddr == -1                        \* a NULL private_ip, an empty string in Go
Cidr   == [base : Addr, len : 0..Width]

(* net.IPNet.Contains *)
Contains(net, a) ==
  LET block == 2^(Width - net.len) IN a \div block = net.base \div block

(* A cidr value: PostgreSQL refuses one with bits set to the right of the   *)
(* mask.  A VPC's block is kept as text, and net.ParseCIDR masks it.        *)
IsCidr(net) == net \in Cidr /\ net.base % 2^(Width - net.len) = 0

ASSUME CidrsType == Width \in Nat /\ \A net \in VpcCidrs \cup SubnetCidrs : IsCidr(net)
ASSUME BoundsType == MaxFaults \in Nat
ASSUME NullIds == NoVpc \notin Vpc /\ NoSubnet \notin Subnet /\ NoInst \notin Inst

VARIABLES
  vpc,      \* the vpcs table
  bridge,   \* the Open vSwitch bridges br-vpc-<id> that exist
  subnet,   \* the subnets table
  inst,     \* the instances table: status, version, vpc_id, subnet_id, private_ip
  req,      \* the requests
  faults,
  leaked    \* history: VPCs whose CreateVPC ended without removing its bridge

tables == <<vpc, subnet, inst>>
vars   == <<tables, bridge, req, faults, leaked>>

AnyCidr == [base |-> 0, len |-> 0]
Life    == {"absent", "live", "gone"}
Idle    == [pc |-> "idle", v |-> NoVpc, s |-> NoSubnet, i |-> NoInst, cidr |-> AnyCidr,
            ver |-> 0, ip |-> NoAddr]

(* The tables and the requests are well typed. *)
TypeOK ==
  /\ vpc    \in [Vpc -> [life : Life, cidr : Cidr]]
  /\ bridge \subseteq Vpc
  /\ subnet \in [Subnet -> [life : Life, vpc : Vpc \cup {NoVpc}, cidr : Cidr, gateway : Addr]]
  /\ inst   \in [Inst -> [status : {"absent", "STARTING", "RUNNING", "STOPPED", "ERROR", "gone"},
                          ver : Nat, vpc : Vpc \cup {NoVpc}, subnet : Subnet \cup {NoSubnet},
                          ip : Addr \cup {NoAddr}]]
  /\ req    \in [Req -> [pc : {"idle", "vpcRow", "vpcRollback", "vpcBridge", "vpcDelete",
                               "subnetRow", "network", "create", "plumb", "running", "error", "stop"},
                         v : Vpc \cup {NoVpc}, s : Subnet \cup {NoSubnet}, i : Inst \cup {NoInst},
                         cidr : Cidr, ver : Nat, ip : Addr \cup {NoAddr}]]
  /\ faults \in 0..MaxFaults
  /\ leaked \subseteq Vpc

Init ==
  /\ vpc    = [v \in Vpc |-> [life |-> "absent", cidr |-> AnyCidr]]
  /\ bridge = {}
  /\ subnet = [s \in Subnet |-> [life |-> "absent", vpc |-> NoVpc, cidr |-> AnyCidr, gateway |-> 0]]
  /\ inst   = [i \in Inst |-> [status |-> "absent", ver |-> 0, vpc |-> NoVpc,
                               subnet |-> NoSubnet, ip |-> NoAddr]]
  /\ req    = [r \in Req |-> Idle]
  /\ faults = 0
  /\ leaked = {}

-----------------------------------------------------------------------------
InstLive(i)  == inst[i].status \notin {"absent", "gone"}
VpcLive(v)   == vpc[v].life = "live"
SubnetLive(s) == subnet[s].life = "live"

Fault   == faults < MaxFaults /\ faults' = faults + 1
NoFault == UNCHANGED faults

Start(r, q) == req[r].pc = "idle" /\ req' = [req EXCEPT ![r] = q]
Goto(r, p)  == req' = [req EXCEPT ![r].pc = p]
Return(r)   == req' = [req EXCEPT ![r] = Idle]

-----------------------------------------------------------------------------
(* OvsAdapter: ovs-vsctl add-br and del-br *)
CreateBridge(v) == bridge' = bridge \cup {v}
DeleteBridge(v) == bridge' = bridge \ {v}

(* VpcService *)

(* CreateVPC, the bridge. *)
CreateVpc(r) ==
  \E v \in Vpc, net \in VpcCidrs :
    /\ vpc[v].life = "absent" /\ \A q \in Req : req[q].v # v
    /\ v \notin bridge
    /\ \/ /\ NoFault
          /\ CreateBridge(v)
          /\ Start(r, [Idle EXCEPT !.pc = "vpcRow", !.v = v, !.cidr = net])
       \/ Fault /\ req[r].pc = "idle" /\ UNCHANGED <<bridge, req>>
    /\ UNCHANGED <<tables, leaked>>

(* Faulty variant of CreateVpcRow: a failed INSERT just returns. *)
CreateVpcRowNoRollback(r) ==
  /\ req[r].pc = "vpcRow"
  /\ \/ NoFault /\ vpc' = [vpc EXCEPT ![req[r].v] = [life |-> "live", cidr |-> req[r].cidr]]
     \/ Fault /\ UNCHANGED vpc
  /\ Return(r)
  /\ UNCHANGED <<bridge, subnet, inst, leaked>>

(* CreateVPC, the INSERT. *)
CreateVpcRow(r) ==
  /\ req[r].pc = "vpcRow"
  /\ \/ /\ NoFault
        /\ vpc' = [vpc EXCEPT ![req[r].v] = [life |-> "live", cidr |-> req[r].cidr]]
        /\ Return(r)
     \/ Fault /\ UNCHANGED vpc /\ Goto(r, "vpcRollback")
  /\ UNCHANGED <<bridge, subnet, inst, leaked>>

(* CreateVPC, the removal of the bridge when the INSERT failed. *)
CreateVpcRollback(r) ==
  /\ req[r].pc = "vpcRollback"
  /\ \/ NoFault /\ DeleteBridge(req[r].v) /\ UNCHANGED leaked
     \/ Fault /\ UNCHANGED bridge /\ leaked' = leaked \cup {req[r].v}
  /\ Return(r)
  /\ UNCHANGED tables

(* DeleteVPC, the read. *)
DeleteVpc(r) ==
  \E v \in Vpc :
    /\ VpcLive(v)
    /\ Start(r, [Idle EXCEPT !.pc = "vpcBridge", !.v = v])
    /\ UNCHANGED <<tables, bridge, faults, leaked>>

(* DeleteVPC, del-br: an error, a bridge that is not there included, ends it. *)
DeleteVpcBridge(r) ==
  /\ req[r].pc = "vpcBridge"
  /\ \/ NoFault /\ req[r].v \in bridge /\ DeleteBridge(req[r].v) /\ Goto(r, "vpcDelete")
     \/ (IF req[r].v \in bridge THEN Fault ELSE NoFault) /\ UNCHANGED bridge /\ Return(r)
  /\ UNCHANGED <<tables, leaked>>

(* The subnets of a VPC go with it (ON DELETE CASCADE); instances keep a    *)
(* VPC and a subnet from being deleted.                                     *)
SubnetsOf(v)       == {s \in Subnet : SubnetLive(s) /\ subnet[s].vpc = v}
SubnetInUse(s)     == \E i \in Inst : InstLive(i) /\ inst[i].subnet = s
VpcInUse(v)        == \/ \E i \in Inst : InstLive(i) /\ inst[i].vpc = v
                      \/ \E s \in SubnetsOf(v) : SubnetInUse(s)

(* DeleteVPC, the DELETE. *)
DeleteVpcRow(r) ==
  /\ req[r].pc = "vpcDelete"
  /\ \/ /\ NoFault
        /\ IF VpcLive(req[r].v) /\ ~VpcInUse(req[r].v)
           THEN /\ vpc' = [vpc EXCEPT ![req[r].v].life = "gone"]
                /\ subnet' = [s \in Subnet |-> IF s \in SubnetsOf(req[r].v)
                                               THEN [subnet[s] EXCEPT !.life = "gone"]
                                               ELSE subnet[s]]
           ELSE UNCHANGED <<vpc, subnet>>
     \/ Fault /\ UNCHANGED <<vpc, subnet>>
  /\ Return(r)
  /\ UNCHANGED <<inst, bridge, leaked>>

-----------------------------------------------------------------------------
(* SubnetService *)

(* CreateSubnet up to the INSERT: the block's address must be in the VPC. *)
CreateSubnet(r) ==
  \E v \in Vpc, net \in SubnetCidrs :
    /\ VpcLive(v)
    /\ Contains(vpc[v].cidr, net.base)
    /\ Start(r, [Idle EXCEPT !.pc = "subnetRow", !.v = v, !.cidr = net])
    /\ UNCHANGED <<tables, bridge, faults, leaked>>

(* Faulty variant of GatewayIP: the address before the block's first one. *)
GatewayBefore(net) == net.base - 1

(* calculateGatewayIP *)
GatewayIP(net) == (net.base + 1) % 2^Width

(* CreateSubnet, the INSERT: the VPC must still exist and have no subnet    *)
(* with that block.                                                         *)
CreateSubnetRow(r) ==
  /\ req[r].pc = "subnetRow"
  /\ \/ /\ NoFault
        /\ VpcLive(req[r].v)
        /\ \A s \in SubnetsOf(req[r].v) : subnet[s].cidr # req[r].cidr
        /\ \E s \in Subnet :
             /\ subnet[s].life = "absent"
             /\ subnet' = [subnet EXCEPT ![s] = [life |-> "live", vpc |-> req[r].v,
                                                 cidr |-> req[r].cidr,
                                                 gateway |-> GatewayIP(req[r].cidr)]]
     \/ /\ IF VpcLive(req[r].v) /\ \A s \in SubnetsOf(req[r].v) : subnet[s].cidr # req[r].cidr
           THEN Fault ELSE NoFault
        /\ UNCHANGED subnet
  /\ Return(r)
  /\ UNCHANGED <<vpc, inst, bridge, leaked>>

(* DeleteSubnet *)
DeleteSubnet(s) ==
  /\ SubnetLive(s)
  /\ ~SubnetInUse(s)
  /\ subnet' = [subnet EXCEPT ![s].life = "gone"]
  /\ UNCHANGED <<vpc, inst, bridge, req, faults, leaked>>

-----------------------------------------------------------------------------
(* InstanceService: the address of an instance *)

(* net.IP.String; a column inet read as ::text; a text cast back to inet. *)
GoText(a)  == [addr |-> a, mask |-> ""]
PgText(a)  == [addr |-> a, mask |-> IF a = NoAddr THEN "" ELSE "/32"]
Inet(text) == text.addr

(* allocateIP's usedIPs: what the repositories return of the subnet. *)
UsedIPs(s) ==
  {PgText(inst[i].ip) : i \in {j \in Inst : InstLive(j) /\ inst[j].subnet = s /\ inst[j].ip # NoAddr}}
    \cup {PgText(subnet[s].gateway)}

(* Faulty variant of FindAvailableIP: the search does not stop at the end of *)
(* the block.                                                               *)
FindAnyIP(net, used) == Min({a \in Addr : a > net.base /\ GoText(a) \notin used})

(* findAvailableIP: the addresses after the block's first one, in order,    *)
(* until one is free or the block is left.  isValidHostIP is Contains.      *)
FindAvailableIP(net, used) ==
  LET free == {a \in Addr : a > net.base /\ Contains(net, a) /\ GoText(a) \notin used}
  IN IF free = {} THEN NoAddr ELSE Min(free)

(* LaunchInstance, the INSERT: the foreign keys need the VPC and the subnet.*)
(* Nothing relates the subnet to the VPC.                                   *)
LaunchRow(r) ==
  \E i \in Inst, v \in Vpc \cup {NoVpc}, s \in Subnet \cup {NoSubnet} :
    /\ inst[i].status = "absent"
    /\ v # NoVpc => VpcLive(v)
    /\ s # NoSubnet => SubnetLive(s)
    /\ inst' = [inst EXCEPT ![i] = [status |-> "STARTING", ver |-> 1, vpc |-> v,
                                    subnet |-> s, ip |-> NoAddr]]
    /\ Start(r, [Idle EXCEPT !.pc = "network", !.v = v, !.s = s, !.i = i, !.ver = 1])
    /\ UNCHANGED <<vpc, subnet, bridge, faults, leaked>>

(* resolveNetworkConfig: a failing read or a full subnet ends the request   *)
(* and leaves the row STARTING.                                             *)
LaunchNetwork(r) ==
  /\ req[r].pc = "network"
  /\ \/ NoFault /\ req[r].s = NoSubnet /\ Goto(r, "create")
     \/ /\ NoFault
        /\ req[r].s # NoSubnet
        /\ SubnetLive(req[r].s)
        /\ LET ip == FindAvailableIP(subnet[req[r].s].cidr, UsedIPs(req[r].s)) IN
             IF ip = NoAddr
             THEN Return(r)
             ELSE req' = [req EXCEPT ![r].ip = ip, ![r].pc = "create"]
     \/ NoFault /\ req[r].s # NoSubnet /\ ~SubnetLive(req[r].s) /\ Return(r)
     \/ Fault /\ Return(r)
  /\ UNCHANGED <<tables, bridge, leaked>>

(* resolveVolumes and CreateInstance. *)
LaunchCreate(r) ==
  /\ req[r].pc = "create"
  /\ \/ NoFault /\ Goto(r, IF req[r].s = NoSubnet THEN "running" ELSE "plumb")
     \/ Fault /\ Goto(r, "error")
     \/ Fault /\ Return(r)
  /\ UNCHANGED <<tables, bridge, leaked>>

(* plumbNetwork: an error is only logged, but a launch without a VPC, or    *)
(* one whose read of the VPC fails, dereferences nil and ends there.        *)
LaunchPlumb(r) ==
  /\ req[r].pc = "plumb"
  /\ \/ NoFault /\ IF req[r].v = NoVpc THEN Return(r) ELSE Goto(r, "running")
     \/ Fault /\ Goto(r, "running")
     \/ Fault /\ Return(r)
  /\ UNCHANGED <<tables, bridge, leaked>>

(* Faulty variant of UpdateInst: the UPDATE without its version condition. *)
UpdateInstBlind(i, ver, status, text) ==
  inst' = IF InstLive(i)
          THEN [inst EXCEPT ![i].status = status, ![i].ver = @ + 1, ![i].ip = Inet(text)]
          ELSE inst

(* InstanceRepository.Update, under the version. *)
UpdateInst(i, ver, status, text) ==
  inst' = IF InstLive(i) /\ inst[i].ver = ver
          THEN [inst EXCEPT ![i].status = status, ![i].ver = @ + 1, ![i].ip = Inet(text)]
          ELSE inst

(* The UPDATE that ends a launch, with the status RUNNING or ERROR. *)
LaunchUpdate(r) ==
  /\ req[r].pc \in {"running", "error"}
  /\ \/ NoFault /\ UpdateInst(req[r].i, req[r].ver, IF req[r].pc = "running" THEN "RUNNING" ELSE "ERROR",
                              GoText(req[r].ip))
     \/ Fault /\ UNCHANGED inst
  /\ Return(r)
  /\ UNCHANGED <<vpc, subnet, bridge, leaked>>

(* StopInstance, the read. *)
StopGet(r) ==
  \E i \in Inst :
    /\ InstLive(i) /\ inst[i].status # "STOPPED"
    /\ Start(r, [Idle EXCEPT !.pc = "stop", !.i = i, !.ver = inst[i].ver, !.ip = inst[i].ip])
    /\ UNCHANGED <<tables, bridge, faults, leaked>>

(* StopInstance, the UPDATE: it writes back the text of the address it read. *)
StopMark(r) ==
  /\ req[r].pc = "stop"
  /\ \/ NoFault /\ UpdateInst(req[r].i, req[r].ver, "STOPPED", PgText(req[r].ip))
     \/ Fault /\ UNCHANGED inst
  /\ Return(r)
  /\ UNCHANGED <<vpc, subnet, bridge, leaked>>

(* TerminateInstance, the DELETE. *)
Terminate(i) ==
  /\ InstLive(i)
  /\ inst' = [inst EXCEPT ![i].status = "gone"]
  /\ UNCHANGED <<vpc, subnet, bridge, req, faults, leaked>>

-----------------------------------------------------------------------------
(* The server dies, or the caller's context is cancelled, between two steps. *)
Crash(r) ==
  /\ req[r].pc # "idle"
  /\ Fault
  /\ leaked' = IF req[r].pc \in {"vpcRow", "vpcRollback"} THEN leaked \cup {req[r].v} ELSE leaked
  /\ Return(r)
  /\ UNCHANGED <<tables, bridge>>

-----------------------------------------------------------------------------
Vpcs(r) ==
  \/ CreateVpc(r) \/ CreateVpcRow(r) \/ CreateVpcRollback(r)
  \/ DeleteVpc(r) \/ DeleteVpcBridge(r) \/ DeleteVpcRow(r)

Subnets ==
  \/ \E r \in Req : CreateSubnet(r) \/ CreateSubnetRow(r)
  \/ \E s \in Subnet : DeleteSubnet(s)

Instances(r) ==
  \/ LaunchRow(r) \/ LaunchNetwork(r) \/ LaunchCreate(r) \/ LaunchPlumb(r)
  \/ LaunchUpdate(r) \/ StopGet(r) \/ StopMark(r)

Next ==
  \/ Subnets
  \/ \E r \in Req : Vpcs(r) \/ Instances(r) \/ Crash(r)
  \/ \E i \in Inst : Terminate(i)

Spec == Init /\ [][Next]_vars

-----------------------------------------------------------------------------
(* An instance's address is a host address of the block of its subnet, and  *)
(* that subnet still exists: LaunchInstance inserts the row, which keeps    *)
(* the subnet and its VPC from being deleted, before it reads the block.    *)
AddressInSubnet ==
  \A i \in Inst :
    InstLive(i) /\ inst[i].ip # NoAddr =>
      LET s == inst[i].subnet IN
        /\ s # NoSubnet /\ SubnetLive(s)
        /\ Contains(subnet[s].cidr, inst[i].ip) /\ inst[i].ip # subnet[s].cidr.base

(* An instance keeps its address: a StopInstance that read the row before   *)
(* the launch stored the address cannot erase it, and one that read it      *)
(* after writes the same address back, in PostgreSQL's spelling.            *)
AddressStable ==
  [][\A i \in Inst : InstLive(i) /\ inst[i].ip # NoAddr => inst'[i].ip = inst[i].ip]_vars

(* A bridge belongs to a VPC of the table or to the request that is         *)
(* creating or deleting that VPC: a failed INSERT is rolled back.  What is  *)
(* left over is only what a crash, or a rollback that Open vSwitch refused, *)
(* left over.                                                               *)
NoOrphanBridge ==
  \A v \in bridge \ leaked : VpcLive(v) \/ \E r \in Req : req[r].v = v /\ req[r].pc # "idle"

(* Two instances of one subnet have two addresses, when they were launched  *)
(* one after the other.                                                     *)
AddressesDiffer ==
  \A i, j \in Inst :
    /\ i # j /\ InstLive(i) /\ InstLive(j)
    /\ inst[i].ip # NoAddr /\ inst[j].ip # NoAddr
    /\ inst[i].subnet = inst[j].subnet
    => inst[i].ip # inst[j].ip

=============================================================================
