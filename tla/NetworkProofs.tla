---------------------------- MODULE NetworkProofs ----------------------------
(* Theorems about Network, for every value of its constants: any number of  *)
(* VPCs, subnets, instances, requests and failures, and any address width.  *)
EXTENDS Network, FiniteSetTheorems, WellFoundedInduction, TLAPS

(***************************************************************************)
(* Types.  Blocks and gateways are said to be those of requests, or the    *)
(* initial ones, so that nothing needs to be known of powers of two.       *)
(***************************************************************************)
Blocks   == Cidr \cup {AnyCidr}
Gateways == {GatewayIP(net) : net \in SubnetCidrs} \cup {0}
Launching == {"network", "create", "plumb", "running", "error"}
PCs      == {"idle", "vpcRow", "vpcRollback", "vpcBridge", "vpcDelete", "subnetRow", "stop"}
              \cup Launching
Status   == {"absent", "STARTING", "RUNNING", "STOPPED", "ERROR", "gone"}
VpcRows  == [life : Life, cidr : Blocks]
SubnetRows == [life : Life, vpc : Vpc \cup {NoVpc}, cidr : Blocks, gateway : Gateways]
InstRows == [status : Status, ver : Nat, vpc : Vpc \cup {NoVpc}, subnet : Subnet \cup {NoSubnet},
             ip : Addr \cup {NoAddr}]
Fields   == [pc : PCs, v : Vpc \cup {NoVpc}, s : Subnet \cup {NoSubnet}, i : Inst \cup {NoInst},
             cidr : Blocks, ver : Nat, ip : Addr \cup {NoAddr}]
Creating == {"vpcRow", "vpcRollback"}
Request  == {q \in Fields : /\ q.pc \in Creating => q.v \in Vpc
                            /\ q.pc = "subnetRow" => q.cidr \in SubnetCidrs}

TablesType == /\ vpc \in [Vpc -> VpcRows] /\ subnet \in [Subnet -> SubnetRows]
              /\ inst \in [Inst -> InstRows]
RestType   == bridge \subseteq Vpc /\ leaked \subseteq Vpc
RequestType == req \in [Req -> Request]
FaultsType == faults \in 0..MaxFaults
Shape      == TablesType /\ RestType /\ RequestType /\ FaultsType

(* A request that is over is well typed.                                    *)
LEMMA IdleType == Idle \in Request
BY DEF Idle, Request, Fields, Creating, PCs, Blocks

(* The blocks that requests ask for are blocks.                             *)
LEMMA CidrsAreBlocks == VpcCidrs \cup SubnetCidrs \subseteq Blocks
BY CidrsType DEF IsCidr, Blocks

(* findAvailableIP returns an address of the block, other than its first    *)
(* one, or none: the least of a set of addresses that is not empty exists.  *)
LEMMA AvailableIP ==
  ASSUME NEW net, NEW used, FindAvailableIP(net, used) # NoAddr
  PROVE  /\ FindAvailableIP(net, used) \in Addr
         /\ Contains(net, FindAvailableIP(net, used))
         /\ FindAvailableIP(net, used) > net.base
<1> DEFINE free == {a \in Addr : a > net.base /\ Contains(net, a) /\ GoText(a) \notin used}
<1>1. free # {} /\ FindAvailableIP(net, used) = Min(free)
  BY DEF FindAvailableIP
<1>2. free \subseteq Nat
  BY DEF Addr
<1> HIDE DEF free
<1> DEFINE Less == {ss \in Nat \X Nat : ss[1] < ss[2]}
<1>3. IsWellFoundedOn(Less, Nat)
  <2>1. OpToRel(<, Nat) = Less BY Zenon DEF OpToRel
  <2> QED BY <2>1, NatLessThanWellFounded, Zenon
<1>4. \E x \in free : \A y \in free : x =< y
  <2> HIDE DEF Less
  <2>1. PICK x \in free : \A y \in free : ~(<<y, x>> \in Less)
    BY <1>1, <1>2, <1>3, WFMin, Zenon
  <2>2. ASSUME NEW y \in free PROVE x =< y
    <3>1. x \in Nat /\ y \in Nat BY <1>2
    <3>2. y < x => <<y, x>> \in Less BY <3>1 DEF Less
    <3> QED BY <2>1, <3>1, <3>2
  <2> QED BY <2>2
<1>5. Min(free) \in free
  BY <1>4 DEF Min
<1> QED BY <1>1, <1>5 DEF free

(* What the type of requests says of one of them.                           *)
LEMMA RequestFields ==
  ASSUME RequestType, NEW r \in Req
  PROVE  /\ req[r] \in Fields
         /\ req[r].pc \in Creating => req[r].v \in Vpc
         /\ req[r].pc = "subnetRow" => req[r].cidr \in SubnetCidrs
<1>1. req[r] \in Request BY DEF RequestType
<1> QED BY <1>1 DEF Request

(* A request that begins, moves on or returns stays well typed. *)
LEMMA ControlType ==
  ASSUME RequestType, NEW r \in Req, NEW p \in PCs, NEW q \in Request,
         p # "subnetRow", p \in Creating => req[r].pc \in Creating,
         Goto(r, p) \/ Return(r) \/ Start(r, q)
  PROVE  RequestType'
<1>1. CASE Goto(r, p)
  <2>1. req[r] \in Request BY DEF RequestType
  <2>2. [req[r] EXCEPT !.pc = p] \in Request BY <2>1 DEF Request, Fields
  <2> QED BY <1>1, <2>2 DEF RequestType, Goto
<1>2. CASE Return(r)  BY <1>2, IdleType DEF RequestType, Return
<1>3. CASE Start(r, q) BY <1>3 DEF RequestType, Start
<1> QED BY <1>1, <1>2, <1>3

(* A step that fails or does not keeps the count of failures typed.         *)
LEMMA FaultsStep ==
  ASSUME FaultsType, Fault \/ NoFault
  PROVE  FaultsType'
BY BoundsType DEF FaultsType, Fault, NoFault

(* What a step leaves alone stays typed.                                    *)
LEMMA UnchangedType ==
  /\ TablesType /\ UNCHANGED tables => TablesType'
  /\ RestType /\ UNCHANGED <<bridge, leaked>> => RestType'
BY DEF TablesType, RestType, tables

(* An UPDATE of status, version and address leaves a row a row.             *)
LEMMA InstRowUpdate ==
  ASSUME NEW row \in InstRows, NEW st \in Status, NEW n \in Nat, NEW ip \in Addr \cup {NoAddr}
  PROVE  [row EXCEPT !.status = st, !.ver = n, !.ip = ip] \in InstRows
BY DEF InstRows

(* The versioned UPDATE of an instance keeps the tables typed. *)
LEMMA UpdateInstType ==
  ASSUME TablesType, NEW i, NEW ver, NEW status \in Status, NEW text,
         Inet(text) \in Addr \cup {NoAddr}, UpdateInst(i, ver, status, text), UNCHANGED <<vpc, subnet>>
  PROVE  TablesType'
<1>1. inst' \in [Inst -> InstRows]
  <2>1. CASE inst' = inst BY <2>1 DEF TablesType
  <2>2. CASE inst' = [inst EXCEPT ![i].status = status, ![i].ver = @ + 1, ![i].ip = Inet(text)]
    <3> SUFFICES ASSUME NEW j \in Inst PROVE inst'[j] \in InstRows
      BY <2>2 DEF TablesType
    <3>1. inst[j] \in InstRows /\ inst[j].ver + 1 \in Nat BY DEF TablesType, InstRows
    <3>2. j # i => inst'[j] = inst[j] BY <2>2 DEF TablesType
    <3>3. j = i => inst'[j] = [inst[j] EXCEPT !.status = status, !.ver = inst[j].ver + 1, !.ip = Inet(text)]
      BY <2>2 DEF TablesType
    <3>4. [inst[j] EXCEPT !.status = status, !.ver = inst[j].ver + 1, !.ip = Inet(text)] \in InstRows
      BY <3>1, InstRowUpdate
    <3> QED BY <3>1, <3>2, <3>3, <3>4
  <2> QED BY <2>1, <2>2 DEF UpdateInst
<1> QED BY <1>1 DEF TablesType

(* The steps of CreateVPC and DeleteVPC preserve the types.                 *)
LEMMA VpcTypes ==
  ASSUME Shape, NEW r \in Req, Vpcs(r)
  PROVE  Shape'
<1> USE DEF Shape
<1>1. CASE CreateVpc(r)
  <2>1. PICK v \in Vpc, net \in VpcCidrs :
          /\ \/ NoFault /\ CreateBridge(v) /\ Start(r, [Idle EXCEPT !.pc = "vpcRow", !.v = v, !.cidr = net])
             \/ Fault /\ UNCHANGED <<bridge, req>>
          /\ UNCHANGED <<tables, leaked>>
    BY <1>1 DEF CreateVpc
  <2>2. [Idle EXCEPT !.pc = "vpcRow", !.v = v, !.cidr = net] \in Request
    BY CidrsAreBlocks DEF Idle, Request, Fields, Creating, PCs
  <2>3. RequestType' BY <2>1, <2>2, ControlType DEF PCs, Creating, RequestType
  <2>4. RestType' BY <2>1 DEF RestType, CreateBridge
  <2> QED BY <2>1, <2>3, <2>4, FaultsStep, UnchangedType
<1>2. CASE CreateVpcRow(r)
  <2>1. RequestType' BY <1>2, IdleType, ControlType DEF CreateVpcRow, PCs, Creating
  <2>2. TablesType'
    BY <1>2 DEF CreateVpcRow, TablesType, VpcRows, RequestType, Request, Fields, Creating, Life
  <2>3. RestType' BY <1>2 DEF CreateVpcRow, RestType
  <2> QED BY <1>2, <2>1, <2>2, <2>3, FaultsStep DEF CreateVpcRow
<1>3. CASE CreateVpcRollback(r)
  <2>1. RequestType' BY <1>3, IdleType, ControlType DEF CreateVpcRollback, PCs, Creating
  <2>2. req[r].v \in Vpc BY <1>3, RequestFields DEF CreateVpcRollback, Creating
  <2>4. RestType' BY <1>3, <2>2 DEF CreateVpcRollback, RestType, DeleteBridge
  <2> QED BY <1>3, <2>1, <2>4, FaultsStep, UnchangedType DEF CreateVpcRollback
<1>4. CASE DeleteVpc(r)
  <2>1. PICK v \in Vpc : /\ Start(r, [Idle EXCEPT !.pc = "vpcBridge", !.v = v])
                         /\ UNCHANGED <<tables, bridge, faults, leaked>>
    BY <1>4 DEF DeleteVpc
  <2>2. [Idle EXCEPT !.pc = "vpcBridge", !.v = v] \in Request
    BY DEF Idle, Request, Fields, Creating, PCs, Blocks
  <2>3. RequestType' BY <2>1, <2>2, ControlType DEF PCs, Creating
  <2> QED BY <2>1, <2>3, UnchangedType DEF FaultsType
<1>5. CASE DeleteVpcBridge(r)
  <2>1. RequestType' BY <1>5, IdleType, ControlType DEF DeleteVpcBridge, PCs, Creating
  <2>2. RestType' BY <1>5 DEF DeleteVpcBridge, RestType, DeleteBridge
  <2>3. FaultsType' BY <1>5, FaultsStep DEF DeleteVpcBridge
  <2> QED BY <1>5, <2>1, <2>2, <2>3, UnchangedType DEF DeleteVpcBridge
<1>6. CASE DeleteVpcRow(r)
  <2>1. RequestType' BY <1>6, IdleType, ControlType DEF DeleteVpcRow, PCs, Creating
  <2>2. vpc' \in [Vpc -> VpcRows]
    BY <1>6 DEF DeleteVpcRow, TablesType, VpcRows, Life
  <2>3. subnet' \in [Subnet -> SubnetRows]
    BY <1>6 DEF DeleteVpcRow, TablesType, SubnetRows, Life
  <2>4. RestType' BY <1>6 DEF DeleteVpcRow, RestType
  <2> QED BY <1>6, <2>1, <2>2, <2>3, <2>4, FaultsStep DEF DeleteVpcRow, TablesType
<1> QED BY <1>1, <1>2, <1>3, <1>4, <1>5, <1>6 DEF Vpcs

(* The steps of CreateSubnet and DeleteSubnet preserve the types.           *)
LEMMA SubnetTypes ==
  ASSUME Shape, Subnets
  PROVE  Shape'
<1> USE DEF Shape
<1>1. ASSUME NEW r \in Req, CreateSubnet(r) PROVE Shape'
  <2>1. PICK v \in Vpc, net \in SubnetCidrs :
          /\ Start(r, [Idle EXCEPT !.pc = "subnetRow", !.v = v, !.cidr = net])
          /\ UNCHANGED <<tables, bridge, faults, leaked>>
    BY <1>1 DEF CreateSubnet
  <2>2. [Idle EXCEPT !.pc = "subnetRow", !.v = v, !.cidr = net] \in Request
    BY CidrsAreBlocks DEF Idle, Request, Fields, Creating, PCs
  <2>3. RequestType' BY <2>1, <2>2, ControlType DEF PCs, Creating
  <2> QED BY <2>1, <2>3, UnchangedType DEF FaultsType
<1>2. ASSUME NEW r \in Req, CreateSubnetRow(r) PROVE Shape'
  <2>1. RequestType' BY <1>2, IdleType, ControlType DEF CreateSubnetRow, PCs, Creating
  <2>2. RestType' /\ FaultsType' BY <1>2, FaultsStep DEF CreateSubnetRow, RestType
  <2>3. subnet' \in [Subnet -> SubnetRows]
    <3>1. req[r] \in Fields /\ req[r].cidr \in SubnetCidrs
      BY <1>2, RequestFields DEF CreateSubnetRow
    <3>2. GatewayIP(req[r].cidr) \in Gateways
      BY <3>1 DEF Gateways
    <3>3. ASSUME NEW g \in Gateways
          PROVE  [life |-> "live", vpc |-> req[r].v, cidr |-> req[r].cidr, gateway |-> g] \in SubnetRows
      BY <3>1 DEF Fields, SubnetRows, Life
    <3> QED BY <1>2, <3>2, <3>3 DEF CreateSubnetRow, TablesType
  <2> QED BY <1>2, <2>1, <2>2, <2>3 DEF CreateSubnetRow, TablesType
<1>3. ASSUME NEW s \in Subnet, DeleteSubnet(s) PROVE Shape'
  <2>1. subnet' \in [Subnet -> SubnetRows]
    BY <1>3 DEF DeleteSubnet, TablesType, SubnetRows, Life
  <2> QED BY <1>3, <2>1 DEF DeleteSubnet, TablesType, RestType, RequestType, FaultsType
<1> QED BY <1>1, <1>2, <1>3 DEF Subnets

(* The steps of LaunchInstance and StopInstance preserve the types.         *)
LEMMA InstanceTypes ==
  ASSUME Shape, NEW r \in Req, Instances(r)
  PROVE  Shape'
<1> USE DEF Shape
<1>0. req[r] \in Fields BY RequestFields
<1>1. CASE LaunchRow(r)
  <2>1. PICK i \in Inst, v \in Vpc \cup {NoVpc}, s \in Subnet \cup {NoSubnet} :
          /\ inst' = [inst EXCEPT ![i] = [status |-> "STARTING", ver |-> 1, vpc |-> v,
                                          subnet |-> s, ip |-> NoAddr]]
          /\ Start(r, [Idle EXCEPT !.pc = "network", !.v = v, !.s = s, !.i = i, !.ver = 1])
          /\ UNCHANGED <<vpc, subnet, bridge, faults, leaked>>
    BY <1>1 DEF LaunchRow
  <2>2. [Idle EXCEPT !.pc = "network", !.v = v, !.s = s, !.i = i, !.ver = 1] \in Request
    BY DEF Idle, Request, Fields, Creating, PCs, Launching, Blocks
  <2>3. RequestType' BY <2>1, <2>2, ControlType DEF PCs, Creating
  <2>4. TablesType' BY <2>1 DEF TablesType, InstRows, Status
  <2> QED BY <2>1, <2>3, <2>4 DEF RestType, FaultsType
<1>2. CASE LaunchNetwork(r)
  <2>1. CASE \E ip \in Addr : req' = [req EXCEPT ![r].ip = ip, ![r].pc = "create"]
    <3>1. PICK ip \in Addr : req' = [req EXCEPT ![r].ip = ip, ![r].pc = "create"] BY <2>1
    <3>2. [req[r] EXCEPT !.ip = ip, !.pc = "create"] \in Request
      BY <1>0 DEF Request, Fields, Creating, PCs, Launching
    <3>3. RequestType' BY <3>1, <3>2 DEF RequestType
    <3> QED BY <1>2, <3>3, UnchangedType, FaultsStep DEF LaunchNetwork
  <2>2. CASE Goto(r, "create") \/ Return(r)
    <3>1. RequestType' BY <2>2, IdleType, ControlType DEF PCs, Creating, Launching
    <3> QED BY <1>2, <3>1, UnchangedType, FaultsStep DEF LaunchNetwork
  <2> QED BY <1>2, <2>1, <2>2, AvailableIP DEF LaunchNetwork
<1>3. CASE LaunchCreate(r)
  <2>1. RequestType' BY <1>3, IdleType, ControlType DEF LaunchCreate, PCs, Creating, Launching
  <2> QED BY <1>3, <2>1, UnchangedType, FaultsStep DEF LaunchCreate
<1>4. CASE LaunchPlumb(r)
  <2>1. RequestType' BY <1>4, IdleType, ControlType DEF LaunchPlumb, PCs, Creating, Launching
  <2> QED BY <1>4, <2>1, UnchangedType, FaultsStep DEF LaunchPlumb
<1>5. CASE LaunchUpdate(r)
  <2>1. RequestType' BY <1>5, IdleType, ControlType DEF LaunchUpdate, PCs, Creating
  <2>2. Inet(GoText(req[r].ip)) \in Addr \cup {NoAddr} BY <1>0 DEF Inet, GoText, Fields
  <2>3. TablesType'
    <3>1. CASE UNCHANGED inst BY <1>5, <3>1 DEF LaunchUpdate, TablesType
    <3>2. CASE UpdateInst(req[r].i, req[r].ver, IF req[r].pc = "running" THEN "RUNNING" ELSE "ERROR",
                          GoText(req[r].ip))
      <4>1. (IF req[r].pc = "running" THEN "RUNNING" ELSE "ERROR") \in Status BY DEF Status
      <4>2. UNCHANGED <<vpc, subnet>> BY <1>5 DEF LaunchUpdate
      <4> QED BY <2>2, <3>2, <4>1, <4>2, UpdateInstType
    <3> QED BY <1>5, <3>1, <3>2 DEF LaunchUpdate
  <2> QED BY <1>5, <2>1, <2>3, FaultsStep DEF LaunchUpdate, RestType
<1>6. CASE StopGet(r)
  <2>1. PICK i \in Inst :
          /\ Start(r, [Idle EXCEPT !.pc = "stop", !.i = i, !.ver = inst[i].ver, !.ip = inst[i].ip])
          /\ UNCHANGED <<tables, bridge, faults, leaked>>
    BY <1>6 DEF StopGet
  <2>2. inst[i].ver \in Nat /\ inst[i].ip \in Addr \cup {NoAddr} BY DEF TablesType, InstRows
  <2>3. [Idle EXCEPT !.pc = "stop", !.i = i, !.ver = inst[i].ver, !.ip = inst[i].ip] \in Request
    BY <2>2 DEF Idle, Request, Fields, Creating, PCs, Blocks
  <2>4. RequestType' BY <2>1, <2>3, ControlType DEF PCs, Creating
  <2> QED BY <2>1, <2>4, UnchangedType DEF FaultsType
<1>7. CASE StopMark(r)
  <2>1. RequestType' BY <1>7, IdleType, ControlType DEF StopMark, PCs, Creating
  <2>2. Inet(PgText(req[r].ip)) \in Addr \cup {NoAddr} BY <1>0 DEF Inet, PgText, Fields
  <2>3. TablesType'
    <3>1. CASE UNCHANGED inst BY <1>7, <3>1 DEF StopMark, TablesType
    <3>2. CASE UpdateInst(req[r].i, req[r].ver, "STOPPED", PgText(req[r].ip))
      <4>1. "STOPPED" \in Status /\ UNCHANGED <<vpc, subnet>> BY <1>7 DEF StopMark, Status
      <4> QED BY <2>2, <3>2, <4>1, UpdateInstType
    <3> QED BY <1>7, <3>1, <3>2 DEF StopMark
  <2> QED BY <1>7, <2>1, <2>3, FaultsStep DEF StopMark, RestType
<1> QED BY <1>1, <1>2, <1>3, <1>4, <1>5, <1>6, <1>7 DEF Instances

(* The types hold at the start.                                             *)
LEMMA ShapeInit == Init => Shape
BY IdleType, BoundsType
   DEF Init, Shape, TablesType, RestType, RequestType, FaultsType, VpcRows, SubnetRows, InstRows,
       Blocks, Gateways, Status, Life

(* Every step preserves the types.                                          *)
LEMMA ShapeStep == Shape /\ [Next]_vars => Shape'
<1> SUFFICES ASSUME Shape, [Next]_vars PROVE Shape'
  OBVIOUS
<1>1. CASE Subnets BY <1>1, SubnetTypes
<1>2. ASSUME NEW r \in Req, Vpcs(r) PROVE Shape' BY <1>2, VpcTypes
<1>3. ASSUME NEW r \in Req, Instances(r) PROVE Shape' BY <1>3, InstanceTypes
<1>4. ASSUME NEW r \in Req, Crash(r) PROVE Shape'
  <2>1. RequestType' BY <1>4, IdleType, ControlType DEF Crash, PCs, Creating, Shape
  <2>2. RestType' BY <1>4, RequestFields DEF Crash, RestType, Shape, Creating
  <2> QED BY <1>4, <2>1, <2>2, FaultsStep, UnchangedType DEF Crash, Shape
<1>5. ASSUME NEW i \in Inst, Terminate(i) PROVE Shape'
  <2>1. TablesType' BY <1>5 DEF Terminate, Shape, TablesType, InstRows, Status
  <2> QED BY <1>5, <2>1 DEF Terminate, Shape, RestType, RequestType, FaultsType
<1>6. CASE UNCHANGED vars
  BY <1>6 DEF vars, tables, Shape, TablesType, RestType, RequestType, FaultsType
<1> QED BY <1>1, <1>2, <1>3, <1>4, <1>5, <1>6 DEF Next

(***************************************************************************)
(* Addresses.  Two things make an address of a row right although it is    *)
(* read, computed and written in three steps: the foreign key keeps the    *)
(* subnet of a live row, and the version makes the UPDATE of a request     *)
(* that knows too little miss.                                             *)
(***************************************************************************)
Live(row)     == row.status \notin {"absent", "gone"}
InBlock(net, a) == Contains(net, a) /\ a # net.base

(* What a request q holds of a row, the row's subnet and its block.  The    *)
(* version of a launch is that of a row without address; the version of a  *)
(* StopInstance is that of a row with the address it holds.                *)
Holds(q, rows, nets) ==
  /\ q.pc \in Launching \cup {"stop"} =>
       /\ q.i \in Inst /\ rows[q.i].status # "absent" /\ q.ver <= rows[q.i].ver
  /\ q.pc \in Launching =>
       /\ rows[q.i].subnet = q.s
       /\ Live(rows[q.i]) /\ rows[q.i].ver = q.ver => rows[q.i].ip = NoAddr
       /\ q.s # NoSubnet => nets[q.s].life # "absent"
       /\ q.ip # NoAddr => q.s # NoSubnet /\ InBlock(nets[q.s].cidr, q.ip)
  /\ q.pc = "stop" => (Live(rows[q.i]) /\ rows[q.i].ver = q.ver => rows[q.i].ip = q.ip)

Held    == \A r \in Req : Holds(req[r], inst, subnet)
Keyed   == \A i \in Inst : Live(inst[i]) /\ inst[i].subnet # NoSubnet => subnet[inst[i].subnet].life = "live"
Placed  == \A i \in Inst : Live(inst[i]) /\ inst[i].ip # NoAddr =>
             inst[i].subnet # NoSubnet /\ InBlock(subnet[inst[i].subnet].cidr, inst[i].ip)
AddressInv == Held /\ Keyed /\ Placed

(* Subnets may come and, unless a live row is in them, go. *)
LEMMA SubnetFrame ==
  ASSUME Shape, AddressInv, UNCHANGED inst,
         \A s \in Subnet :
           /\ subnet[s].life # "absent" => subnet'[s].life # "absent" /\ subnet'[s].cidr = subnet[s].cidr
           /\ SubnetLive(s) /\ SubnetInUse(s) => subnet'[s].life = "live"
  PROVE  /\ Keyed' /\ Placed'
         /\ \A q \in Request : Holds(q, inst, subnet) => Holds(q, inst', subnet')
<1>1. \A i \in Inst : inst[i].subnet \in Subnet \cup {NoSubnet}
  BY DEF Shape, TablesType, InstRows
<1>2. ASSUME NEW i \in Inst, Live(inst[i]), inst[i].subnet # NoSubnet
      PROVE  subnet'[inst[i].subnet].life = "live" /\ subnet'[inst[i].subnet].cidr = subnet[inst[i].subnet].cidr
  BY <1>1, <1>2 DEF AddressInv, Keyed, SubnetLive, SubnetInUse, InstLive, Live
<1>3. Keyed' BY <1>2 DEF Keyed
<1>4. Placed' BY <1>2 DEF AddressInv, Placed
<1>5. ASSUME NEW q \in Request, Holds(q, inst, subnet) PROVE Holds(q, inst', subnet')
  <2>1. q.s \in Subnet \cup {NoSubnet} BY DEF Request, Fields
  <2> QED BY <1>5, <2>1 DEF Holds
<1> QED BY <1>3, <1>4, <1>5

(* What the others hold stays true, and so does what request r holds. *)
LEMMA HeldOthers ==
  ASSUME RequestType, Held, NEW r \in Req, \A x \in Req \ {r} : req'[x] = req[x],
         Holds(req'[r], inst', subnet'),
         \A p \in Request : Holds(p, inst, subnet) => Holds(p, inst', subnet')
  PROVE  Held'
<1> SUFFICES ASSUME NEW x \in Req PROVE Holds(req'[x], inst', subnet')
  BY DEF Held
<1>1. CASE x = r BY <1>1
<1>2. CASE x # r
  <2>1. req'[x] = req[x] /\ req[x] \in Request BY <1>2 DEF RequestType
  <2>2. Holds(req[x], inst, subnet) BY DEF Held
  <2> QED BY <2>1, <2>2
<1> QED BY <1>1, <1>2

(* A request that ends, or does not deal with instances, holds nothing. *)
Quiet(r) == /\ \A x \in Req \ {r} : req'[x] = req[x]
            /\ req' = req \/ req'[r].pc \notin Launching \cup {"stop"}

(* Then what all requests hold stays true if it does for the others.        *)
LEMMA HeldQuiet ==
  ASSUME RequestType, Held, NEW r \in Req, Quiet(r),
         \A p \in Request : Holds(p, inst, subnet) => Holds(p, inst', subnet')
  PROVE  Held'
<1>1. CASE req' = req
  <2>1. \A x \in Req : req[x] \in Request /\ Holds(req[x], inst, subnet) BY DEF RequestType, Held
  <2> QED BY <1>1, <2>1 DEF Held
<1>2. CASE req'[r].pc \notin Launching \cup {"stop"}
  <2>1. Holds(req'[r], inst', subnet') BY <1>2 DEF Holds
  <2> QED BY <2>1, HeldOthers DEF Quiet
<1> QED BY <1>1, <1>2 DEF Quiet

(* A request that returns holds nothing.                                    *)
LEMMA ReturnQuiet ==
  ASSUME RequestType, NEW r \in Req, Return(r)
  PROVE  Quiet(r)
BY DEF Quiet, Return, RequestType, Idle, Launching

(* CreateVPC and DeleteVPC preserve the invariant: a VPC takes a subnet     *)
(* with it only if no live row is in it.                                    *)
LEMMA VpcAddresses ==
  ASSUME Shape, AddressInv, NEW r \in Req, Vpcs(r)
  PROVE  AddressInv'
<1>1. UNCHANGED inst /\ (DeleteVpcRow(r) \/ UNCHANGED subnet)
  <2>1. CASE CreateVpc(r) BY <2>1 DEF CreateVpc, tables
  <2>2. CASE CreateVpcRow(r) BY <2>2 DEF CreateVpcRow
  <2>3. CASE CreateVpcRollback(r) BY <2>3 DEF CreateVpcRollback, tables
  <2>4. CASE DeleteVpc(r) BY <2>4 DEF DeleteVpc, tables
  <2>5. CASE DeleteVpcBridge(r) BY <2>5 DEF DeleteVpcBridge, tables
  <2>6. CASE DeleteVpcRow(r) BY <2>6 DEF DeleteVpcRow
  <2> QED BY <2>1, <2>2, <2>3, <2>4, <2>5, <2>6 DEF Vpcs
<1>2. \A s \in Subnet :
        /\ subnet[s].life # "absent" => subnet'[s].life # "absent" /\ subnet'[s].cidr = subnet[s].cidr
        /\ SubnetLive(s) /\ SubnetInUse(s) => subnet'[s].life = "live"
  <2>1. CASE DeleteVpcRow(r)
    <3>1. CASE UNCHANGED subnet BY <2>1, <3>1 DEF DeleteVpcRow, SubnetLive
    <3>2. CASE ~VpcInUse(req[r].v) /\ subnet' = [s \in Subnet |-> IF s \in SubnetsOf(req[r].v)
                                               THEN [subnet[s] EXCEPT !.life = "gone"]
                                               ELSE subnet[s]]
      BY <2>1, <3>2 DEF DeleteVpcRow, VpcInUse, SubnetsOf, SubnetLive, Shape, TablesType, SubnetRows
    <3> QED BY <2>1, <3>1, <3>2 DEF DeleteVpcRow
  <2>2. CASE UNCHANGED subnet BY <2>2 DEF SubnetLive
  <2> QED BY <1>1, <2>1, <2>2
<1>3. /\ Keyed' /\ Placed'
      /\ \A q \in Request : Holds(q, inst, subnet) => Holds(q, inst', subnet')
  BY <1>1, <1>2, SubnetFrame
<1>4. Quiet(r)
  <2>1. CASE CreateVpc(r)
    <3>1. PICK v \in Vpc, net \in VpcCidrs :
            /\ \/ NoFault /\ CreateBridge(v) /\ Start(r, [Idle EXCEPT !.pc = "vpcRow", !.v = v, !.cidr = net])
               \/ Fault /\ UNCHANGED <<bridge, req>>
            /\ UNCHANGED <<tables, leaked>>
      BY <2>1, Zenon DEF CreateVpc
    <3>2. CASE UNCHANGED req BY <3>2 DEF Quiet
    <3>3. CASE Start(r, [Idle EXCEPT !.pc = "vpcRow", !.v = v, !.cidr = net])
      BY <3>3 DEF Start, Idle, Quiet, Shape, RequestType, Launching
    <3> QED BY <3>1, <3>2, <3>3
  <2> USE DEF Quiet, Shape, RequestType, Request, Fields, Launching
  <2>2. CASE CreateVpcRow(r) BY <2>2, ReturnQuiet DEF CreateVpcRow, Goto
  <2>3. CASE CreateVpcRollback(r) BY <2>3, ReturnQuiet DEF CreateVpcRollback
  <2>4. CASE DeleteVpc(r) BY <2>4 DEF DeleteVpc, Start, Idle
  <2>5. CASE DeleteVpcBridge(r) BY <2>5, ReturnQuiet DEF DeleteVpcBridge, Goto
  <2>6. CASE DeleteVpcRow(r) BY <2>6, ReturnQuiet DEF DeleteVpcRow
  <2> QED BY <2>1, <2>2, <2>3, <2>4, <2>5, <2>6 DEF Vpcs
<1> QED BY <1>3, <1>4, HeldQuiet DEF AddressInv, Shape

(* CreateSubnet and DeleteSubnet preserve the invariant.                    *)
LEMMA SubnetAddresses ==
  ASSUME Shape, AddressInv, Subnets
  PROVE  AddressInv'
<1> DEFINE Frame == /\ UNCHANGED inst
                    /\ \A s \in Subnet :
                         /\ subnet[s].life # "absent" => subnet'[s].life # "absent" /\ subnet'[s].cidr = subnet[s].cidr
                         /\ SubnetLive(s) /\ SubnetInUse(s) => subnet'[s].life = "live"
<1>1. ASSUME NEW r \in Req, Frame, Quiet(r) PROVE AddressInv'
  <2>1. /\ Keyed' /\ Placed'
        /\ \A q \in Request : Holds(q, inst, subnet) => Holds(q, inst', subnet')
    BY <1>1, SubnetFrame
  <2> QED BY <1>1, <2>1, HeldQuiet DEF AddressInv, Shape
<1>2. ASSUME NEW r \in Req, CreateSubnet(r) PROVE AddressInv'
  <2>1. Frame BY <1>2 DEF CreateSubnet, tables, SubnetLive
  <2>2. Quiet(r)
    BY <1>2 DEF CreateSubnet, Quiet, Shape, RequestType, Request, Fields, Launching, Start, Idle
  <2> QED BY <2>1, <2>2, <1>1
<1>3. ASSUME NEW r \in Req, CreateSubnetRow(r) PROVE AddressInv'
  <2>1. Frame BY <1>3 DEF CreateSubnetRow, Shape, TablesType, SubnetLive
  <2>2. Quiet(r) BY <1>3, ReturnQuiet DEF CreateSubnetRow, Shape
  <2> QED BY <2>1, <2>2, <1>1
<1>4. ASSUME NEW s \in Subnet, DeleteSubnet(s) PROVE AddressInv'
  <2>1. Frame BY <1>4 DEF DeleteSubnet, Shape, TablesType, SubnetRows, SubnetLive
  <2>2. /\ Keyed' /\ Placed'
        /\ \A q \in Request : Holds(q, inst, subnet) => Holds(q, inst', subnet')
    BY <2>1, SubnetFrame
  <2>3. Held'
    <3>1. \A x \in Req : req[x] \in Request /\ Holds(req[x], inst, subnet)
      BY DEF Shape, RequestType, AddressInv, Held
    <3>2. req' = req BY <1>4 DEF DeleteSubnet
    <3> QED BY <2>2, <3>1, <3>2 DEF Held
  <2> QED BY <2>2, <2>3 DEF AddressInv
<1> QED BY <1>2, <1>3, <1>4 DEF Subnets

(* A row changes only under its version, which then grows, or is deleted:   *)
(* what other requests hold of it stays true.                               *)
LEMMA RowFrame ==
  ASSUME Shape, NEW i \in Inst, UNCHANGED subnet,
         \A j \in Inst \ {i} : inst'[j] = inst[j],
         \/ inst[i].status = "absent"
         \/ /\ inst'[i].status # "absent" /\ inst'[i].subnet = inst[i].subnet
            /\ inst'[i].ver \in Nat /\ inst'[i].ver >= inst[i].ver
            /\ ~Live(inst'[i]) \/ inst'[i].ver > inst[i].ver
  PROVE  \A q \in Request : Holds(q, inst, subnet) => Holds(q, inst', subnet')
<1> SUFFICES ASSUME NEW q \in Request, Holds(q, inst, subnet)
             PROVE  Holds(q, inst', subnet')
  OBVIOUS
<1>1. q.ver \in Nat /\ inst[i].ver \in Nat BY DEF Request, Fields, Shape, TablesType, InstRows
<1>2. CASE q.i # i BY <1>2 DEF Holds
<1>3. CASE q.i = i BY <1>1, <1>3 DEF Holds
<1> QED BY <1>2, <1>3

(* The steps of a launch that leave the tables alone. *)
LEMMA LaunchAddresses ==
  ASSUME Shape, AddressInv, NEW r \in Req, LaunchNetwork(r) \/ LaunchCreate(r) \/ LaunchPlumb(r)
  PROVE  AddressInv'
<1>1. UNCHANGED <<inst, subnet>> BY DEF LaunchNetwork, LaunchCreate, LaunchPlumb, tables
<1>2. Keyed' /\ Placed' BY <1>1 DEF AddressInv, Keyed, Placed
<1>3. \A q \in Request : Holds(q, inst, subnet) => Holds(q, inst', subnet') BY <1>1
<1>4. req[r].pc \in Launching BY DEF LaunchNetwork, LaunchCreate, LaunchPlumb, Launching
<1>5. Holds(req[r], inst, subnet) /\ req[r] \in Fields
  BY RequestFields DEF AddressInv, Held, Shape
<1>6. CASE Return(r) BY <1>3, <1>6, ReturnQuiet, HeldQuiet, <1>2 DEF AddressInv, Shape
<1>7. ASSUME NEW p \in Launching, Goto(r, p) PROVE AddressInv'
  <2>1. Holds(req'[r], inst', subnet')
    BY <1>1, <1>4, <1>5, <1>7 DEF Goto, Holds, Fields, Shape, RequestType, Launching
  <2>2. \A x \in Req \ {r} : req'[x] = req[x] BY <1>7 DEF Goto, Shape, RequestType
  <2> QED BY <1>2, <1>3, <2>1, <2>2, HeldOthers DEF AddressInv, Shape
<1>8. ASSUME NEW ip \in Addr, req[r].s # NoSubnet, InBlock(subnet[req[r].s].cidr, ip),
             req' = [req EXCEPT ![r].ip = ip, ![r].pc = "create"]
      PROVE  AddressInv'
  <2>1. Holds(req'[r], inst', subnet')
    BY <1>1, <1>4, <1>5, <1>8 DEF Holds, Fields, Shape, RequestType, Launching
  <2>2. \A x \in Req \ {r} : req'[x] = req[x] BY <1>8 DEF Shape, RequestType
  <2> QED BY <1>2, <1>3, <2>1, <2>2, HeldOthers DEF AddressInv, Shape
<1>9. CASE LaunchNetwork(r)
  <2> DEFINE ip == FindAvailableIP(subnet[req[r].s].cidr, UsedIPs(req[r].s))
  <2>1. \/ Goto(r, "create") \/ Return(r)
        \/ /\ ip # NoAddr /\ req[r].s # NoSubnet
           /\ req' = [req EXCEPT ![r].ip = ip, ![r].pc = "create"]
    BY <1>9 DEF LaunchNetwork
  <2>2. ip # NoAddr => ip \in Addr /\ InBlock(subnet[req[r].s].cidr, ip)
    BY AvailableIP DEF InBlock, Addr
  <2> HIDE DEF ip
  <2> QED BY <1>6, <1>7, <1>8, <2>1, <2>2 DEF Launching
<1>10. CASE LaunchCreate(r) BY <1>6, <1>7, <1>10 DEF LaunchCreate, Launching
<1>11. CASE LaunchPlumb(r) BY <1>6, <1>7, <1>11 DEF LaunchPlumb, Launching
<1> QED BY <1>9, <1>10, <1>11

(* A launch that inserts its row, and a StopInstance that reads one.        *)
LEMMA RowAddresses ==
  ASSUME Shape, AddressInv, NEW r \in Req, LaunchRow(r) \/ StopGet(r)
  PROVE  AddressInv'
<1>1. CASE LaunchRow(r)
  <2>1. PICK i \in Inst, v \in Vpc \cup {NoVpc}, s \in Subnet \cup {NoSubnet} :
          /\ inst[i].status = "absent"
          /\ s # NoSubnet => SubnetLive(s)
          /\ inst' = [inst EXCEPT ![i] = [status |-> "STARTING", ver |-> 1, vpc |-> v,
                                          subnet |-> s, ip |-> NoAddr]]
          /\ Start(r, [Idle EXCEPT !.pc = "network", !.v = v, !.s = s, !.i = i, !.ver = 1])
          /\ UNCHANGED <<vpc, subnet, bridge, faults, leaked>>
    BY <1>1, Zenon DEF LaunchRow
  <2>2. /\ \A j \in Inst \ {i} : inst'[j] = inst[j]
        /\ inst'[i] = [status |-> "STARTING", ver |-> 1, vpc |-> v, subnet |-> s, ip |-> NoAddr]
    BY <2>1 DEF Shape, TablesType
  <2>3. inst[i].status = "absent" /\ UNCHANGED subnet /\ (s # NoSubnet => SubnetLive(s)) BY <2>1
  <2>4. \A q \in Request : Holds(q, inst, subnet) => Holds(q, inst', subnet')
    BY <2>2, <2>3, RowFrame
  <2>5. Keyed' /\ Placed' BY <2>2, <2>3 DEF AddressInv, Keyed, Placed, SubnetLive
  <2>6. req' = [req EXCEPT ![r] = [Idle EXCEPT !.pc = "network", !.v = v, !.s = s, !.i = i, !.ver = 1]]
    BY <2>1 DEF Start
  <2>7. /\ \A x \in Req \ {r} : req'[x] = req[x]
        /\ req'[r].pc = "network" /\ req'[r].s = s /\ req'[r].i = i /\ req'[r].ver = 1 /\ req'[r].ip = NoAddr
    BY <2>6 DEF Idle, Shape, RequestType
  <2>8. Holds(req'[r], inst', subnet')
    BY <2>2, <2>3, <2>7 DEF Holds, SubnetLive
  <2> QED BY <2>4, <2>5, <2>7, <2>8, HeldOthers DEF AddressInv, Shape
<1>2. CASE StopGet(r)
  <2>1. PICK i \in Inst :
          /\ InstLive(i)
          /\ Start(r, [Idle EXCEPT !.pc = "stop", !.i = i, !.ver = inst[i].ver, !.ip = inst[i].ip])
          /\ UNCHANGED <<tables, bridge, faults, leaked>>
    BY <1>2, Zenon DEF StopGet
  <2>2. UNCHANGED <<inst, subnet>> BY <2>1 DEF tables
  <2>3. /\ Keyed' /\ Placed'
        /\ \A q \in Request : Holds(q, inst, subnet) => Holds(q, inst', subnet')
    BY <2>2 DEF AddressInv, Keyed, Placed
  <2>4. /\ \A x \in Req \ {r} : req'[x] = req[x]
        /\ req'[r].pc = "stop" /\ req'[r].i = i /\ req'[r].ver = inst[i].ver /\ req'[r].ip = inst[i].ip
    BY <2>1 DEF Start, Idle, Shape, RequestType
  <2>5. inst[i].ver \in Nat BY DEF Shape, TablesType, InstRows
  <2>6. Holds(req'[r], inst', subnet')
    BY <2>1, <2>2, <2>4, <2>5 DEF Holds, InstLive, Launching
  <2> QED BY <2>3, <2>4, <2>6, HeldOthers DEF AddressInv, Shape
<1> QED BY <1>1, <1>2

(* The versioned UPDATE by a request that launches or stops an instance:    *)
(* either it misses, or it leaves an address that is there, and else stores *)
(* none or one of the block.                                                *)
LEMMA UpdateAddresses ==
  ASSUME Shape, AddressInv, NEW r \in Req, LaunchUpdate(r) \/ StopMark(r)
  PROVE  /\ AddressInv'
         /\ \A i \in Inst : Live(inst[i]) /\ inst[i].ip # NoAddr => inst'[i].ip = inst[i].ip
<1> DEFINE i == req[r].i
<1>1. Holds(req[r], inst, subnet) /\ req[r] \in Fields
  BY RequestFields DEF AddressInv, Held, Shape
<1>2. i \in Inst
  BY <1>1 DEF Holds, LaunchUpdate, StopMark, Launching
<1>3. Return(r) /\ UNCHANGED subnet BY DEF LaunchUpdate, StopMark
<1>4. CASE UNCHANGED inst
  <2>1. Keyed' /\ Placed' BY <1>3, <1>4 DEF AddressInv, Keyed, Placed
  <2>2. \A q \in Request : Holds(q, inst, subnet) => Holds(q, inst', subnet') BY <1>3, <1>4
  <2> QED BY <1>3, <1>4, <2>1, <2>2, ReturnQuiet, HeldQuiet DEF AddressInv, Shape
<1>5. ASSUME Live(inst[i]), inst[i].ver = req[r].ver, inst[i].ver \in Nat,
             \A j \in Inst \ {i} : inst'[j] = inst[j],
             inst'[i].status # "absent", inst'[i].ver = inst[i].ver + 1,
             inst'[i].ip = req[r].ip, inst'[i].subnet = inst[i].subnet
      PROVE  /\ AddressInv'
             /\ \A j \in Inst : Live(inst[j]) /\ inst[j].ip # NoAddr => inst'[j].ip = inst[j].ip
  <2>3. \A q \in Request : Holds(q, inst, subnet) => Holds(q, inst', subnet')
    BY <1>2, <1>3, <1>5, RowFrame
  <2>4. Held' BY <1>3, <2>3, ReturnQuiet, HeldQuiet DEF AddressInv, Shape
  <2>5. Keyed'
    <3> SUFFICES ASSUME NEW j \in Inst, Live(inst'[j]), inst'[j].subnet # NoSubnet
                 PROVE  subnet'[inst'[j].subnet].life = "live"
      BY DEF Keyed
    <3>1. Live(inst[j]) /\ inst'[j].subnet = inst[j].subnet BY <1>5
    <3> QED BY <1>3, <3>1 DEF AddressInv, Keyed
  <2>6. inst[i].ip # NoAddr => req[r].ip = inst[i].ip
    BY <1>1, <1>5 DEF Holds, LaunchUpdate, StopMark, Launching
  <2>7. req[r].ip # NoAddr => inst[i].subnet # NoSubnet /\ InBlock(subnet[inst[i].subnet].cidr, req[r].ip)
    BY <1>1, <1>2, <1>5 DEF Holds, LaunchUpdate, StopMark, Launching, AddressInv, Placed
  <2>8. Placed' BY <1>3, <1>5, <2>7 DEF AddressInv, Placed
  <2> QED BY <1>5, <2>4, <2>5, <2>6, <2>8 DEF AddressInv
<1>6. ASSUME NEW st \in {"RUNNING", "ERROR", "STOPPED"}, NEW text, Inet(text) = req[r].ip,
             UpdateInst(i, req[r].ver, st, text)
      PROVE  /\ AddressInv'
             /\ \A j \in Inst : Live(inst[j]) /\ inst[j].ip # NoAddr => inst'[j].ip = inst[j].ip
  <2>1. CASE InstLive(i) /\ inst[i].ver = req[r].ver
    <3>1. inst' = [inst EXCEPT ![i].status = st, ![i].ver = @ + 1, ![i].ip = req[r].ip]
      BY <1>6, <2>1 DEF UpdateInst
    <3>2. inst[i] \in InstRows /\ inst[i].ver \in Nat BY <1>2 DEF Shape, TablesType, InstRows
    <3>3. /\ \A j \in Inst \ {i} : inst'[j] = inst[j]
          /\ inst'[i].status # "absent" /\ inst'[i].ver = inst[i].ver + 1
          /\ inst'[i].ip = req[r].ip /\ inst'[i].subnet = inst[i].subnet
      BY <1>2, <3>1, <3>2 DEF Shape, TablesType, InstRows
    <3>4. Live(inst[i]) BY <2>1 DEF InstLive, Live
    <3> QED BY <1>5, <2>1, <3>2, <3>3, <3>4
  <2>2. CASE ~(InstLive(i) /\ inst[i].ver = req[r].ver)
    <3>1. UNCHANGED inst BY <1>6, <2>2 DEF UpdateInst
    <3> QED BY <1>4, <3>1
  <2> QED BY <2>1, <2>2
<1>7. CASE LaunchUpdate(r)
  <2> DEFINE st == IF req[r].pc = "running" THEN "RUNNING" ELSE "ERROR"
  <2>1. Inet(GoText(req[r].ip)) = req[r].ip /\ st \in {"RUNNING", "ERROR", "STOPPED"} BY DEF Inet, GoText
  <2>2. UNCHANGED inst \/ UpdateInst(i, req[r].ver, st, GoText(req[r].ip)) BY <1>7 DEF LaunchUpdate
  <2> HIDE DEF st
  <2> QED BY <1>4, <1>6, <2>1, <2>2
<1>8. CASE StopMark(r)
  <2>1. Inet(PgText(req[r].ip)) = req[r].ip BY DEF Inet, PgText
  <2>2. UNCHANGED inst \/ UpdateInst(i, req[r].ver, "STOPPED", PgText(req[r].ip)) BY <1>8 DEF StopMark
  <2> QED BY <1>4, <1>6, <2>1, <2>2
<1> QED BY <1>7, <1>8

(* The invariant holds at the start.                                        *)
LEMMA AddressInit == Init => AddressInv
BY DEF Init, AddressInv, Held, Keyed, Placed, Holds, Idle, Live, Launching

(* Every step preserves the invariant and every address.                    *)
LEMMA AddressStep ==
  ASSUME Shape, AddressInv, [Next]_vars
  PROVE  /\ AddressInv'
         /\ \A i \in Inst : Live(inst[i]) /\ inst[i].ip # NoAddr => inst'[i].ip = inst[i].ip
<1> DEFINE Goal == /\ AddressInv'
                   /\ \A i \in Inst : Live(inst[i]) /\ inst[i].ip # NoAddr => inst'[i].ip = inst[i].ip
<1> SUFFICES Goal OBVIOUS
<1>1. CASE Subnets
  <2>1. UNCHANGED inst
    <3>1. ASSUME NEW r \in Req, CreateSubnet(r) PROVE UNCHANGED inst BY <3>1 DEF CreateSubnet, tables
    <3>2. ASSUME NEW r \in Req, CreateSubnetRow(r) PROVE UNCHANGED inst BY <3>2 DEF CreateSubnetRow
    <3>3. ASSUME NEW s \in Subnet, DeleteSubnet(s) PROVE UNCHANGED inst BY <3>3 DEF DeleteSubnet
    <3> QED BY <1>1, <3>1, <3>2, <3>3 DEF Subnets
  <2> QED BY <1>1, <2>1, SubnetAddresses
<1>2. ASSUME NEW r \in Req, Vpcs(r) PROVE Goal
  <2>1. AddressInv' BY <1>2, VpcAddresses
  <2>2. UNCHANGED inst
    <3>1. CASE CreateVpc(r) BY <3>1 DEF CreateVpc, tables
    <3>2. CASE CreateVpcRow(r) BY <3>2 DEF CreateVpcRow
    <3>3. CASE CreateVpcRollback(r) BY <3>3 DEF CreateVpcRollback, tables
    <3>4. CASE DeleteVpc(r) BY <3>4 DEF DeleteVpc, tables
    <3>5. CASE DeleteVpcBridge(r) BY <3>5 DEF DeleteVpcBridge, tables
    <3>6. CASE DeleteVpcRow(r) BY <3>6 DEF DeleteVpcRow
    <3> QED BY <1>2, <3>1, <3>2, <3>3, <3>4, <3>5, <3>6 DEF Vpcs
  <2> QED BY <2>1, <2>2
<1>3. ASSUME NEW r \in Req, Instances(r) PROVE Goal
  <2>1. CASE LaunchNetwork(r) \/ LaunchCreate(r) \/ LaunchPlumb(r)
    <3>1. UNCHANGED inst BY <2>1 DEF LaunchNetwork, LaunchCreate, LaunchPlumb, tables
    <3> QED BY <2>1, <3>1, LaunchAddresses
  <2>2. CASE LaunchRow(r) \/ StopGet(r)
    <3>1. \A i \in Inst : inst[i].status = "absent" \/ inst'[i] = inst[i]
      <4>1. CASE LaunchRow(r) BY <4>1 DEF LaunchRow, Shape, TablesType
      <4>2. CASE StopGet(r) BY <4>2 DEF StopGet, tables
      <4> QED BY <2>2, <4>1, <4>2
    <3> QED BY <2>2, <3>1, RowAddresses DEF Live
  <2>3. CASE LaunchUpdate(r) \/ StopMark(r) BY <2>3, UpdateAddresses
  <2> QED BY <1>3, <2>1, <2>2, <2>3 DEF Instances
<1>4. ASSUME NEW r \in Req, Crash(r) PROVE Goal
  <2>1. UNCHANGED <<inst, subnet>> /\ Return(r) BY <1>4 DEF Crash, tables
  <2>2. Keyed' /\ Placed' BY <2>1 DEF AddressInv, Keyed, Placed
  <2>3. \A q \in Request : Holds(q, inst, subnet) => Holds(q, inst', subnet') BY <2>1
  <2> QED BY <2>1, <2>2, <2>3, ReturnQuiet, HeldQuiet DEF AddressInv, Shape
<1>5. ASSUME NEW i \in Inst, Terminate(i) PROVE Goal
  <2>1. /\ \A j \in Inst \ {i} : inst'[j] = inst[j]
        /\ inst'[i].status = "gone" /\ inst'[i].ver = inst[i].ver
        /\ inst'[i].subnet = inst[i].subnet /\ inst'[i].ip = inst[i].ip
    BY <1>5 DEF Terminate, Shape, TablesType, InstRows
  <2>2. UNCHANGED <<subnet, req>> /\ inst[i].ver \in Nat /\ ~Live(inst'[i])
    BY <1>5, <2>1 DEF Terminate, Live, Shape, TablesType, InstRows
  <2>3. Keyed' /\ Placed' BY <2>1, <2>2 DEF AddressInv, Keyed, Placed
  <2>4. \A q \in Request : Holds(q, inst, subnet) => Holds(q, inst', subnet')
    BY <2>1, <2>2, RowFrame
  <2>5. Held'
    <3>1. \A x \in Req : req[x] \in Request /\ Holds(req[x], inst, subnet)
      BY DEF Shape, RequestType, AddressInv, Held
    <3> QED BY <2>2, <2>4, <3>1 DEF Held
  <2> QED BY <2>1, <2>3, <2>5 DEF AddressInv
<1>6. CASE UNCHANGED vars
  BY <1>6 DEF vars, tables, AddressInv, Held, Keyed, Placed
<1> QED BY <1>1, <1>2, <1>3, <1>4, <1>5, <1>6 DEF Next

(* The tables and requests are well typed, and what a request holds of an   *)
(* instance's row and subnet is so as far as the row has its version.       *)
THEOREM AddressesCorrect == Spec => [](Shape /\ AddressInv)
<1>1. Init => Shape /\ AddressInv BY ShapeInit, AddressInit
<1>2. Shape /\ AddressInv /\ [Next]_vars => (Shape /\ AddressInv)' BY ShapeStep, AddressStep
<1> QED BY <1>1, <1>2, PTL DEF Spec

(* LaunchInstance reads a subnet's block, computes an address and stores it *)
(* in three steps; still every stored address is a host address of the      *)
(* block of the instance's subnet, which exists.                            *)
THEOREM AddressesInSubnet == Spec => []AddressInSubnet
<1>1. Shape /\ AddressInv => AddressInSubnet
  BY DEF AddressInv, Keyed, Placed, AddressInSubnet, InstLive, Live, SubnetLive, InBlock
<1> QED BY <1>1, AddressesCorrect, PTL

(* No StopInstance or launch that read the row before takes an address back *)
(* or replaces it, whatever versions it holds.                              *)
THEOREM AddressesKept == Spec => AddressStable
<1>1. Shape /\ AddressInv /\ [Next]_vars =>
        [\A i \in Inst : InstLive(i) /\ inst[i].ip # NoAddr => inst'[i].ip = inst[i].ip]_vars
  BY AddressStep DEF InstLive, Live
<1> QED BY <1>1, AddressesCorrect, PTL DEF Spec, AddressStable

(***************************************************************************)
(* Addresses are numbers: 2^Width is the number of subsets of a set of     *)
(* Width elements, so it is positive, and the blocks and gateways of Shape *)
(* are those of TypeOK.                                                    *)
(***************************************************************************)
LEMMA AddressSpace == 2^Width \in Nat \ {0}
<1>1. Width \in Nat BY CidrsType
<1>2. IsFiniteSet(1..Width) /\ Cardinality(1..Width) = Width
  BY <1>1, FS_Interval
<1>3. PICK S : S = SUBSET (1..Width) OBVIOUS
<1>4. IsFiniteSet(S) /\ Cardinality(S) = 2^Width
  BY <1>2, <1>3, FS_SUBSET
<1>5. S # {} BY <1>3
<1>6. Cardinality(S) \in Nat /\ Cardinality(S) # 0
  BY <1>4, <1>5, FS_CardinalityType, FS_EmptySet
<1> QED BY <1>4, <1>6

(* The gateway of a block is an address, the last block's included.         *)
LEMMA GatewaysAreAddresses == Gateways \subseteq Addr /\ AnyCidr \in Cidr
<1>1. PICK n \in Nat \ {0} : n = 2^Width BY AddressSpace
<1>2. Addr = 0..(n - 1) BY <1>1 DEF Addr
<1>3. ASSUME NEW net \in SubnetCidrs PROVE GatewayIP(net) \in Addr
  <2>1. net.base \in 0..(n - 1) BY <1>2, CidrsType DEF IsCidr, Cidr
  <2>2. (net.base + 1) % n \in 0..(n - 1) BY <2>1
  <2> QED BY <1>1, <1>2, <2>2 DEF GatewayIP
<1>4. 0 \in Addr BY <1>2
<1>5. AnyCidr \in Cidr BY <1>4, CidrsType DEF AnyCidr, Cidr
<1> QED BY <1>3, <1>4, <1>5 DEF Gateways

(* The tables, the bridges and the requests stay well typed.                *)
THEOREM TypeCorrect == Spec => []TypeOK
<1>1. Shape => TypeOK
  <2> SUFFICES ASSUME Shape PROVE TypeOK OBVIOUS
  <2>0. Blocks = Cidr /\ Gateways \subseteq Addr
    BY GatewaysAreAddresses DEF Blocks
  <2>1. vpc \in [Vpc -> [life : Life, cidr : Cidr]]
    BY <2>0 DEF Shape, TablesType, VpcRows
  <2>2. subnet \in [Subnet -> [life : Life, vpc : Vpc \cup {NoVpc}, cidr : Cidr, gateway : Addr]]
    BY <2>0 DEF Shape, TablesType, SubnetRows
  <2>3. req \in [Req -> Fields] BY DEF Shape, RequestType, Request
  <2>4. PCs = {"idle", "vpcRow", "vpcRollback", "vpcBridge", "vpcDelete", "subnetRow", "network",
               "create", "plumb", "running", "error", "stop"}
    BY DEF PCs, Launching
  <2> QED BY <2>0, <2>1, <2>2, <2>3, <2>4
          DEF TypeOK, Shape, TablesType, RestType, FaultsType, InstRows, Status, Fields
<1> QED BY <1>1, AddressesCorrect, PTL

(***************************************************************************)
(* Bridges.                                                                *)
(***************************************************************************)
Owned(v) == VpcLive(v) \/ \E r \in Req : req[r].v = v /\ req[r].pc \in Creating

BridgeInv ==
  /\ \A v \in bridge \ leaked : Owned(v)
  /\ \A r \in Req : req[r].pc = "vpcDelete" => req[r].v \notin bridge

(* What beginning, moving on and returning leave of the requests.           *)
LEMMA RequestEdits ==
  ASSUME RequestType, NEW r \in Req, NEW p, NEW q
  PROVE  /\ Goto(r, p) \/ Return(r) \/ Start(r, q) => \A s \in Req : s # r => req'[s] = req[s]
         /\ Goto(r, p) => req'[r].pc = p /\ req'[r].v = req[r].v
         /\ Return(r) => req'[r].pc = "idle"
         /\ Start(r, q) => req[r].pc = "idle" /\ req'[r] = q
<1>1. PICK x \in Fields : x = req[r] BY RequestFields
<1>2. req \in [Req -> Request] BY DEF RequestType
<1>3. Goto(r, p) => req'[r] = [x EXCEPT !.pc = p] BY <1>1, <1>2 DEF Goto
<1>4. Goto(r, p) => req'[r].pc = p /\ req'[r].v = req[r].v BY <1>1, <1>3 DEF Fields
<1>5. Return(r) => req'[r] = Idle BY <1>2 DEF Return
<1>6. Start(r, q) => req[r].pc = "idle" /\ req'[r] = q BY <1>2 DEF Start
<1>7. Goto(r, p) \/ Return(r) \/ Start(r, q) => \A s \in Req : s # r => req'[s] = req[s]
  BY <1>2 DEF Goto, Return, Start
<1> QED BY <1>4, <1>5, <1>6, <1>7 DEF Idle

(* The steps of the other services leave VPCs and bridges alone, and none   *)
(* of them begins or ends the creation or the deletion of a VPC.            *)
VpcFrame ==
  /\ UNCHANGED <<vpc, bridge, leaked>>
  /\ \A s \in Req : \/ req'[s] = req[s]
                    \/ req[s].pc \notin Creating /\ req'[s].pc # "vpcDelete"

LEMMA OtherServices ==
  ASSUME Shape,
         Subnets \/ (\E r \in Req : Instances(r)) \/ (\E i \in Inst : Terminate(i))
  PROVE  VpcFrame
<1>0. RequestType BY DEF Shape
<1>e. ASSUME NEW r \in Req, UNCHANGED <<vpc, bridge, leaked>>, NEW p, NEW q,
             \/ Goto(r, p) /\ p # "vpcDelete" /\ req[r].pc \notin Creating
             \/ Return(r) /\ req[r].pc \notin Creating
             \/ Start(r, q) /\ q.pc # "vpcDelete"
      PROVE  VpcFrame
  BY <1>0, <1>e, RequestEdits DEF VpcFrame, Creating
<1>1. ASSUME NEW r \in Req, CreateSubnet(r) PROVE VpcFrame
  <2>1. PICK q : Start(r, q) /\ q.pc # "vpcDelete" /\ UNCHANGED <<vpc, bridge, leaked>>
    BY <1>1 DEF CreateSubnet, Idle, tables
  <2> QED BY <1>e, <2>1
<1>2. ASSUME NEW r \in Req, CreateSubnetRow(r) PROVE VpcFrame
  BY <1>e, <1>2 DEF CreateSubnetRow, Creating
<1>3. ASSUME NEW s \in Subnet, DeleteSubnet(s) PROVE VpcFrame
  BY <1>3 DEF DeleteSubnet, VpcFrame
<1>4. ASSUME NEW r \in Req, Instances(r) PROVE VpcFrame
  <2>1. CASE LaunchRow(r)
    <3>1. PICK q : Start(r, q) /\ q.pc # "vpcDelete" /\ UNCHANGED <<vpc, bridge, leaked>>
      BY <2>1 DEF LaunchRow, Idle
    <3> QED BY <1>e, <3>1
  <2>2. CASE LaunchNetwork(r)
    <3>1. UNCHANGED <<vpc, bridge, leaked>> /\ req[r].pc = "network"
      BY <2>2 DEF LaunchNetwork, tables
    <3>2. CASE Goto(r, "create") \/ Return(r) BY <1>e, <3>1, <3>2 DEF Creating
    <3>3. CASE \E ip : req' = [req EXCEPT ![r].ip = ip, ![r].pc = "create"]
      <4>1. PICK ip : req' = [req EXCEPT ![r].ip = ip, ![r].pc = "create"] BY <3>3
      <4>2. \A s \in Req : s # r => req'[s] = req[s] BY <1>0, <4>1 DEF RequestType
      <4>3. PICK x \in Fields : x = req[r] BY <1>0, RequestFields
      <4>4. req'[r].pc = "create" BY <1>0, <4>1, <4>3 DEF RequestType, Fields
      <4> QED BY <3>1, <4>2, <4>4 DEF VpcFrame, Creating
    <3> QED BY <2>2, <3>2, <3>3, Zenon DEF LaunchNetwork
  <2>3. CASE LaunchCreate(r)
    <3>1. UNCHANGED <<vpc, bridge, leaked>> /\ req[r].pc = "create"
      BY <2>3 DEF LaunchCreate, tables
    <3>2. PICK p : p # "vpcDelete" /\ (Goto(r, p) \/ Return(r))
      BY <2>3 DEF LaunchCreate
    <3> QED BY <1>e, <3>1, <3>2 DEF Creating
  <2>4. CASE LaunchPlumb(r)
    <3>1. UNCHANGED <<vpc, bridge, leaked>> /\ req[r].pc = "plumb"
      BY <2>4 DEF LaunchPlumb, tables
    <3>2. Goto(r, "running") \/ Return(r) BY <2>4 DEF LaunchPlumb
    <3> QED BY <1>e, <3>1, <3>2 DEF Creating
  <2>5. CASE LaunchUpdate(r) BY <1>e, <2>5 DEF LaunchUpdate, Creating
  <2>6. CASE StopGet(r)
    <3>1. PICK q : Start(r, q) /\ q.pc # "vpcDelete" /\ UNCHANGED <<vpc, bridge, leaked>>
      BY <2>6 DEF StopGet, Idle, tables
    <3> QED BY <1>e, <3>1
  <2>7. CASE StopMark(r) BY <1>e, <2>7 DEF StopMark, Creating
  <2> QED BY <1>4, <2>1, <2>2, <2>3, <2>4, <2>5, <2>6, <2>7 DEF Instances
<1>5. ASSUME NEW i \in Inst, Terminate(i) PROVE VpcFrame
  BY <1>5 DEF Terminate, VpcFrame
<1> QED BY <1>1, <1>2, <1>3, <1>4, <1>5 DEF Subnets

(* A bridge outlives the request that made it only as the bridge of a VPC   *)
(* of the table, or as one recorded as left over; and DeleteVPC removes the *)
(* bridge before the row.                                                   *)
LEMMA BridgeStep ==
  ASSUME Shape, BridgeInv, [Next]_vars
  PROVE  BridgeInv'
<1>0. RequestType /\ vpc \in [Vpc -> VpcRows] /\ bridge \subseteq Vpc
  BY DEF Shape, TablesType, RestType
<1>f. ASSUME VpcFrame PROVE BridgeInv'
  <2>1. ASSUME NEW v \in bridge \ leaked PROVE Owned(v)'
    <3>1. Owned(v) BY DEF BridgeInv
    <3> QED BY <1>f, <3>1 DEF VpcFrame, Owned, VpcLive
  <2>2. ASSUME NEW s \in Req, req'[s].pc = "vpcDelete" PROVE req'[s].v \notin bridge
    BY <1>f, <2>2 DEF VpcFrame, BridgeInv
  <2> QED BY <1>f, <2>1, <2>2 DEF VpcFrame, BridgeInv
<1>1. ASSUME NEW r \in Req, CreateVpc(r) PROVE BridgeInv'
  <2>1. CASE UNCHANGED <<bridge, req>>
    BY <1>f, <1>1, <2>1 DEF CreateVpc, VpcFrame, tables
  <2>2. CASE ~UNCHANGED <<bridge, req>>
    <3>1. PICK v \in Vpc, net \in VpcCidrs :
            /\ \A q \in Req : req[q].v # v
            /\ bridge' = bridge \cup {v} /\ UNCHANGED <<vpc, leaked>>
            /\ Start(r, [Idle EXCEPT !.pc = "vpcRow", !.v = v, !.cidr = net])
      BY <1>1, <2>2 DEF CreateVpc, CreateBridge, tables
    <3>2. PICK q : q = [Idle EXCEPT !.pc = "vpcRow", !.v = v, !.cidr = net] OBVIOUS
    <3>3. q.pc = "vpcRow" /\ q.v = v BY <3>2 DEF Idle
    <3>4. req[r].pc = "idle" /\ req'[r] = q /\ \A s \in Req : s # r => req'[s] = req[s]
      BY <1>0, <3>1, <3>2, RequestEdits
    <3>5. ASSUME NEW u \in bridge' \ leaked' PROVE Owned(u)'
      <4>1. CASE u = v BY <3>3, <3>4, <4>1 DEF Owned, Creating
      <4>2. CASE u # v
        <5>1. Owned(u) BY <3>1, <4>2 DEF BridgeInv
        <5> QED BY <3>1, <3>4, <5>1 DEF Owned, VpcLive, Creating
      <4> QED BY <4>1, <4>2
    <3>6. ASSUME NEW s \in Req, req'[s].pc = "vpcDelete" PROVE req'[s].v \notin bridge'
      BY <3>1, <3>3, <3>4, <3>6 DEF BridgeInv
    <3> QED BY <3>5, <3>6 DEF BridgeInv
  <2> QED BY <2>1, <2>2
<1>2. ASSUME NEW r \in Req, CreateVpcRow(r) PROVE BridgeInv'
  <2>0. req[r].pc = "vpcRow" /\ req[r].v \in Vpc /\ UNCHANGED <<bridge, leaked>>
    BY <1>0, <1>2, RequestFields DEF CreateVpcRow, Creating
  <2>1. CASE vpc' = [vpc EXCEPT ![req[r].v] = [life |-> "live", cidr |-> req[r].cidr]] /\ Return(r)
    <3>1. vpc'[req[r].v].life = "live" /\ \A u \in Vpc : u # req[r].v => vpc'[u] = vpc[u]
      BY <1>0, <2>0, <2>1
    <3>2. req'[r].pc = "idle" /\ \A s \in Req : s # r => req'[s] = req[s]
      BY <1>0, <2>1, RequestEdits
    <3>3. ASSUME NEW u \in bridge \ leaked PROVE Owned(u)'
      <4>1. Owned(u) /\ u \in Vpc BY <1>0 DEF BridgeInv
      <4>2. CASE u = req[r].v BY <3>1, <4>2 DEF Owned, VpcLive
      <4>3. CASE u # req[r].v BY <3>1, <3>2, <4>1, <4>3 DEF Owned, VpcLive
      <4> QED BY <4>2, <4>3
    <3> QED BY <2>0, <3>2, <3>3 DEF BridgeInv
  <2>2. CASE UNCHANGED vpc /\ Goto(r, "vpcRollback")
    <3>1. /\ req'[r].pc = "vpcRollback" /\ req'[r].v = req[r].v
          /\ \A s \in Req : s # r => req'[s] = req[s]
      BY <1>0, <2>2, RequestEdits
    <3>2. ASSUME NEW u \in bridge \ leaked PROVE Owned(u)'
      <4>1. Owned(u) BY DEF BridgeInv
      <4> QED BY <2>2, <3>1, <4>1 DEF Owned, VpcLive, Creating
    <3> QED BY <2>0, <3>1, <3>2 DEF BridgeInv
  <2> QED BY <1>2, <2>1, <2>2 DEF CreateVpcRow
<1>3. ASSUME NEW r \in Req, CreateVpcRollback(r) \/ Crash(r) PROVE BridgeInv'
  <2>1. UNCHANGED vpc /\ Return(r) BY <1>3 DEF CreateVpcRollback, Crash, tables
  <2>2. req'[r].pc = "idle" /\ \A s \in Req : s # r => req'[s] = req[s]
    BY <1>0, <2>1, RequestEdits
  <2>3. /\ bridge' \subseteq bridge /\ leaked \subseteq leaked'
        /\ req[r].pc \in Creating => req[r].v \notin bridge' \ leaked'
    BY <1>3 DEF CreateVpcRollback, Crash, DeleteBridge, Creating
  <2>4. ASSUME NEW u \in bridge' \ leaked' PROVE Owned(u)'
    <3>1. Owned(u) BY <2>3 DEF BridgeInv
    <3> QED BY <2>1, <2>2, <2>3, <3>1 DEF Owned, VpcLive
  <2> QED BY <2>2, <2>3, <2>4 DEF BridgeInv
<1>4. ASSUME NEW r \in Req, DeleteVpc(r) PROVE BridgeInv'
  <2>1. PICK q : Start(r, q) /\ q.pc # "vpcDelete" /\ UNCHANGED <<vpc, bridge, leaked>>
    BY <1>4 DEF DeleteVpc, Idle, tables
  <2> QED BY <1>0, <1>f, <2>1, RequestEdits DEF VpcFrame, Creating
<1>5. ASSUME NEW r \in Req, DeleteVpcBridge(r) PROVE BridgeInv'
  <2>0. req[r].pc = "vpcBridge" /\ UNCHANGED <<vpc, leaked>>
    BY <1>5 DEF DeleteVpcBridge, tables
  <2>1. CASE UNCHANGED bridge /\ Return(r)
    BY <1>0, <1>f, <2>0, <2>1, RequestEdits DEF VpcFrame, Creating
  <2>2. CASE DeleteBridge(req[r].v) /\ Goto(r, "vpcDelete")
    <3>1. /\ req'[r].pc = "vpcDelete" /\ req'[r].v = req[r].v
          /\ \A s \in Req : s # r => req'[s] = req[s]
      BY <1>0, <2>2, RequestEdits
    <3>2. ASSUME NEW u \in bridge' \ leaked' PROVE Owned(u)'
      <4>1. Owned(u) BY <2>0, <2>2 DEF BridgeInv, DeleteBridge
      <4> QED BY <2>0, <3>1, <4>1 DEF Owned, VpcLive, Creating
    <3> QED BY <2>2, <3>1, <3>2 DEF BridgeInv, DeleteBridge
  <2> QED BY <1>5, <2>1, <2>2 DEF DeleteVpcBridge
<1>6. ASSUME NEW r \in Req, DeleteVpcRow(r) PROVE BridgeInv'
  <2>1. req[r].pc = "vpcDelete" /\ Return(r) /\ UNCHANGED <<bridge, leaked>>
    BY <1>6 DEF DeleteVpcRow
  <2>2. req'[r].pc = "idle" /\ \A s \in Req : s # r => req'[s] = req[s]
    BY <1>0, <2>1, RequestEdits
  <2>3. \A u \in Vpc : u # req[r].v => vpc'[u] = vpc[u]
    BY <1>0, <1>6 DEF DeleteVpcRow
  <2>4. ASSUME NEW u \in bridge \ leaked PROVE Owned(u)'
    <3>1. Owned(u) /\ u \in Vpc /\ u # req[r].v BY <1>0, <2>1 DEF BridgeInv
    <3> QED BY <2>1, <2>2, <2>3, <3>1 DEF Owned, VpcLive, Creating
  <2> QED BY <2>1, <2>2, <2>4 DEF BridgeInv
<1>7. CASE UNCHANGED vars BY <1>f, <1>7 DEF vars, tables, VpcFrame
<1>8. CASE Next
  <2>1. ASSUME NEW r \in Req, Vpcs(r) \/ Crash(r) PROVE BridgeInv'
    BY <1>1, <1>2, <1>3, <1>4, <1>5, <1>6, <2>1 DEF Vpcs
  <2>2. CASE Subnets \/ (\E r \in Req : Instances(r)) \/ (\E i \in Inst : Terminate(i))
    BY <1>f, <2>2, OtherServices
  <2> QED BY <1>8, <2>1, <2>2 DEF Next
<1> QED BY <1>7, <1>8

(* CreateVPC makes the bridge before the row, and DeleteVPC removes it      *)
(* before the row: however requests interleave, and whatever fails, a       *)
(* bridge is that of a VPC of the table, that of a request in progress, or  *)
(* one that a crash or a refused rollback left over.                        *)
THEOREM BridgesOwned == Spec => []NoOrphanBridge
<1>1. Init => BridgeInv BY DEF Init, BridgeInv, Idle
<1>2. Shape /\ AddressInv /\ BridgeInv /\ [Next]_vars => BridgeInv' BY BridgeStep
<1>3. BridgeInv => NoOrphanBridge BY DEF BridgeInv, NoOrphanBridge, Owned, Creating
<1> QED BY <1>1, <1>2, <1>3, AddressesCorrect, PTL DEF Spec

=============================================================================
