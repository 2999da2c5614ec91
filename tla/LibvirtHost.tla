----------------------------- MODULE LibvirtHost ----------------------------
(***************************************************************************)
(* Networks, volumes and load-balancer proxies of the libvirt backend.     *)
(***************************************************************************)
EXTENDS Integers, Sequences, FiniteSets

CONSTANTS Net, Disk, Target,
          FirstCounter,   \* numbers of networks made, and deleted, before
          LastCounter,    \* bound: no network is made at these counts
          MaxFaults

VARIABLES
  nets,       \* libvirt's networks: state, number of the range, life of the process that took it
  counter,    \* LibvirtAdapter.networkCounter
  life,       \* how often the process has started
  lvol,       \* content of each volume of the default pool
  blob,       \* the archive of each volume's snapshot
  qtmp,       \* the temporary image of each volume's snapshot
  lsnap,      \* CreateVolumeSnapshot of each volume
  addr,       \* targets whose address is known
  conf,       \* nginx.conf: the targets it lists, or NoConf
  nginx,      \* the configuration nginx runs with, or NoConf
  faults,
  hurt        \* history: what a failure or a restart left behind

NoConf == {"no file"}
vars == <<nets, counter, life, lvol, blob, qtmp, lsnap, addr, conf, nginx, faults, hurt>>
netVars == <<nets, counter>>
volVars == <<lvol, blob, qtmp, lsnap>>
lbVars  == <<addr, conf, nginx>>

NoNet == [st |-> "none", range |-> 0, life |-> 0]

(* Networks, volumes, files and proxies are well typed. *)
TypeOK ==
  /\ \A n \in Net : nets[n].st \in {"none", "range", "defined", "active"} /\ nets[n].range \in Nat
  /\ life \in 0..MaxFaults
  /\ lvol \in [Disk -> {"none", "empty", "data", "broken"}] /\ {blob, qtmp} \subseteq [Disk -> {"none", "empty", "data", "broken", "part"}]
  /\ lsnap \in [Disk -> {"none", "tar"}]
  /\ addr \subseteq Target /\ (conf = NoConf \/ conf \subseteq Target) /\ (nginx = NoConf \/ nginx \subseteq Target)

Init ==
  /\ nets = [n \in Net |-> NoNet] /\ counter \in FirstCounter /\ life = 0
  /\ lvol = [d \in Disk |-> "none"] /\ blob = [d \in Disk |-> "none"] /\ qtmp = blob /\ lsnap = [d \in Disk |-> "none"]
  /\ addr \in SUBSET Target /\ conf = NoConf /\ nginx = NoConf /\ faults = 0 /\ hurt = {}

Fault == faults < MaxFaults /\ faults' = faults + 1
Ok    == UNCHANGED faults

-----------------------------------------------------------------------------
PoolStart == <<192, 168, 100, 0>>

(* Faulty variant: the carry of a full byte is lost. *)
BaseIPNoCarry(k) == [PoolStart EXCEPT ![3] = (@ + k) % 256]

(* getNextNetworkRange: counter * 256 added to the pool's first address, byte *)
(* by byte from the last with the carry; the end of the pool is not looked at. *)
BaseIP(k) ==
  LET carry[i \in 0..4] == IF i = 4 THEN k * 256 ELSE (PoolStart[i + 1] + carry[i + 1]) \div 256
  IN [i \in 1..4 |-> (PoolStart[i] + carry[i]) % 256]

(* CreateNetwork, the range: the next one of this process. *)
GetNextNetworkRange(n) ==
  /\ nets[n].st = "none" /\ counter \notin LastCounter
  /\ nets' = [nets EXCEPT ![n] = [st |-> "range", range |-> counter, life |-> life]]
  /\ counter' = counter + 1
  /\ UNCHANGED <<life, volVars, lbVars, faults, hurt>>

(* CreateNetwork: define and start; one that does not start stays defined. *)
CreateNetwork(n) ==
  /\ nets[n].st = "range"
  /\ \/ Ok /\ nets' = [nets EXCEPT ![n].st = "active"] /\ UNCHANGED hurt
     \/ Fault /\ nets' = [nets EXCEPT ![n] = NoNet] /\ UNCHANGED hurt
     \/ Fault /\ nets' = [nets EXCEPT ![n].st = "defined"] /\ hurt' = hurt \cup {n}
  /\ UNCHANGED <<counter, life, volVars, lbVars>>

(* DeleteNetwork: a failed destroy is logged, a failed undefine returned. *)
DeleteNetwork(n) ==
  /\ nets[n].st \in {"active", "defined"}
  /\ \/ Ok /\ nets' = [nets EXCEPT ![n] = NoNet] /\ UNCHANGED hurt
     \/ Fault /\ nets' \in {[nets EXCEPT ![n] = NoNet], [nets EXCEPT ![n].st = "defined"]} /\ hurt' = hurt \cup {n}
  /\ UNCHANGED <<counter, life, volVars, lbVars>>

-----------------------------------------------------------------------------
CreateVolume(d) ==
  /\ lvol[d] = "none" /\ lvol' = [lvol EXCEPT ![d] = "empty"]
  /\ UNCHANGED <<netVars, life, blob, qtmp, lsnap, lbVars, faults, hurt>>
WriteVolume(d) ==
  /\ lvol[d] \in {"empty", "broken"} /\ lvol' = [lvol EXCEPT ![d] = "data"]
  /\ UNCHANGED <<netVars, life, blob, qtmp, lsnap, lbVars, faults, hurt>>
DeleteVolume(d) ==
  /\ lvol[d] # "none"
  /\ \/ Ok /\ lvol' = [lvol EXCEPT ![d] = "none"]
     \/ Fault /\ UNCHANGED lvol
  /\ UNCHANGED <<netVars, life, blob, qtmp, lsnap, lbVars, hurt>>

(* CreateVolumeSnapshot: qemu-img writes a temporary image, whose removal is  *)
(* deferred only once it is whole; *)
ConvertImage(d) ==
  /\ lvol[d] # "none" /\ lsnap[d] = "none" /\ blob[d] = "none"
  /\ \/ Ok /\ qtmp' = [qtmp EXCEPT ![d] = lvol[d]] /\ lsnap' = [lsnap EXCEPT ![d] = "tar"] /\ UNCHANGED hurt
     \/ Fault /\ qtmp' \in {qtmp, [qtmp EXCEPT ![d] = "part"]} /\ hurt' = hurt \cup {d} /\ UNCHANGED lsnap
  /\ UNCHANGED <<netVars, life, lvol, blob, lbVars>>
(* tar packs it. *)
CreateVolumeSnapshot(d) ==
  /\ lsnap[d] = "tar" /\ lsnap' = [lsnap EXCEPT ![d] = "none"] /\ qtmp' = [qtmp EXCEPT ![d] = "none"]
  /\ \/ Ok /\ blob' = [blob EXCEPT ![d] = qtmp[d]] /\ UNCHANGED hurt
     \/ Fault /\ blob' = [blob EXCEPT ![d] = "part"] /\ hurt' = hurt \cup {d}
  /\ UNCHANGED <<netVars, life, lvol, lbVars>>

(* RestoreVolumeSnapshot: tar refuses an archive that is cut short; the      *)
(* volume is written in place.                                              *)
RestoreVolumeSnapshot(d) ==
  /\ lvol[d] # "none" /\ blob[d] \notin {"none", "part"}
  /\ \/ Ok /\ lvol' = [lvol EXCEPT ![d] = blob[d]] /\ UNCHANGED hurt
     \/ Fault /\ lvol' \in {lvol, [lvol EXCEPT ![d] = "broken"]} /\ hurt' = hurt \cup {d}
  /\ UNCHANGED <<netVars, life, blob, qtmp, lsnap, lbVars>>

-----------------------------------------------------------------------------
(* generateNginxConfig leaves out the targets without an address. *)
GenerateNginxConfig(ts) == ts \cap addr

AddressChanges(t) ==
  /\ addr' = IF t \in addr THEN addr \ {t} ELSE addr \cup {t}
  /\ UNCHANGED <<netVars, life, volVars, conf, nginx, faults, hurt>>

(* DeployProxy: the file, then nginx, which does not start twice. *)
DeployProxy(ts) ==
  /\ conf' = GenerateNginxConfig(ts)
  /\ \/ Ok /\ nginx = NoConf /\ nginx' = conf' /\ UNCHANGED hurt
     \/ (IF nginx = NoConf THEN Fault ELSE Ok) /\ UNCHANGED nginx /\ hurt' = hurt \cup {"conf"}
  /\ UNCHANGED <<netVars, life, volVars, addr>>

(* UpdateProxyConfig: the file, in a directory that must exist, and a reload. *)
UpdateProxyConfig(ts) ==
  /\ conf # NoConf /\ conf' = GenerateNginxConfig(ts)
  /\ \/ Ok /\ nginx # NoConf /\ nginx' = conf' /\ hurt' = hurt \ {"conf"}
     \/ (IF nginx # NoConf THEN Fault ELSE Ok) /\ UNCHANGED nginx /\ hurt' = hurt \cup {"conf"}
  /\ UNCHANGED <<netVars, life, volVars, addr>>

(* Faulty variant: the files go and nginx is not stopped. *)
RemoveFilesOnly ==
  /\ conf' = NoConf /\ UNCHANGED <<nginx, hurt, faults>>
  /\ UNCHANGED <<netVars, life, volVars, addr>>

(* RemoveProxy: nginx is stopped, whether or not that works, and the files go. *)
RemoveProxy ==
  /\ conf' = NoConf
  /\ \/ Ok /\ nginx' = (IF conf = NoConf THEN nginx ELSE NoConf) /\ hurt' = hurt \ (IF nginx' = NoConf THEN {"conf"} ELSE {})
     \/ Fault /\ UNCHANGED nginx /\ hurt' = hurt \cup {"conf"}
  /\ UNCHANGED <<netVars, life, volVars, addr>>

(* The counter starts again at 0; libvirt keeps its networks. *)
Restart ==
  /\ Fault /\ counter' = 0 /\ life' = life + 1
  /\ nets' = [n \in Net |-> IF nets[n].st = "range" THEN NoNet ELSE nets[n]]
  /\ hurt' = hurt \cup {d \in Disk : lsnap[d] # "none"} /\ lsnap' = [d \in Disk |-> "none"]
  /\ UNCHANGED <<lvol, blob, qtmp, lbVars>>

-----------------------------------------------------------------------------
NetStep    == \E n \in Net : GetNextNetworkRange(n) \/ CreateNetwork(n) \/ DeleteNetwork(n)
VolumeStep == \E d \in Disk : \/ CreateVolume(d) \/ WriteVolume(d) \/ DeleteVolume(d) \/ ConvertImage(d)
                              \/ CreateVolumeSnapshot(d) \/ RestoreVolumeSnapshot(d)
ProxyStep  == \/ RemoveProxy \/ \E t \in Target : AddressChanges(t)
              \/ \E ts \in SUBSET Target : DeployProxy(ts) \/ UpdateProxyConfig(ts)
Next == NetStep \/ VolumeStep \/ ProxyStep \/ Restart
Spec == Init /\ [][Next]_vars

-----------------------------------------------------------------------------
Value(ip) == (((ip[1] - PoolStart[1]) * 256 + ip[2]) * 256 + ip[3]) * 256 + ip[4]

(* Two networks that the same process made never share a range, and the n-th  *)
(* range is the pool's start plus n * 256, also when a byte overflows.  After *)
(* a restart the counter is 0 again and ranges of older networks come back.   *)
RangesApart ==
  \A n, m \in Net : nets[n].st # "none" /\ nets[m].st # "none" /\ n # m /\ nets[n].life = nets[m].life =>
    /\ BaseIP(nets[n].range) # BaseIP(nets[m].range)
    /\ Value(BaseIP(nets[n].range)) - Value(BaseIP(nets[m].range)) = 256 * (nets[n].range - nets[m].range)

(* No temporary image, half archive or half written volume is left, and       *)
(* nginx runs exactly the configuration on disk, unless a failure on record   *)
(* explains it.                                                               *)
HostTidy ==
  /\ \A d \in Disk : d \in hurt \/ (/\ qtmp[d] # "none" => lsnap[d] = "tar"
                                    /\ blob[d] # "part" /\ lvol[d] # "broken")
  /\ "conf" \in hurt \/ nginx = conf
  /\ \A n \in Net : nets[n].st = "defined" => n \in hurt
=============================================================================
