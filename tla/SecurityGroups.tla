--------------------------- MODULE SecurityGroups ---------------------------
(***************************************************************************)
(* Security groups: SecurityGroupService, its repository and the flows     *)
(* that OvsAdapter adds to the bridge of the VPC.  Flows are added from    *)
(* the group as the request read it; nothing removes them but the bridge's *)
(* end.                                                                    *)
(***************************************************************************)
EXTENDS Integers, FiniteSets

CONSTANTS Group, Rule, Inst, Client, NoGroup, NoRule, NoInst,
          RuleOf,     \* Rule -> what a request says: protocol, direction, cidr, ports, priority
          MaxFaults

VARIABLES
  bridge,   \* whether the VPC and its bridge exist
  group,    \* security_groups
  rules,    \* security_rules: the group of each
  attached, \* instance_security_groups
  insts,    \* instances
  flows,    \* flows of the bridge
  greq,     \* requests
  faults,
  synced    \* history: the rules whose group was completely synchronised

vars == <<bridge, group, rules, attached, insts, flows, greq, faults, synced>>

NoReq == [pc |-> "none", g |-> NoGroup, r |-> NoRule, i |-> NoInst, seen |-> {}, left |-> {}]

(* Rows and requests are well typed. *)
TypeOK ==
  /\ bridge \in BOOLEAN /\ group \in [Group -> {"none", "live", "deleted"}]
  /\ rules \in [Rule -> Group \cup {NoGroup}] /\ attached \subseteq Inst \X Group /\ insts \subseteq Inst
  /\ greq \in [Client -> [pc : {"none", "insert", "vpc", "sync", "attach", "get"}, g : Group \cup {NoGroup},
                          r : Rule \cup {NoRule}, i : Inst \cup {NoInst}, seen : SUBSET Rule, left : SUBSET Rule]]

Init ==
  /\ bridge = TRUE /\ group = [g \in Group |-> "none"] /\ rules = [r \in Rule |-> NoGroup]
  /\ attached = {} /\ insts = Inst /\ flows = {} /\ greq = [c \in Client |-> NoReq]
  /\ faults = 0 /\ synced = {}

Fault   == faults < MaxFaults /\ faults' = faults + 1
NoFault == UNCHANGED faults
FailsIf(cond) == (cond /\ NoFault) \/ Fault
Live(g) == group[g] = "live"
GetRulesForGroup(g) == {r \in Rule : rules[r] = g}
End(c) == greq' = [greq EXCEPT ![c] = NoReq]

(* translateToFlow.  A range of ports becomes its first port, and a single    *)
(* port counts only for TCP and UDP.                                        *)
MatchPort(r) == IF r.min > 0 /\ (r.max > r.min \/ (r.max = r.min /\ r.proto \in {"tcp", "udp"})) THEN r.min ELSE 0
TranslateToFlow(r) ==
  [priority |-> r.priority,
   proto    |-> IF r.proto \in {"tcp", "udp", "icmp"} THEN r.proto ELSE "any",
   src      |-> IF r.dir = "ingress" THEN r.cidr ELSE "any",
   dst      |-> IF r.dir = "ingress" THEN "any" ELSE r.cidr,
   port     |-> MatchPort(r)]
FlowOf(r) == TranslateToFlow(RuleOf[r])

-----------------------------------------------------------------------------
(* CreateGroup, DeleteGroup: the rules and attachments go with the row, the  *)
(* flows stay.                                                              *)
CreateGroup(g) ==
  /\ group[g] = "none" /\ bridge
  /\ group' = [group EXCEPT ![g] = "live"]
  /\ UNCHANGED <<bridge, rules, attached, insts, flows, greq, faults, synced>>

Drop(G) == /\ group' = [g \in Group |-> IF g \in G THEN "deleted" ELSE group[g]]
           /\ rules' = [r \in Rule |-> IF rules[r] \in G THEN NoGroup ELSE rules[r]]
           /\ attached' = {a \in attached : a[2] \notin G}
           /\ synced' = {r \in synced : rules[r] \notin G}

DeleteGroup(g) ==
  /\ Live(g) /\ Drop({g})
  /\ UNCHANGED <<bridge, insts, flows, greq, faults>>

(* AddRule: the group with its rules is read, the new rule stored, and the    *)
(* flows of the rules that were read added, one by one.                     *)
AddRuleGet(c, g, r) ==
  /\ greq[c].pc = "none" /\ Live(g) /\ rules[r] = NoGroup /\ r \notin synced
  /\ \A d \in Client : greq[d].r # r
  /\ greq' = [greq EXCEPT ![c] = [NoReq EXCEPT !.pc = "insert", !.g = g, !.r = r, !.seen = GetRulesForGroup(g)]]
  /\ UNCHANGED <<bridge, group, rules, attached, insts, flows, faults, synced>>

AddRule(c) ==
  /\ greq[c].pc = "insert"
  /\ IF Live(greq[c].g)
       THEN rules' = [rules EXCEPT ![greq[c].r] = greq[c].g] /\ greq' = [greq EXCEPT ![c].pc = "vpc"]
       ELSE UNCHANGED rules /\ End(c)
  /\ UNCHANGED <<bridge, group, attached, insts, flows, faults, synced>>

(* syncGroupFlows: the VPC, then AddFlowRule for each rule; the first failure *)
(* ends it.                                                                 *)
SyncVpc(c) ==
  /\ greq[c].pc = "vpc"
  /\ \/ bridge /\ NoFault /\ greq' = [greq EXCEPT ![c].pc = "sync", ![c].left = greq[c].seen]
     \/ FailsIf(~bridge) /\ End(c)
  /\ UNCHANGED <<bridge, group, rules, attached, insts, flows, synced>>

(* Faulty variant: a failed flow is skipped. *)
AddFlowOrSkip(c, r) ==
  /\ greq[c].pc = "sync" /\ r \in greq[c].left
  /\ \/ bridge /\ NoFault /\ flows' = flows \cup {FlowOf(r)}
     \/ FailsIf(~bridge) /\ UNCHANGED flows
  /\ greq' = [greq EXCEPT ![c].left = @ \ {r}]
  /\ UNCHANGED <<bridge, group, rules, attached, insts, synced>>

(* syncGroupFlows, one AddFlowRule: its failure ends the request. *)
AddFlowRule(c, r) ==
  /\ greq[c].pc = "sync" /\ r \in greq[c].left
  /\ \/ /\ bridge /\ NoFault
        /\ flows' = flows \cup {FlowOf(r)}
        /\ greq' = [greq EXCEPT ![c].left = @ \ {r}]
     \/ FailsIf(~bridge) /\ UNCHANGED flows /\ End(c)
  /\ UNCHANGED <<bridge, group, rules, attached, insts, synced>>

SyncEnd(c) ==
  /\ greq[c].pc = "sync" /\ greq[c].left = {}
  /\ synced' = IF bridge THEN synced \cup {r \in greq[c].seen : rules[r] = greq[c].g} ELSE synced
  /\ End(c)
  /\ UNCHANGED <<bridge, group, rules, attached, insts, flows, faults>>

-----------------------------------------------------------------------------
(* AttachToInstance: in one transaction, with the existence of both checked;  *)
(* then the group is read and its flows added.  DetachFromInstance removes    *)
(* no flow.                                                                 *)
AttachToInstance(c, i, g) ==
  /\ greq[c].pc = "none" /\ i \in insts /\ Live(g)
  /\ attached' = attached \cup {<<i, g>>}
  /\ greq' = [greq EXCEPT ![c] = [NoReq EXCEPT !.pc = "get", !.g = g, !.i = i]]
  /\ UNCHANGED <<bridge, group, rules, insts, flows, faults, synced>>

AttachGet(c) ==
  /\ greq[c].pc = "get"
  /\ \/ NoFault /\ Live(greq[c].g) /\ greq' = [greq EXCEPT ![c].pc = "vpc", ![c].seen = GetRulesForGroup(greq[c].g)]
     \/ FailsIf(~Live(greq[c].g)) /\ End(c)
  /\ UNCHANGED <<bridge, group, rules, attached, insts, flows, synced>>

DetachFromInstance(i, g) ==
  /\ i \in insts /\ Live(g) /\ <<i, g>> \in attached
  /\ attached' = attached \ {<<i, g>>}
  /\ UNCHANGED <<bridge, group, rules, insts, flows, greq, faults, synced>>

InstanceDeleted(i) ==
  /\ i \in insts
  /\ insts' = insts \ {i} /\ attached' = {a \in attached : a[1] # i}
  /\ UNCHANGED <<bridge, group, rules, flows, greq, faults, synced>>

(* DeleteVPC: the bridge with its flows, and the groups of the VPC. *)
DeleteVPC ==
  /\ bridge /\ bridge' = FALSE /\ flows' = {} /\ Drop({g \in Group : Live(g)})
  /\ UNCHANGED <<insts, greq, faults>>

-----------------------------------------------------------------------------
SyncStep(c) == SyncVpc(c) \/ (\E r \in Rule : AddFlowRule(c, r)) \/ SyncEnd(c)
RequestStep(c) == AddRule(c) \/ AttachGet(c) \/ SyncStep(c)
ClientStep(c) == \/ \E g \in Group : CreateGroup(g) \/ DeleteGroup(g)
                 \/ \E g \in Group : \E r \in Rule : AddRuleGet(c, g, r)
                 \/ \E g \in Group : \E i \in Inst : AttachToInstance(c, i, g) \/ DetachFromInstance(i, g)

Next == (\E c \in Client : ClientStep(c) \/ RequestStep(c)) \/ (\E i \in Inst : InstanceDeleted(i)) \/ DeleteVPC
Spec == Init /\ [][Next]_vars /\ \A c \in Client : WF_vars(RequestStep(c))

-----------------------------------------------------------------------------
(* Whatever the order of requests: a synchronisation that reports success     *)
(* leaves a flow for every rule it read that is still there, and rules and    *)
(* attachments refer to groups and instances that exist.                      *)
FlowsFollow ==
  /\ \A r \in synced : rules[r] # NoGroup => FlowOf(r) \in flows
  /\ \A r \in Rule : rules[r] # NoGroup => Live(rules[r])
  /\ \A a \in attached : a[1] \in insts /\ Live(a[2])
  /\ ~bridge => flows = {} /\ \A g \in Group : ~Live(g)

(* A step adds at most one flow, that of a rule which its request read from   *)
(* the table; without the bridge it adds none.                                *)
FlowsFromRules ==
  flows' \subseteq flows \cup UNION {{FlowOf(r) : r \in greq[c].left} : c \in Client} /\ (bridge' \/ flows' = {})
=============================================================================
