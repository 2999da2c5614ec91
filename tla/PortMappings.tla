---------------------------- MODULE PortMappings ----------------------------
(***************************************************************************)
(* The text that says which host port reaches which port of an instance    *)
(* ("8080:80,8443:443"), and the five pieces of code that each take it     *)
(* apart in their own way: InstanceService checks it, AutoScalingWorker    *)
(* rewrites it, LBWorker looks up where to connect, the Docker and the     *)
(* libvirt adapters set up the forwarding.                                 *)
(*                                                                         *)
(* A text is the sequence of its comma-separated entries, an entry the     *)
(* sequence of its colon-separated fields, which is what strings.Split     *)
(* returns for it; the empty text is << >>.  A field is empty, a number or *)
(* a word, with or without blanks around it; a number has one spelling.    *)
(***************************************************************************)
EXTENDS Integers, Sequences, FiniteSets

CONSTANTS Texts,                      \* the texts requests and scaling groups give
          MaxPortsPerInstance, MaxPort

VARIABLES given,                      \* the text the request or the group gave
          scaled,                     \* it came from a scaling group
          ports,                      \* Instance.Ports
          pstage

vars == <<given, scaled, ports, pstage>>

Empty   == [kind |-> "empty", n |-> 0, pad |-> FALSE]
Zero    == [kind |-> "num", n |-> 0, pad |-> FALSE]
MinPort == 0
Trim(f) == [f EXCEPT !.pad = FALSE]

-----------------------------------------------------------------------------
(* parsePort: strings.TrimSpace and strconv.Atoi. *)
ParsePortOK(f) == f.kind = "num"

(* parseAndValidatePorts *)
ParseAndValidatePorts(text) ==
  /\ Len(text) <= MaxPortsPerInstance
  /\ \A k \in DOMAIN text :
       /\ Len(text[k]) = 2
       /\ \A j \in 1..2 : ParsePortOK(text[k][j]) /\ text[k][j].n \in MinPort..MaxPort

(* Faulty variant: the wrong part is kept. *)
ToDynamicHosts(text) ==
  [k \in DOMAIN text |-> IF Len(text[k]) = 2 THEN <<Zero, text[k][1]>> ELSE text[k]]

(* toDynamicPorts *)
ToDynamicPorts(text) ==
  [k \in DOMAIN text |-> IF Len(text[k]) = 2 THEN <<Zero, text[k][2]>> ELSE text[k]]

(* splitColons and splitCommas: unlike strings.Split, no empty last part. *)
SplitColons(entry) ==
  IF entry # << >> /\ entry[Len(entry)] = Empty THEN SubSeq(entry, 1, Len(entry) - 1) ELSE entry

SplitCommas(text) ==
  IF text # << >> /\ text[Len(text)] = <<Empty>> THEN SubSeq(text, 1, Len(text) - 1) ELSE text

(* Of the entries ks with one key, the last sets it in a Go map. *)
LastOf(ks) == CHOOSE k \in ks : \A j \in ks : j <= k

(* parsePorts: Sscanf skips blanks before what it reads, and leaves 0 or "" *)
(* where there is nothing to read; a later entry of a host port replaces it. *)
ParsePorts(text) ==
  LET part == [k \in DOMAIN SplitCommas(text) |-> SplitColons(text[k])]
      pair == {k \in DOMAIN part : Len(part[k]) = 2}
  IN  [h \in {Trim(part[k][1]) : k \in pair} |->
         LET c == part[LastOf({k \in pair : Trim(part[k][1]) = h})][2]
         IN  IF c.kind = "num" THEN c.n ELSE 0]

(* checkLBHealth: the host ports it may connect to, a map's order being random. *)
CheckLBHealth(text, port) ==
  LET mappings == ParsePorts(text) IN {h \in DOMAIN mappings : mappings[h] = port}

(* DockerAdapter.CreateInstance: PortBindings, by the text of the container port. *)
PortBindings(text) ==
  LET pair == {k \in DOMAIN text : Len(text[k]) = 2}
  IN  [c \in {text[k][2] : k \in pair} |-> text[LastOf({k \in pair : text[k][2] = c})][1]]

(* LibvirtAdapter.parseAndValidatePort, for setupPortForwarding: the host   *)
(* ports it may forward from (none when it skips the entry) to c.           *)
Forwarded(entry) ==
  LET h == IF Len(entry) = 2 THEN entry[1] ELSE Zero
      c == entry[Len(entry)]
  IN  IF Len(entry) > 2 \/ h.kind # "num" \/ c.kind # "num" THEN [from |-> {}, to |-> 0]
      ELSE [from |-> IF h = Zero THEN 30000..30001 ELSE {h.n} \ {0}, to |-> c.n]

-----------------------------------------------------------------------------
(* The texts and the stage are well typed. *)
TypeOK ==
  /\ given \in Texts \cup {<< >>} /\ scaled \in BOOLEAN
  /\ pstage \in {"none", "given", "running", "refused"}
  /\ ports \in {<< >>, given, ToDynamicPorts(given)}

Init == given = << >> /\ scaled = FALSE /\ ports = << >> /\ pstage = "none"

(* LaunchInstance for a request (a deployment's replicas included), or      *)
(* scaleOut for a group, whose text was never looked at before.             *)
Give(text, group) ==
  /\ pstage = "none"
  /\ given' = text /\ scaled' = group /\ pstage' = "given"
  /\ ports' = IF group THEN ToDynamicPorts(text) ELSE text

(* LaunchInstance: refused, or a row with the text as it came. *)
LaunchInstance ==
  /\ pstage = "given"
  /\ pstage' = IF ParseAndValidatePorts(ports) THEN "running" ELSE "refused"
  /\ UNCHANGED <<given, scaled, ports>>

Next == LaunchInstance \/ \E text \in Texts, group \in BOOLEAN : Give(text, group)
Spec == Init /\ [][Next]_vars

-----------------------------------------------------------------------------
HostOf(k)      == ports[k][1]
ContainerOf(k) == ports[k][2].n
Distinct(K(_)) == \A j, k \in DOMAIN ports : K(j) = K(k) => j = k

(* What the checker of the text accepted, the other readers understand, and *)
(* they agree: libvirt skips no entry and forwards to the same port; when   *)
(* no port is given twice, Docker binds every entry as it was given, and    *)
(* the health check of a target connects to the very host port that is      *)
(* bound to the target's port.                                              *)
ReadersAgree ==
  pstage = "running" =>
    /\ \A k \in DOMAIN ports :
         /\ Forwarded(ports[k]).to = ContainerOf(k)
         /\ Forwarded(ports[k]).from = {} => HostOf(k).pad /\ HostOf(k).n = 0
    /\ Distinct(ContainerOf) =>
         /\ \A k \in DOMAIN ports : PortBindings(ports)[ports[k][2]] = HostOf(k)
         /\ Cardinality(DOMAIN PortBindings(ports)) = Len(ports)
    /\ Distinct(LAMBDA k : Trim(HostOf(k))) /\ Distinct(ContainerOf) =>
         \A k \in DOMAIN ports : CheckLBHealth(ports, ContainerOf(k)) = {Trim(HostOf(k))}

(* A group whose text an instance of its own would be accepted with is not  *)
(* kept from scaling by the rewriting of the text: an instance it launches  *)
(* is accepted, and exposes the same ports.                                 *)
ScalingKeepsPorts ==
  scaled /\ pstage \in {"running", "refused"} /\ ParseAndValidatePorts(given) =>
    /\ pstage = "running"
    /\ {ContainerOf(k) : k \in DOMAIN ports} = {given[k][2].n : k \in DOMAIN given}
=============================================================================
