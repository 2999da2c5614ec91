----------------------------- MODULE MCServices -----------------------------
(* A small instance of Services: for each service the fewest rows, requests *)
(* and goroutines with which its races happen.                              *)
EXTENDS Services, Sequences

CONSTANTS c1, c2, d1, j1, v1, v2, s1, s2, x1, y1, f1, i1, i2, t1, t2, m1, g1,
          k1, n1, n2, e1, p1, p2, q1, q2, r1, r2, w1, w2

(* Deployments, Cron *)
MCBox      == 1..4
MCReplicas == {1, 2}
MCSlot     == 1..2

(* Stacks *)
MCRes       == {"vpc", "vol", "inst", "snap"}
MCType      == [r \in MCRes |-> CASE r = "vpc" -> "VPC" [] r = "vol" -> "Volume"
                                  [] r = "inst" -> "Instance" [] OTHER -> "Snapshot"]
MCRef       == [r \in MCRes |-> CASE r = "inst" -> "vpc" [] r = "snap" -> "vol" [] OTHER -> NoRes]
MCTemplates == {MCRes, {"vpc", "inst"}, {"snap"}}

(* Notify: two topics of one name, two subscriptions of one endpoint *)
MCName     == [t \in Topic |-> "n"]
MCEndpoint == [s \in Sub |-> "e"]

(* SecurityGroups *)
MCRule   == {1, 3}
MCRuleOf == [r \in MCRule |-> [proto |-> "tcp", dir |-> "ingress", cidr |-> "any",
                               min |-> r, max |-> r, priority |-> 100]]

(* Gateway: one route twice, one within another and with an unusable target *)
MCRoute  == {"a", "b", "x"}
MCPrefix == [r \in MCRoute |-> IF r = "b" THEN <<1, 2>> ELSE <<1>>]
MCPaths  == {<<1, 2>>, <<1>>, <<3>>}
MCBad    == {"b"}

(* ObjectStorage, LibvirtHost *)
MCUpload == 1..3
MCSize   == [u \in MCUpload |-> IF u = 1 THEN 2 ELSE 1]
MCFirst  == {0, 155}
MCLast   == {2, 157}

(* Secrets: two of one user with one name; QueueCatalog: two of one name *)
MCSecret == {1, 2}
MCOwner  == [s \in MCSecret |-> "u"]
MCNameOf == [s \in MCSecret |-> "n"]
MCPlain  == [s \in MCSecret |-> IF s = 1 THEN "first" ELSE "second"]
MCQMsg   == {2}
MCQName  == [q \in Queue |-> "n"]
MCLimit  == [q \in {q2} |-> 1]
MCQSize  == [m \in MCQMsg |-> m]

(* ApiKeys, Dashboard, Roles, Server *)
MCApiKey == 1..3
MCLimits == {0, 3}
MCPerm   == {"p", "q"}
MCLists  == {<< >>, <<"p", "q">>, <<"p", "p">>}
MCNeeds  == <<{}, {1}, {1}, {2, 3}>>

(* RateLimiter *)
MCAddress   == {1, 2}
MCHit       == 1..3
MCAddressOf == [r \in MCHit |-> IF r <= 2 THEN 1 ELSE 2]

(* PortMappings: every pair of entries, and too many entries *)
Num(k, p)  == [kind |-> "num", n |-> k, pad |-> p]
Word       == [kind |-> "word", n |-> 0, pad |-> FALSE]
Blank      == [kind |-> "empty", n |-> 0, pad |-> FALSE]
MCHosts    == {Word, Num(0, FALSE), Num(80, FALSE), Num(81, TRUE), Num(70000, FALSE)}
MCPorts    == {Blank, Num(80, FALSE), Num(443, TRUE)}
MCEntries  == (MCHosts \X MCPorts) \cup {<<Blank>>, <<Num(80, FALSE)>>}
MCTexts    == {<< >>} \cup {<<a>> : a \in MCHosts \X MCPorts} \cup {<<a, b>> : a, b \in MCEntries}
                \cup {[k \in 1..3 |-> <<Num(k, FALSE), Num(k, FALSE)>>]}
=============================================================================
