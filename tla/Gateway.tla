------------------------------ MODULE Gateway -------------------------------
(***************************************************************************)
(* The API gateway: routes are rows, and requests are served from a table  *)
(* in memory that every change of the rows reloads.                        *)
(***************************************************************************)
EXTENDS Integers, FiniteSets

CONSTANTS Route, Caller, NoRoute,
          Prefix,      \* Route -> its path prefix, as a sequence of segments
          Paths,       \* the paths that are asked for
          BadTarget,   \* routes whose target URL does not parse
          MaxFaults

VARIABLES
  rows,       \* gateway_routes
  table,      \* GatewayService.proxies and .routes, replaced together
  rreq,       \* the request of each caller
  served,     \* history: the route the last proxied request was sent to
  blurred,    \* history: the table may be older than the rows
  faults

vars == <<rows, table, rreq, served, blurred, faults>>

Idle == [op |-> "idle", route |-> NoRoute, seen |-> {}, alone |-> TRUE]

(* Rows, table and requests are well typed. *)
TypeOK ==
  /\ rows \subseteq Route /\ table \subseteq Route /\ served \in Route \cup {NoRoute}
  /\ rreq \in [Caller -> [op : {"idle", "delete", "refresh", "swap"}, route : Route \cup {NoRoute},
                          seen : SUBSET Route, alone : BOOLEAN]]
  /\ blurred \in BOOLEAN /\ faults \in 0..MaxFaults

(* NewGatewayService loads the table. *)
Init ==
  /\ rows = {} /\ table = {} /\ rreq = [c \in Caller |-> Idle]
  /\ served = NoRoute /\ blurred = FALSE /\ faults = 0

Fault == faults < MaxFaults /\ faults' = faults + 1
Ok    == UNCHANGED faults
Put(c, r) == rreq' = [rreq EXCEPT ![c] = r]
Swapping(c) == {d \in Caller \ {c} : rreq[d].op = "swap"}

-----------------------------------------------------------------------------
(* INSERT: the prefix is unique. *)
CreateRoute(c, r) ==
  /\ rreq[c].op = "idle" /\ r \notin rows
  /\ \/ /\ Ok /\ \A q \in rows : Prefix[q] # Prefix[r]
        /\ rows' = rows \cup {r} /\ Put(c, [Idle EXCEPT !.op = "refresh"])
     \/ (Fault \/ (Ok /\ \E q \in rows : Prefix[q] = Prefix[r])) /\ UNCHANGED <<rows, rreq>>
  /\ UNCHANGED <<table, served, blurred>>

(* DeleteRoute reads the row, then deletes it. *)
GetRouteByID(c, r) ==
  /\ rreq[c].op = "idle" /\ r \in rows
  /\ Put(c, [Idle EXCEPT !.op = "delete", !.route = r])
  /\ UNCHANGED <<rows, table, served, blurred, faults>>

(* Faulty variant: the table is not reloaded. *)
DeleteRouteOnly(c) ==
  /\ rreq[c].op = "delete"
  /\ rows' = rows \ {rreq[c].route} /\ Put(c, Idle)
  /\ UNCHANGED <<table, served, blurred, faults>>

DeleteRoute(c) ==
  /\ rreq[c].op = "delete"
  /\ \/ Ok /\ rows' = rows \ {rreq[c].route} /\ Put(c, [Idle EXCEPT !.op = "refresh"])
     \/ Fault /\ Put(c, Idle) /\ UNCHANGED rows
  /\ UNCHANGED <<table, served, blurred>>

(* RefreshRoutes: the rows are read outside the lock, *)
GetAllActiveRoutes(c) ==
  /\ rreq[c].op = "refresh"
  /\ \E mine \in {Idle, [Idle EXCEPT !.op = "swap", !.seen = rows, !.alone = Swapping(c) = {}]} :
       /\ IF mine = Idle THEN Fault /\ blurred' = TRUE ELSE Ok /\ UNCHANGED blurred
       /\ rreq' = [d \in Caller |-> IF d = c THEN mine ELSE [rreq[d] EXCEPT !.alone = @ /\ d \notin Swapping(c)]]
  /\ UNCHANGED <<rows, table, served>>

(* and the table is replaced under it. *)
RefreshRoutes(c) ==
  /\ rreq[c].op = "swap"
  /\ table' = rreq[c].seen \ BadTarget /\ Put(c, Idle)
  /\ blurred' = ~rreq[c].alone
  /\ UNCHANGED <<rows, served, faults>>

HasPrefix(path, p) == \A i \in DOMAIN p : i \in DOMAIN path /\ path[i] = p[i]

(* GetProxy takes the first match in the random order of a map. *)
GetProxy(path) == {r \in table : HasPrefix(path, Prefix[r])}
Proxy ==
  /\ \E path \in Paths : IF GetProxy(path) = {} THEN served' = NoRoute ELSE served' \in GetProxy(path)
  /\ UNCHANGED <<rows, table, rreq, blurred, faults>>

(* A restart drops the requests and loads the table; if the read fails the table is empty. *)
Restart ==
  /\ Fault /\ rreq' = [c \in Caller |-> Idle] /\ served' = NoRoute
  /\ \/ table' = rows \ BadTarget /\ blurred' = FALSE
     \/ table' = {} /\ blurred' = TRUE
  /\ UNCHANGED rows

-----------------------------------------------------------------------------
Request(c) == DeleteRoute(c) \/ GetAllActiveRoutes(c) \/ RefreshRoutes(c)
RouteStep  == \E c \in Caller, r \in Route : CreateRoute(c, r) \/ GetRouteByID(c, r)
Next == RouteStep \/ Proxy \/ Restart \/ \E c \in Caller : Request(c)
Spec == Init /\ [][Next]_vars

-----------------------------------------------------------------------------
(* Once requests are over, the table is the routes with a valid target,       *)
(* unless the last reload overlapped another one or could not read: then, and *)
(* only then, a deleted route may still be served or a new one not.           *)
TableCurrent == (\A c \in Caller : rreq[c].op = "idle") /\ ~blurred => table = rows \ BadTarget

(* No two routes of the table share a prefix, so that the map has one entry   *)
(* for each, and a route with an unusable target is never served.            *)
TableSound == (\A r, q \in table : Prefix[r] = Prefix[q] => r = q) /\ served \notin BadTarget
=============================================================================
