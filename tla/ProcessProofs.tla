---------------------------- MODULE ProcessProofs ----------------------------
(* Theorems about Process and its parts, for any number of migrations,      *)
(* workers, requests, starts, failures, clients, events, keys, limiters and *)
(* cleanups, any capacities and burst, and any texts.                       *)
EXTENDS Process, TLAPS

-----------------------------------------------------------------------------
(* Server *)
Up == phase \in {"serve", "shutdown", "cancel"}

(***************************************************************************)
(* The inductive invariant.  Schema: the files before the one at hand have *)
(* been applied, unless a statement of this start failed for a reason of   *)
(* its own.  Phases: nothing runs before the services or after main, the   *)
(* pool is open as long as main runs, and after a shutdown that waited no  *)
(* request is left.                                                        *)
(***************************************************************************)
Schema ==
  /\ applied \subseteq Server!Migration /\ next \in Nat /\ next >= 1
  /\ \A m \in applied : Needs[m] \subseteq applied
  /\ phase = "migrate" /\ ~bad => \A m \in Server!Migration : m < next => m \in applied
  /\ Up /\ ~bad => applied = Server!Migration

Phases ==
  /\ phase \in {"exited", "migrate", "serve", "shutdown", "cancel"}
  /\ worker \in [Worker -> {"off", "idle", "run", "stopped"}] /\ hreq \in [Caller -> {"none", "active"}]
  /\ phase # "exited" => pool = "open"
  /\ ~Up => (\A w \in Worker : worker[w] = "off") /\ (\A r \in Caller : hreq[r] = "none")
  /\ phase = "cancel" => forced \/ \A r \in Caller : hreq[r] = "none"
  /\ cut = {}

-----------------------------------------------------------------------------
(* Before the first start nothing is there. *)
LEMMA ServerInit == Server!Init => Schema /\ Phases
  BY DEF Server!Init, Schema, Phases, Up

(* Steps that touch neither the schema nor main's phase keep it. *)
LEMMA SchemaFrame ==
  ASSUME Schema, UNCHANGED <<phase, next, applied, bad>>
  PROVE  Schema'
  BY DEF Schema, Up

(* The steps of a start.  Every file before the current one is applied, so *)
(* what it needs exists, and it is applied too unless its statement fails. *)
LEMMA SchemaStep ==
  ASSUME Schema, Server!Next \/ UNCHANGED serverVars
  PROVE  Schema'
<1>1. CASE Server!InitDatabase
  BY <1>1 DEF Server!InitDatabase, Schema, Up, Server!Migration
<1>2. CASE Server!RunMigrations
  <2>1. next \in Server!Migration /\ phase = "migrate" /\ phase' = "migrate" /\ next' = next + 1
    BY <1>2, MigrationsOrdered DEF Server!RunMigrations, Schema, Server!Migration
  <2>2. CASE applied' = applied /\ bad' = TRUE
    BY <2>1, <2>2 DEF Schema, Up
  <2>3. CASE bad' = bad /\ Needs[next] \subseteq applied /\ applied' = applied \cup {next}
    <3>1. applied' \subseteq Server!Migration /\ \A m \in applied' : Needs[m] \subseteq applied'
      BY <2>1, <2>3, Zenon DEF Schema
    <3>2. ~bad' => \A m \in Server!Migration : m < next' => m \in applied'
      BY <2>1, <2>3, MigrationsOrdered DEF Schema, Server!Migration
    <3> QED BY <2>1, <3>1, <3>2 DEF Schema, Up
  <2>4. CASE bad' = bad /\ ~(Needs[next] \subseteq applied) /\ applied' = applied
    <3>1. bad
      <4>1. SUFFICES ASSUME ~bad PROVE Needs[next] \subseteq applied
        BY <2>4
      <4>2. \A m \in Needs[next] : m \in Server!Migration /\ m < next
        BY <2>1, MigrationsOrdered DEF Server!Migration
      <4> QED BY <2>1, <4>1, <4>2, Zenon DEF Schema
    <3> QED BY <2>1, <2>4, <3>1 DEF Schema, Up
  <2> QED BY <1>2, <2>2, <2>3, <2>4, Zenon DEF Server!RunMigrations
<1>3. CASE Server!MigrateOnly
  BY <1>3 DEF Server!MigrateOnly, Schema, Up
<1>4. CASE Server!InitServices
  <2>1. phase = "migrate" /\ \A m \in Server!Migration : m < next
    BY <1>4, MigrationsOrdered DEF Server!InitServices, Schema, Server!Migration
  <2>2. ~bad => applied = Server!Migration
    BY <2>1, Zenon DEF Schema
  <2> QED BY <1>4, <2>2 DEF Server!InitServices, Schema, Up
<1>5. CASE Server!Signal \/ Server!Shutdown
  BY <1>5 DEF Server!Signal, Server!Shutdown, Schema, Up
<1>6. CASE Server!Exit \/ Server!Kill
  BY <1>6 DEF Server!Exit, Server!Kill, Server!Ended, Schema, Up
<1>7. CASE UNCHANGED serverVars \/ \E r \in Caller : Server!Accept(r) \/ Server!Reply(r) \/ Server!Background(r)
  BY <1>7, SchemaFrame DEF serverVars, Server!Accept, Server!Reply, Server!Background
<1>8. CASE \E w \in Worker : Server!Tick(w) \/ Server!Iterate(w) \/ Server!Done(w)
  BY <1>8, SchemaFrame DEF Server!Tick, Server!Iterate, Server!Done
<1> QED BY <1>1, <1>2, <1>3, <1>4, <1>5, <1>6, <1>7, <1>8 DEF Server!Next, Server!Start, Server!Stop

(* Steps of main, of the workers and of the requests. *)
LEMMA PhasesStep ==
  ASSUME Phases, Server!Next \/ UNCHANGED serverVars
  PROVE  Phases'
<1>1. CASE Server!InitDatabase \/ Server!RunMigrations \/ Server!MigrateOnly
  BY <1>1 DEF Server!InitDatabase, Server!RunMigrations, Server!MigrateOnly, Server!procVars, Phases, Up
<1>2. CASE Server!InitServices
  BY <1>2 DEF Server!InitServices, Phases, Up
<1>3. CASE Server!Signal
  BY <1>3 DEF Server!Signal, Server!procVars, Phases, Up
<1>4. CASE Server!Shutdown
  BY <1>4 DEF Server!Shutdown, Phases, Up
<1>5. CASE Server!Exit
  BY <1>5 DEF Server!Exit, Server!Ended, Phases, Up
<1>6. CASE Server!Kill
  BY <1>6 DEF Server!Kill, Server!Ended, Phases, Up
<1>7. CASE UNCHANGED serverVars
  BY <1>7 DEF serverVars, Phases, Up
<1>8. ASSUME NEW r \in Caller, Server!Accept(r) \/ Server!Reply(r) \/ Server!Background(r) PROVE Phases'
  BY <1>8 DEF Server!Accept, Server!Reply, Server!Background, Phases, Up
<1>9. ASSUME NEW w \in Worker, Server!Tick(w) \/ Server!Iterate(w) \/ Server!Done(w) PROVE Phases'
  BY <1>9 DEF Server!Tick, Server!Iterate, Server!Done, Phases, Up
<1> QED BY <1>1, <1>2, <1>3, <1>4, <1>5, <1>6, <1>7, <1>8, <1>9 DEF Server!Next, Server!Start, Server!Stop

LEMMA ServerFacts == Schema /\ Phases => Server!ServerSound
  BY DEF Server!ServerSound, Schema, Phases, Up

(* Workers run only while the pool is open, main cuts off no iteration and, *)
(* unless the 30 s were over, no request, tables that a migration refers to *)
(* exist, and a start in which no statement failed for another reason       *)
(* serves the whole schema: for every list of migrations, every number of   *)
(* workers and requests, and whatever earlier starts left undone.           *)
THEOREM ServerCorrect == Server!Spec => []Server!ServerSound
<1>1. Server!Init => Schema /\ Phases
  BY ServerInit
<1>2. Schema /\ Phases /\ [Server!Next]_(Server!vars) => Schema' /\ Phases'
  BY SchemaStep, PhasesStep DEF Server!vars, serverVars
<1> QED BY <1>1, <1>2, ServerFacts, PTL DEF Server!Spec

-----------------------------------------------------------------------------
(* RateLimiter *)
(***************************************************************************)
(* The inductive invariant.  Budget: what a key's requests have drawn in   *)
(* this cycle and what is left in the key's bucket never exceed the burst  *)
(* and the refills; a key without a bucket has drawn nothing.              *)
(***************************************************************************)
LimiterShape ==
  /\ limiters \in 0..MaxLimiters /\ ips \in [Address -> 0..MaxLimiters] /\ held \in [Hit -> 0..MaxLimiters]
  /\ tokens \in [1..MaxLimiters -> 0..Burst] /\ passed \in [Address -> Nat] /\ ticks \in Nat

Budget == \A k \in Address : IF ips[k] = 0 THEN passed[k] = 0
                         ELSE passed[k] + tokens[ips[k]] <= Burst + ticks

-----------------------------------------------------------------------------
(* GetLimiter: a new bucket holds at most the burst, and its key has drawn  *)
(* nothing; lookup and creation are one step, so no key's bucket is         *)
(* replaced.                                                                *)
LEMMA GetLimiterStep ==
  ASSUME LimiterShape, Budget, NEW r \in Hit, RateLimiter!GetLimiter(r)
  PROVE  LimiterShape' /\ Budget'
<1> USE LimiterType
<1>1. CASE ips[AddressOf[r]] # 0
  BY <1>1, Zenon DEF RateLimiter!GetLimiter, LimiterShape, Budget
<1>2. CASE ips[AddressOf[r]] = 0
  <2>1. /\ limiters < MaxLimiters /\ limiters' = limiters + 1
        /\ ips' = [ips EXCEPT ![AddressOf[r]] = limiters + 1] /\ held' = [held EXCEPT ![r] = limiters + 1]
        /\ UNCHANGED <<tokens, ticks, passed>>
    BY <1>2 DEF RateLimiter!GetLimiter
  <2>2. LimiterShape'
    BY <2>1 DEF LimiterShape
  <2>3. ASSUME NEW k \in Address
        PROVE  (IF ips[k] = 0 THEN passed[k] = 0 ELSE passed[k] + tokens[ips[k]] <= Burst + ticks)'
    <3>1. CASE k = AddressOf[r]
      <4>1. passed[k] = 0 /\ limiters + 1 \in 1..MaxLimiters
        BY <1>2, <2>1, <3>1 DEF LimiterShape, Budget
      <4>2. tokens[limiters + 1] \in 0..Burst /\ ips'[k] = limiters + 1
        BY <2>1, <3>1, <4>1 DEF LimiterShape
      <4> QED BY <2>1, <4>1, <4>2 DEF LimiterShape
    <3>2. CASE k # AddressOf[r]
      BY <2>1, <3>2 DEF LimiterShape, Budget
    <3> QED BY <3>1, <3>2
  <2> QED BY <2>2, <2>3 DEF Budget
<1> QED BY <1>1, <1>2

(* Middleware: a request that counts for its key takes a token of that      *)
(* key's bucket.                                                            *)
LEMMA MiddlewareStep ==
  ASSUME LimiterShape, Budget, NEW r \in Hit, RateLimiter!Middleware(r)
  PROVE  LimiterShape' /\ Budget'
<1> USE LimiterType
<1>0. PICK l \in 1..MaxLimiters : l = held[r]
  BY DEF RateLimiter!Middleware, LimiterShape
<1>1. CASE tokens[l] > 0
  <2>1. /\ tokens' = [tokens EXCEPT ![l] = tokens[l] - 1]
        /\ passed' = IF ips[AddressOf[r]] = l THEN [passed EXCEPT ![AddressOf[r]] = @ + 1] ELSE passed
        /\ UNCHANGED <<ips, limiters, held, ticks>>
    BY <1>0, <1>1 DEF RateLimiter!Middleware
  <2>2. LimiterShape'
    <3>1. tokens' \in [1..MaxLimiters -> 0..Burst]
      BY <1>1, <2>1 DEF LimiterShape
    <3>2. passed' \in [Address -> Nat]
      BY <2>1 DEF LimiterShape
    <3> QED BY <2>1, <3>1, <3>2 DEF LimiterShape
  <2>3. ASSUME NEW k \in Address
        PROVE  (IF ips[k] = 0 THEN passed[k] = 0 ELSE passed[k] + tokens[ips[k]] <= Burst + ticks)'
    <3>1. CASE ips[k] = l
      <4>1. tokens'[l] = tokens[l] - 1 /\ tokens[l] \in Nat /\ passed[k] \in Nat
        BY <2>1 DEF LimiterShape
      <4>2. passed'[k] = passed[k] \/ passed'[k] = passed[k] + 1
        BY <2>1 DEF LimiterShape
      <4>3. ips[k] # 0 /\ passed[k] + tokens[l] <= Burst + ticks
        BY <3>1 DEF Budget
      <4> QED BY <2>1, <3>1, <4>1, <4>2, <4>3 DEF LimiterShape
    <3>2. CASE ips[k] # l
      <4>1. passed'[k] = passed[k] /\ (ips[k] # 0 => tokens'[ips[k]] = tokens[ips[k]])
        BY <2>1, <3>2 DEF LimiterShape
      <4> QED BY <2>1, <4>1 DEF Budget
    <3> QED BY <3>1, <3>2
  <2> QED BY <2>2, <2>3 DEF Budget
<1>2. CASE ~(tokens[l] > 0)
  BY <1>0, <1>2 DEF RateLimiter!Middleware, LimiterShape, Budget
<1> QED BY <1>1, <1>2

(* Refill: a bucket gains at most the token that the tick stands for. *)
LEMMA RefillStep ==
  ASSUME LimiterShape, Budget, RateLimiter!Refill
  PROVE  LimiterShape' /\ Budget'
<1> USE LimiterType
<1>1. /\ ticks' = ticks + 1 /\ UNCHANGED <<ips, limiters, held, passed>>
      /\ tokens' = [l \in 1..MaxLimiters |-> IF tokens[l] < Burst THEN tokens[l] + 1 ELSE Burst]
  BY DEF RateLimiter!Refill
<1>2. \A l \in 1..MaxLimiters : tokens'[l] \in 0..Burst /\ tokens'[l] <= tokens[l] + 1
  BY <1>1 DEF LimiterShape
<1>3. LimiterShape'
  BY <1>1, <1>2 DEF LimiterShape
<1>4. ASSUME NEW k \in Address, ips[k] # 0 PROVE passed[k] + tokens'[ips[k]] <= Burst + (ticks + 1)
  <2>1. ips[k] \in 1..MaxLimiters /\ tokens[ips[k]] \in Nat /\ passed[k] \in Nat
    BY <1>4 DEF LimiterShape
  <2> QED BY <1>2, <1>4, <2>1 DEF Budget, LimiterShape
<1> QED BY <1>1, <1>3, <1>4 DEF Budget

LEMMA LimiterInit == RateLimiter!Init => LimiterShape /\ Budget
  BY LimiterType DEF RateLimiter!Init, LimiterShape, Budget

LEMMA LimiterNext ==
  ASSUME LimiterShape, Budget, RateLimiter!Next \/ UNCHANGED limiterVars
  PROVE  LimiterShape' /\ Budget'
<1>1. CASE RateLimiter!CleanupLoop
  BY <1>1, LimiterType DEF RateLimiter!CleanupLoop, LimiterShape, Budget
<1>2. CASE UNCHANGED limiterVars
  BY <1>2 DEF limiterVars, LimiterShape, Budget
<1> QED BY <1>1, <1>2, GetLimiterStep, MiddlewareStep, RefillStep DEF RateLimiter!Next

LEMMA LimiterFacts == LimiterShape /\ Budget => RateLimiter!WithinRate
<1> SUFFICES ASSUME LimiterShape, Budget, NEW k \in Address PROVE passed[k] <= Burst + ticks
  BY DEF RateLimiter!WithinRate
<1>1. ips[k] # 0 => tokens[ips[k]] \in Nat
  BY LimiterType DEF LimiterShape
<1> QED BY <1>1, LimiterType DEF LimiterShape, Budget

(* Between two cleanups the bucket of a key lets through no more than the   *)
(* burst and what was refilled, however GetLimiter and Allow of its         *)
(* requests interleave with one another and with the cleanup.               *)
THEOREM RateKept == RateLimiter!Spec => []RateLimiter!WithinRate
<1>1. LimiterShape /\ Budget /\ [RateLimiter!Next]_(RateLimiter!vars) => LimiterShape' /\ Budget'
  BY LimiterNext DEF RateLimiter!vars, limiterVars
<1> QED BY <1>1, LimiterInit, LimiterFacts, PTL DEF RateLimiter!Spec

-----------------------------------------------------------------------------
(* Sequences *)
LEMMA Appended ==
  ASSUME NEW S, NEW s \in Seq(S), NEW e \in S
  PROVE  /\ Append(s, e) \in Seq(S) /\ Len(Append(s, e)) = Len(s) + 1
         /\ \A i \in 1..Len(s) : Append(s, e)[i] = s[i]
         /\ Append(s, e)[Len(s) + 1] = e
OBVIOUS

LEMMA Elements ==
  ASSUME NEW S, NEW s \in Seq(S)
  PROVE  /\ Len(s) \in Nat /\ DOMAIN s = 1..Len(s) /\ \A i \in 1..Len(s) : s[i] \in S
         /\ s # << >> => Len(s) # 0
OBVIOUS

LEMMA Tabulated ==
  ASSUME NEW S, NEW n \in Nat, NEW f \in [1..n -> S]
  PROVE  f \in Seq(S) /\ Len(f) = n
OBVIOUS

LEMMA Taken ==
  ASSUME NEW S, NEW s \in Seq(S), s # << >>
  PROVE  Head(s) \in S /\ Tail(s) \in Seq(S)
OBVIOUS

-----------------------------------------------------------------------------
(* WebSocketHub *)
(* all is the part of the events l that comes after the first n. *)
Follows(all, n, l) == n + Len(all) <= Len(l) /\ \A i \in 1..Len(all) : all[i] = l[n + i]

Sent(p)  == got[p] \o send[p]

(***************************************************************************)
(* The inductive invariant.  Channels: a client in the set has an open     *)
(* channel, and before it is registered nothing was sent to it.  Streams:  *)
(* what was sent or is buffered follows the events from the arrival on,    *)
(* and reaches up to the latest one while the client is in the set.        *)
(***************************************************************************)
HubShape ==
  /\ queue \in Seq(Nat) /\ log \in Seq(Nat) /\ joined \in [Peer -> Nat]
  /\ send \in [Peer -> Seq(Nat)] /\ got \in [Peer -> Seq(Nat)]
  /\ clients \subseteq Peer /\ active \in Int
  /\ reader \in [Peer -> {"new", "register", "read", "unregister", "done"}]
  /\ writer \in [Peer -> {"new", "run", "done"}]

Fresh(p) == p \notin clients /\ p \notin closed /\ writer[p] = "new" /\ got[p] = << >> /\ send[p] = << >>

Channels == /\ ~panic /\ clients \cap closed = {}
            /\ \A p \in Peer : reader[p] \in {"new", "register"} => Fresh(p)

InStep(p) == Follows(Sent(p), joined[p], log) /\ (p \in clients => joined[p] + Len(Sent(p)) = Len(log))
Streams   == \A p \in Peer : writer[p] = "run" /\ p \in conn => InStep(p)

-----------------------------------------------------------------------------
(* The empty sequence follows anything. *)
LEMMA FollowsEmpty ==
  ASSUME NEW l \in Seq(Nat), NEW n \in Nat, n <= Len(l)
  PROVE  Follows(<< >>, n, l)
  BY DEF Follows

(* A further event does not concern what was sent before. *)
LEMMA FollowsLonger ==
  ASSUME NEW l \in Seq(Nat), NEW n \in Nat, NEW all \in Seq(Nat), NEW e \in Nat, Follows(all, n, l)
  PROVE  Follows(all, n, Append(l, e))
  BY Appended DEF Follows

(* A client that has all events and is sent the next one has all events. *)
LEMMA FollowsNext ==
  ASSUME NEW l \in Seq(Nat), NEW n \in Nat, NEW all \in Seq(Nat), NEW e \in Nat,
         Follows(all, n, l), n + Len(all) = Len(l)
  PROVE  Follows(Append(all, e), n, Append(l, e)) /\ n + Len(Append(all, e)) = Len(Append(l, e))
<1>1. PICK a \in Nat : a = Len(all)
  OBVIOUS
<1>2. /\ Len(Append(all, e)) = a + 1 /\ Len(Append(l, e)) = n + a + 1
      /\ \A i \in 1..a : Append(all, e)[i] = all[i] /\ Append(l, e)[n + i] = l[n + i]
      /\ Append(all, e)[a + 1] = e /\ Append(l, e)[n + a + 1] = e
  BY <1>1, Appended
<1>3. ASSUME NEW i \in 1..(a + 1) PROVE Append(all, e)[i] = Append(l, e)[n + i]
  <2>1. CASE i = a + 1
    <3>1. n + i = n + a + 1
      BY <2>1
    <3> QED BY <1>2, <2>1, <3>1
  <2>2. CASE i # a + 1
    <3>1. i \in 1..a
      BY <2>2
    <3>2. all[i] = l[n + i]
      BY <1>1, <3>1, Zenon DEF Follows
    <3> QED BY <1>2, <3>1, <3>2, Zenon
  <2> QED BY <2>1, <2>2, Zenon
<1>4. n + Len(Append(all, e)) = Len(Append(l, e)) /\ n + Len(Append(all, e)) <= Len(Append(l, e))
  BY <1>1, <1>2, Appended
<1> QED BY <1>2, <1>3, <1>4, Zenon DEF Follows

(* Such a sequence is a piece of the events without a gap. *)
LEMMA FollowsSubSeq ==
  ASSUME NEW l \in Seq(Nat), NEW n \in Nat, NEW all \in Seq(Nat), Follows(all, n, l)
  PROVE  all = SubSeq(l, n + 1, n + Len(all))
<1>1. Len(all) \in Nat /\ Len(l) \in Nat
  OBVIOUS
<1>2. \A i \in (n + 1)..(n + Len(all)) : l[i] \in Nat
  BY <1>1 DEF Follows
<1>3. /\ SubSeq(l, n + 1, n + Len(all)) \in Seq(Nat)
      /\ Len(SubSeq(l, n + 1, n + Len(all))) = Len(all)
      /\ \A i \in 1..Len(all) : SubSeq(l, n + 1, n + Len(all))[i] = l[n + i]
  BY <1>1, <1>2
<1> QED BY <1>3 DEF Follows

(* Sequences: the next event goes to the end of what a client has, and      *)
(* writing out the buffer does not change what it has.                      *)
LEMMA SendAppend ==
  ASSUME NEW g \in Seq(Nat), NEW s \in Seq(Nat), NEW e \in Nat
  PROVE  g \o Append(s, e) = Append(g \o s, e) /\ (g \o s) \o << >> = g \o s /\ g \o s \in Seq(Nat)
<1>1. g \o s \in Seq(Nat) /\ (g \o s) \o << >> = g \o s
  BY SMT
<1>2. g \o Append(s, e) = Append(g \o s, e)
  BY SMT
<1> QED BY <1>1, <1>2

-----------------------------------------------------------------------------
(* A step that does not touch a client's stream, but for cutting it off. *)
LEMMA StreamFrame ==
  ASSUME Streams, UNCHANGED <<send, got, joined, log>>, clients' \subseteq clients,
         NEW p \in Peer, writer'[p] = "run" => writer[p] = "run", p \in conn' => p \in conn,
         writer'[p] = "run", p \in conn'
  PROVE  InStep(p)'
  BY Zenon DEF Streams, InStep, Sent

(* An accepted connection is new to the hub. *)
LEMMA ServeStep ==
  ASSUME HubShape, Channels, Streams, NEW q \in Peer, WebSocketHub!ServeWS(q)
  PROVE  HubShape' /\ Channels' /\ Streams'
<1>1. HubShape' /\ Channels'
  BY DEF WebSocketHub!ServeWS, HubShape, Channels, Fresh
<1>2. writer[q] = "new" /\ writer' = writer
  BY DEF WebSocketHub!ServeWS, Channels, Fresh
<1>3. Streams'
  <2> SUFFICES ASSUME NEW p \in Peer, writer'[p] = "run", p \in conn' PROVE InStep(p)'
    BY DEF Streams
  <2> QED BY <1>2, StreamFrame DEF WebSocketHub!ServeWS
<1> QED BY <1>1, <1>3

(* Register: the client has none of the events so far. *)
LEMMA RegisterStep ==
  ASSUME HubShape, Channels, Streams, NEW q \in Peer, WebSocketHub!TakeRegister(q)
  PROVE  HubShape' /\ Channels' /\ Streams'
<1>1. HubShape' /\ Channels'
  BY DEF WebSocketHub!TakeRegister, HubShape, Channels, Fresh
<1>2. Streams'
  <2> SUFFICES ASSUME NEW p \in Peer, writer'[p] = "run", p \in conn' PROVE InStep(p)'
    BY DEF Streams
  <2>1. CASE p = q
    <3>1. /\ got'[p] = << >> /\ send'[p] = << >> /\ joined'[p] = Len(log) /\ log' = log /\ log \in Seq(Nat)
      BY <2>1 DEF WebSocketHub!TakeRegister, HubShape, Channels, Fresh
    <3>2. Sent(p)' = << >> /\ Len(log) \in Nat
      BY <3>1 DEF Sent
    <3> QED BY <3>1, <3>2, FollowsEmpty DEF InStep
  <2>2. CASE p # q
    <3>1. joined'[p] = joined[p] /\ writer[p] = "run" /\ p \in conn /\ (p \in clients' <=> p \in clients)
      BY <2>2 DEF WebSocketHub!TakeRegister, HubShape
    <3> QED BY <3>1, Zenon DEF WebSocketHub!TakeRegister, Streams, InStep, Sent
  <2> QED BY <2>1, <2>2
<1> QED BY <1>1, <1>2

(* Unregister: the channel of a client in the set is open. *)
LEMMA UnregisterStep ==
  ASSUME HubShape, Channels, Streams, NEW q \in Peer, WebSocketHub!TakeUnregister(q)
  PROVE  HubShape' /\ Channels' /\ Streams'
<1>1. HubShape' /\ Channels'
  <2>1. HubShape'
    BY DEF WebSocketHub!TakeUnregister, HubShape
  <2>2. /\ clients' = clients \ {q} /\ closed' \in {closed, closed \cup {q}} /\ ~panic'
        /\ reader' = [reader EXCEPT ![q] = "done"] /\ UNCHANGED <<writer, got, send>>
    BY Zenon DEF WebSocketHub!TakeUnregister, Channels
  <2>3. \A p \in Peer : reader'[p] \in {"new", "register"} => Fresh(p)'
    BY <2>2 DEF HubShape, Channels, Fresh
  <2> QED BY <2>1, <2>2, <2>3 DEF Channels
<1>2. Streams'
  <2> SUFFICES ASSUME NEW p \in Peer, writer'[p] = "run", p \in conn' PROVE InStep(p)'
    BY DEF Streams
  <2>1. UNCHANGED <<send, got, joined, log, writer>> /\ clients' \subseteq clients /\ p \in conn
    BY DEF WebSocketHub!TakeUnregister
  <2> QED BY <2>1, StreamFrame
<1> QED BY <1>1, <1>2

(* Broadcast: a client whose buffer has room gets the event, and has them   *)
(* all as before; any other leaves the set, and what it has stays a part    *)
(* without a gap.                                                           *)
LEMMA BroadcastStep ==
  ASSUME HubShape, Channels, Streams, WebSocketHub!TakeBroadcast
  PROVE  HubShape' /\ Channels' /\ Streams'
<1>1. PICK e \in Nat : e = Head(queue) /\ Tail(queue) \in Seq(Nat)
  BY Taken DEF WebSocketHub!TakeBroadcast, HubShape
<1>2. /\ queue' = Tail(queue) /\ log' = Append(log, e)
      /\ send' = [p \in Peer |-> IF p \in clients \ WebSocketHub!Full THEN Append(send[p], e) ELSE send[p]]
      /\ closed' = closed \cup WebSocketHub!Full /\ clients' = clients \ WebSocketHub!Full
      /\ panic' = (panic \/ clients \cap closed # {})
      /\ UNCHANGED <<conn, reader, writer, active, joined, got>>
  BY <1>1 DEF WebSocketHub!TakeBroadcast
<1>3. WebSocketHub!Full \subseteq clients
  BY DEF WebSocketHub!Full
<1>4. HubShape'
  <2>1. \A p \in Peer : send[p] \in Seq(Nat) /\ Append(send[p], e) \in Seq(Nat)
    BY Appended DEF HubShape
  <2>2. send' \in [Peer -> Seq(Nat)] /\ log' \in Seq(Nat)
    BY <1>2, <2>1, Appended DEF HubShape
  <2> QED BY <1>1, <1>2, <1>3, <2>2 DEF HubShape
<1>5. Channels'
  <2>1. ~panic' /\ clients' \cap closed' = {}
    BY <1>2, <1>3, Zenon DEF Channels
  <2>2. \A p \in Peer : reader'[p] \in {"new", "register"} => Fresh(p)'
    BY <1>2, <1>3 DEF Channels, Fresh
  <2> QED BY <2>1, <2>2 DEF Channels
<1>6. Streams'
  <2> SUFFICES ASSUME NEW p \in Peer, writer'[p] = "run", p \in conn' PROVE InStep(p)'
    BY DEF Streams
  <2>1. /\ Follows(Sent(p), joined[p], log) /\ (p \in clients => joined[p] + Len(Sent(p)) = Len(log))
        /\ Sent(p) \in Seq(Nat) /\ joined[p] \in Nat /\ log \in Seq(Nat) /\ joined' = joined
    BY <1>2, SendAppend DEF Streams, InStep, HubShape, Sent
  <2>2. CASE p \in clients \ WebSocketHub!Full
    <3>1. Sent(p)' = Append(Sent(p), e)
      <4>1. send'[p] = Append(send[p], e) /\ got'[p] = got[p] /\ send[p] \in Seq(Nat) /\ got[p] \in Seq(Nat)
        BY <1>2, <2>2 DEF HubShape
      <4>2. got[p] \o Append(send[p], e) = Append(got[p] \o send[p], e)
        BY <4>1, SendAppend, Zenon
      <4> QED BY <4>1, <4>2, Zenon DEF Sent
    <3>2. /\ Follows(Append(Sent(p), e), joined[p], Append(log, e))
          /\ joined[p] + Len(Append(Sent(p), e)) = Len(Append(log, e))
      BY <2>1, <2>2, FollowsNext
    <3> QED BY <1>2, <2>1, <3>1, <3>2 DEF InStep
  <2>3. CASE p \notin clients \ WebSocketHub!Full
    <3>1. Sent(p)' = Sent(p) /\ p \notin clients'
      BY <1>2, <2>3, Zenon DEF Sent
    <3>2. Follows(Sent(p), joined[p], Append(log, e))
      BY <2>1, FollowsLonger
    <3> QED BY <1>2, <2>1, <3>1, <3>2 DEF InStep
  <2> QED BY <2>2, <2>3
<1> QED BY <1>4, <1>5, <1>6

(* WritePump moves what is buffered to the connection. *)
LEMMA WriteStep ==
  ASSUME HubShape, Channels, Streams, NEW q \in Peer, WebSocketHub!WriteMessages(q) \/ WebSocketHub!WriteEnd(q)
  PROVE  HubShape' /\ Channels' /\ Streams'
<1>1. /\ UNCHANGED <<clients, queue, closed, reader, active, panic, log, joined>>
      /\ conn' \subseteq conn /\ writer[q] = "run"
      /\ \A p \in Peer \ {q} : writer'[p] = writer[p] /\ send'[p] = send[p] /\ got'[p] = got[p]
  BY DEF WebSocketHub!WriteMessages, WebSocketHub!WriteEnd, HubShape
<1>2. \A p \in Peer : got[p] \o send[p] \in Seq(Nat)
  BY SendAppend DEF HubShape
<1>3. HubShape'
  <2>1. send' \in [Peer -> Seq(Nat)]
    <3>1. << >> \in Seq(Nat)
      OBVIOUS
    <3>2. send' = send \/ send' = [send EXCEPT ![q] = << >>]
      BY Zenon DEF WebSocketHub!WriteMessages, WebSocketHub!WriteEnd
    <3> QED BY <3>1, <3>2, Zenon DEF HubShape
  <2>2. got' \in [Peer -> Seq(Nat)]
    <3>1. got' = got \/ got' = [got EXCEPT ![q] = got[q] \o send[q]]
      BY Zenon DEF WebSocketHub!WriteMessages, WebSocketHub!WriteEnd
    <3> QED BY <1>2, <3>1, Zenon DEF HubShape
  <2>3. writer' \in [Peer -> {"new", "run", "done"}]
    BY Zenon DEF WebSocketHub!WriteMessages, WebSocketHub!WriteEnd, HubShape
  <2> QED BY <1>1, <2>1, <2>2, <2>3 DEF HubShape
<1>4. reader[q] \notin {"new", "register"}
  BY <1>1 DEF Channels, Fresh
<1>5. Channels'
  BY <1>1, <1>4 DEF Channels, Fresh
<1>6. Streams'
  <2> SUFFICES ASSUME NEW p \in Peer, writer'[p] = "run", p \in conn' PROVE InStep(p)'
    BY DEF Streams
  <2>1. CASE p # q
    BY <1>1, <2>1, Zenon DEF Streams, InStep, Sent
  <2>2. CASE p = q
    <3>0. got[p] \in Seq(Nat) /\ send[p] \in Seq(Nat) /\ q \in DOMAIN got /\ q \in DOMAIN send
      BY <2>2 DEF HubShape
    <3>1. got'[p] = got[p] \o send[p] /\ send'[p] = << >>
      BY <2>2, <3>0 DEF WebSocketHub!WriteMessages, WebSocketHub!WriteEnd
    <3>2. (got[p] \o send[p]) \o << >> = got[p] \o send[p]
      <4>1. PICK g \in Seq(Nat), s \in Seq(Nat) : g = got[p] /\ s = send[p]
        BY <3>0, Zenon
      <4>2. (g \o s) \o << >> = g \o s
        OBVIOUS
      <4> QED BY <4>1, <4>2, Zenon
    <3>3. Sent(p)' = Sent(p)
      BY <3>1, <3>2, Zenon DEF Sent
    <3> QED BY <1>1, <2>2, <3>3 DEF Streams, InStep
  <2> QED BY <2>1, <2>2
<1> QED BY <1>3, <1>5, <1>6

(* New events, and the ends of connections. *)
LEMMA OtherStep ==
  ASSUME HubShape, Channels, Streams,
         UNCHANGED hubVars \/ WebSocketHub!BroadcastEvent \/ \E q \in Peer : WebSocketHub!ReadEnd(q) \/ WebSocketHub!Disconnect(q)
  PROVE  HubShape' /\ Channels' /\ Streams'
<1>1. /\ UNCHANGED <<clients, send, closed, writer, active, panic, log, joined, got>>
      /\ conn' \subseteq conn
  BY DEF hubVars, WebSocketHub!BroadcastEvent, WebSocketHub!ReadEnd, WebSocketHub!Disconnect
<1>2. queue' \in Seq(Nat)
  <2>1. CASE WebSocketHub!BroadcastEvent
    <3>1. queue' = Append(queue, Len(queue) + Len(log) + 1) /\ Len(queue) + Len(log) + 1 \in Nat
      BY <2>1 DEF WebSocketHub!BroadcastEvent, HubShape
    <3> QED BY <3>1, Appended DEF HubShape
  <2>2. CASE queue' = queue
    BY <2>2 DEF HubShape
  <2> QED BY <2>1, <2>2 DEF hubVars, WebSocketHub!ReadEnd, WebSocketHub!Disconnect
<1>3. reader' = reader \/ \E q \in Peer : reader[q] = "read" /\ reader' = [reader EXCEPT ![q] = "unregister"]
  BY DEF hubVars, WebSocketHub!BroadcastEvent, WebSocketHub!ReadEnd, WebSocketHub!Disconnect
<1>4. HubShape'
  BY <1>1, <1>2, <1>3, Zenon DEF HubShape
<1>5. Channels'
  BY <1>1, <1>3 DEF Channels, Fresh, HubShape
<1>6. Streams'
  BY <1>1, Zenon DEF Streams, InStep, Sent
<1> QED BY <1>4, <1>5, <1>6

LEMMA SentType == ASSUME HubShape, NEW p \in Peer PROVE Sent(p) \in Seq(Nat)
<1>1. PICK g \in Seq(Nat), s \in Seq(Nat) : g = got[p] /\ s = send[p] BY DEF HubShape
<1>2. g \o s \in Seq(Nat) OBVIOUS
<1> QED BY <1>1, <1>2, Zenon DEF Sent

(* What a connected client was sent is the part of the log that began with *)
(* its arrival.                                                             *)
LEMMA SentLog ==
  ASSUME HubShape, Streams, NEW p \in Peer, writer[p] = "run", p \in conn
  PROVE  /\ Sent(p) = SubSeq(log, joined[p] + 1, joined[p] + Len(Sent(p)))
         /\ p \in clients => joined[p] + Len(Sent(p)) = Len(log)
<1>1. Sent(p) \in Seq(Nat) /\ joined[p] \in Nat /\ log \in Seq(Nat)
  BY SentType DEF HubShape
<1>2. InStep(p)
  BY Zenon DEF Streams
<1>3. Sent(p) = SubSeq(log, joined[p] + 1, joined[p] + Len(Sent(p)))
  BY <1>1, <1>2, FollowsSubSeq, Zenon DEF InStep
<1> QED BY <1>2, <1>3, Zenon DEF InStep

LEMMA HubStart == WebSocketHub!Init => HubShape /\ Channels /\ Streams
BY DEF WebSocketHub!Init, HubShape, Channels, Fresh, Streams

LEMMA HubGoesOn ==
  ASSUME HubShape, Channels, Streams, WebSocketHub!Next \/ UNCHANGED hubVars
  PROVE  HubShape' /\ Channels' /\ Streams'
BY ServeStep, RegisterStep, UnregisterStep, BroadcastStep, WriteStep, OtherStep
   DEF WebSocketHub!Next, WebSocketHub!HubStep, WebSocketHub!Writer

-----------------------------------------------------------------------------
(* PortMappings *)
PortField == [kind : {"empty", "num", "word"}, n : Nat, pad : BOOLEAN]
PortText  == Seq(Seq(PortField))

(***************************************************************************)
(* The inductive invariant: Instance.Ports is the text that was given,     *)
(* rewritten if a group gave it, and decides whether the instance runs.    *)
(***************************************************************************)
PortInv ==
  /\ pstage \in {"none", "given", "running", "refused"}
  /\ pstage # "none" =>
       given \in PortText /\ ports = IF scaled THEN PortMappings!ToDynamicPorts(given) ELSE given
  /\ pstage = "running" => PortMappings!ParseAndValidatePorts(ports)
  /\ pstage = "refused" => ~PortMappings!ParseAndValidatePorts(ports)

(* The entries of a text, and its fields. *)
LEMMA TextEntries ==
  ASSUME NEW t \in PortText
  PROVE  /\ Len(t) \in Nat /\ DOMAIN t = 1..Len(t)
         /\ \A k \in DOMAIN t : /\ t[k] \in Seq(PortField) /\ Len(t[k]) \in Nat
                                /\ Len(t[k]) = 2 => t[k][1] \in PortField /\ t[k][2] \in PortField
<1>1. Len(t) \in Nat /\ DOMAIN t = 1..Len(t) BY DEF PortText
<1>2. ASSUME NEW k \in DOMAIN t
      PROVE  /\ t[k] \in Seq(PortField) /\ Len(t[k]) \in Nat
             /\ Len(t[k]) = 2 => t[k][1] \in PortField /\ t[k][2] \in PortField
  <2>1. PICK e \in Seq(PortField) : e = t[k] BY <1>1, Elements DEF PortText
  <2>2. Len(e) \in Nat BY <2>1
  <2>3. \A i \in 1..Len(e) : e[i] \in PortField BY Elements, Zenon
  <2>4. ASSUME Len(e) = 2 PROVE e[1] \in PortField /\ e[2] \in PortField
    <3>1. 1 \in 1..Len(e) /\ 2 \in 1..Len(e) BY <2>4
    <3> QED BY <2>3, <3>1, Zenon
  <2> QED BY <2>1, <2>2, <2>4, Zenon
<1> QED BY <1>1, <1>2

(* toDynamicPorts gives a text, entry by entry. *)
LEMMA DynamicText ==
  ASSUME NEW t \in PortText, NEW d, d = PortMappings!ToDynamicPorts(t)
  PROVE  /\ d \in PortText /\ Len(d) = Len(t) /\ DOMAIN d = DOMAIN t
         /\ \A k \in DOMAIN t : d[k] = IF Len(t[k]) = 2 THEN <<PortMappings!Zero, t[k][2]>> ELSE t[k]
<1>1. Len(t) \in Nat /\ DOMAIN t = 1..Len(t) BY TextEntries
<1>2. PortMappings!Zero \in PortField BY DEF PortMappings!Zero, PortField
<1>3. d = [k \in 1..Len(t) |-> IF Len(t[k]) = 2 THEN <<PortMappings!Zero, t[k][2]>> ELSE t[k]]
  BY <1>1 DEF PortMappings!ToDynamicPorts
<1>4. ASSUME NEW k \in 1..Len(t) PROVE d[k] \in Seq(PortField)
  <2>1. CASE Len(t[k]) = 2
    <3>1. PICK f \in PortField : f = t[k][2] BY <1>1, <2>1, TextEntries
    <3>2. <<PortMappings!Zero, f>> \in Seq(PortField) BY <1>2
    <3> QED BY <1>3, <2>1, <3>1, <3>2
  <2>2. CASE Len(t[k]) # 2 BY <1>1, <1>3, <2>2, TextEntries
  <2> QED BY <2>1, <2>2
<1>5. d \in [1..Len(t) -> Seq(PortField)] BY <1>3, <1>4
<1>6. d \in PortText BY <1>1, <1>5, Tabulated, Zenon DEF PortText
<1>7. Len(d) = Len(t) /\ DOMAIN d = DOMAIN t BY <1>1, <1>5, <1>6 DEF PortText
<1> QED BY <1>1, <1>3, <1>6, <1>7

(* parseAndValidatePorts accepts pairs of numbers only. *)
LEMMA AcceptedEntry ==
  ASSUME NEW t \in PortText, PortMappings!ParseAndValidatePorts(t), NEW k \in DOMAIN t
  PROVE  /\ Len(t[k]) = 2 /\ t[k] \in Seq(PortField)
         /\ t[k][1] \in PortField /\ t[k][1].kind = "num"
         /\ t[k][2] \in PortField /\ t[k][2].kind = "num"
<1>1. Len(t[k]) = 2 /\ \A j \in 1..2 : t[k][j].kind = "num"
  BY DEF PortMappings!ParseAndValidatePorts, PortMappings!ParsePortOK
<1>2. t[k][1].kind = "num" /\ t[k][2].kind = "num" BY <1>1
<1> QED BY <1>1, <1>2, TextEntries

(* The adapters and the health check look at the same numbers: libvirt. *)
LEMMA LibvirtReads ==
  ASSUME NEW t \in PortText, PortMappings!ParseAndValidatePorts(t), NEW k \in DOMAIN t
  PROVE  /\ PortMappings!Forwarded(t[k]).to = t[k][2].n
         /\ PortMappings!Forwarded(t[k]).from = {} => t[k][1].pad /\ t[k][1].n = 0
<1>1. PICK e : e = t[k] OBVIOUS
<1>2. PICK h \in PortField : h = e[1] /\ h.kind = "num" BY <1>1, AcceptedEntry
<1>3. PICK c \in PortField : c = e[2] /\ c.kind = "num" BY <1>1, AcceptedEntry
<1>4. Len(e) = 2 BY <1>1, AcceptedEntry
<1>5. PortMappings!Forwarded(e) =
        [from |-> IF h = PortMappings!Zero THEN 30000..30001 ELSE {h.n} \ {0}, to |-> c.n]
  BY <1>2, <1>3, <1>4 DEF PortMappings!Forwarded
<1>6. PortMappings!Forwarded(e).to = c.n BY <1>5
<1>7. ASSUME PortMappings!Forwarded(e).from = {} PROVE h.pad /\ h.n = 0
  <2>1. (IF h = PortMappings!Zero THEN 30000..30001 ELSE {h.n} \ {0}) = {} BY <1>5, <1>7
  <2>2. 30000 \in 30000..30001 OBVIOUS
  <2>3. h # PortMappings!Zero /\ h.n = 0 BY <2>1, <2>2
  <2>4. h = [kind |-> h.kind, n |-> h.n, pad |-> h.pad] BY DEF PortField
  <2>5. h.pad \in BOOLEAN BY DEF PortField
  <2> QED BY <1>2, <2>3, <2>4, <2>5, Zenon DEF PortMappings!Zero
<1> QED BY <1>1, <1>2, <1>3, <1>6, <1>7

LEMMA LastOfOne == ASSUME NEW k \in Int PROVE PortMappings!LastOf({k}) = k
BY DEF PortMappings!LastOf

(* Docker binds every entry, when no container port is given twice. *)
LEMMA DockerBinds ==
  ASSUME NEW t \in PortText, PortMappings!ParseAndValidatePorts(t),
         \A j, k \in DOMAIN t : t[j][2].n = t[k][2].n => j = k
  PROVE  /\ \A k \in DOMAIN t : PortMappings!PortBindings(t)[t[k][2]] = t[k][1]
         /\ DOMAIN PortMappings!PortBindings(t) = {t[k][2] : k \in DOMAIN t}
<1>1. Len(t) \in Nat /\ DOMAIN t = 1..Len(t) BY TextEntries
<1>2. {k \in DOMAIN t : Len(t[k]) = 2} = DOMAIN t BY AcceptedEntry, Zenon
<1>3. PortMappings!PortBindings(t) =
        [c \in {t[k][2] : k \in DOMAIN t} |->
           t[PortMappings!LastOf({k \in DOMAIN t : t[k][2] = c})][1]]
  BY <1>2, Zenon DEF PortMappings!PortBindings
<1>4. ASSUME NEW k \in DOMAIN t PROVE PortMappings!PortBindings(t)[t[k][2]] = t[k][1]
  <2>1. {j \in DOMAIN t : t[j][2] = t[k][2]} = {k} OBVIOUS
  <2>2. PortMappings!LastOf({j \in DOMAIN t : t[j][2] = t[k][2]}) = k BY <1>1, <2>1, LastOfOne
  <2> QED BY <1>3, <2>2, Zenon
<1> QED BY <1>3, <1>4

(* parsePorts takes an accepted text apart as strings.Split does. *)
LEMMA SplitAccepted ==
  ASSUME NEW t \in PortText, PortMappings!ParseAndValidatePorts(t)
  PROVE  /\ PortMappings!SplitCommas(t) = t
         /\ \A k \in DOMAIN t : PortMappings!SplitColons(t[k]) = t[k]
<1>1. Len(t) \in Nat /\ DOMAIN t = 1..Len(t) BY TextEntries
<1>2. ASSUME t # << >> PROVE t[Len(t)] # <<PortMappings!Empty>>
  <2>1. Len(t) \in DOMAIN t BY <1>1, <1>2, Elements DEF PortText
  <2>2. Len(t[Len(t)]) = 2 BY <2>1, AcceptedEntry
  <2> QED BY <2>2
<1>3. PortMappings!SplitCommas(t) = t BY <1>2, Zenon DEF PortMappings!SplitCommas
<1>4. ASSUME NEW k \in DOMAIN t PROVE PortMappings!SplitColons(t[k]) = t[k]
  <2>1. Len(t[k]) = 2 /\ t[k][2].kind = "num" BY AcceptedEntry
  <2>2. t[k][2] # PortMappings!Empty BY <2>1 DEF PortMappings!Empty
  <2> QED BY <2>1, <2>2 DEF PortMappings!SplitColons
<1> QED BY <1>3, <1>4

(* The health check finds the host port, when neither port is given twice. *)
LEMMA HealthCheckFinds ==
  ASSUME NEW t \in PortText, PortMappings!ParseAndValidatePorts(t),
         \A j, k \in DOMAIN t : PortMappings!Trim(t[j][1]) = PortMappings!Trim(t[k][1]) => j = k,
         \A j, k \in DOMAIN t : t[j][2].n = t[k][2].n => j = k,
         NEW k \in DOMAIN t
  PROVE  PortMappings!CheckLBHealth(t, t[k][2].n) = {PortMappings!Trim(t[k][1])}
<1>1. Len(t) \in Nat /\ DOMAIN t = 1..Len(t) BY TextEntries
<1>2. \A j \in DOMAIN t : Len(t[j]) = 2 BY AcceptedEntry
<1> DEFINE part    == [j \in DOMAIN PortMappings!SplitCommas(t) |-> PortMappings!SplitColons(t[j])]
           pair    == {j \in DOMAIN part : Len(part[j]) = 2}
           from(h) == PortMappings!LastOf({j \in pair : PortMappings!Trim(part[j][1]) = h})
           m       == [h \in {PortMappings!Trim(part[j][1]) : j \in pair} |->
                         IF part[from(h)][2].kind = "num" THEN part[from(h)][2].n ELSE 0]
<1>3. PortMappings!ParsePorts(t) = m BY Zenon DEF PortMappings!ParsePorts
<1>4. DOMAIN part = DOMAIN t /\ \A j \in DOMAIN t : part[j] = t[j] BY SplitAccepted
<1> HIDE DEF part
<1>5. \A j \in DOMAIN part : Len(part[j]) = 2 BY <1>2, <1>4, Zenon
<1>6. pair = DOMAIN t BY <1>4, <1>5, Zenon
<1> HIDE DEF pair
<1>7. m = [h \in {PortMappings!Trim(part[j][1]) : j \in pair} |->
             IF part[from(h)][2].kind = "num" THEN part[from(h)][2].n ELSE 0] OBVIOUS
<1> HIDE DEF m
<1>8. DOMAIN m = {PortMappings!Trim(t[j][1]) : j \in DOMAIN t} BY <1>4, <1>6, <1>7
<1>9. ASSUME NEW j \in DOMAIN t PROVE m[PortMappings!Trim(t[j][1])] = t[j][2].n
  <2>1. PICK h : h = PortMappings!Trim(t[j][1]) OBVIOUS
  <2>2. {i \in pair : PortMappings!Trim(part[i][1]) = h} = {j}
    <3>1. \A i \in pair : PortMappings!Trim(part[i][1]) = h => i = j BY <1>4, <1>6, <2>1, Zenon
    <3>2. j \in pair /\ PortMappings!Trim(part[j][1]) = h BY <1>4, <1>6, <2>1, Zenon
    <3> QED BY <3>1, <3>2, Zenon
  <2>3. from(h) = j BY <1>1, <2>2, LastOfOne
  <2>4. h \in {PortMappings!Trim(part[i][1]) : i \in pair} BY <1>4, <1>6, <2>1, Zenon
  <2>5. t[j][2].kind = "num" BY AcceptedEntry
  <2> HIDE DEF from
  <2>6. m[h] = IF part[j][2].kind = "num" THEN part[j][2].n ELSE 0 BY <1>7, <2>3, <2>4
  <2> QED BY <1>4, <2>1, <2>5, <2>6, Zenon
<1>10. PortMappings!CheckLBHealth(t, t[k][2].n) = {h \in DOMAIN m : m[h] = t[k][2].n}
  BY <1>3 DEF PortMappings!CheckLBHealth
<1> QED BY <1>8, <1>9, <1>10

(* toDynamicPorts keeps an accepted text accepted, and its container ports. *)
LEMMA DynamicAccepted ==
  ASSUME NEW t \in PortText, PortMappings!ParseAndValidatePorts(t), MaxPort \in Nat,
         NEW d, d = PortMappings!ToDynamicPorts(t)
  PROVE  /\ PortMappings!ParseAndValidatePorts(d)
         /\ DOMAIN d = DOMAIN t /\ \A k \in DOMAIN t : d[k][2].n = t[k][2].n
<1>1. Len(d) = Len(t) /\ DOMAIN d = DOMAIN t BY DynamicText
<1>2. ASSUME NEW k \in DOMAIN t
      PROVE  /\ Len(d[k]) = 2 /\ d[k][1] = PortMappings!Zero /\ d[k][2] = t[k][2]
  <2>1. Len(t[k]) = 2 BY AcceptedEntry
  <2>2. d[k] = <<PortMappings!Zero, t[k][2]>> BY <2>1, DynamicText, Zenon
  <2> QED BY <2>2
<1>3. Len(t) <= MaxPortsPerInstance BY DEF PortMappings!ParseAndValidatePorts
<1>4. ASSUME NEW k \in DOMAIN t, NEW j \in 1..2
      PROVE  PortMappings!ParsePortOK(d[k][j]) /\ d[k][j].n \in PortMappings!MinPort..MaxPort
  <2>1. CASE j = 1 BY <1>2, <2>1 DEF PortMappings!ParsePortOK, PortMappings!Zero, PortMappings!MinPort
  <2>2. CASE j = 2
    BY <1>2, <2>2 DEF PortMappings!ParseAndValidatePorts
  <2> QED BY <2>1, <2>2
<1>5. PortMappings!ParseAndValidatePorts(d)
  BY <1>1, <1>2, <1>3, <1>4, Zenon DEF PortMappings!ParseAndValidatePorts
<1> QED BY <1>1, <1>2, <1>5

LEMMA PortInit == PortMappings!Init => PortInv
BY DEF PortMappings!Init, PortInv

LEMMA PortNext == PortInv /\ (PortMappings!Next \/ UNCHANGED portVars) => PortInv'
<1> SUFFICES ASSUME PortInv, PortMappings!Next \/ UNCHANGED portVars PROVE PortInv' OBVIOUS
<1>1. ASSUME NEW text \in Texts, NEW group \in BOOLEAN, PortMappings!Give(text, group)
      PROVE  PortInv'
  <2>1. text \in PortText BY TextsType DEF PortText, PortField
  <2>2. /\ pstage' = "given" /\ given' = text
        /\ ports' = IF scaled' THEN PortMappings!ToDynamicPorts(given') ELSE given'
    BY <1>1, Zenon DEF PortMappings!Give
  <2> QED BY <2>1, <2>2 DEF PortInv
<1>2. CASE PortMappings!LaunchInstance
  <2>1. pstage = "given" /\ given' = given /\ scaled' = scaled /\ ports' = ports
    BY <1>2 DEF PortMappings!LaunchInstance
  <2>2. given \in PortText /\ ports = IF scaled THEN PortMappings!ToDynamicPorts(given) ELSE given
    BY <2>1 DEF PortInv
  <2>3. pstage' = IF PortMappings!ParseAndValidatePorts(ports) THEN "running" ELSE "refused"
    BY <1>2 DEF PortMappings!LaunchInstance
  <2>4. PortMappings!ParseAndValidatePorts(ports)' <=> PortMappings!ParseAndValidatePorts(ports)
    BY <2>1, Zenon
  <2>5. (ports = IF scaled THEN PortMappings!ToDynamicPorts(given) ELSE given)' BY <2>1, <2>2, Zenon
  <2> QED BY <2>1, <2>2, <2>3, <2>4, <2>5 DEF PortInv
<1>3. CASE UNCHANGED portVars BY <1>3 DEF PortInv, portVars
<1> QED BY <1>1, <1>2, <1>3, Zenon DEF PortMappings!Next

(* A text that is accepted stays so when a group rewrites it. *)
LEMMA ScalingKept == PortInv => PortMappings!ScalingKeepsPorts
<1> SUFFICES ASSUME PortInv PROVE PortMappings!ScalingKeepsPorts OBVIOUS
<1> SUFFICES ASSUME scaled, pstage \in {"running", "refused"}, PortMappings!ParseAndValidatePorts(given)
             PROVE  /\ pstage = "running"
                    /\ {ports[k][2].n : k \in DOMAIN ports} = {given[k][2].n : k \in DOMAIN given}
  BY Zenon DEF PortMappings!ScalingKeepsPorts, PortMappings!ContainerOf
<1>1. given \in PortText /\ ports = PortMappings!ToDynamicPorts(given) BY DEF PortInv
<1>2. MaxPort \in Nat BY TextsType
<1>3. /\ PortMappings!ParseAndValidatePorts(ports)
      /\ DOMAIN ports = DOMAIN given /\ \A k \in DOMAIN given : ports[k][2].n = given[k][2].n
  BY <1>1, <1>2, DynamicAccepted
<1>4. pstage = "running" BY <1>3 DEF PortInv
<1> QED BY <1>3, <1>4

-----------------------------------------------------------------------------
(***************************************************************************)
(* What is counted.  The gauge is the number of attached clients, and      *)
(* Docker binds as many ports as the text has entries.                     *)
(***************************************************************************)
INSTANCE FiniteSetTheorems

Attached == {p \in Peer : reader[p] \in {"read", "unregister"}}
Gauge    == active = Cardinality(Attached)
HubInv   == HubShape /\ Channels /\ Streams /\ Gauge

(* An instance names the operators it extends apart; they are the same. *)
LEMMA SameCardinality == \A S : WebSocketHub!Cardinality(S) = Cardinality(S)
BY Zenon DEF WebSocketHub!Cardinality, Cardinality

LEMMA SamePortCardinality == \A S : PortMappings!Cardinality(S) = Cardinality(S)
BY Zenon DEF PortMappings!Cardinality, Cardinality

(* The hub's goroutine counts a client when it takes it in or lets it go. *)
LEMMA GaugeStep ==
  ASSUME HubShape, Gauge, WebSocketHub!Next \/ UNCHANGED hubVars
  PROVE  Gauge'
<1>1. IsFiniteSet(Attached) BY PeersFinite, FS_Subset DEF Attached
<1>2. ASSUME NEW q \in Peer, WebSocketHub!TakeRegister(q) PROVE Gauge'
  <2>1. Attached' = Attached \cup {q} /\ q \notin Attached /\ active' = active + 1
    BY <1>2 DEF WebSocketHub!TakeRegister, HubShape, Attached
  <2>2. Cardinality(Attached \cup {q}) = Cardinality(Attached) + 1
    BY <1>1, <2>1, FS_AddElement, Zenon
  <2> QED BY <2>1, <2>2, Zenon DEF Gauge
<1>3. ASSUME NEW q \in Peer, WebSocketHub!TakeUnregister(q) PROVE Gauge'
  <2>1. Attached' = Attached \ {q} /\ q \in Attached /\ active' = active - 1
    BY <1>3 DEF WebSocketHub!TakeUnregister, HubShape, Attached
  <2>2. Cardinality(Attached \ {q}) = Cardinality(Attached) - 1
    BY <1>1, <2>1, FS_RemoveElement, Zenon
  <2> QED BY <2>1, <2>2, Zenon DEF Gauge
<1>4. CASE UNCHANGED <<reader, active>> BY <1>4, Zenon DEF Gauge, Attached
<1>5. ASSUME NEW q \in Peer, WebSocketHub!ServeWS(q) \/ WebSocketHub!ReadEnd(q) PROVE Gauge'
  <2>1. Attached' = Attached /\ active' = active
    BY <1>5 DEF WebSocketHub!ServeWS, WebSocketHub!ReadEnd, HubShape, Attached
  <2> QED BY <2>1, Zenon DEF Gauge
<1>6. CASE UNCHANGED hubVars BY <1>4, <1>6 DEF hubVars
<1>7. CASE WebSocketHub!TakeBroadcast BY <1>4, <1>7, Zenon DEF WebSocketHub!TakeBroadcast
<1>8. CASE WebSocketHub!BroadcastEvent BY <1>4, <1>8, Zenon DEF WebSocketHub!BroadcastEvent
<1>9. ASSUME NEW q \in Peer, WebSocketHub!Disconnect(q) \/ WebSocketHub!WriteMessages(q) \/ WebSocketHub!WriteEnd(q)
      PROVE  Gauge'
  BY <1>4, <1>9, Zenon DEF WebSocketHub!Disconnect, WebSocketHub!WriteMessages, WebSocketHub!WriteEnd
<1> QED BY <1>2, <1>3, <1>5, <1>6, <1>7, <1>8, <1>9, Zenon
        DEF WebSocketHub!Next, WebSocketHub!HubStep, WebSocketHub!Writer

LEMMA HubInit == WebSocketHub!Init => HubInv
<1> SUFFICES ASSUME WebSocketHub!Init PROVE HubInv OBVIOUS
<1>1. Attached = {} BY DEF WebSocketHub!Init, Attached
<1>2. Gauge BY <1>1, FS_EmptySet DEF WebSocketHub!Init, Gauge
<1> QED BY <1>2, HubStart DEF HubInv

LEMMA HubNext == ASSUME HubInv, WebSocketHub!Next \/ UNCHANGED hubVars PROVE HubInv'
BY HubGoesOn, GaugeStep, Zenon DEF HubInv

LEMMA HubFacts == HubInv => WebSocketHub!HubSound
<1> SUFFICES ASSUME HubInv PROVE WebSocketHub!HubSound
  OBVIOUS
<1>1. ASSUME NEW p \in Peer, writer[p] = "run", p \in conn
      PROVE  /\ Sent(p) = SubSeq(log, joined[p] + 1, joined[p] + Len(Sent(p)))
             /\ p \in clients => joined[p] + Len(Sent(p)) = Len(log)
  BY <1>1, SentLog, Zenon DEF HubInv
<1>2. ~panic /\ active = Cardinality({p \in Peer : reader[p] \in {"read", "unregister"}})
  BY DEF HubInv, Channels, Gauge, Attached
<1>3. active = WebSocketHub!Cardinality({p \in Peer : reader[p] \in {"read", "unregister"}})
  BY <1>2, SameCardinality, Zenon
<1> QED BY <1>1, <1>2, <1>3, Zenon DEF WebSocketHub!HubSound, Sent

(* The hub never closes a closed channel nor sends on one, the gauge counts *)
(* the attached clients, and every connection is sent the events from its   *)
(* arrival on, in order and without a gap: for any number of clients and    *)
(* any capacities of the buffers.                                           *)
THEOREM HubCorrect == WebSocketHub!Spec => []WebSocketHub!HubSound
<1>1. HubInv /\ [WebSocketHub!Next]_(WebSocketHub!vars) => HubInv'
  BY HubNext, Zenon DEF WebSocketHub!vars, hubVars
<1> QED BY <1>1, HubInit, HubFacts, PTL DEF WebSocketHub!Spec

(* A text without a repeated container port has as many of them as entries. *)
LEMMA DockerCount ==
  ASSUME NEW t \in PortText, \A j, k \in DOMAIN t : t[j][2].n = t[k][2].n => j = k
  PROVE  Cardinality({t[k][2] : k \in DOMAIN t}) = Len(t)
<1>1. Len(t) \in Nat /\ DOMAIN t = 1..Len(t) BY TextEntries
<1> DEFINE S == {t[k][2] : k \in DOMAIN t}
           f == [k \in 1..Len(t) |-> t[k][2]]
<1>2. f \in [1..Len(t) -> S] BY <1>1
<1>3. \A j, k \in 1..Len(t) : f[j] = f[k] => j = k BY <1>1
<1>4. \A c \in S : \E k \in 1..Len(t) : f[k] = c BY <1>1
<1> HIDE DEF S, f
<1>5. f \in Bijection(1..Len(t), S)
  BY <1>2, <1>3, <1>4, ZenonT(30) DEF Bijection, Injection, Surjection, IsInjective
<1>6. Cardinality(S) = Len(t) BY <1>1, <1>5, FS_CountingElements DEF ExistsBijection
<1> QED BY <1>6 DEF S

LEMMA PortFacts == PortInv => PortMappings!ReadersAgree /\ PortMappings!ScalingKeepsPorts
<1> SUFFICES ASSUME PortInv PROVE PortMappings!ReadersAgree /\ PortMappings!ScalingKeepsPorts OBVIOUS
<1>1. ASSUME pstage # "none" PROVE given \in PortText /\ ports \in PortText
  BY <1>1, DynamicText DEF PortInv
<1>2. ASSUME pstage = "running" PROVE ports \in PortText /\ PortMappings!ParseAndValidatePorts(ports)
  BY <1>1, <1>2 DEF PortInv
<1>3. PortMappings!ReadersAgree
  <2> SUFFICES ASSUME pstage = "running" PROVE PortMappings!ReadersAgree
    BY Zenon DEF PortMappings!ReadersAgree
  <2>1. ASSUME NEW k \in DOMAIN ports
        PROVE  /\ PortMappings!Forwarded(ports[k]).to = ports[k][2].n
               /\ PortMappings!Forwarded(ports[k]).from = {} => ports[k][1].pad /\ ports[k][1].n = 0
    BY <1>2, LibvirtReads, Zenon
  <2>2. ASSUME \A j, k \in DOMAIN ports : ports[j][2].n = ports[k][2].n => j = k
        PROVE  /\ \A k \in DOMAIN ports : PortMappings!PortBindings(ports)[ports[k][2]] = ports[k][1]
               /\ PortMappings!Cardinality(DOMAIN PortMappings!PortBindings(ports)) = Len(ports)
    BY <1>2, <2>2, DockerBinds, DockerCount, SamePortCardinality, Zenon
  <2>3. ASSUME \A j, k \in DOMAIN ports : PortMappings!Trim(ports[j][1]) = PortMappings!Trim(ports[k][1]) => j = k,
               \A j, k \in DOMAIN ports : ports[j][2].n = ports[k][2].n => j = k,
               NEW k \in DOMAIN ports
        PROVE  PortMappings!CheckLBHealth(ports, ports[k][2].n) = {PortMappings!Trim(ports[k][1])}
    BY <1>2, <2>3, HealthCheckFinds, Zenon
  <2> QED BY <2>1, <2>2, <2>3, Zenon
        DEF PortMappings!ReadersAgree, PortMappings!Distinct, PortMappings!ContainerOf, PortMappings!HostOf
<1>4. PortMappings!ScalingKeepsPorts BY ScalingKept
<1> QED BY <1>3, <1>4

(* What parseAndValidatePorts accepted, Docker, libvirt and the health      *)
(* check of a load balancer read alike, and toDynamicPorts keeps accepted:  *)
(* for every set of texts, whatever the number of their entries.            *)
THEOREM PortsCorrect ==
  PortMappings!Spec => [](PortMappings!ReadersAgree /\ PortMappings!ScalingKeepsPorts)
<1>1. PortInv /\ [PortMappings!Next]_(PortMappings!vars) => PortInv'
  BY PortNext DEF PortMappings!vars, portVars
<1> QED BY <1>1, PortInit, PortFacts, PTL DEF PortMappings!Spec

-----------------------------------------------------------------------------
(* The process as a whole stays sound, whichever of its parts takes the     *)
(* next step.                                                               *)
THEOREM ProcessCorrect == ProcessSpec => []ProcessSound
<1> DEFINE Inv == Schema /\ Phases /\ HubInv /\ LimiterShape /\ Budget /\ PortInv
<1>1. ProcessInit => Inv
  BY ServerInit, HubInit, LimiterInit, PortInit, Zenon DEF ProcessInit
<1>2. Inv /\ [ProcessNext]_processVars => Inv'
  <2> SUFFICES ASSUME Inv, [ProcessNext]_processVars PROVE Inv' OBVIOUS
  <2>1. Server!Next \/ UNCHANGED serverVars
    BY Zenon DEF ProcessNext, ServerStep, HubStep, LimiterStep, PortStep, processVars
  <2>2. WebSocketHub!Next \/ UNCHANGED hubVars
    BY Zenon DEF ProcessNext, ServerStep, HubStep, LimiterStep, PortStep, processVars
  <2>3. RateLimiter!Next \/ UNCHANGED limiterVars
    BY Zenon DEF ProcessNext, ServerStep, HubStep, LimiterStep, PortStep, processVars
  <2>4. PortMappings!Next \/ UNCHANGED portVars
    BY Zenon DEF ProcessNext, ServerStep, HubStep, LimiterStep, PortStep, processVars
  <2>5. Schema' /\ Phases' BY <2>1, SchemaStep, PhasesStep, Zenon
  <2>6. HubInv' BY <2>2, HubNext, Zenon
  <2>7. LimiterShape' /\ Budget' BY <2>3, LimiterNext, Zenon
  <2>8. PortInv' BY <2>4, PortNext, Zenon
  <2> QED BY <2>5, <2>6, <2>7, <2>8, Zenon
<1>3. Inv => ProcessSound
  BY ServerFacts, HubFacts, LimiterFacts, PortFacts, Zenon DEF ProcessSound
<1> QED BY <1>1, <1>2, <1>3, PTL DEF ProcessSpec
=============================================================================
