------------------------------- MODULE Process -------------------------------
(***************************************************************************)
(* What the API process consists of besides the services: its start and    *)
(* its end, the event hub, the rate limiter and the readers of port texts. *)
(* They share no state, so a step of the process is a step of one of them. *)
(***************************************************************************)
EXTENDS Integers, Sequences, FiniteSets

CONSTANTS MaxFaults,                                                             \* bound: failures of Server
          NumMigrations, Needs, Worker, Caller, MaxStarts,                       \* Server
          Peer, NumEvents, QueueCap, SendCap,                                    \* WebSocketHub
          Address, Hit, AddressOf, Burst, MaxLimiters, MaxTicks,                 \* RateLimiter
          Texts, MaxPortsPerInstance, MaxPort                                    \* PortMappings

(* The migrations use only tables of earlier ones. *)
ASSUME MigrationsOrdered ==
  NumMigrations \in Nat /\ \A m \in 1..NumMigrations : Needs[m] \subseteq 1..(m - 1)

ASSUME PeersFinite == IsFiniteSet(Peer)
ASSUME LimiterType == Burst \in Nat /\ MaxLimiters \in Nat /\ AddressOf \in [Hit -> Address]

ASSUME TextsType ==
  /\ \A text \in Texts : text \in Seq(Seq([kind : {"empty", "num", "word"}, n : Nat, pad : BOOLEAN]))
  /\ MaxPort \in Nat

VARIABLES
  faults,
  phase, next, applied, pool, worker, hreq, bg, starts, bad, forced, cut,
  clients, queue, send, closed, conn, reader, writer, active, panic, log, joined, got,
  ips, limiters, tokens, held, verdict, ticks, passed,
  given, scaled, ports, pstage

Server       == INSTANCE Server WITH Req <- Caller
WebSocketHub == INSTANCE WebSocketHub
RateLimiter  == INSTANCE RateLimiter WITH Key <- Address, Req <- Hit, KeyOf <- AddressOf
PortMappings == INSTANCE PortMappings

serverVars  == <<phase, next, applied, pool, worker, hreq, bg, starts, bad, forced, cut>>
hubVars     == <<clients, queue, send, closed, conn, reader, writer, active, panic, log, joined, got>>
limiterVars == <<ips, limiters, tokens, held, verdict, ticks, passed>>
portVars    == <<given, scaled, ports, pstage>>
processVars == <<serverVars, hubVars, limiterVars, portVars>>

ProcessInit == Server!Init /\ WebSocketHub!Init /\ RateLimiter!Init /\ PortMappings!Init

ServerStep  == Server!Next /\ UNCHANGED <<hubVars, limiterVars, portVars>>
HubStep     == WebSocketHub!Next /\ UNCHANGED <<faults, serverVars, limiterVars, portVars>>
LimiterStep == RateLimiter!Next /\ UNCHANGED <<faults, serverVars, hubVars, portVars>>
PortStep    == PortMappings!Next /\ UNCHANGED <<faults, serverVars, hubVars, limiterVars>>
ProcessNext == ServerStep \/ HubStep \/ LimiterStep \/ PortStep

(* The failures of other services may be counted in faults as well. *)
ProcessSpec == ProcessInit /\ [][ProcessNext]_processVars

-----------------------------------------------------------------------------
(* The process as a whole: workers and requests use the pool only while it  *)
(* is open and the schema is complete, the event hub closes no channel      *)
(* twice and sends no event out of order, the rate limiter lets through no  *)
(* more than its bucket holds, and the readers of a port text agree.        *)
ProcessSound ==
  /\ Server!ServerSound /\ WebSocketHub!HubSound /\ RateLimiter!WithinRate
  /\ PortMappings!ReadersAgree /\ PortMappings!ScalingKeepsPorts
=============================================================================
