----------------------------- MODULE RateLimiter ----------------------------
(***************************************************************************)
(* The rate limiter: a token bucket for every key, created on first use,   *)
(* and a loop that forgets all buckets every ten minutes.                  *)
(***************************************************************************)
EXTENDS Integers, FiniteSets

CONSTANTS Key, Req, KeyOf, Burst,
          MaxLimiters, MaxTicks    \* bounds of the instance

VARIABLES
  ips,        \* IPRateLimiter.ips: key -> limiter, 0 if absent
  limiters,   \* number of limiters made
  tokens,     \* tokens of each limiter
  held,       \* the limiter each request was given, 0 before
  verdict,    \* what Allow said
  ticks,      \* tokens a full bucket would have gained since the last cleanup
  passed      \* history: requests of the key let through by limiters of this cycle

vars == <<ips, limiters, tokens, held, verdict, ticks, passed>>

(* Limiters, tokens and requests are well typed; a bucket holds at most Burst. *)
TypeOK ==
  /\ limiters \in 0..MaxLimiters /\ ips \in [Key -> 0..limiters] /\ held \in [Req -> 0..limiters]
  /\ tokens \in [1..MaxLimiters -> 0..Burst] /\ ticks \in 0..MaxTicks
  /\ verdict \in [Req -> {"new", "allowed", "limited"}] /\ passed \in [Key -> 0..Cardinality(Req)]

Init ==
  /\ ips = [k \in Key |-> 0] /\ limiters = 0 /\ tokens = [l \in 1..MaxLimiters |-> Burst]
  /\ held = [r \in Req |-> 0] /\ verdict = [r \in Req |-> "new"]
  /\ ticks = 0 /\ passed = [k \in Key |-> 0]

-----------------------------------------------------------------------------
(* Faulty variant: a limiter is made on every call. *)
GetLimiterNew(r) ==
  /\ held[r] = 0 /\ limiters < MaxLimiters /\ limiters' = limiters + 1
  /\ ips' = [ips EXCEPT ![KeyOf[r]] = limiters'] /\ held' = [held EXCEPT ![r] = limiters']
  /\ UNCHANGED <<tokens, verdict, ticks, passed>>

(* GetLimiter looks up and creates under one lock. *)
GetLimiter(r) ==
  /\ held[r] = 0
  /\ IF ips[KeyOf[r]] # 0
       THEN held' = [held EXCEPT ![r] = ips[KeyOf[r]]] /\ UNCHANGED <<ips, limiters>>
       ELSE /\ limiters < MaxLimiters /\ limiters' = limiters + 1
            /\ ips' = [ips EXCEPT ![KeyOf[r]] = limiters'] /\ held' = [held EXCEPT ![r] = limiters']
  /\ UNCHANGED <<tokens, verdict, ticks, passed>>

(* Middleware: one token of the limiter that was given, or 429. *)
Middleware(r) ==
  LET l == held[r] IN
  /\ l # 0 /\ verdict[r] = "new"
  /\ IF tokens[l] > 0
       THEN /\ tokens' = [tokens EXCEPT ![l] = @ - 1] /\ verdict' = [verdict EXCEPT ![r] = "allowed"]
            /\ passed' = IF ips[KeyOf[r]] = l THEN [passed EXCEPT ![KeyOf[r]] = @ + 1] ELSE passed
       ELSE verdict' = [verdict EXCEPT ![r] = "limited"] /\ UNCHANGED <<tokens, passed>>
  /\ UNCHANGED <<ips, limiters, held, ticks>>

(* Time passes: every bucket gains a token up to its burst (golang.org/x/time/rate). *)
Refill ==
  /\ ticks < MaxTicks /\ ticks' = ticks + 1
  /\ tokens' = [l \in 1..MaxLimiters |-> IF tokens[l] < Burst THEN tokens[l] + 1 ELSE Burst]
  /\ UNCHANGED <<ips, limiters, held, verdict, passed>>

CleanupLoop ==
  /\ ips' = [k \in Key |-> 0] /\ ticks' = 0 /\ passed' = [k \in Key |-> 0]
  /\ UNCHANGED <<limiters, tokens, held, verdict>>

Next == CleanupLoop \/ Refill \/ \E r \in Req : GetLimiter(r) \/ Middleware(r)
Spec == Init /\ [][Next]_vars

-----------------------------------------------------------------------------
(* Between two cleanups the bucket of a key lets through no more than the      *)
(* burst and what was refilled, however its requests interleave; a request     *)
(* that took its limiter before the cleanup draws on the forgotten one.        *)
WithinRate == \A k \in Key : passed[k] <= Burst + ticks
=============================================================================
