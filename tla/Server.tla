-------------------------------- MODULE Server --------------------------------
(***************************************************************************)
(* The life of the API server's process (cmd/api/main.go): connect, run    *)
(* the migrations, build the services, start the four workers and serve;   *)
(* on a signal let the requests end, for at most 30 s, then stop the       *)
(* workers, wait for them and close the pool.  Goroutines that a request   *)
(* left behind (deliveries, snapshots, stacks, cron runs) are not waited   *)
(* for.                                                                    *)
(***************************************************************************)
EXTENDS Naturals, FiniteSets

CONSTANTS NumMigrations,
          Needs,          \* migration -> the earlier ones whose tables it uses
          Worker, Req,
          MaxStarts,      \* bound: starts of the process
          MaxFaults

VARIABLES
  phase,      \* where main is
  next,       \* the migration that RunMigrations is at
  applied,    \* the migrations whose tables exist
  pool,       \* the connection pool
  worker,     \* Run of each worker
  hreq,       \* the request each client has in progress
  bg,         \* clients whose latest request left a goroutine running
  starts,
  faults,
  bad,        \* history: this start met an error of the database
  forced,     \* history: this shutdown did not wait for all requests
  cut         \* history: requests and worker iterations cut off by main returning

vars == <<phase, next, applied, pool, worker, hreq, bg, starts, faults, bad, forced, cut>>

Migration == 1..NumMigrations
procVars  == <<worker, hreq, bg, forced, cut>>

(* The process, its schema, its workers and its requests are well typed. *)
TypeOK ==
  /\ phase \in {"exited", "migrate", "serve", "shutdown", "cancel"} /\ next \in 1..NumMigrations + 1
  /\ applied \subseteq Migration /\ pool \in {"open", "closed"} /\ bg \subseteq Req
  /\ worker \in [Worker -> {"off", "idle", "run", "stopped"}] /\ hreq \in [Req -> {"none", "active"}]
  /\ starts \in 0..MaxStarts /\ faults \in 0..MaxFaults /\ bad \in BOOLEAN /\ forced \in BOOLEAN

Init ==
  /\ phase = "exited" /\ next = 1 /\ applied = {} /\ pool = "closed" /\ starts = 0 /\ faults = 0
  /\ worker = [w \in Worker |-> "off"] /\ hreq = [r \in Req |-> "none"] /\ bg = {}
  /\ bad = FALSE /\ forced = FALSE /\ cut = {}

Fault == faults < MaxFaults /\ faults' = faults + 1
Ok    == UNCHANGED faults

(* The process is gone, and everything that ran in it. *)
Ended ==
  /\ phase' = "exited" /\ pool' = "closed"
  /\ worker' = [w \in Worker |-> "off"] /\ hreq' = [r \in Req |-> "none"] /\ bg' = {}

-----------------------------------------------------------------------------
(* InitDatabase; without a connection main exits. *)
InitDatabase ==
  /\ phase = "exited" /\ starts < MaxStarts /\ starts' = starts + 1
  /\ \/ Ok /\ phase' = "migrate" /\ pool' = "open" /\ next' = 1
     \/ Fault /\ UNCHANGED <<phase, pool, next>>
  /\ bad' = FALSE /\ forced' = FALSE /\ UNCHANGED <<applied, worker, hreq, bg, cut>>

(* RunMigrations: each file is one Exec, whole or not at all; an error, be it *)
(* that the tables exist, that a table it needs does not, or that the 10 s    *)
(* are over, is logged, and the next file is run.                             *)
RunMigrations ==
  /\ phase = "migrate" /\ next <= NumMigrations /\ next' = next + 1
  /\ \/ Ok /\ applied' = (IF Needs[next] \subseteq applied THEN applied \cup {next} ELSE applied) /\ UNCHANGED bad
     \/ Fault /\ bad' = TRUE /\ UNCHANGED applied
  /\ UNCHANGED <<phase, pool, worker, hreq, bg, starts, forced, cut>>

(* -migrate-only ends here. *)
MigrateOnly ==
  /\ phase = "migrate" /\ next > NumMigrations /\ phase' = "exited" /\ pool' = "closed"
  /\ UNCHANGED <<next, applied, starts, faults, bad, procVars>>

(* The backends, the repositories and the services; an error exits.  Then   *)
(* the workers and the listener.                                            *)
InitServices ==
  /\ phase = "migrate" /\ next > NumMigrations
  /\ \/ Ok /\ phase' = "serve" /\ worker' = [w \in Worker |-> "idle"] /\ UNCHANGED pool
     \/ Fault /\ phase' = "exited" /\ pool' = "closed" /\ UNCHANGED worker
  /\ UNCHANGED <<next, applied, hreq, bg, starts, bad, forced, cut>>

-----------------------------------------------------------------------------
(* A request, one that streams until its client leaves included. *)
Accept(r) ==
  /\ phase = "serve" /\ hreq[r] = "none" /\ hreq' = [hreq EXCEPT ![r] = "active"]
  /\ UNCHANGED <<phase, next, applied, pool, worker, bg, starts, faults, bad, forced, cut>>
Reply(r) ==
  /\ hreq[r] = "active" /\ hreq' = [hreq EXCEPT ![r] = "none"] /\ bg' \in {bg, bg \cup {r}}
  /\ UNCHANGED <<phase, next, applied, pool, worker, starts, faults, bad, forced, cut>>
Background(r) ==
  /\ r \in bg /\ bg' = bg \ {r}
  /\ UNCHANGED <<phase, next, applied, pool, worker, hreq, starts, faults, bad, forced, cut>>

(* Run: a tick, an iteration, or the end of the context; when both wait, select *)
(* takes either.                                                                *)
Tick(w) ==
  /\ worker[w] = "idle" /\ worker' = [worker EXCEPT ![w] = "run"]
  /\ UNCHANGED <<phase, next, applied, pool, hreq, bg, starts, faults, bad, forced, cut>>
Iterate(w) ==
  /\ worker[w] = "run" /\ worker' = [worker EXCEPT ![w] = "idle"]
  /\ UNCHANGED <<phase, next, applied, pool, hreq, bg, starts, faults, bad, forced, cut>>
Done(w) ==
  /\ phase = "cancel" /\ worker[w] = "idle" /\ worker' = [worker EXCEPT ![w] = "stopped"]
  /\ UNCHANGED <<phase, next, applied, pool, hreq, bg, starts, faults, bad, forced, cut>>

-----------------------------------------------------------------------------
Signal ==
  /\ phase = "serve" /\ phase' = "shutdown"
  /\ UNCHANGED <<next, applied, pool, starts, faults, bad, procVars>>

(* srv.Shutdown returns when no request is left, or after 30 s; then workerCancel. *)
Shutdown ==
  /\ phase = "shutdown" /\ phase' = "cancel"
  /\ \/ (\A r \in Req : hreq[r] = "none") /\ UNCHANGED forced
     \/ forced' = TRUE
  /\ UNCHANGED <<next, applied, pool, worker, hreq, bg, starts, faults, bad, cut>>

(* Faulty variant: main does not wait for the workers. *)
ExitAtOnce ==
  /\ phase = "cancel" /\ Ended
  /\ cut' = cut \cup {w \in Worker : worker[w] = "run"} \cup (IF forced THEN {} ELSE {r \in Req : hreq[r] = "active"})
  /\ UNCHANGED <<next, applied, starts, faults, bad, forced>>

(* wg.Wait, and main returns: db.Close, and the process ends. *)
Exit ==
  /\ phase = "cancel" /\ (\A w \in Worker : worker[w] = "stopped") /\ Ended
  /\ cut' = cut \cup {w \in Worker : worker[w] = "run"} \cup (IF forced THEN {} ELSE {r \in Req : hreq[r] = "active"})
  /\ UNCHANGED <<next, applied, starts, faults, bad, forced>>

(* ListenAndServe fails (os.Exit), or the process is killed. *)
Kill ==
  /\ phase # "exited" /\ Fault /\ Ended
  /\ UNCHANGED <<next, applied, starts, bad, forced, cut>>

-----------------------------------------------------------------------------
Start == InitDatabase \/ RunMigrations \/ MigrateOnly \/ InitServices
Stop  == Shutdown \/ Exit
Next  == \/ Start \/ Signal \/ Stop \/ Kill
         \/ \E r \in Req : Accept(r) \/ Reply(r) \/ Background(r)
         \/ \E w \in Worker : Tick(w) \/ Iterate(w) \/ Done(w)
Spec  == /\ Init /\ [][Next]_vars /\ WF_vars(Stop)
         /\ \A w \in Worker : WF_vars(Iterate(w)) /\ SF_vars(Done(w))

-----------------------------------------------------------------------------
(* The workers work only while the pool is open, and main does not return in *)
(* the middle of an iteration or, unless the 30 s were over, of a request;   *)
(* the tables that a migration's tables refer to exist; and a start in which *)
(* no statement failed for another reason serves the whole schema, whatever  *)
(* earlier starts left undone.                                               *)
ServerSound ==
  /\ \A w \in Worker : worker[w] = "run" => pool = "open"
  /\ cut = {}
  /\ \A m \in applied : Needs[m] \subseteq applied
  /\ phase \in {"serve", "shutdown", "cancel"} /\ ~bad => applied = Migration

(* A server that was told to stop stops, though a client may never leave. *)
ServerStops == []<>(phase \notin {"shutdown", "cancel"})

=============================================================================
