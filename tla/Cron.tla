-------------------------------- MODULE Cron --------------------------------
(***************************************************************************)
(* CloudCron: CronService, its repository and CronWorker, which polls for  *)
(* due jobs and runs each in a goroutine of its own.  The poll's FOR       *)
(* UPDATE SKIP LOCKED is a statement outside a transaction, so no lock     *)
(* outlives it.                                                            *)
(*                                                                         *)
(* Of time only "next_run_at is later, or is due" is kept.  The service    *)
(* parses descriptors (@daily) and standard schedules, the worker's parser *)
(* only the latter.                                                        *)
(***************************************************************************)
EXTENDS Integers, FiniteSets, Functions

CONSTANTS Job, Client, Slot, NoJob,  \* Slot bounds the goroutines at one time
          MaxFaults

VARIABLES
  job,      \* cron_jobs
  runs,     \* cron_job_runs: the jobs with a recorded run
  go,       \* the goroutines of runJob
  creq,     \* requests between their read and their write
  faults,
  started   \* history: jobs with a start since CronWorker last served them

vars == <<job, runs, go, creq, faults, started>>

CronJob == [st : {"none", "ACTIVE", "PAUSED", "deleted"}, next : {"nil", "later", "due"},
            sched : {"standard", "descriptor"}]
NoRow   == [st |-> "none", next |-> "nil", sched |-> "standard"]
NoRun   == [pc |-> "free", j |-> NoJob]

(* Jobs, goroutines and requests are well typed. *)
TypeOK == /\ job \in [Job -> CronJob] /\ runs \subseteq Job /\ started \subseteq Job
          /\ go \in [Slot -> [pc : {"free", "call", "save", "update"}, j : Job \cup {NoJob}]]
          /\ creq \in [Client -> Job \cup {NoJob}]

Init == /\ job = [j \in Job |-> NoRow] /\ runs = {} /\ go = [s \in Slot |-> NoRun]
        /\ creq = [c \in Client |-> NoJob] /\ faults = 0 /\ started = {}

Fault   == faults < MaxFaults /\ faults' = faults + 1
NoFault == UNCHANGED faults

-----------------------------------------------------------------------------
(* PostgresCronRepository *)

Stored(j) == job[j].st \in {"ACTIVE", "PAUSED"}
GetNextJobsToRun == {j \in Job : job[j].st = "ACTIVE" /\ job[j].next = "due"}
UpdateJob(j, st, next) ==
  job' = [job EXCEPT ![j] = IF Stored(j) THEN [@ EXCEPT !.st = st, !.next = next] ELSE @]
SaveJobRun(j) == runs' = IF Stored(j) THEN runs \cup {j} ELSE runs

-----------------------------------------------------------------------------
(* CronService *)

CreateJob(j, sched) ==
  /\ job[j].st = "none"
  /\ job' = [job EXCEPT ![j] = [st |-> "ACTIVE", next |-> "later", sched |-> sched]]
  /\ UNCHANGED <<runs, go, creq, faults, started>>

(* GetJobByID; the request then overwrites all that UpdateJob stores. *)
GetJob(c, j) ==
  /\ creq[c] = NoJob /\ Stored(j)
  /\ creq' = [creq EXCEPT ![c] = j]
  /\ UNCHANGED <<job, runs, go, faults, started>>

Answered(c) == creq[c] # NoJob /\ creq' = [creq EXCEPT ![c] = NoJob]

(* Faulty variant: next_run_at stays. *)
PauseStatusOnly(c) ==
  /\ Answered(c)
  /\ UpdateJob(creq[c], "PAUSED", job[creq[c]].next)
  /\ UNCHANGED <<runs, go, faults, started>>

PauseJob(c) ==
  /\ Answered(c)
  /\ UpdateJob(creq[c], "PAUSED", "nil")
  /\ UNCHANGED <<runs, go, faults, started>>

ResumeJob(c) ==
  /\ Answered(c)
  /\ UpdateJob(creq[c], "ACTIVE", "later")
  /\ UNCHANGED <<runs, go, faults, started>>

DeleteJob(c) ==
  /\ Answered(c)
  /\ job' = [job EXCEPT ![creq[c]] = [@ EXCEPT !.st = "deleted", !.next = "nil"]]
  /\ runs' = runs \ {creq[c]}
  /\ UNCHANGED <<go, faults, started>>

-----------------------------------------------------------------------------
(* CronWorker *)

(* next_run_at comes. *)
TimePasses(j) ==
  /\ job[j].next = "later"
  /\ job' = [job EXCEPT ![j].next = "due"]
  /\ UNCHANGED <<runs, go, creq, faults, started>>

ProcessJobs ==
  /\ GetNextJobsToRun # {}
  /\ \E f \in Injection(GetNextJobsToRun, {s \in Slot : go[s].pc = "free"}) :
       LET by == AntiFunction(f) IN
         go' = [s \in Slot |-> IF s \in Range(f)
                               THEN [pc |-> "call", j |-> by[s]] ELSE go[s]]
  /\ started' = started \cup GetNextJobsToRun
  /\ UNCHANGED <<job, runs, creq, faults>>

(* runJob: any answer, or none, leads to recordRun. *)
RunJob(s) ==
  /\ go[s].pc = "call"
  /\ go' = [go EXCEPT ![s].pc = "save"]
  /\ UNCHANGED <<job, runs, creq, faults, started>>

(* recordRun: the INSERT, whose failure is logged, ... *)
RecordRun(s) ==
  /\ go[s].pc = "save"
  /\ \/ NoFault /\ SaveJobRun(go[s].j)
     \/ Fault /\ UNCHANGED runs
  /\ go' = [go EXCEPT ![s].pc = "update"]
  /\ UNCHANGED <<job, creq, started>>

(* ... then the next time and the status that the poll read.  A             *)
(* descriptor's schedule is nil here, and the panic ends the process.       *)
UpdateAfterRun(s) ==
  /\ go[s].pc = "update"
  /\ job[go[s].j].sched = "standard"
  /\ \/ NoFault /\ UpdateJob(go[s].j, "ACTIVE", "later")
     \/ Fault /\ UNCHANGED job
  /\ started' = started \ {go[s].j}
  /\ go' = [go EXCEPT ![s] = NoRun]
  /\ UNCHANGED <<runs, creq>>

ProcessEnds == /\ go' = [s \in Slot |-> NoRun]
               /\ creq' = [c \in Client |-> NoJob]
               /\ UNCHANGED <<job, runs, started>>

Panic(s) == go[s].pc = "update" /\ job[go[s].j].sched = "descriptor" /\ ProcessEnds /\ NoFault
Crash    == Fault /\ ProcessEnds

-----------------------------------------------------------------------------
ClientStep == \/ \E j \in Job, s \in {"standard", "descriptor"} : CreateJob(j, s)
              \/ \E c \in Client, j \in Job : GetJob(c, j)
              \/ \E c \in Client : PauseJob(c) \/ ResumeJob(c) \/ DeleteJob(c)
Running(s) == RunJob(s) \/ RecordRun(s) \/ UpdateAfterRun(s) \/ Panic(s)
Time       == \E j \in Job : TimePasses(j)
GoStep     == \E s \in Slot : Running(s)

Next == ClientStep \/ Time \/ ProcessJobs \/ GoStep \/ Crash
Fairness == \A j \in Job : WF_vars(TimePasses(j))
(* Strong fairness of the poll: only the bound on goroutines disables it.   *)
Spec == /\ Init /\ [][Next]_vars /\ SF_vars(ProcessJobs) /\ Fairness
        /\ \A s \in Slot : WF_vars(Running(s))

-----------------------------------------------------------------------------
(* Status and next_run_at stay in step: whatever requests and late runs     *)
(* write over one another, a PAUSED job has no next run, so it is never     *)
(* polled, and an ACTIVE one has one, so it is not forgotten.               *)
ScheduledIffActive == \A j \in Job : job[j].st = "ACTIVE" <=> job[j].next # "nil"

(* "Every execution's status, code, and duration are recorded": without a   *)
(* failure, a run is recorded before the job is scheduled anew, so long as  *)
(* the job exists.                                                          *)
RunRecorded == \A s \in Slot : go[s].pc = "update" => go[s].j \in runs \/ ~Stored(go[s].j) \/ faults > 0

(* "polls the database for jobs whose next_run_at <= NOW()": an ACTIVE job  *)
(* that is left alone runs again and again, and each time the run ends and  *)
(* the job is scheduled anew, although inserts and updates fail and the     *)
(* process restarts; provided no schedule is a descriptor, since one run of *)
(* such a job ends the runs of all others.                                  *)
OnlyStandard == \A j \in Job : Stored(j) => job[j].sched = "standard"
KeepsRunning == \A j \in Job :
  (<>[](job[j].st = "ACTIVE" /\ OnlyStandard /\ \A c \in Client : creq[c] # j)) => []<>(j \in started) /\ []<>(j \notin started)
=============================================================================
