--------------------------- MODULE CloudFunctions ---------------------------
(***************************************************************************)
(* CloudFunctions: FunctionService, its repository and the task containers *)
(* of the Docker adapter.  A function's code is stored before its row and  *)
(* deleted, by a goroutine, after it; an invocation unpacks the code, runs *)
(* a container on it, waits no longer than the timeout, records the result *)
(* and cleans up, in the request or, if asynchronous, in a goroutine.      *)
(***************************************************************************)
EXTENDS Integers, FiniteSets

CONSTANTS Fn, Inv, NoFn, MaxFaults

VARIABLES
  fn,       \* functions
  code,     \* code.zip of each function
  fdel,     \* goroutines about to delete a code.zip
  inv,      \* invocations in progress
  recd,     \* invocations, as recorded
  task,     \* task containers
  tmp,      \* directories with unpacked code
  faults,
  waste     \* history: functions or invocations with a failure that leaves something behind

vars == <<fn, code, fdel, inv, recd, task, tmp, faults, waste>>

Status == {"none", "PENDING", "RUNNING", "SUCCESS", "FAILED"}
NoInv  == [pc |-> "none", f |-> NoFn, st |-> "none", dir |-> FALSE]

(* Rows, files, invocations and containers are well typed. *)
TypeOK ==
  /\ fn \in [Fn -> {"none", "stored", "ACTIVE", "deleted"}] /\ code \in [Fn -> {"none", "zip", "junk"}]
  /\ fdel \subseteq Fn /\ recd \in [Inv -> {"none", "SUCCESS", "FAILED"}] /\ tmp \subseteq Inv
  /\ inv \in [Inv -> [pc : {"none", "prepare", "run", "wait", "record", "container", "dir", "done"},
                      f : Fn \cup {NoFn}, st : Status, dir : BOOLEAN]]
  /\ task \in [Inv -> {"none", "created", "running", "exited"}]

Init ==
  /\ fn = [f \in Fn |-> "none"] /\ code = [f \in Fn |-> "none"] /\ fdel = {}
  /\ inv = [i \in Inv |-> NoInv] /\ recd = [i \in Inv |-> "none"] /\ task = [i \in Inv |-> "none"]
  /\ tmp = {} /\ faults = 0 /\ waste = {}

Fault   == faults < MaxFaults /\ faults' = faults + 1
NoFault == UNCHANGED faults
Note(S) == waste' = waste \cup S
GetByID(f) == fn[f] = "ACTIVE"

-----------------------------------------------------------------------------
(* CreateFunction: the code, then the row, which a name in use refuses. *)
StoreCode(f, c) ==
  /\ fn[f] = "none"
  /\ \/ NoFault /\ code' = [code EXCEPT ![f] = c] /\ fn' = [fn EXCEPT ![f] = "stored"]
     \/ Fault /\ fn' = [fn EXCEPT ![f] = "deleted"] /\ UNCHANGED code
  /\ UNCHANGED <<fdel, inv, recd, task, tmp, waste>>

CreateFunction(f) ==
  /\ fn[f] = "stored"
  /\ \/ fn' = [fn EXCEPT ![f] = "ACTIVE"] /\ UNCHANGED waste
     \/ fn' = [fn EXCEPT ![f] = "deleted"] /\ Note({f})
  /\ UNCHANGED <<code, fdel, inv, recd, task, tmp, faults>>

(* Faulty variant: the code goes first. *)
DeleteCodeFirst(f) ==
  /\ GetByID(f) /\ f \notin fdel /\ NoFault
  /\ code' = [code EXCEPT ![f] = "none"] /\ fdel' = fdel \cup {f}
  /\ UNCHANGED <<fn, inv, recd, task, tmp, waste>>

(* DeleteFunction: the row, with its invocations, then the code. *)
DeleteFunction(f) ==
  /\ GetByID(f)
  /\ \/ /\ NoFault
        /\ fn' = [fn EXCEPT ![f] = "deleted"] /\ fdel' = fdel \cup {f}
        /\ recd' = [i \in Inv |-> IF inv[i].f = f THEN "none" ELSE recd[i]]
     \/ Fault /\ UNCHANGED <<fn, fdel, recd>>
  /\ UNCHANGED <<code, inv, task, tmp, waste>>

DeleteCode(f) ==
  /\ f \in fdel
  /\ \/ NoFault /\ code' = [code EXCEPT ![f] = "none"] /\ UNCHANGED waste
     \/ Fault /\ Note({f}) /\ UNCHANGED code
  /\ fdel' = fdel \ {f}
  /\ UNCHANGED <<fn, inv, recd, task, tmp>>

-----------------------------------------------------------------------------
At(i, pc) == inv[i].pc = pc
Go(i, pc, st) == inv' = [inv EXCEPT ![i].pc = pc, ![i].st = st]

(* InvokeFunction, up to runInvocation. *)
InvokeFunction(i, f) ==
  /\ At(i, "none") /\ GetByID(f)
  /\ inv' = [inv EXCEPT ![i] = [pc |-> "prepare", f |-> f, st |-> "PENDING", dir |-> FALSE]]
  /\ UNCHANGED <<fn, code, fdel, recd, task, tmp, faults, waste>>

(* prepareCode: fails when the code is gone or is no zip; in the latter case *)
(* its directory is never removed.                                          *)
PrepareCode(i) ==
  /\ At(i, "prepare")
  /\ LET c == code[inv[i].f] IN
       \/ /\ c = "zip" /\ NoFault /\ tmp' = tmp \cup {i} /\ UNCHANGED waste
          /\ inv' = [inv EXCEPT ![i].pc = "run", ![i].st = "RUNNING", ![i].dir = TRUE]
       \/ /\ c # "zip" /\ NoFault
          /\ IF c = "junk" THEN tmp' = tmp \cup {i} /\ Note({i}) ELSE UNCHANGED <<tmp, waste>>
          /\ Go(i, "record", "FAILED")
       \/ Fault /\ UNCHANGED tmp /\ UNCHANGED waste /\ Go(i, "record", "FAILED")
  /\ UNCHANGED <<fn, code, fdel, recd, task>>

(* RunTask: a container that does not start is left. *)
RunTask(i) ==
  /\ At(i, "run")
  /\ \/ NoFault /\ task' = [task EXCEPT ![i] = "running"] /\ Go(i, "wait", "RUNNING") /\ UNCHANGED waste
     \/ /\ Fault /\ Note({i}) /\ Go(i, "record", "FAILED")
        /\ \E left \in {"none", "created"} : task' = [task EXCEPT ![i] = left]
  /\ UNCHANGED <<fn, code, fdel, recd, tmp>>

(* WaitTask: the exit code, or the timeout while the task runs on. *)
WaitTask(i) ==
  /\ At(i, "wait")
  /\ \/ /\ task' = [task EXCEPT ![i] = "exited"]
        /\ \E st \in {"SUCCESS", "FAILED"} : Go(i, "record", st)
     \/ UNCHANGED task /\ Go(i, "record", "FAILED")
  /\ UNCHANGED <<fn, code, fdel, recd, tmp, faults, waste>>

(* CreateInvocation, which needs the function's row, then the deferred       *)
(* removals: container first.                                               *)
CreateInvocation(i) ==
  /\ At(i, "record")
  /\ \/ NoFault /\ recd' = [recd EXCEPT ![i] = IF GetByID(inv[i].f) THEN inv[i].st ELSE @]
     \/ Fault /\ UNCHANGED recd
  /\ Go(i, IF task[i] \in {"running", "exited"} THEN "container" ELSE IF inv[i].dir THEN "dir" ELSE "done", inv[i].st)
  /\ UNCHANGED <<fn, code, fdel, task, tmp, waste>>

(* Faulty variant: a task that was not waited for is left. *)
RemoveExited(i) ==
  /\ At(i, "container") /\ NoFault
  /\ task' = [task EXCEPT ![i] = IF @ = "exited" THEN "none" ELSE @]
  /\ Go(i, "dir", inv[i].st)
  /\ UNCHANGED <<fn, code, fdel, recd, tmp, waste>>

(* The deferred DeleteInstance of the task. *)
RemoveTask(i) ==
  /\ At(i, "container")
  /\ \/ NoFault /\ task' = [task EXCEPT ![i] = "none"] /\ UNCHANGED waste
     \/ Fault /\ Note({i}) /\ UNCHANGED task
  /\ Go(i, "dir", inv[i].st)
  /\ UNCHANGED <<fn, code, fdel, recd, tmp>>

RemoveDir(i) ==
  /\ At(i, "dir")
  /\ tmp' = tmp \ {i}
  /\ Go(i, "done", inv[i].st)
  /\ UNCHANGED <<fn, code, fdel, recd, task, faults, waste>>

(* The process ends. *)
Crash ==
  /\ Fault
  /\ Note({i \in Inv : inv[i].pc \notin {"none", "done"}} \cup fdel \cup {f \in Fn : fn[f] = "stored"})
  /\ inv' = [i \in Inv |-> [inv[i] EXCEPT !.pc = IF @ = "none" THEN @ ELSE "done"]] /\ fdel' = {}
  /\ fn' = [f \in Fn |-> IF fn[f] = "stored" THEN "deleted" ELSE fn[f]]
  /\ UNCHANGED <<code, recd, task, tmp>>

-----------------------------------------------------------------------------
RunInvocation(i) == PrepareCode(i) \/ RunTask(i) \/ WaitTask(i) \/ CreateInvocation(i) \/ RemoveTask(i) \/ RemoveDir(i)
ClientStep == \E f \in Fn : \/ \E c \in {"zip", "junk"} : StoreCode(f, c)
                            \/ CreateFunction(f) \/ DeleteFunction(f)
                            \/ \E i \in Inv : InvokeFunction(i, f)

Next == ClientStep \/ (\E f \in Fn : DeleteCode(f)) \/ (\E i \in Inv : RunInvocation(i)) \/ Crash
Spec == Init /\ [][Next]_vars /\ \A i \in Inv : WF_vars(RunInvocation(i))

-----------------------------------------------------------------------------
(* A function that is listed has its code; code without a function is about  *)
(* to get or has just lost it, or a refused name or a failure left it.  A    *)
(* task container and a directory belong to an invocation in progress or one *)
(* that failed; a container that runs has its directory.                     *)
NothingWasted ==
  /\ \A f \in Fn : /\ fn[f] = "ACTIVE" => code[f] # "none"
                   /\ code[f] # "none" => fn[f] \in {"stored", "ACTIVE"} \/ f \in fdel \cup waste
  /\ \A i \in Inv : /\ task[i] # "none" => inv[i].pc \in {"wait", "record", "container"} \/ i \in waste
                    /\ i \in tmp => inv[i].pc \notin {"none", "prepare", "done"} \/ i \in waste
                    /\ task[i] = "running" => i \in tmp \cup waste

(* An invocation that ended is recorded with its result, unless the function *)
(* was deleted or a call failed.                                             *)
InvocationRecorded ==
  \A i \in Inv : inv[i].pc = "done" => recd[i] = inv[i].st \/ fn[inv[i].f] = "deleted" \/ faults > 0

(* An invocation ends, whatever the task does.                               *)
InvocationEnds == \A i \in Inv : []<>(inv[i].pc \in {"none", "done"})
=============================================================================
