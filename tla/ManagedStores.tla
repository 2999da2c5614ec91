---------------------------- MODULE ManagedStores ----------------------------
(***************************************************************************)
(* Managed databases and caches: DatabaseService and CacheService over     *)
(* their repositories and the Docker adapter.  A database is launched and  *)
(* then stored; a cache is stored, as CREATING, and then launched.         *)
(***************************************************************************)
EXTENDS Integers, FiniteSets

CONSTANTS Store, Cache,   \* Cache: the stores that are caches, the others are databases
          Client, NoStore, MaxFaults

VARIABLES
  store,    \* rows of databases and caches
  cont,     \* containers
  mreq,     \* requests
  gauge,    \* RDSInstancesTotal and CacheInstancesTotal
  faults,
  late      \* history: stores with a failed call, a restart during a request,
            \* or a deletion that read the row before it named its container

vars == <<store, cont, mreq, gauge, faults, late>>

Kinds  == {"db", "cache"}
Up     == {"running", "filled"}   \* filled: and holding keys
Kind(x) == IF x \in Cache THEN "cache" ELSE "db"
Row    == [st : {"none", "CREATING", "RUNNING", "deleted"}, box : BOOLEAN, port : BOOLEAN]
NoRow  == [st |-> "none", box |-> FALSE, port |-> FALSE]
NoReq  == [pc |-> "none", x |-> NoStore, row |-> NoRow]

(* Rows, containers and requests are well typed. *)
TypeOK ==
  /\ store \in [Store -> Row] /\ cont \in [Store -> {"none", "created"} \cup Up]
  /\ mreq \in [Client -> [pc : {"none", "launch", "insert", "undo", "update", "rollback", "container", "row", "flush"},
                          x : Store \cup {NoStore}, row : Row]]
  /\ gauge \in [Kinds -> Int] /\ late \subseteq Store

Init ==
  /\ store = [x \in Store |-> NoRow] /\ cont = [x \in Store |-> "none"]
  /\ mreq = [c \in Client |-> NoReq] /\ gauge = [k \in Kinds |-> 0] /\ faults = 0 /\ late = {}

Fault   == faults < MaxFaults /\ faults' = faults + 1
NoFault == UNCHANGED faults
Stored(x) == store[x].st \in {"CREATING", "RUNNING"}
Goto(c, pc) == mreq' = [mreq EXCEPT ![c].pc = pc]
End(c)      == mreq' = [mreq EXCEPT ![c] = NoReq]
Note(x)     == late' = late \cup {x}
New(x)      == store[x].st = "none" /\ cont[x] = "none" /\ \A c \in Client : mreq[c].x # x

-----------------------------------------------------------------------------
(* DatabaseRepository and CacheRepository: an update of a row that is gone   *)
(* changes nothing.                                                         *)
GetByID(x)     == Stored(x)
Insert(x, r)   == store' = [store EXCEPT ![x] = r]
UpdateCache(x, r) == store' = [store EXCEPT ![x] = IF Stored(x) THEN r ELSE @]
DeleteRow(x)   == store' = [store EXCEPT ![x] = IF Stored(x) THEN [NoRow EXCEPT !.st = "deleted"] ELSE @]

-----------------------------------------------------------------------------
(* CreateDatabase up to the VPC, which must exist; CreateCache up to it:     *)
(* a failed read leaves the row behind.                                     *)
CreateDatabase(c, x) ==
  /\ mreq[c].pc = "none" /\ New(x) /\ x \notin Cache
  /\ mreq' = [mreq EXCEPT ![c] = [pc |-> "launch", x |-> x, row |-> NoRow]]
  /\ UNCHANGED <<store, cont, gauge, faults, late>>

CreateCache(c, x) ==
  /\ mreq[c].pc = "none" /\ New(x) /\ x \in Cache
  /\ LET r == [st |-> "CREATING", box |-> FALSE, port |-> FALSE] IN
       /\ Insert(x, r)
       /\ \/ NoFault /\ mreq' = [mreq EXCEPT ![c] = [pc |-> "launch", x |-> x, row |-> r]] /\ UNCHANGED late
          \/ Fault /\ Note(x) /\ UNCHANGED mreq
  /\ UNCHANGED <<cont, gauge>>

GetInstancePort(found) == IF found THEN NoFault ELSE Fault

(* CreateInstance, which leaves a container it could not start, and          *)
(* GetInstancePort, without which the store goes on with port 0.            *)
Launch(c) ==
  /\ mreq[c].pc = "launch"
  /\ LET x == mreq[c].x IN
       \/ /\ cont' = [cont EXCEPT ![x] = "running"]
          /\ \E port \in BOOLEAN :
               /\ GetInstancePort(port)
               /\ mreq' = [mreq EXCEPT ![c] = [pc |-> IF x \in Cache THEN "update" ELSE "insert", x |-> x,
                                               row |-> [st |-> "RUNNING", box |-> TRUE, port |-> port]]]
          /\ UNCHANGED late
       \/ /\ Fault /\ Note(x)
          /\ \E left \in {"none", "created"} : cont' = [cont EXCEPT ![x] = left]
          /\ IF x \in Cache THEN Goto(c, "rollback") ELSE End(c)
  /\ UNCHANGED <<store, gauge>>

(* CreateDatabase: the row, or a clash of names or a VPC that is gone. *)
SaveDatabase(c) ==
  /\ mreq[c].pc = "insert"
  /\ LET x == mreq[c].x IN
       \/ /\ Insert(x, mreq[c].row) /\ gauge' = [gauge EXCEPT !["db"] = @ + 1] /\ End(c)
       \/ /\ UNCHANGED <<store, gauge>> /\ Goto(c, "undo")
  /\ UNCHANGED <<cont, faults, late>>

(* Faulty variant: the container of a database that was not stored stays. *)
UndoNothing(c) ==
  /\ mreq[c].pc = "undo"
  /\ NoFault /\ End(c)
  /\ UNCHANGED <<store, cont, gauge, late>>

(* CreateDatabase, the container is removed again. *)
UndoDatabase(c) ==
  /\ mreq[c].pc = "undo"
  /\ LET x == mreq[c].x IN
       \/ NoFault /\ cont' = [cont EXCEPT ![x] = "none"] /\ UNCHANGED late
       \/ Fault /\ Note(x) /\ UNCHANGED cont
  /\ End(c)
  /\ UNCHANGED <<store, gauge>>

(* CreateCache: the row of a cache that did not start goes, unless that      *)
(* fails too, which is not counted; the status of one that did start is      *)
(* written, and a failure to do so only logged.                              *)
RollbackCache(c) ==
  /\ mreq[c].pc = "rollback"
  /\ NoFault /\ (DeleteRow(mreq[c].x) \/ UNCHANGED store)
  /\ End(c)
  /\ UNCHANGED <<cont, gauge, late>>

RunningCache(c) ==
  /\ mreq[c].pc = "update"
  /\ LET x == mreq[c].x IN
       \/ NoFault /\ UpdateCache(x, mreq[c].row) /\ UNCHANGED late
       \/ Fault /\ Note(x) /\ UNCHANGED store
  /\ gauge' = [gauge EXCEPT !["cache"] = @ + 1]
  /\ End(c)
  /\ UNCHANGED cont

-----------------------------------------------------------------------------
(* DeleteDatabase and DeleteCache: the row is read, its container removed,   *)
(* with failures only logged, and the row deleted.                          *)
DeleteRead(c, x) ==
  /\ mreq[c].pc = "none" /\ GetByID(x)
  /\ mreq' = [mreq EXCEPT ![c] = [pc |-> IF store[x].box THEN "container" ELSE "row", x |-> x, row |-> store[x]]]
  /\ late' = IF store[x].box THEN late ELSE late \cup {x}
  /\ UNCHANGED <<store, cont, gauge, faults>>

DeleteContainer(c) ==
  /\ mreq[c].pc = "container"
  /\ LET x == mreq[c].x IN
       \/ NoFault /\ cont' = [cont EXCEPT ![x] = "none"] /\ UNCHANGED late
       \/ Fault /\ Note(x) /\ UNCHANGED cont
  /\ Goto(c, "row")
  /\ UNCHANGED <<store, gauge>>

(* Faulty variant: a database that was gone already counts as deleted. *)
FinishDeleteTwice(c) ==
  /\ mreq[c].pc = "row"
  /\ LET x == mreq[c].x IN
       \/ NoFault /\ DeleteRow(x) /\ gauge' = [gauge EXCEPT ![Kind(x)] = @ - 1] /\ UNCHANGED late
       \/ Fault /\ Note(x) /\ UNCHANGED <<store, gauge>>
  /\ End(c)
  /\ UNCHANGED cont

(* DatabaseRepository.Delete reports a row that is gone, CacheRepository's   *)
(* does not.                                                                *)
FinishDelete(c) ==
  /\ mreq[c].pc = "row"
  /\ LET x == mreq[c].x IN
       \/ /\ NoFault /\ DeleteRow(x) /\ UNCHANGED late
          /\ gauge' = [gauge EXCEPT ![Kind(x)] = IF x \in Cache \/ Stored(x) THEN @ - 1 ELSE @]
       \/ Fault /\ Note(x) /\ UNCHANGED <<store, gauge>>
  /\ End(c)
  /\ UNCHANGED cont

(* FlushCache: the row must say RUNNING; then redis-cli is run in its container, *)
FlushRead(c, x) ==
  /\ mreq[c].pc = "none" /\ GetByID(x) /\ store[x].st = "RUNNING"
  /\ mreq' = [mreq EXCEPT ![c] = [pc |-> "flush", x |-> x, row |-> store[x]]]
  /\ UNCHANGED <<store, cont, gauge, faults, late>>

(* which may be gone by then; the keys go, or the command fails. *)
Exec(x) == cont' = [cont EXCEPT ![x] = IF @ = "filled" THEN "running" ELSE @]
FlushCache(c) ==
  /\ mreq[c].pc = "flush" /\ End(c)
  /\ \/ NoFault /\ Exec(mreq[c].x)
     \/ Fault /\ UNCHANGED cont
  /\ UNCHANGED <<store, gauge, late>>

(* A client of the cache stores a key. *)
SetKey(x) ==
  /\ cont[x] = "running" /\ cont' = [cont EXCEPT ![x] = "filled"]
  /\ UNCHANGED <<store, mreq, gauge, faults, late>>

(* The process ends: the requests are lost and the gauges start again. *)
Crash ==
  /\ Fault
  /\ late' = late \cup ({mreq[c].x : c \in Client} \ {NoStore})
  /\ mreq' = [c \in Client |-> NoReq] /\ gauge' = [k \in Kinds |-> 0]
  /\ UNCHANGED <<store, cont>>

-----------------------------------------------------------------------------
DatabaseRequest(c) == \E x \in Store \ Cache : CreateDatabase(c, x) \/ DeleteRead(c, x)
CacheRequest(c)    == \E x \in Cache : CreateCache(c, x) \/ DeleteRead(c, x) \/ FlushRead(c, x)
Handler(c) == \/ Launch(c) \/ SaveDatabase(c) \/ UndoDatabase(c) \/ RollbackCache(c) \/ RunningCache(c)
              \/ DeleteContainer(c) \/ FinishDelete(c) \/ FlushCache(c)

Next == (\E c \in Client : DatabaseRequest(c) \/ CacheRequest(c) \/ Handler(c))
        \/ (\E x \in Cache : SetKey(x)) \/ Crash
Spec == Init /\ [][Next]_vars /\ \A c \in Client : WF_vars(Handler(c))

-----------------------------------------------------------------------------
Busy(x, pcs) == \E c \in Client : mreq[c].x = x /\ mreq[c].pc \in pcs

(* A container belongs to a store that is listed or being created or         *)
(* deleted, or a failed call, a restart or a deletion that came before the   *)
(* row named the container left it behind.                                   *)
NoStrayContainer ==
  \A x \in Store : cont[x] # "none" =>
    store[x].box \/ x \in late \/ Busy(x, {"insert", "undo", "update", "container", "row"})

(* "RUNNING" is said only of a store whose container runs, unless a deletion *)
(* of it has begun.                                                          *)
RunningHasContainer ==
  \A x \in Store : store[x].st = "RUNNING" => cont[x] \in Up \/ x \in late \/ Busy(x, {"row"})

(* As long as no call fails and the process is not restarted, the gauge of   *)
(* databases is the number of rows: of two deletions of one database only    *)
(* one is counted.                                                           *)
GaugeExact == faults = 0 => gauge["db"] = Cardinality({x \in Store \ Cache : Stored(x)})

(* A cache does not stay CREATING, unless a call failed.                     *)
CreatingEnds == \A x \in Store : []<>(store[x].st # "CREATING" \/ faults > 0)
=============================================================================
