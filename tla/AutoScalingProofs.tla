-------------------------- MODULE AutoScalingProofs --------------------------
(* Theorems about AutoScaling, for any number of groups, instances,         *)
(* workers, clients and failures.                                           *)
EXTENDS AutoScaling, TLAPS

(***************************************************************************)
(* What a copy of a group says.  A worker goes on with a copy whose sizes  *)
(* it has changed, also when the write failed; but as long as the copy has *)
(* the row's version, the row is there and has the copy's status.  The     *)
(* numbers in rows and copies do not matter: they are any values S.        *)
(***************************************************************************)
Copies(S) == [st : S, min : S, max : S, desired : S, failures : S, fresh : BOOLEAN]
Rows(S)   == [st : S, min : S, max : S, desired : S]
Tables(S) == grp \in [Group -> Rows(S)] /\ held \in [Holder -> [Group -> Copies(S)]]

Agrees(r, row) == r.fresh => r.st = row.st /\ row.st \in {"ACTIVE", "DELETING"}
Agreement == \A x \in Holder, g \in Group : Agrees(held[x][g], grp[g])
CopiesInv == (\E S : Tables(S)) /\ Agreement

(* What no step does to the status of a row. *)
Forward(row, next) == /\ row.st = "DELETING" => next.st \in {"DELETING", "deleted"}
                      /\ row.st = "deleted" => next.st = "deleted"

(* What the scaling groups' steps keep: the copies, and the rows' order. *)
Keeps == CopiesInv' /\ \A g \in Group : Forward(grp[g], grp'[g])

-----------------------------------------------------------------------------
(* A stale copy is a copy. *)
LEMMA StaleCopy ==
  ASSUME NEW S, NEW r \in Copies(S)
  PROVE  [r EXCEPT !.fresh = FALSE] \in Copies(S) /\ [r EXCEPT !.fresh = FALSE].fresh = FALSE
  BY Zenon DEF Copies

(* Steps that write neither rows nor copies. *)
LEMMA QuietKeeps == ASSUME CopiesInv, UNCHANGED <<grp, held>> PROVE Keeps
  BY DEF CopiesInv, Tables, Agreement, Agrees, Keeps, Forward

(* UpdateGroup with a copy that is as fresh as the one held, and has its   *)
(* status or DELETING, keeps the invariant: if it writes, the row has that *)
(* status, and every other copy of it is stale.                            *)
LEMMA UpdateKeeps ==
  ASSUME NEW S, Tables(S), Agreement, NEW x \in Holder, NEW g \in Group,
         NEW r \in Copies(S), NEW kept \in Copies(S), UpdateGroup(x, g, r, kept),
         r.fresh = held[x][g].fresh,
         r.st \in {held[x][g].st, "DELETING"},
         kept.fresh => r.fresh /\ kept.st = r.st /\ r.st = held[x][g].st
  PROVE  Keeps
<1>1. CASE r.fresh /\ r.min <= r.desired /\ r.desired <= r.max
  <2>1. /\ grp' = [grp EXCEPT ![g] = Row(r)]
        /\ held' = [y \in Holder |-> [held[y] EXCEPT ![g] =
                      IF y = x THEN kept ELSE [@ EXCEPT !.fresh = FALSE]]]
    BY <1>1 DEF UpdateGroup
  <2>2. grp' \in [Group -> Rows(S)]
    BY <2>1 DEF Tables, Rows, Row, Copies
  <2>3. held' \in [Holder -> [Group -> Copies(S)]]
    <3>1. \A y \in Holder : /\ held[y] \in [Group -> Copies(S)] /\ held[y][g] \in Copies(S)
                            /\ [held[y][g] EXCEPT !.fresh = FALSE] \in Copies(S)
      BY StaleCopy DEF Tables
    <3>2. \A y \in Holder : [held[y] EXCEPT ![g] =
                             IF y = x THEN kept ELSE [@ EXCEPT !.fresh = FALSE]] \in [Group -> Copies(S)]
      BY <3>1
    <3> QED BY <2>1, <3>2
  <2>4. ASSUME NEW h \in Group, h # g
        PROVE  grp'[h] = grp[h] /\ \A y \in Holder : held'[y][h] = held[y][h]
    BY <2>1, <2>4 DEF Tables
  <2>5. /\ grp'[g].st = r.st /\ held'[x][g] = kept
        /\ \A y \in Holder \ {x} : held'[y][g].fresh = FALSE
    BY <2>1 DEF Tables, Row, Copies
  <2>6. Forward(grp[g], grp'[g]) /\ r.st \in {"ACTIVE", "DELETING"}
    <3>1. r.st \in {grp[g].st, "DELETING"} /\ grp[g].st \in {"ACTIVE", "DELETING"}
      BY <1>1, Zenon DEF Agreement, Agrees
    <3> QED BY <2>5, <3>1 DEF Forward
  <2>7. ASSUME NEW y \in Holder PROVE Agrees(held'[y][g], grp'[g])
    <3>1. CASE y = x
      BY <2>5, <2>6, <2>7, <3>1 DEF Agrees
    <3>2. CASE y # x
      BY <2>5, <2>7, <3>2 DEF Agrees
    <3> QED BY <3>1, <3>2
  <2>8. Agreement'
    BY <2>4, <2>7 DEF Agreement, Agrees
  <2> QED
    BY <2>2, <2>3, <2>4, <2>6, <2>8, Zenon DEF Keeps, CopiesInv, Tables, Forward
<1>2. CASE ~(r.fresh /\ r.min <= r.desired /\ r.desired <= r.max)
  <2>1. grp' = grp /\ held' = [held EXCEPT ![x][g] = kept]
    BY <1>2 DEF UpdateGroup
  <2>2. held' \in [Holder -> [Group -> Copies(S)]]
    BY <2>1 DEF Tables
  <2>3. ASSUME NEW y \in Holder, NEW h \in Group
        PROVE  held'[y][h] = IF y = x /\ h = g THEN kept ELSE held[y][h]
    BY <2>1 DEF Tables
  <2>4. Agreement'
    BY <2>1, <2>3 DEF Agreement, Agrees
  <2> QED
    BY <2>1, <2>2, <2>4 DEF Keeps, CopiesInv, Tables, Forward
<1> QED BY <1>1, <1>2

(* A call that fails writes no row; the copy it was given is kept. *)
LEMMA FailedSaveKeeps ==
  ASSUME NEW S, Tables(S), Agreement, NEW x \in Holder, NEW g \in Group, NEW r \in Copies(S),
         grp' = grp, held' = [held EXCEPT ![x][g] = r],
         r.fresh = held[x][g].fresh, r.st = held[x][g].st
  PROVE  Keeps
<1>1. held' \in [Holder -> [Group -> Copies(S)]]
  BY DEF Tables
<1>2. ASSUME NEW y \in Holder, NEW h \in Group
      PROVE  held'[y][h] = IF y = x /\ h = g THEN r ELSE held[y][h]
  BY DEF Tables
<1>3. Agreement'
  BY <1>2 DEF Agreement, Agrees
<1> QED BY <1>1, <1>3 DEF Keeps, CopiesInv, Tables, Forward

(* Without a group at hand, nothing is written. *)
LEMMA NoGroupKeeps ==
  ASSUME CopiesInv, NEW x \in Holder, NEW g, g \notin Group, NEW r, NEW kept,
         \/ UpdateGroup(x, g, r, kept)
         \/ DeleteRow(g)
         \/ UNCHANGED grp /\ held' = [held EXCEPT ![x][g] = r]
  PROVE  Keeps
<1>0. PICK S : Tables(S)
  BY DEF CopiesInv
<1>1. grp' = grp
  BY <1>0 DEF UpdateGroup, DeleteRow, Tables
<1>2. held' = held
  BY <1>0 DEF UpdateGroup, DeleteRow, Tables
<1> QED BY <1>1, <1>2, QuietKeeps

(* A deleted row leaves no fresh copy of it. *)
LEMMA DeleteKeeps == ASSUME CopiesInv, NEW g \in Group, DeleteRow(g) PROVE Keeps
<1>0. PICK S : Tables(S)
  BY DEF CopiesInv
<1>1. /\ grp' = [grp EXCEPT ![g] = IF Exists(g) THEN [NoRow EXCEPT !.st = "deleted"] ELSE @]
      /\ held' = [y \in Holder |-> [held[y] EXCEPT ![g].fresh = FALSE]]
  BY DEF DeleteRow
<1>2. PICK T : T = S \cup {"deleted", 0}
  BY Zenon
<1>3. grp' \in [Group -> Rows(T)]
  BY <1>0, <1>1, <1>2 DEF Tables, Rows, NoRow
<1>4. held' \in [Holder -> [Group -> Copies(T)]]
  <2>1. Copies(S) \subseteq Copies(T)
    BY <1>2 DEF Copies
  <2>2. \A y \in Holder : /\ held[y] \in [Group -> Copies(T)] /\ held[y][g] \in Copies(T)
                          /\ [held[y][g] EXCEPT !.fresh = FALSE] \in Copies(T)
    BY <1>0, <2>1, StaleCopy DEF Tables
  <2>3. \A y \in Holder : [held[y] EXCEPT ![g].fresh = FALSE] \in [Group -> Copies(T)]
    BY <2>2
  <2> QED BY <1>1, <2>3
<1>5. ASSUME NEW h \in Group, h # g
      PROVE  grp'[h] = grp[h] /\ \A y \in Holder : held'[y][h] = held[y][h]
  BY <1>0, <1>1, <1>5 DEF Tables
<1>6. Forward(grp[g], grp'[g]) /\ \A y \in Holder : held'[y][g].fresh = FALSE
  BY <1>0, <1>1 DEF Tables, Copies, Exists, NoRow, Forward
<1>7. Agreement'
  BY <1>5, <1>6 DEF Agreement, Agrees, CopiesInv
<1> QED
  BY <1>3, <1>4, <1>5, <1>6, <1>7 DEF Keeps, CopiesInv, Tables, Forward

-----------------------------------------------------------------------------
(* A worker's write of its copy with other numbers, done or failed. *)
LEMMA SaveKeeps ==
  ASSUME NEW S, Tables(S), Agreement, NEW w \in Worker, NEW r, Save(w, r),
         wk[w].cur \in Group => r \in Copies(S) /\ r.fresh = GroupOf(w).fresh /\ r.st = GroupOf(w).st
  PROVE  Keeps
<1>0. w \in Holder /\ CopiesInv
  BY DEF Holder, CopiesInv
<1>1. CASE wk[w].cur \notin Group
  BY <1>0, <1>1, NoGroupKeeps DEF Save
<1>2. CASE wk[w].cur \in Group /\ UpdateGroup(w, wk[w].cur, r, r)
  BY <1>0, <1>2, UpdateKeeps DEF GroupOf
<1>3. CASE wk[w].cur \in Group /\ UNCHANGED grp /\ held' = [held EXCEPT ![w][wk[w].cur] = r]
  BY <1>0, <1>3, FailedSaveKeeps, Zenon DEF GroupOf
<1> QED BY <1>1, <1>2, <1>3 DEF Save

(* Rows and copies may be taken to have values in a larger set. *)
LEMMA LargerTables ==
  ASSUME NEW S, NEW T, S \subseteq T, Tables(S)
  PROVE  Tables(T)
<1>1. Copies(S) \subseteq Copies(T) /\ Rows(S) \subseteq Rows(T)
  BY DEF Copies, Rows
<1> QED BY <1>1 DEF Tables

(* SyncCount writes the copy as it is. *)
LEMMA SyncKeeps == ASSUME CopiesInv, NEW w \in Worker, SyncCount(w) PROVE Keeps
<1>0. PICK S : Tables(S)
  BY DEF CopiesInv
<1>1. wk[w].cur \in Group => GroupOf(w) \in Copies(S)
  BY <1>0 DEF Tables, GroupOf, Holder
<1> QED BY <1>0, <1>1, SaveKeeps DEF SyncCount, CopiesInv

(* recordFailure counts a failure in the copy it writes. *)
LEMMA RecordKeeps == ASSUME CopiesInv, NEW w \in Worker, RecordFailure(w) PROVE Keeps
<1>0. PICK S : Tables(S)
  BY DEF CopiesInv
<1>1. PICK r : r = [GroupOf(w) EXCEPT !.failures = @ + 1]
  BY Zenon
<1>2. PICK T : T = S \cup {GroupOf(w).failures + 1}
  BY Zenon
<1>3. Tables(T)
  BY <1>0, <1>2, LargerTables
<1>4. ASSUME wk[w].cur \in Group
      PROVE  r \in Copies(T) /\ r.fresh = GroupOf(w).fresh /\ r.st = GroupOf(w).st
  <2>1. GroupOf(w) \in Copies(S)
    BY <1>0, <1>4 DEF Tables, GroupOf, Holder
  <2> QED BY <1>1, <1>2, <2>1 DEF Copies
<1>5. Save(w, r)
  BY <1>1 DEF RecordFailure
<1> QED BY <1>3, <1>4, <1>5, SaveKeeps DEF CopiesInv

(* evaluatePolicies changes the copy's desired count, to whatever value. *)
LEMMA EvaluateKeeps == ASSUME CopiesInv, NEW w \in Worker, EvaluatePolicies(w) PROVE Keeps
<1>0. PICK S : Tables(S)
  BY DEF CopiesInv
<1>1. CASE UNCHANGED <<grp, held>>
  BY <1>1, QuietKeeps
<1>2. ASSUME NEW cpu \in {"low", "high"}, Save(w, [GroupOf(w) EXCEPT !.desired = NewDesired(w, cpu)])
      PROVE  Keeps
  <2>1. PICK d : d = NewDesired(w, cpu)
    OBVIOUS
  <2>2. PICK r : r = [GroupOf(w) EXCEPT !.desired = d]
    BY Zenon
  <2>3. PICK T : T = S \cup {d}
    BY Zenon
  <2>4. Tables(T)
    BY <1>0, <2>3, LargerTables
  <2>5. ASSUME wk[w].cur \in Group
        PROVE  r \in Copies(T) /\ r.fresh = GroupOf(w).fresh /\ r.st = GroupOf(w).st
    <3>1. GroupOf(w) \in Copies(S)
      BY <1>0, <2>5 DEF Tables, GroupOf, Holder
    <3> QED BY <2>2, <2>3, <3>1 DEF Copies
  <2>6. Save(w, r)
    BY <1>2, <2>1, <2>2
  <2> QED BY <2>4, <2>5, <2>6, SaveKeeps DEF CopiesInv
<1> QED BY <1>1, <1>2 DEF EvaluatePolicies

(* ListAllGroups gives the worker fresh copies of the rows that exist. *)
LEMMA ListKeeps == ASSUME CopiesInv, NEW w \in Worker, ListAllGroups(w) PROVE Keeps
<1>0. PICK S : Tables(S)
  BY DEF CopiesInv
<1>1. PICK T : T = S \cup {"none", 0}
  BY Zenon
<1>2. Tables(T) /\ grp' = grp /\ w \in Holder
  BY <1>0, <1>1, LargerTables DEF ListAllGroups, tables, Holder
<1>3. PICK f : f = [g \in Group |-> IF Exists(g) THEN Copy(g) ELSE NoCopy]
  BY Zenon
<1>4. held' = [held EXCEPT ![w] = f]
  BY <1>3 DEF ListAllGroups
<1>5. \A g \in Group : /\ f[g] \in Copies(T)
                       /\ f[g].fresh => f[g].st = grp[g].st /\ grp[g].st \in {"ACTIVE", "DELETING"}
  BY <1>1, <1>2, <1>3 DEF Copies, Rows, Tables, Copy, NoCopy, Exists
<1>6. f \in [Group -> Copies(T)]
  BY <1>3, <1>5
<1>7. held' \in [Holder -> [Group -> Copies(T)]]
  BY <1>2, <1>4, <1>6 DEF Tables
<1>8. \A y \in Holder : held'[y] = IF y = w THEN f ELSE held[y]
  BY <1>2, <1>4 DEF Tables
<1>9. Agreement'
  BY <1>2, <1>5, <1>8 DEF Agreement, Agrees, CopiesInv
<1> QED BY <1>2, <1>7, <1>9, Zenon DEF Keeps, CopiesInv, Tables, Forward

(* A worker that restarts has lost its copies. *)
LEMMA RestartKeeps == ASSUME CopiesInv, NEW w \in Worker, Restart(w) PROVE Keeps
<1>0. PICK S : Tables(S)
  BY DEF CopiesInv
<1>1. PICK T : T = S \cup {"none", 0}
  BY Zenon
<1>2. Tables(T) /\ grp' = grp /\ w \in Holder
  BY <1>0, <1>1, LargerTables DEF Restart, tables, Holder
<1>3. NoCopy \in Copies(T) /\ NoCopy.fresh = FALSE
  BY <1>1 DEF Copies, NoCopy
<1>4. held' = [held EXCEPT ![w] = [g \in Group |-> NoCopy]]
  BY DEF Restart
<1>5. held' \in [Holder -> [Group -> Copies(T)]]
  BY <1>2, <1>3, <1>4 DEF Tables
<1>6. \A y \in Holder, g \in Group : held'[y][g] = IF y = w THEN NoCopy ELSE held[y][g]
  BY <1>2, <1>4 DEF Tables
<1>7. Agreement'
  BY <1>2, <1>3, <1>6 DEF Agreement, Agrees, CopiesInv
<1> QED BY <1>2, <1>5, <1>7, Zenon DEF Keeps, CopiesInv, Tables, Forward

(* Every step of a tick keeps the invariant. *)
LEMMA WorkerKeeps == ASSUME CopiesInv, NEW w \in Worker, Evaluate(w) \/ Restart(w) PROVE Keeps
<1>1. CASE CleanupGroup(w)
  <2>1. CASE DeleteRow(wk[w].cur) /\ wk[w].cur \in Group
    BY <2>1, DeleteKeeps
  <2>2. CASE DeleteRow(wk[w].cur) /\ wk[w].cur \notin Group
    BY <2>2, NoGroupKeeps DEF Holder
  <2>3. CASE UNCHANGED <<tables, held>>
    BY <2>3, QuietKeeps DEF tables
  <2> QED BY <1>1, <2>1, <2>2, <2>3 DEF CleanupGroup
<1>2. CASE \/ GetAllScalingGroupInstances(w) \/ GetAllPolicies(w) \/ NextGroup(w)
           \/ ReconcileInstances(w) \/ LaunchInstance(w) \/ AddInstanceToGroup(w) \/ AddTarget(w)
  <2>1. UNCHANGED <<grp, held>>
    BY <1>2, Zenon DEF GetAllScalingGroupInstances, GetAllPolicies, NextGroup, ReconcileInstances,
                LaunchInstance, AddInstanceToGroup, AddTarget, tables
  <2> QED BY <2>1, QuietKeeps
<1>3. CASE \/ ShrinkDone(w) \/ RemoveTarget(w) \/ RemoveInstanceFromGroup(w)
           \/ TerminateInstance(w) \/ UpdatePolicyLastScaled(w)
  <2>1. UNCHANGED <<grp, held>>
    BY <1>3, Zenon DEF ShrinkDone, RemoveTarget, RemoveInstanceFromGroup, TerminateInstance,
                UpdatePolicyLastScaled, tables
  <2> QED BY <2>1, QuietKeeps
<1> QED
  BY <1>1, <1>2, <1>3, SyncKeeps, RecordKeeps, EvaluateKeeps, ListKeeps, RestartKeeps DEF Evaluate

-----------------------------------------------------------------------------
(* CreateGroup's INSERT: there was no row, so no fresh copy of one. *)
LEMMA InsertKeeps == ASSUME CopiesInv, NEW c \in Client, CreateInsert(c) PROVE Keeps
<1>0. PICK S : Tables(S)
  BY DEF CopiesInv
<1>1. PICK new : new = [st |-> "ACTIVE", min |-> req[c].min, max |-> req[c].max, desired |-> req[c].desired]
  BY Zenon
<1>2. PICK T : T = S \cup {"ACTIVE", req[c].min, req[c].max, req[c].desired}
  BY Zenon
<1>3. Tables(T) /\ new \in Rows(T) /\ new.st = "ACTIVE"
  BY <1>0, <1>1, <1>2, LargerTables DEF Rows
<1>4. grp' = [grp EXCEPT ![req[c].g] = IF @.st = "none" THEN new ELSE @] /\ held' = held
  BY <1>1 DEF CreateInsert
<1>5. grp' \in [Group -> Rows(T)]
  BY <1>3, <1>4, Zenon DEF Tables
<1>6. \A g \in Group : grp'[g] = grp[g] \/ (grp[g].st = "none" /\ grp'[g] = new)
  BY <1>3, <1>4 DEF Tables
<1>7. Agreement' /\ \A g \in Group : Forward(grp[g], grp'[g])
  BY <1>4, <1>6 DEF Agreement, Agrees, CopiesInv, Forward
<1> QED BY <1>3, <1>4, <1>5, <1>7 DEF Keeps, CopiesInv, Tables

(* A request reads the row: its copy is fresh. *)
LEMMA GetKeeps == ASSUME CopiesInv, NEW c \in Client, Get(c) PROVE Keeps
<1>0. PICK S : Tables(S)
  BY DEF CopiesInv
<1>1. PICK T : T = S \cup {0}
  BY Zenon
<1>2. Tables(T) /\ grp' = grp /\ c \in Holder
  BY <1>0, <1>1, LargerTables, Zenon DEF Get, tables, Holder
<1>3. PICK g \in Group : Exists(g) /\ held' = [held EXCEPT ![c][g] = Copy(g)]
  BY Zenon DEF Get
<1>4. PICK r : r = Copy(g)
  OBVIOUS
<1>5. r \in Copies(T) /\ r.st = grp[g].st /\ grp[g].st \in {"ACTIVE", "DELETING"}
  BY <1>1, <1>2, <1>3, <1>4 DEF Copies, Rows, Tables, Copy, Exists
<1>6. held' \in [Holder -> [Group -> Copies(T)]]
  BY <1>2, <1>3, <1>4, <1>5 DEF Tables
<1>7. \A y \in Holder, h \in Group : held'[y][h] = IF y = c /\ h = g THEN r ELSE held[y][h]
  BY <1>2, <1>3, <1>4 DEF Tables
<1>8. Agreement'
  BY <1>2, <1>5, <1>7 DEF Agreement, Agrees, CopiesInv
<1> QED BY <1>2, <1>6, <1>8 DEF Keeps, CopiesInv, Tables, Forward

(* DeleteGroup and SetDesiredCapacity write the copy read before. *)
LEMMA WriteKeeps ==
  ASSUME CopiesInv, NEW c \in Client, DeleteGroup(c) \/ SetDesiredCapacity(c)
  PROVE  Keeps
<1>0. PICK S : Tables(S)
  BY DEF CopiesInv
<1>1. PICK g : g = req[c].g
  OBVIOUS
<1>2. PICK d : d = req[c].desired
  OBVIOUS
<1>3. PICK T : T = S \cup {"DELETING", "none", 0, d}
  BY Zenon
<1>4. Tables(T) /\ Agreement /\ c \in Holder /\ NoCopy \in Copies(T) /\ NoCopy.fresh = FALSE
  BY <1>0, <1>3, LargerTables DEF Holder, CopiesInv, Copies, NoCopy
<1>5. CASE DeleteGroup(c)
  <2>1. PICK r : r = [held[c][g] EXCEPT !.st = "DELETING", !.min = 0, !.desired = 0]
    OBVIOUS
  <2>2. UpdateGroup(c, g, r, NoCopy)
    BY <1>1, <1>5, <2>1 DEF DeleteGroup
  <2>3. CASE g \notin Group
    BY <1>4, <2>2, <2>3, NoGroupKeeps
  <2>4. CASE g \in Group
    <3>1. held[c][g] \in Copies(T)
      BY <1>4, <2>4 DEF Tables
    <3>2. r \in Copies(T) /\ r.fresh = held[c][g].fresh /\ r.st = "DELETING"
      BY <1>3, <2>1, <3>1, Zenon DEF Copies
    <3> QED BY <1>4, <2>2, <2>4, <3>2, UpdateKeeps
  <2> QED BY <2>3, <2>4
<1>6. CASE SetDesiredCapacity(c)
  <2>1. PICK r : r = [held[c][g] EXCEPT !.desired = d]
    BY Zenon
  <2>2. UpdateGroup(c, g, r, NoCopy)
    BY <1>1, <1>2, <1>6, <2>1 DEF SetDesiredCapacity
  <2>3. CASE g \notin Group
    BY <1>4, <2>2, <2>3, NoGroupKeeps
  <2>4. CASE g \in Group
    <3>1. held[c][g] \in Copies(T)
      BY <1>4, <2>4 DEF Tables
    <3>2. r \in Copies(T) /\ r.fresh = held[c][g].fresh /\ r.st = held[c][g].st
      BY <1>3, <2>1, <3>1 DEF Copies
    <3> QED BY <1>4, <2>2, <2>4, <3>2, UpdateKeeps
  <2> QED BY <2>3, <2>4
<1> QED BY <1>5, <1>6

(* Every step of the API keeps the invariant. *)
LEMMA ClientKeeps == ASSUME CopiesInv, ClientStep PROVE Keeps
<1>1. PICK c \in Client : CreateCheck(c) \/ CreateInsert(c) \/ Get(c) \/ DeleteGroup(c) \/ SetDesiredCapacity(c)
  BY DEF ClientStep
<1>2. CASE CreateCheck(c)
  <2>1. UNCHANGED <<grp, held>>
    BY <1>2, Zenon DEF CreateCheck, tables
  <2> QED BY <2>1, QuietKeeps
<1> QED BY <1>1, <1>2, InsertKeeps, GetKeeps, WriteKeeps

-----------------------------------------------------------------------------
(* Every step keeps the invariant, and no step takes a row's status back. *)
LEMMA StepKeeps == ASSUME CopiesInv, [Next]_vars PROVE Keeps
<1>1. CASE UNCHANGED vars
  BY <1>1, QuietKeeps DEF vars
<1>2. CASE PolicyStep \/ UserStep
  <2>1. UNCHANGED <<grp, held>>
    BY <1>2, Zenon DEF PolicyStep, UserStep, CreatePolicy, DeletePolicy, CooldownOver, BackoffOver,
                UserTerminates, tables
  <2> QED BY <2>1, QuietKeeps
<1>3. CASE WorkerStep
  BY <1>3, WorkerKeeps DEF WorkerStep
<1> QED BY <1>1, <1>2, <1>3, ClientKeeps DEF Next

(* Nothing is there at first, and nobody holds a copy. *)
LEMMA InitCopies == Init => CopiesInv
<1> SUFFICES ASSUME Init PROVE CopiesInv
  OBVIOUS
<1>1. PICK S : S = {"none", 0}
  BY Zenon
<1>2. NoRow \in Rows(S) /\ NoCopy \in Copies(S) /\ NoCopy.fresh = FALSE
  BY <1>1 DEF NoRow, NoCopy, Rows, Copies
<1>3. Tables(S) /\ \A x \in Holder, g \in Group : held[x][g].fresh = FALSE
  BY <1>2 DEF Init, Tables
<1> QED BY <1>3 DEF CopiesInv, Agreement, Agrees

(* A copy that a worker or a request holds with the row's version is right  *)
(* about the row's existence and status, for any number of workers,         *)
(* requests, failed calls and restarts.                                     *)
THEOREM CopiesCorrect == Spec => []CopiesInv
<1>1. CopiesInv /\ [Next]_vars => CopiesInv'
  BY StepKeeps DEF Keeps
<1> QED BY <1>1, InitCopies, PTL DEF Spec

(* A group on its way out stays so: no UpdateGroup of a worker or a request *)
(* that read it earlier makes it ACTIVE again, and a deleted row never      *)
(* comes back.                                                              *)
THEOREM DeletionIsFinal == Spec => DeletingIsFinal
<1> DEFINE A == \A g \in Group : /\ grp[g].st = "DELETING" => grp'[g].st \in {"DELETING", "deleted"}
                                 /\ grp[g].st = "deleted" => grp'[g].st = "deleted"
<1>1. CopiesInv /\ [Next]_vars => [A]_vars
  BY StepKeeps DEF Keeps, Forward
<1>2. Spec => [][A]_vars
  BY <1>1, CopiesCorrect, PTL DEF Spec
<1> QED BY <1>2 DEF DeletingIsFinal

(***************************************************************************)
(* Types, in the detail the proofs need.                                   *)
(***************************************************************************)
GroupPCs  == {"sync", "reconcile", "launch", "join", "target", "record", "evaluate", "stamp",
              "cleanup", "unlinkAll", "stopAll", "shrink", "unlink", "stop"}
NewPCs    == {"join", "target", "unlink", "unlinkAll", "stop", "stopAll"}
TickPCs   == {"idle", "members", "policies", "next"} \cup GroupPCs
PolStates == {"none", "ready", "cooling"}
CopyType  == [st : {"none", "ACTIVE", "DELETING", "deleted"}, min : Sizes \cup {0},
              max : Sizes \cup {0}, desired : Nat, failures : Nat, fresh : BOOLEAN]
TickType  == [pc : TickPCs, todo : SUBSET Group, cur : Group \cup {NoGroup}, need : Int,
              drop : SUBSET Inst, new : Inst \cup {NoInst}, mem : [Group -> SUBSET Inst],
              pols : [Group -> PolStates]]
ReqType   == [op : {"none", "create", "delete", "set"}, g : Group \cup {NoGroup},
              min : Sizes \cup {0}, max : Sizes \cup {0}, desired : Sizes \cup {0}]

Ticking(t)   == /\ t.pc \in GroupPCs => t.cur \in Group
                /\ t.pc \in NewPCs => t.new \in Inst
Requested(q) == /\ q.op # "none" => q.g \in Group
                /\ q.op = "create" => q.min <= q.desired /\ q.desired <= q.max
Checked(row) == row.min <= row.desired /\ row.desired <= row.max

RowsType  == grp \in [Group -> Stored] /\ \A g \in Group : Checked(grp[g])
HeldType  == held \in [Holder -> [Group -> CopyType]]
TicksType == wk \in [Worker -> TickType] /\ \A w \in Worker : Ticking(wk[w])
ReqsType  == req \in [Client -> ReqType] /\ \A c \in Client : Requested(req[c])
LinksType == /\ members \in [Group -> SUBSET Inst] /\ pol \in [Group -> PolStates]
             /\ inst \in [Inst -> Group \cup {NoGroup}] /\ target \subseteq Inst
Shape     == RowsType /\ HeldType /\ TicksType /\ ReqsType /\ LinksType

LEMMA SizesNat == \A n \in Sizes \cup {0} : n \in Nat
BY SizesType

LEMMA IdleTypes == IdleTick \in TickType /\ Ticking(IdleTick) /\ NoCopy \in CopyType /\ NoReq \in ReqType
<1>1. [g \in Group |-> {}] \in [Group -> SUBSET Inst] OBVIOUS
<1>2. [g \in Group |-> "none"] \in [Group -> PolStates] BY DEF PolStates
<1>3. IdleTick \in TickType /\ Ticking(IdleTick)
  BY <1>1, <1>2 DEF IdleTick, TickType, TickPCs, Ticking, GroupPCs, NewPCs
<1> QED BY <1>3 DEF NoCopy, CopyType, NoReq, ReqType

(* Facts about the sizes of sets are needed from here on. *)
INSTANCE FiniteSetTheorems

(* The number of a worker's instances is one. *)
LEMMA CurrentType ==
  ASSUME NEW w, wk[w].mem[wk[w].cur] \subseteq Inst
  PROVE  Current(w) \in Nat
<1>1. IsFiniteSet(wk[w].mem[wk[w].cur]) BY IdsFinite, FS_Subset
<1> QED BY <1>1, FS_CardinalityType DEF Current

(* One worker's tick moves on. *)
LEMMA OneTick ==
  ASSUME TicksType, NEW w \in Worker, NEW u \in TickType, Ticking(u), wk' = [wk EXCEPT ![w] = u]
  PROVE  TicksType'
<1>1. wk' \in [Worker -> TickType] BY DEF TicksType
<1>2. ASSUME NEW v \in Worker PROVE Ticking(wk'[v])
  BY DEF TicksType, Ticking
<1> QED BY <1>1, <1>2 DEF TicksType, Ticking

LEMMA GotoTick ==
  ASSUME TicksType, NEW w \in Worker, NEW p \in TickPCs, Goto(w, p),
         p \in GroupPCs => wk[w].pc \in GroupPCs, p \in NewPCs => wk[w].pc \in NewPCs
  PROVE  TicksType'
<1>1. PICK t \in TickType : t = wk[w] /\ Ticking(t) BY DEF TicksType
<1>2. PICK u : u = [t EXCEPT !.pc = p] BY Zenon
<1>3. u \in TickType /\ u.pc = p /\ u.cur = t.cur /\ u.new = t.new BY <1>2 DEF TickType
<1>4. Ticking(u) BY <1>1, <1>3 DEF Ticking
<1>5. wk' = [wk EXCEPT ![w] = u] BY <1>1, <1>2 DEF Goto
<1> QED BY <1>3, <1>4, <1>5, OneTick, Zenon

(* The ticks of the workers stay well typed.  A worker has a group in hand  *)
(* from NextGroup on, and an instance while it launches or removes one.     *)
LEMMA TickTypes ==
  ASSUME TicksType, LinksType, HeldType, NEW w \in Worker, Evaluate(w) \/ Restart(w)
  PROVE  TicksType'
<1>0. PICK t \in TickType : t = wk[w] /\ Ticking(t) BY DEF TicksType
<1>i. wk' = [wk EXCEPT ![w] = IdleTick] => TicksType' BY OneTick, IdleTypes, Zenon
<1>g. ASSUME NEW p \in TickPCs, Goto(w, p), p \in GroupPCs => t.pc \in GroupPCs,
             p \in NewPCs => t.pc \in NewPCs
      PROVE  TicksType'
  BY <1>0, <1>g, GotoTick
<1>u. ASSUME NEW u \in TickType, Ticking(u), wk' = [wk EXCEPT ![w] = u] PROVE TicksType'
  BY <1>u, OneTick, Zenon
<1>1. CASE ListAllGroups(w)
  <2>1. PICK u : u = [t EXCEPT !.pc = "members", !.todo = {g \in Group : Exists(g)}] BY Zenon
  <2>2. u \in TickType /\ u.pc = "members" BY <2>1, Zenon DEF TickType, TickPCs
  <2>3. wk' = [wk EXCEPT ![w] = u] BY <1>0, <1>1, <2>1, Zenon DEF ListAllGroups
  <2> QED BY <1>u, <2>2, <2>3, Zenon DEF Ticking, GroupPCs, NewPCs
<1>2. CASE GetAllScalingGroupInstances(w)
  <2>1. PICK f \in [Group -> SUBSET Inst] :
          f = [g \in Group |-> IF g \in wk[w].todo THEN members[g] ELSE {}]
    BY Zenon DEF LinksType
  <2>2. PICK u : u = [t EXCEPT !.pc = "policies", !.mem = f] OBVIOUS
  <2>3. u \in TickType /\ u.pc = "policies" BY <2>2, Zenon DEF TickType, TickPCs
  <2>4. wk' = [wk EXCEPT ![w] = u] \/ wk' = [wk EXCEPT ![w] = IdleTick]
    BY <1>0, <1>2, <2>1, <2>2, Zenon DEF GetAllScalingGroupInstances
  <2> QED BY <1>i, <1>u, <2>3, <2>4 DEF Ticking, GroupPCs, NewPCs
<1>3. CASE GetAllPolicies(w)
  <2>1. PICK f \in [Group -> PolStates] :
          f = [g \in Group |-> IF g \in wk[w].todo THEN pol[g] ELSE "none"]
    BY Zenon DEF LinksType, PolStates
  <2>2. PICK u : u = [t EXCEPT !.pc = "next", !.pols = f] OBVIOUS
  <2>3. u \in TickType /\ u.pc = "next" BY <2>2, Zenon DEF TickType, TickPCs
  <2>4. wk' = [wk EXCEPT ![w] = u] \/ wk' = [wk EXCEPT ![w] = IdleTick]
    BY <1>0, <1>3, <2>1, <2>2, Zenon DEF GetAllPolicies
  <2> QED BY <1>i, <1>u, <2>3, <2>4 DEF Ticking, GroupPCs, NewPCs
<1>4. CASE NextGroup(w)
  <2>1. ASSUME NEW g \in t.todo, NEW p \in {"cleanup", "sync", "reconcile"},
               wk' = [wk EXCEPT ![w].todo = @ \ {g}, ![w].cur = g, ![w].drop = wk[w].mem[g], ![w].pc = p]
        PROVE  TicksType'
    <3>1. PICK u : u = [t EXCEPT !.todo = t.todo \ {g}, !.cur = g, !.drop = t.mem[g], !.pc = p] OBVIOUS
    <3>2. g \in Group /\ t.mem[g] \subseteq Inst /\ t.todo \ {g} \subseteq Group
      BY <2>1 DEF TickType
    <3>3. u \in TickType /\ u.pc = p /\ u.cur = g BY <3>1, <3>2, Zenon DEF TickType, TickPCs, GroupPCs
    <3>4. wk' = [wk EXCEPT ![w] = u] BY <1>0, <2>1, <3>1, Zenon
    <3> QED BY <1>u, <3>2, <3>3, <3>4, Zenon DEF Ticking, NewPCs
  <2>2. \/ wk' = [wk EXCEPT ![w] = IdleTick]
        \/ \E g \in t.todo, p \in {"cleanup", "sync", "reconcile"} :
             wk' = [wk EXCEPT ![w].todo = @ \ {g}, ![w].cur = g, ![w].drop = wk[w].mem[g], ![w].pc = p]
    BY <1>0, <1>4, Zenon DEF NextGroup
  <2> QED BY <1>i, <2>1, <2>2, Zenon
<1>5. CASE SyncCount(w) \/ RecordFailure(w) \/ CleanupGroup(w) \/ ShrinkDone(w) \/ UpdatePolicyLastScaled(w)
  <2>1. \E p \in {"reconcile", "evaluate", "next"} : Goto(w, p) /\ t.pc \in GroupPCs
    BY <1>0, <1>5 DEF SyncCount, RecordFailure, CleanupGroup, ShrinkDone, UpdatePolicyLastScaled,
                      At, GroupPCs
  <2> QED BY <1>g, <2>1 DEF TickPCs, GroupPCs, NewPCs
<1>6. CASE EvaluatePolicies(w)
  <2>1. \E p \in {"stamp", "next"} : Goto(w, p) /\ t.pc \in GroupPCs
    BY <1>0, <1>6 DEF EvaluatePolicies, At, GroupPCs
  <2> QED BY <1>g, <2>1 DEF TickPCs, GroupPCs, NewPCs
<1>7. CASE ReconcileInstances(w)
  <2>0. t.pc = "reconcile" BY <1>0, <1>7 DEF ReconcileInstances, At
  <2>1. CASE Goto(w, "evaluate") BY <1>g, <2>0, <2>1 DEF TickPCs, GroupPCs, NewPCs
  <2>2. ASSUME NEW n \in Int, wk' = [wk EXCEPT ![w].pc = "launch", ![w].need = n]
        PROVE  TicksType'
    <3>1. PICK u : u = [t EXCEPT !.pc = "launch", !.need = n] OBVIOUS
    <3>2. u \in TickType /\ u.pc = "launch" /\ u.cur = t.cur
      BY <3>1, Zenon DEF TickType, TickPCs, GroupPCs
    <3>3. wk' = [wk EXCEPT ![w] = u] BY <1>0, <2>2, <3>1, Zenon
    <3> QED BY <1>0, <1>u, <2>0, <3>2, <3>3, Zenon DEF Ticking, NewPCs, GroupPCs
  <2>3. ASSUME NEW S \in SUBSET Inst, wk' = [wk EXCEPT ![w].pc = "shrink", ![w].drop = S]
        PROVE  TicksType'
    <3>1. PICK u : u = [t EXCEPT !.pc = "shrink", !.drop = S] OBVIOUS
    <3>2. u \in TickType /\ u.pc = "shrink" /\ u.cur = t.cur
      BY <3>1, Zenon DEF TickType, TickPCs, GroupPCs
    <3>3. wk' = [wk EXCEPT ![w] = u] BY <1>0, <2>3, <3>1, Zenon
    <3> QED BY <1>0, <1>u, <2>0, <3>2, <3>3, Zenon DEF Ticking, NewPCs, GroupPCs
  <2>4. t.cur \in Group /\ t.mem[t.cur] \subseteq Inst BY <1>0, <2>0 DEF Ticking, GroupPCs, TickType
  <2>5. Current(w) \in Nat
    BY <1>0, <2>4, CurrentType
  <2>6. GroupOf(w).desired \in Nat
    BY <1>0, <2>4 DEF GroupOf, HeldType, Holder, CopyType
  <2>7. \/ Goto(w, "evaluate")
        \/ wk' = [wk EXCEPT ![w].pc = "launch", ![w].need = GroupOf(w).desired - Current(w)]
        \/ \E S \in SUBSET wk[w].mem[wk[w].cur] : wk' = [wk EXCEPT ![w].pc = "shrink", ![w].drop = S]
    BY <1>7 DEF ReconcileInstances, kSubset
  <2> QED BY <1>0, <2>1, <2>2, <2>3, <2>4, <2>5, <2>6, <2>7
<1>8. CASE LaunchInstance(w)
  <2>0. t.pc = "launch" BY <1>0, <1>8 DEF LaunchInstance, At
  <2>1. CASE Goto(w, "evaluate") \/ Goto(w, "record")
    BY <1>g, <2>0, <2>1 DEF TickPCs, GroupPCs, NewPCs
  <2>2. ASSUME NEW i \in Inst, wk' = [wk EXCEPT ![w].pc = "join", ![w].new = i]
        PROVE  TicksType'
    <3>1. PICK u : u = [t EXCEPT !.pc = "join", !.new = i] OBVIOUS
    <3>2. u \in TickType /\ u.pc = "join" /\ u.cur = t.cur /\ u.new = i
      BY <3>1, Zenon DEF TickType, TickPCs, GroupPCs
    <3>3. wk' = [wk EXCEPT ![w] = u] BY <1>0, <2>2, <3>1, Zenon
    <3> QED BY <1>0, <1>u, <2>0, <3>2, <3>3, Zenon DEF Ticking, GroupPCs
  <2>3. CASE \E i \in Free : wk' = [wk EXCEPT ![w].pc = "join", ![w].new = i]
    BY <2>2, <2>3, Zenon DEF Free
  <2>4. Free # {} => (CHOOSE i \in Free : TRUE) \in Free OBVIOUS
  <2> QED BY <1>8, <2>1, <2>3, <2>4, Zenon DEF LaunchInstance
<1>9. CASE AddInstanceToGroup(w)
  <2>0. t.pc = "join" BY <1>0, <1>9 DEF AddInstanceToGroup, At
  <2>1. CASE Goto(w, "target") BY <1>g, <2>0, <2>1 DEF TickPCs, GroupPCs, NewPCs
  <2>2. CASE wk' = [wk EXCEPT ![w].pc = "record", ![w].new = NoInst]
    <3>1. PICK u : u = [t EXCEPT !.pc = "record", !.new = NoInst] OBVIOUS
    <3>2. u \in TickType /\ u.pc = "record" /\ u.cur = t.cur
      BY <3>1, Zenon DEF TickType, TickPCs, GroupPCs
    <3>3. wk' = [wk EXCEPT ![w] = u] BY <1>0, <2>2, <3>1, Zenon
    <3> QED BY <1>0, <1>u, <2>0, <3>2, <3>3, Zenon DEF Ticking, GroupPCs, NewPCs
  <2> QED BY <1>9, <2>1, <2>2, Zenon DEF AddInstanceToGroup
<1>10. CASE AddTarget(w)
  <2>0. t.pc = "target" BY <1>0, <1>10 DEF AddTarget, At
  <2>n. PICK n \in Int : n = t.need - 1 BY DEF TickType
  <2>1. PICK u : u = [t EXCEPT !.pc = "launch", !.need = n, !.new = NoInst] OBVIOUS
  <2>2. u \in TickType /\ u.pc = "launch" /\ u.cur = t.cur
    BY <2>1, Zenon DEF TickType, TickPCs, GroupPCs
  <2>3. wk' = [wk EXCEPT ![w] = u] BY <1>0, <1>10, <2>n, <2>1, Zenon DEF AddTarget
  <2> QED BY <1>0, <1>u, <2>0, <2>2, <2>3, Zenon DEF Ticking, GroupPCs, NewPCs
<1>11. CASE RemoveTarget(w)
  <2>0. t.pc \in {"cleanup", "shrink"} BY <1>0, <1>11 DEF RemoveTarget
  <2>1. PICK i \in t.drop, p \in {"unlinkAll", "unlink"} :
          wk' = [wk EXCEPT ![w].pc = p, ![w].drop = @ \ {i}, ![w].new = i]
    BY <1>0, <1>11, Zenon DEF RemoveTarget
  <2>2. PICK u : u = [t EXCEPT !.pc = p, !.drop = t.drop \ {i}, !.new = i] OBVIOUS
  <2>3. i \in Inst /\ t.drop \ {i} \subseteq Inst BY DEF TickType
  <2>4. u \in TickType /\ u.pc = p /\ u.cur = t.cur /\ u.new = i
    BY <2>2, <2>3, Zenon DEF TickType, TickPCs, GroupPCs
  <2>5. wk' = [wk EXCEPT ![w] = u] BY <1>0, <2>1, <2>2, Zenon
  <2> QED BY <1>0, <1>u, <2>0, <2>3, <2>4, <2>5, Zenon DEF Ticking, GroupPCs
<1>12. CASE RemoveInstanceFromGroup(w)
  <2>0. t.pc \in {"unlink", "unlinkAll"} BY <1>0, <1>12 DEF RemoveInstanceFromGroup
  <2>1. CASE \E p \in {"stopAll", "stop"} : Goto(w, p)
    BY <1>g, <2>0, <2>1 DEF TickPCs, GroupPCs, NewPCs
  <2>2. ASSUME NEW p \in {"cleanup", "evaluate"}, NEW S \in SUBSET Inst,
               wk' = [wk EXCEPT ![w].pc = p, ![w].drop = S, ![w].new = NoInst]
        PROVE  TicksType'
    <3>1. PICK u : u = [t EXCEPT !.pc = p, !.drop = S, !.new = NoInst] OBVIOUS
    <3>2. u \in TickType /\ u.pc = p /\ u.cur = t.cur
      BY <3>1, Zenon DEF TickType, TickPCs, GroupPCs
    <3>3. wk' = [wk EXCEPT ![w] = u] BY <1>0, <2>2, <3>1, Zenon
    <3> QED BY <1>0, <1>u, <2>0, <3>2, <3>3, Zenon DEF Ticking, GroupPCs, NewPCs
  <2>3. t.drop \subseteq Inst BY DEF TickType
  <2>4. \/ \E p \in {"stopAll", "stop"} : Goto(w, p)
        \/ \E p \in {"cleanup", "evaluate"}, S \in {t.drop, {}} :
             wk' = [wk EXCEPT ![w].pc = p, ![w].drop = S, ![w].new = NoInst]
    BY <1>0, <1>12, Zenon DEF RemoveInstanceFromGroup
  <2> QED BY <2>1, <2>2, <2>3, <2>4, Zenon
<1>13. CASE TerminateInstance(w)
  <2>0. t.pc \in {"stop", "stopAll"} BY <1>0, <1>13 DEF TerminateInstance
  <2>1. PICK p \in {"cleanup", "shrink"} : wk' = [wk EXCEPT ![w].pc = p, ![w].new = NoInst]
    BY <1>0, <1>13, Zenon DEF TerminateInstance
  <2>2. PICK u : u = [t EXCEPT !.pc = p, !.new = NoInst] OBVIOUS
  <2>3. u \in TickType /\ u.pc = p /\ u.cur = t.cur
    BY <2>2, Zenon DEF TickType, TickPCs, GroupPCs
  <2>4. wk' = [wk EXCEPT ![w] = u] BY <1>0, <2>1, <2>2, Zenon
  <2> QED BY <1>0, <1>u, <2>0, <2>3, <2>4, Zenon DEF Ticking, GroupPCs, NewPCs
<1>14. CASE Restart(w) BY <1>i, <1>14 DEF Restart
<1> QED BY <1>1, <1>2, <1>3, <1>4, <1>5, <1>6, <1>7, <1>8, <1>9, <1>10, <1>11, <1>12, <1>13, <1>14
        DEF Evaluate

(* What UpdateGroup and the DELETE leave in the rows and in the copies. *)
LEMMA UpdateTypes ==
  ASSUME RowsType, HeldType, NEW x \in Holder, NEW g \in Group, NEW r \in CopyType,
         NEW kept \in CopyType,
         UpdateGroup(x, g, r, kept) \/ (UNCHANGED grp /\ held' = [held EXCEPT ![x][g] = kept])
  PROVE  /\ RowsType' /\ HeldType'
         /\ held'[x][g] = kept /\ \A h \in Group \ {g} : held'[x][h] = held[x][h]
         /\ \A y \in Holder \ {x}, h \in Group :
              /\ held'[y][h].st = held[y][h].st /\ held'[y][h].max = held[y][h].max
              /\ held'[y][h].desired = held[y][h].desired
<1>1. CASE UNCHANGED grp /\ held' = [held EXCEPT ![x][g] = kept]
  BY <1>1 DEF RowsType, HeldType, Checked
<1>2. CASE ~(UNCHANGED grp /\ held' = [held EXCEPT ![x][g] = kept])
  <2>1. /\ r.min <= r.desired /\ r.desired <= r.max
        /\ grp' = [grp EXCEPT ![g] = Row(r)]
        /\ held' = [y \in Holder |-> [held[y] EXCEPT ![g] =
                     IF y = x THEN kept ELSE [@ EXCEPT !.fresh = FALSE]]]
    BY <1>2 DEF UpdateGroup
  <2>2. Row(r) \in Stored /\ Checked(Row(r)) BY <2>1 DEF Row, Stored, CopyType, Checked
  <2>3. RowsType' BY <2>1, <2>2 DEF RowsType, Checked
  <2>4. ASSUME NEW y \in Holder
        PROVE  /\ held'[y] \in [Group -> CopyType]
               /\ held'[y][g] = IF y = x THEN kept ELSE [held[y][g] EXCEPT !.fresh = FALSE]
               /\ \A h \in Group \ {g} : held'[y][h] = held[y][h]
    <3>1. held[y] \in [Group -> CopyType] /\ held[y][g] \in CopyType BY DEF HeldType
    <3>2. [held[y][g] EXCEPT !.fresh = FALSE] \in CopyType BY <3>1, Zenon DEF CopyType
    <3> QED BY <2>1, <3>1, <3>2
  <2>5. HeldType'
    <3>1. held' = [y \in Holder |-> held'[y]] BY <2>1
    <3> QED BY <2>4, <3>1, Zenon DEF HeldType
  <2>6. ASSUME NEW y \in Holder \ {x}, NEW h \in Group
        PROVE  /\ held'[y][h].st = held[y][h].st /\ held'[y][h].max = held[y][h].max
               /\ held'[y][h].desired = held[y][h].desired
    <3>1. CASE h # g BY <2>4, <3>1, Zenon
    <3>2. CASE h = g
      <4>1. held[y][g] \in CopyType BY DEF HeldType
      <4>2. held'[y][g] = [held[y][g] EXCEPT !.fresh = FALSE] BY <2>4
      <4> QED BY <3>2, <4>1, <4>2 DEF CopyType
    <3> QED BY <3>1, <3>2
  <2> QED BY <2>3, <2>4, <2>5, <2>6, Zenon
<1> QED BY <1>1, <1>2

LEMMA DeleteTypes ==
  ASSUME RowsType, HeldType, LinksType, NEW g \in Group, DeleteRow(g)
  PROVE  /\ RowsType' /\ HeldType'
         /\ members' \in [Group -> SUBSET Inst] /\ pol' \in [Group -> PolStates]
         /\ \A y \in Holder, h \in Group :
              /\ held'[y][h].st = held[y][h].st /\ held'[y][h].max = held[y][h].max
              /\ held'[y][h].desired = held[y][h].desired
<1>1. RowsType'
  <2>1. PICK d : d = [NoRow EXCEPT !.st = "deleted"] BY Zenon
  <2>2. d \in Stored /\ Checked(d) BY <2>1 DEF NoRow, Stored, Checked
  <2>3. grp' = [grp EXCEPT ![g] = IF Exists(g) THEN d ELSE grp[g]] BY <2>1 DEF DeleteRow
  <2> QED BY <2>2, <2>3 DEF RowsType, Checked
<1>2. held' = [y \in Holder |-> [held[y] EXCEPT ![g].fresh = FALSE]] BY DEF DeleteRow
<1>3. ASSUME NEW y \in Holder
      PROVE  /\ held'[y] \in [Group -> CopyType]
             /\ held'[y][g] = [held[y][g] EXCEPT !.fresh = FALSE]
             /\ \A h \in Group \ {g} : held'[y][h] = held[y][h]
  <2>1. held[y] \in [Group -> CopyType] /\ held[y][g] \in CopyType BY DEF HeldType
  <2>2. [held[y][g] EXCEPT !.fresh = FALSE] \in CopyType BY <2>1, Zenon DEF CopyType
  <2> QED BY <1>2, <2>1, <2>2
<1>4. HeldType'
  <2>1. held' = [y \in Holder |-> held'[y]] BY <1>2
  <2> QED BY <1>3, <2>1, Zenon DEF HeldType
<1>5. ASSUME NEW y \in Holder, NEW h \in Group
      PROVE  /\ held'[y][h].st = held[y][h].st /\ held'[y][h].max = held[y][h].max
             /\ held'[y][h].desired = held[y][h].desired
  <2>1. CASE h # g BY <1>3, <2>1, Zenon
  <2>2. CASE h = g
    <3>1. held[y][g] \in CopyType BY DEF HeldType
    <3> QED BY <1>3, <2>2, <3>1, Zenon DEF CopyType
  <2> QED BY <2>1, <2>2
<1>6. members' \in [Group -> SUBSET Inst] /\ pol' \in [Group -> PolStates]
  <2>1. members' = [members EXCEPT ![g] = {}] /\ pol' = [pol EXCEPT ![g] = "none"] BY DEF DeleteRow
  <2> QED BY <2>1 DEF LinksType, PolStates
<1> QED BY <1>1, <1>4, <1>5, <1>6

(* The lesser and the greater of two numbers. *)
LEMMA MinMax ==
  ASSUME NEW a \in Int, NEW b \in Int
  PROVE  /\ Min({a, b}) \in {a, b} /\ Min({a, b}) <= b
         /\ Max({a, b}) \in {a, b} /\ Max({a, b}) >= b
<1>1. \E x \in {a, b} : \A y \in {a, b} : x =< y
  BY SMT
<1>2. \E x \in {a, b} : \A y \in {a, b} : x >= y
  BY SMT
<1>3. Min({a, b}) \in {a, b} /\ \A y \in {a, b} : Min({a, b}) =< y BY <1>1, Zenon DEF Min
<1>4. Max({a, b}) \in {a, b} /\ \A y \in {a, b} : Max({a, b}) >= y BY <1>2, Zenon DEF Max
<1> QED BY <1>3, <1>4

(* evaluatePolicies asks for a number of instances. *)
LEMMA DesiredType ==
  ASSUME HeldType, TicksType, NEW w \in Worker, At(w, "evaluate"), NEW cpu \in {"low", "high"}
  PROVE  NewDesired(w, cpu) \in Nat
<1>0. PICK t \in TickType : t = wk[w] /\ t.pc = "evaluate" /\ Ticking(t) BY DEF TicksType, At
<1>1. t.cur \in Group /\ t.mem[t.cur] \subseteq Inst BY <1>0 DEF Ticking, GroupPCs, TickType
<1>2. Current(w) \in Nat BY <1>0, <1>1, CurrentType
<1>3. GroupOf(w).max \in Nat /\ GroupOf(w).min \in Nat
  <2>1. PICK q \in CopyType : q = GroupOf(w) BY <1>0, <1>1 DEF HeldType, Holder, GroupOf
  <2>2. q.max \in Sizes \cup {0} /\ q.min \in Sizes \cup {0} BY DEF CopyType
  <2>3. q.max \in Nat /\ q.min \in Nat BY <2>2, SizesNat
  <2> QED BY <2>1, <2>3
<1>4. PICK a, b, c, d : /\ a = Current(w) + OutStep /\ b = GroupOf(w).max
                        /\ c = Current(w) - InStep /\ d = GroupOf(w).min
  OBVIOUS
<1>5. a \in Nat /\ b \in Nat /\ c \in Int /\ d \in Nat BY <1>2, <1>3, <1>4, SizesType
<1>6. Min({a, b}) \in Nat /\ Max({c, d}) \in Nat
  <2>1. Min({a, b}) \in {a, b} BY <1>5, MinMax
  <2>2. Max({c, d}) \in {c, d} /\ Max({c, d}) >= d
    <3>1. c \in Int /\ d \in Int BY <1>5
    <3> QED BY <3>1, MinMax, Zenon
  <2> QED BY <1>5, <2>1, <2>2
<1> QED BY <1>4, <1>6 DEF NewDesired

(* A worker's write, done or failed: its copy is the one it wrote, and no   *)
(* other copy changes but in its version.                                   *)
LEMMA SaveTypes ==
  ASSUME RowsType, HeldType, TicksType, NEW w \in Worker, wk[w].pc \in GroupPCs,
         NEW r \in CopyType, Save(w, r)
  PROVE  /\ RowsType' /\ HeldType'
         /\ held'[w][wk[w].cur] = r /\ \A h \in Group \ {wk[w].cur} : held'[w][h] = held[w][h]
         /\ \A y \in Holder \ {w}, h \in Group :
              /\ held'[y][h].st = held[y][h].st /\ held'[y][h].max = held[y][h].max
              /\ held'[y][h].desired = held[y][h].desired
<1>1. wk[w].cur \in Group /\ w \in Holder BY DEF TicksType, Ticking, Holder
<1>2. \/ UpdateGroup(w, wk[w].cur, r, r)
      \/ UNCHANGED grp /\ held' = [held EXCEPT ![w][wk[w].cur] = r]
  BY DEF Save
<1> QED BY <1>1, <1>2, UpdateTypes

(* The copy a worker writes in each of its three writes. *)
LEMMA Saves ==
  ASSUME Shape, NEW w \in Worker, SyncCount(w) \/ RecordFailure(w) \/ EvaluatePolicies(w)
  PROVE  \/ UNCHANGED <<grp, held>>
         \/ \E r \in CopyType :
              /\ Save(w, r) /\ wk[w].pc \in GroupPCs
              /\ r.st = GroupOf(w).st /\ r.max = GroupOf(w).max /\ r.fresh = GroupOf(w).fresh
              /\ ~At(w, "evaluate") => r.desired = GroupOf(w).desired
<1>0. TicksType /\ HeldType BY DEF Shape
<1>1. ASSUME wk[w].pc \in GroupPCs PROVE GroupOf(w) \in CopyType
  <2>1. wk[w].cur \in Group /\ w \in Holder BY <1>0, <1>1 DEF TicksType, Ticking, Holder
  <2> QED BY <1>0, <2>1 DEF GroupOf, HeldType
<1>2. CASE SyncCount(w)
  <2>1. wk[w].pc = "sync" /\ Save(w, GroupOf(w)) BY <1>2 DEF SyncCount, At
  <2> QED BY <1>1, <2>1 DEF GroupPCs
<1>3. CASE RecordFailure(w)
  <2>1. PICK q \in CopyType : q = GroupOf(w) BY <1>1, <1>3 DEF RecordFailure, At, GroupPCs
  <2>2. PICK r : r = [q EXCEPT !.failures = @ + 1] BY Zenon
  <2>3. wk[w].pc = "record" /\ Save(w, r) BY <1>3, <2>1, <2>2 DEF RecordFailure, At
  <2>4. r \in CopyType /\ r.st = q.st /\ r.max = q.max /\ r.fresh = q.fresh /\ r.desired = q.desired
    BY <2>2 DEF CopyType
  <2> QED BY <2>1, <2>3, <2>4 DEF GroupPCs
<1>4. CASE EvaluatePolicies(w)
  <2>1. CASE UNCHANGED <<grp, held>> BY <2>1
  <2>2. ASSUME NEW cpu \in {"low", "high"},
               Save(w, [GroupOf(w) EXCEPT !.desired = NewDesired(w, cpu)])
        PROVE  \E r \in CopyType :
                 /\ Save(w, r) /\ wk[w].pc \in GroupPCs
                 /\ r.st = GroupOf(w).st /\ r.max = GroupOf(w).max /\ r.fresh = GroupOf(w).fresh
                 /\ ~At(w, "evaluate") => r.desired = GroupOf(w).desired
    <3>1. At(w, "evaluate") /\ wk[w].pc \in GroupPCs BY <1>4 DEF EvaluatePolicies, At, GroupPCs
    <3>2. PICK d \in Nat : d = NewDesired(w, cpu) BY <1>0, <3>1, DesiredType
    <3>3. PICK q \in CopyType : q = GroupOf(w) BY <1>1, <3>1
    <3>4. PICK r : r = [q EXCEPT !.desired = d] BY Zenon
    <3>5. r \in CopyType /\ r.st = q.st /\ r.max = q.max /\ r.fresh = q.fresh
      BY <3>4 DEF CopyType
    <3>6. Save(w, r) BY <2>2, <3>2, <3>3, <3>4
    <3> QED BY <3>1, <3>3, <3>5, <3>6
  <2> QED BY <1>4, <2>1, <2>2 DEF EvaluatePolicies
<1> QED BY <1>2, <1>3, <1>4

(* The steps of the workers keep rows, copies and link tables well typed. *)
LEMMA WorkerTypes ==
  ASSUME Shape, NEW w \in Worker, Evaluate(w) \/ Restart(w)
  PROVE  Shape'
<1>0. RowsType /\ HeldType /\ TicksType /\ ReqsType /\ LinksType BY DEF Shape
<1>1. TicksType' BY <1>0, TickTypes
<1>2. ReqsType'
  <2>1. UNCHANGED req
    BY Zenon DEF Evaluate, ListAllGroups, GetAllScalingGroupInstances, GetAllPolicies, NextGroup, SyncCount,
           ReconcileInstances, LaunchInstance, AddInstanceToGroup, AddTarget, RecordFailure,
           CleanupGroup, ShrinkDone, RemoveTarget, RemoveInstanceFromGroup, TerminateInstance,
           EvaluatePolicies, UpdatePolicyLastScaled, Restart
  <2> QED BY <1>0, <2>1 DEF ReqsType, Requested
<1>c. wk[w].pc \in GroupPCs => wk[w].cur \in Group BY <1>0 DEF TicksType, Ticking
<1>n. wk[w].pc \in NewPCs => wk[w].new \in Inst BY <1>0 DEF TicksType, Ticking
<1>3. RowsType' /\ HeldType'
  <2>1. CASE SyncCount(w) \/ RecordFailure(w) \/ EvaluatePolicies(w)
    <3>1. CASE UNCHANGED <<grp, held>> BY <1>0, <3>1, Zenon DEF RowsType, HeldType, Checked
    <3>2. ASSUME NEW r \in CopyType, Save(w, r), wk[w].pc \in GroupPCs PROVE RowsType' /\ HeldType'
      BY <1>0, <3>2, SaveTypes
    <3> QED BY <2>1, <3>1, <3>2, Saves
  <2>2. CASE ListAllGroups(w)
    <3>1. PICK f : f = [g \in Group |-> IF Exists(g) THEN Copy(g) ELSE NoCopy] BY Zenon
    <3>2. \A g \in Group : Copy(g) \in CopyType
      BY <1>0 DEF RowsType, Stored, Copy, CopyType
    <3>3. f \in [Group -> CopyType] BY <3>1, <3>2, IdleTypes
    <3>4. held' = [held EXCEPT ![w] = f] /\ UNCHANGED grp BY <2>2, <3>1 DEF ListAllGroups, tables
    <3> QED BY <1>0, <3>3, <3>4, Zenon DEF RowsType, HeldType, Checked
  <2>3. CASE Restart(w)
    <3>1. [g \in Group |-> NoCopy] \in [Group -> CopyType] BY IdleTypes, Zenon
    <3>2. held' = [held EXCEPT ![w] = [g \in Group |-> NoCopy]] /\ UNCHANGED grp
      BY <2>3 DEF Restart, tables
    <3> QED BY <1>0, <3>1, <3>2, Zenon DEF RowsType, HeldType, Checked
  <2>4. CASE CleanupGroup(w)
    <3>1. CASE UNCHANGED <<grp, held>> BY <1>0, <3>1 DEF RowsType, HeldType, Checked
    <3>2. CASE DeleteRow(wk[w].cur)
      BY <1>0, <1>c, <2>4, <3>2, DeleteTypes, Zenon DEF CleanupGroup, At, GroupPCs
    <3> QED BY <2>4, <3>1, <3>2, Zenon DEF CleanupGroup, tables
  <2>5. CASE UNCHANGED <<grp, held>> BY <1>0, <2>5 DEF RowsType, HeldType, Checked
  <2>6. \/ SyncCount(w) \/ RecordFailure(w) \/ EvaluatePolicies(w) \/ ListAllGroups(w) \/ Restart(w)
        \/ CleanupGroup(w) \/ UNCHANGED <<grp, held>>
    BY Zenon DEF Evaluate, GetAllScalingGroupInstances, GetAllPolicies, NextGroup, ReconcileInstances,
                 LaunchInstance, AddInstanceToGroup, AddTarget, ShrinkDone, RemoveTarget,
                 RemoveInstanceFromGroup, TerminateInstance, UpdatePolicyLastScaled, tables
  <2> QED BY <2>1, <2>2, <2>3, <2>4, <2>5, <2>6, Zenon
<1>4. LinksType'
  <2>1. CASE CleanupGroup(w)
    <3>1. UNCHANGED <<inst, target>> BY <2>1 DEF CleanupGroup
    <3>2. CASE UNCHANGED <<members, pol>> BY <1>0, <3>1, <3>2 DEF LinksType
    <3>3. CASE DeleteRow(wk[w].cur)
      <4>1. wk[w].cur \in Group BY <1>c, <2>1, Zenon DEF CleanupGroup, At, GroupPCs
      <4> QED BY <1>0, <3>1, <3>3, <4>1, DeleteTypes, Zenon DEF LinksType
    <3> QED BY <2>1, <3>2, <3>3, Zenon DEF CleanupGroup, tables
  <2>2. CASE LaunchInstance(w)
    <3>1. UNCHANGED <<members, pol, target>> BY <2>2 DEF LaunchInstance, tables
    <3>2. \/ UNCHANGED inst
          \/ \E i \in Free : inst' = [inst EXCEPT ![i] = wk[w].cur]
      <4>1. Free # {} => (CHOOSE i \in Free : TRUE) \in Free OBVIOUS
      <4> QED BY <2>2, <4>1, Zenon DEF LaunchInstance
    <3>3. wk[w].cur \in Group BY <1>c, <2>2 DEF LaunchInstance, At, GroupPCs
    <3> QED BY <1>0, <3>1, <3>2, <3>3 DEF LinksType
  <2>3. CASE AddInstanceToGroup(w)
    <3>1. UNCHANGED <<inst, pol, target>> BY <2>3 DEF AddInstanceToGroup
    <3>2. UNCHANGED members \/ members' = [members EXCEPT ![wk[w].cur] = @ \cup {wk[w].new}]
      BY <2>3 DEF AddInstanceToGroup
    <3>3. wk[w].new \in Inst BY <1>n, <2>3 DEF AddInstanceToGroup, At, NewPCs
    <3> QED BY <1>0, <3>1, <3>2, <3>3 DEF LinksType
  <2>4. CASE RemoveInstanceFromGroup(w)
    <3>1. UNCHANGED <<inst, pol, target>> BY <2>4 DEF RemoveInstanceFromGroup
    <3>2. UNCHANGED members \/ members' = [members EXCEPT ![wk[w].cur] = @ \ {wk[w].new}]
      BY <2>4 DEF RemoveInstanceFromGroup
    <3> QED BY <1>0, <3>1, <3>2 DEF LinksType
  <2>5. CASE TerminateInstance(w)
    <3>1. UNCHANGED pol BY <2>5 DEF TerminateInstance
    <3>2. CASE UNCHANGED <<inst, members, target>> BY <1>0, <3>1, <3>2 DEF LinksType
    <3>3. CASE DeleteInst(wk[w].new) BY <1>0, <3>1, <3>3, Zenon DEF DeleteInst, LinksType
    <3> QED BY <2>5, <3>2, <3>3 DEF TerminateInstance
  <2>6. CASE AddTarget(w)
    <3>1. wk[w].new \in Inst BY <1>n, <2>6 DEF AddTarget, At, NewPCs
    <3> QED BY <1>0, <2>6, <3>1 DEF AddTarget, LinksType, tables
  <2>7. CASE RemoveTarget(w) BY <1>0, <2>7 DEF RemoveTarget, LinksType, tables
  <2>8. CASE UpdatePolicyLastScaled(w)
    BY <1>0, <2>8 DEF UpdatePolicyLastScaled, LinksType, PolStates
  <2>9. CASE UNCHANGED <<members, pol, inst, target>> BY <1>0, <2>9 DEF LinksType
  <2>10. \/ CleanupGroup(w) \/ LaunchInstance(w) \/ AddInstanceToGroup(w) \/ RemoveInstanceFromGroup(w)
         \/ TerminateInstance(w) \/ AddTarget(w) \/ RemoveTarget(w) \/ UpdatePolicyLastScaled(w)
         \/ UNCHANGED <<members, pol, inst, target>>
    BY Zenon DEF Evaluate, ListAllGroups, GetAllScalingGroupInstances, GetAllPolicies, NextGroup,
                 SyncCount, ReconcileInstances, RecordFailure, ShrinkDone, EvaluatePolicies, Restart,
                 tables
  <2> QED BY <2>1, <2>2, <2>3, <2>4, <2>5, <2>6, <2>7, <2>8, <2>9, <2>10, Zenon
<1> QED BY <1>1, <1>2, <1>3, <1>4 DEF Shape

(* The steps of the API, of users and of time do so too. *)
LEMMA OtherTypes ==
  ASSUME Shape, ClientStep \/ PolicyStep \/ UserStep
  PROVE  Shape'
<1>0. RowsType /\ HeldType /\ TicksType /\ ReqsType /\ LinksType BY DEF Shape
<1>q. ASSUME NEW c \in Client, NEW q \in ReqType, Requested(q), req' = [req EXCEPT ![c] = q]
      PROVE  ReqsType'
  BY <1>0, <1>q DEF ReqsType, Requested
<1>z. NoReq \in ReqType /\ Requested(NoReq) BY IdleTypes DEF NoReq, Requested
<1>1. ASSUME NEW c \in Client, CreateCheck(c) PROVE Shape'
  <2>1. PICK g \in Group, mn \in Sizes \cup {0}, mx \in Sizes, d \in Sizes :
          /\ Valid(mn, mx, d)
          /\ req' = [req EXCEPT ![c] = [op |-> "create", g |-> g, min |-> mn, max |-> mx, desired |-> d]]
    BY <1>1, Zenon DEF CreateCheck
  <2>2. PICK q : q = [op |-> "create", g |-> g, min |-> mn, max |-> mx, desired |-> d] BY Zenon
  <2>3. q \in ReqType /\ Requested(q) BY <2>1, <2>2 DEF ReqType, Requested, Valid
  <2>4. ReqsType' BY <1>q, <2>1, <2>2, <2>3, Zenon
  <2>5. UNCHANGED <<tables, inst, target, held, wk>> BY <1>1, Zenon DEF CreateCheck
  <2> QED BY <1>0, <2>4, <2>5
          DEF Shape, RowsType, HeldType, TicksType, LinksType, tables, Checked, Ticking
<1>2. ASSUME NEW c \in Client, CreateInsert(c) PROVE Shape'
  <2>1. PICK q \in ReqType : q = req[c] /\ q.op = "create" /\ Requested(q)
    BY <1>0, <1>2 DEF CreateInsert, ReqsType
  <2>2. PICK row : row = [st |-> "ACTIVE", min |-> q.min, max |-> q.max, desired |-> q.desired] BY Zenon
  <2>3. row \in Stored /\ Checked(row)
    <3>0. q.desired \in Sizes \cup {0} BY DEF ReqType
    <3>1. q.desired \in Nat BY <3>0, SizesNat
    <3> QED BY <2>1, <2>2, <3>1 DEF ReqType, Requested, Stored, Checked
  <2>4. grp' = [grp EXCEPT ![q.g] = IF @.st = "none" THEN row ELSE @]
    BY <1>2, <2>1, <2>2 DEF CreateInsert
  <2>5. RowsType' BY <1>0, <2>3, <2>4, Zenon DEF RowsType, Checked
  <2>6. ReqsType' BY <1>2, <1>q, <1>z, Zenon DEF CreateInsert
  <2>7. UNCHANGED <<members, pol, inst, target, held, wk>> BY <1>2, Zenon DEF CreateInsert
  <2> QED BY <1>0, <2>5, <2>6, <2>7, Zenon DEF Shape, HeldType, TicksType, LinksType, Ticking
<1>3. ASSUME NEW c \in Client, Get(c) PROVE Shape'
  <2>1. PICK g \in Group :
          /\ held' = [held EXCEPT ![c][g] = Copy(g)]
          /\ \/ req' = [req EXCEPT ![c] = [NoReq EXCEPT !.op = "delete", !.g = g]]
             \/ \E d \in Sizes : req' = [req EXCEPT ![c] = [NoReq EXCEPT !.op = "set", !.g = g, !.desired = d]]
    BY <1>3, Zenon DEF Get
  <2>2. Copy(g) \in CopyType BY <1>0 DEF RowsType, Stored, Copy, CopyType
  <2>3. HeldType' BY <1>0, <2>1, <2>2, Zenon DEF HeldType
  <2>4. ReqsType'
    <3>1. CASE req' = [req EXCEPT ![c] = [NoReq EXCEPT !.op = "delete", !.g = g]]
      <4>1. PICK q : q = [NoReq EXCEPT !.op = "delete", !.g = g] OBVIOUS
      <4>2. q \in ReqType /\ Requested(q) BY <4>1, Zenon DEF NoReq, ReqType, Requested
      <4> QED BY <1>q, <3>1, <4>1, <4>2, Zenon
    <3>2. ASSUME NEW d \in Sizes,
                 req' = [req EXCEPT ![c] = [NoReq EXCEPT !.op = "set", !.g = g, !.desired = d]]
          PROVE  ReqsType'
      <4>1. PICK q : q = [NoReq EXCEPT !.op = "set", !.g = g, !.desired = d] OBVIOUS
      <4>2. q \in ReqType /\ Requested(q) BY <4>1, Zenon DEF NoReq, ReqType, Requested
      <4> QED BY <1>q, <3>2, <4>1, <4>2, Zenon
    <3> QED BY <2>1, <3>1, <3>2, Zenon
  <2>5. UNCHANGED <<tables, inst, target, wk>> BY <1>3, Zenon DEF Get
  <2> QED BY <1>0, <2>3, <2>4, <2>5 DEF Shape, RowsType, TicksType, LinksType, tables, Checked, Ticking
<1>4. ASSUME NEW c \in Client, DeleteGroup(c) \/ SetDesiredCapacity(c) PROVE Shape'
  <2>1. PICK q \in ReqType : q = req[c] /\ q.op \in {"delete", "set"} /\ Requested(q)
    BY <1>0, <1>4 DEF DeleteGroup, SetDesiredCapacity, ReqsType
  <2>2. q.g \in Group /\ c \in Holder /\ q.desired \in Nat
    <3>1. q.desired \in Sizes \cup {0} BY DEF ReqType
    <3>2. q.desired \in Nat BY <3>1, SizesNat
    <3> QED BY <2>1, <3>2 DEF Requested, Holder
  <2>3. PICK k \in CopyType : k = held[c][q.g] BY <1>0, <2>2 DEF HeldType
  <2>4. PICK r \in CopyType : UpdateGroup(c, q.g, r, NoCopy)
    <3>1. PICK a, b : /\ a = [k EXCEPT !.st = "DELETING", !.min = 0, !.desired = 0]
                      /\ b = [k EXCEPT !.desired = q.desired]
      BY Zenon
    <3>2. a \in CopyType /\ b \in CopyType BY <2>2, <3>1, Zenon DEF CopyType
    <3>3. UpdateGroup(c, q.g, a, NoCopy) \/ UpdateGroup(c, q.g, b, NoCopy)
      BY <1>4, <2>1, <2>3, <3>1 DEF DeleteGroup, SetDesiredCapacity
    <3> QED BY <3>2, <3>3
  <2>5. RowsType' /\ HeldType' BY <1>0, <2>2, <2>4, IdleTypes, UpdateTypes
  <2>6. ReqsType' BY <1>4, <1>q, <1>z DEF DeleteGroup, SetDesiredCapacity
  <2>7. UNCHANGED <<members, pol, inst, target, wk>>
    BY <1>4, Zenon DEF DeleteGroup, SetDesiredCapacity
  <2> QED BY <1>0, <2>5, <2>6, <2>7 DEF Shape, TicksType, LinksType, Ticking
<1>5. ASSUME NEW g \in Group, CreatePolicy(g) \/ DeletePolicy(g) \/ BackoffOver(g) PROVE Shape'
  <2>1. pol' \in [Group -> PolStates] /\ UNCHANGED <<grp, members, inst, target, held, req, wk>>
    BY <1>0, <1>5, Zenon DEF CreatePolicy, DeletePolicy, BackoffOver, LinksType, PolStates, tables
  <2> QED BY <1>0, <2>1
          DEF Shape, RowsType, HeldType, TicksType, ReqsType, LinksType, Checked, Ticking, Requested
<1>6. ASSUME NEW g \in Group, CooldownOver(g) PROVE Shape'
  <2>1. pol' \in [Group -> PolStates] /\ UNCHANGED <<grp, members, inst, target, held, req>>
    BY <1>0, <1>6 DEF CooldownOver, LinksType, PolStates
  <2>2. TicksType'
    <3>1. ASSUME NEW w \in Worker
          PROVE  wk'[w] \in TickType /\ Ticking(wk'[w])
      <4>1. PICK t \in TickType : t = wk[w] /\ Ticking(t) BY <1>0 DEF TicksType
      <4>2. PICK f : f = [t.pols EXCEPT ![g] = IF @ = "cooling" THEN "ready" ELSE @] BY Zenon
      <4>3. f \in [Group -> PolStates] BY <4>2 DEF TickType, PolStates
      <4>4. wk'[w] = [t EXCEPT !.pols = f] BY <1>6, <4>1, <4>2 DEF CooldownOver
      <4>5. PICK u : u = wk'[w] OBVIOUS
      <4>6. u \in TickType /\ u.pc = t.pc /\ u.cur = t.cur /\ u.new = t.new
        BY <4>3, <4>4, <4>5 DEF TickType
      <4> QED BY <4>1, <4>5, <4>6 DEF Ticking
    <3>2. wk' = [w \in Worker |-> wk'[w]] BY <1>6 DEF CooldownOver
    <3> QED BY <3>1, <3>2 DEF TicksType, Ticking
  <2> QED BY <1>0, <2>1, <2>2 DEF Shape, RowsType, HeldType, ReqsType, LinksType, Checked, Requested
<1>7. ASSUME NEW i \in Inst, UserTerminates(i) PROVE Shape'
  <2>1. DeleteInst(i) /\ UNCHANGED <<grp, pol, held, req, wk>> BY <1>7 DEF UserTerminates
  <2>2. LinksType' BY <1>0, <2>1 DEF DeleteInst, LinksType
  <2> QED BY <1>0, <2>1, <2>2, Zenon DEF Shape, RowsType, HeldType, TicksType, ReqsType, Checked, Ticking, Requested
<1> QED BY <1>1, <1>2, <1>3, <1>4, <1>5, <1>6, <1>7 DEF ClientStep, PolicyStep, UserStep

LEMMA ShapeInit == Init => Shape
<1> SUFFICES ASSUME Init PROVE Shape OBVIOUS
<1>1. NoRow \in Stored /\ Checked(NoRow) BY DEF NoRow, Stored, Checked
<1>2. RowsType /\ HeldType BY <1>1, IdleTypes DEF Init, RowsType, HeldType
<1>3. TicksType BY IdleTypes DEF Init, TicksType
<1>4. ReqsType BY IdleTypes DEF Init, ReqsType, NoReq, Requested
<1>5. LinksType BY DEF Init, LinksType, PolStates
<1> QED BY <1>2, <1>3, <1>4, <1>5 DEF Shape

LEMMA ShapeStep == Shape /\ [Next]_vars => Shape'
<1> SUFFICES ASSUME Shape, [Next]_vars PROVE Shape' BY Zenon
<1>1. CASE UNCHANGED vars
  BY <1>1 DEF vars, Shape, RowsType, HeldType, TicksType, ReqsType, LinksType, Checked, Ticking, Requested
<1> QED BY <1>1, OtherTypes, WorkerTypes DEF Next, WorkerStep

(* The rows satisfy the CHECK constraints, and rows, copies, link tables    *)
(* and ticks are well typed, whatever the policies of the groups ask for.   *)
THEOREM TypeCorrect == Spec => []TypeOK
<1>1. Shape => TypeOK
  <2> SUFFICES ASSUME Shape PROVE TypeOK OBVIOUS
  <2>1. ASSUME NEW x \in Holder, NEW g \in Group PROVE Row(held[x][g]) \in Stored
    <3>1. held[x][g] \in CopyType BY DEF Shape, HeldType
    <3> QED BY <3>1 DEF CopyType, Row, Stored
  <2>2. ASSUME NEW w \in Worker
        PROVE  wk[w].cur \in Group \cup {NoGroup} /\ wk[w].mem \in [Group -> SUBSET Inst]
    <3>1. wk[w] \in TickType BY DEF Shape, TicksType
    <3> QED BY <3>1 DEF TickType
  <2> QED BY <2>1, <2>2 DEF TypeOK, Shape, RowsType, LinksType, Checked, PolStates
<1> QED BY <1>1, ShapeInit, ShapeStep, PTL DEF Spec
=============================================================================
