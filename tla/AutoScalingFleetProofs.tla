------------------------ MODULE AutoScalingFleetProofs ------------------------
(* The theorems about the sizes of groups and the instances of a group: how *)
(* many there are, and that none runs unaccounted for.                      *)
EXTENDS AutoScalingProofs

(***************************************************************************)
(* The instances of a group.                                               *)
(***************************************************************************)
(* A copy is one of a row that was inserted, and has its maximum. *)
HeldInv == \A x \in Holder, g \in Group :
             held[x][g].st # "none" => /\ grp[g].st # "none"
                                       /\ Exists(g) => held[x][g].max = grp[g].max

Moving == {"join", "stop", "stopAll"}
Accounted(i) ==
  inst[i] # NoGroup =>
    \/ i \in members[inst[i]] \/ i \in leaked
    \/ \E w \in Worker : wk[w].new = i /\ wk[w].pc \in Moving

LinksInv ==
  /\ \A g \in Group : \A i \in members[g] : inst[i] = g
  /\ \A g \in Group : ~Exists(g) => members[g] = {}
  /\ \A g \in Group : Exists(g) => Cardinality(members[g]) <= grp[g].max
  /\ \A i \in Inst : Accounted(i)

Ahead(t)   == t.todo \cup {g \in {t.cur} : t.pc \in {"sync", "reconcile"}}
Snapped(t) == {g \in t.todo : t.pc # "members"}
                \cup {g \in {t.cur} : t.pc \in {"sync", "reconcile", "cleanup", "unlinkAll", "stopAll"}}

TickInv(w, t) ==
  /\ t.pc = "idle" => t.todo = {}
  /\ t.pc \in GroupPCs => t.cur \notin t.todo /\ held[w][t.cur].st # "none"
  /\ \A g \in Ahead(t) : held[w][g].st # "none" /\ held[w][g].desired <= held[w][g].max
  /\ \A g \in Snapped(t) : members[g] \subseteq t.mem[g]
  /\ t.pc = "launch" => t.need >= 0 /\ Cardinality(members[t.cur]) + t.need <= held[w][t.cur].max
  /\ t.pc \in {"join", "target"} =>
       /\ t.need >= 1
       /\ Cardinality(members[t.cur] \cup {t.new}) + t.need - 1 <= held[w][t.cur].max
  /\ t.pc = "join" => inst[t.new] \in {t.cur, NoGroup}

FleetInv == HeldInv /\ LinksInv /\ \A w \in Worker : TickInv(w, wk[w])

(***************************************************************************)
(* Rows and the copies of them.                                            *)
(***************************************************************************)
(* Rows are inserted, and keep their maximum. *)
RowsMove == \A g \in Group : /\ grp[g].st # "none" => grp'[g].st # "none"
                             /\ Exists(g)' => grp[g].st = "none" \/ (Exists(g) /\ grp'[g].max = grp[g].max)
                             /\ Exists(g) => Exists(g)'

(* A holder's copies change at most in their version. *)
SameCopies(x) == \A h \in Group : /\ held'[x][h].st = held[x][h].st /\ held'[x][h].max = held[x][h].max
                                  /\ held'[x][h].desired = held[x][h].desired

(* UpdateGroup keeps the maximum: it writes only with the row's version.   *)
LEMMA UpdateRows ==
  ASSUME RowsType, HeldType, Agreement, HeldInv,
         NEW x \in Holder, NEW g \in Group, NEW r \in CopyType, NEW kept \in CopyType,
         UpdateGroup(x, g, r, kept) \/ (UNCHANGED grp /\ held' = [held EXCEPT ![x][g] = kept]),
         r.fresh = held[x][g].fresh, r.max = held[x][g].max, r.st \in {held[x][g].st, "DELETING"},
         kept = NoCopy \/ (kept = r /\ r.st = held[x][g].st)
  PROVE  HeldInv' /\ RowsMove
<1>1. CASE UNCHANGED grp /\ held' = [held EXCEPT ![x][g] = kept]
  <2>1. RowsMove BY <1>1 DEF RowsMove, Exists
  <2>2. ASSUME NEW y \in Holder, NEW h \in Group
        PROVE  held'[y][h] = IF y = x /\ h = g THEN kept ELSE held[y][h]
    BY <1>1 DEF HeldType
  <2>3. kept.st # "none" => kept.st = held[x][g].st /\ kept.max = held[x][g].max BY DEF NoCopy
  <2>4. HeldInv' BY <1>1, <2>2, <2>3 DEF HeldInv, Exists
  <2> QED BY <2>1, <2>4
<1>2. CASE ~(UNCHANGED grp /\ held' = [held EXCEPT ![x][g] = kept])
  <2>1. r.fresh /\ grp' = [grp EXCEPT ![g] = Row(r)] BY <1>2 DEF UpdateGroup
  <2>2. /\ held[x][g].st = grp[g].st /\ grp[g].st \in {"ACTIVE", "DELETING"}
        /\ held[x][g].max = grp[g].max
    BY <2>1, Zenon DEF Agreement, Agrees, HeldInv, Exists
  <2>3. grp'[g].st \in {"ACTIVE", "DELETING"} /\ grp'[g].max = grp[g].max
    BY <2>1, <2>2 DEF RowsType, Row
  <2>4. \A h \in Group \ {g} : grp'[h] = grp[h] BY <2>1 DEF RowsType
  <2>5. RowsMove BY <2>2, <2>3, <2>4 DEF RowsMove, Exists
  <2>6. ASSUME NEW y \in Holder, NEW h \in Group, held'[y][h].st # "none"
        PROVE  held'[y][h].max = held[y][h].max /\ held[y][h].st # "none"
    <3>1. CASE y # x BY <2>6, <3>1, UpdateTypes
    <3>2. CASE y = x /\ h # g BY <2>6, <3>2, UpdateTypes
    <3>3. CASE y = x /\ h = g
      <4>1. held'[x][g] = kept BY UpdateTypes
      <4> QED BY <2>2, <2>6, <3>3, <4>1 DEF NoCopy
    <3> QED BY <3>1, <3>2, <3>3
  <2>7. ASSUME NEW y \in Holder, NEW h \in Group, held'[y][h].st # "none"
        PROVE  grp'[h].st # "none" /\ (Exists(h)' => held'[y][h].max = grp'[h].max)
    <3>1. held'[y][h].max = held[y][h].max /\ held[y][h].st # "none" BY <2>6, <2>7
    <3>2. grp[h].st # "none" /\ (Exists(h) => held[y][h].max = grp[h].max) BY <3>1 DEF HeldInv
    <3> QED BY <2>5, <3>1, <3>2 DEF RowsMove
  <2>8. HeldInv' BY <2>7 DEF HeldInv
  <2> QED BY <2>5, <2>8
<1> QED BY <1>1, <1>2

(* The DELETE of one row; the others stay. *)
LEMMA DeleteRows ==
  ASSUME RowsType, HeldType, LinksType, HeldInv, NEW g \in Group, DeleteRow(g)
  PROVE  /\ HeldInv' /\ \A x \in Holder : SameCopies(x)
         /\ ~Exists(g)' /\ \A h \in Group \ {g} : grp'[h] = grp[h]
<1>1. \A x \in Holder : SameCopies(x) BY DeleteTypes DEF SameCopies
<1>2. grp' = [grp EXCEPT ![g] = IF Exists(g) THEN [NoRow EXCEPT !.st = "deleted"] ELSE @]
  BY DEF DeleteRow
<1>3. /\ ~Exists(g)' /\ \A h \in Group \ {g} : grp'[h] = grp[h]
      /\ grp[g].st # "none" => grp'[g].st # "none"
  BY <1>2 DEF RowsType, Exists, NoRow
<1>4. HeldInv' BY <1>1, <1>3 DEF HeldInv, SameCopies, Exists
<1> QED BY <1>1, <1>3, <1>4

(* Requests insert rows, read them and write them. *)
LEMMA ClientRows ==
  ASSUME Shape, Agreement, HeldInv, ClientStep
  PROVE  HeldInv' /\ RowsMove /\ \A w \in Worker : SameCopies(w)
<1>0. RowsType /\ HeldType /\ ReqsType BY DEF Shape
<1>w. \A w \in Worker, c \in Client : w # c /\ w \in Holder /\ c \in Holder BY Actors DEF Holder
<1>1. ASSUME NEW c \in Client, CreateCheck(c) PROVE UNCHANGED <<grp, held>>
  BY <1>1, Zenon DEF CreateCheck, tables
<1>2. CASE UNCHANGED <<grp, held>>
  BY <1>2 DEF HeldInv, RowsMove, SameCopies, Exists
<1>3. ASSUME NEW c \in Client, CreateInsert(c)
      PROVE  HeldInv' /\ RowsMove /\ \A w \in Worker : SameCopies(w)
  <2>1. PICK q \in ReqType : q = req[c] /\ q.g \in Group
    BY <1>0, <1>3 DEF CreateInsert, ReqsType, Requested
  <2>2. PICK row : row = [st |-> "ACTIVE", min |-> q.min, max |-> q.max, desired |-> q.desired] BY Zenon
  <2>3. grp' = [grp EXCEPT ![q.g] = IF @.st = "none" THEN row ELSE @] /\ UNCHANGED held
    BY <1>3, <2>1, <2>2 DEF CreateInsert
  <2>4. \A h \in Group : grp[h].st # "none" => grp'[h] = grp[h] BY <1>0, <2>3 DEF RowsType
  <2>5. RowsMove BY <2>4 DEF RowsMove, Exists
  <2>6. HeldInv' BY <2>3, <2>4 DEF HeldInv, Exists
  <2> QED BY <2>3, <2>5, <2>6 DEF SameCopies
<1>4. ASSUME NEW c \in Client, Get(c)
      PROVE  HeldInv' /\ RowsMove /\ \A w \in Worker : SameCopies(w)
  <2>1. PICK g \in Group : Exists(g) /\ held' = [held EXCEPT ![c][g] = Copy(g)] /\ UNCHANGED grp
    BY <1>4, Zenon DEF Get, tables
  <2>2. ASSUME NEW y \in Holder, NEW h \in Group
        PROVE  held'[y][h] = IF y = c /\ h = g THEN Copy(g) ELSE held[y][h]
    BY <1>0, <1>w, <2>1 DEF HeldType
  <2>3. HeldInv' BY <2>1, <2>2 DEF HeldInv, Exists, Copy
  <2> QED BY <1>w, <2>1, <2>2, <2>3 DEF RowsMove, SameCopies, Exists
<1>5. ASSUME NEW c \in Client, DeleteGroup(c) \/ SetDesiredCapacity(c)
      PROVE  HeldInv' /\ RowsMove /\ \A w \in Worker : SameCopies(w)
  <2>1. PICK q \in ReqType : q = req[c] /\ q.g \in Group
    BY <1>0, <1>5 DEF DeleteGroup, SetDesiredCapacity, ReqsType, Requested
  <2>2. q.desired \in Nat
    <3>1. q.desired \in Sizes \cup {0} BY DEF ReqType
    <3> QED BY <3>1, SizesNat
  <2>3. PICK k \in CopyType : k = held[c][q.g] BY <1>0, <1>w, <2>1 DEF HeldType, Holder
  <2>4. PICK r \in CopyType : /\ UpdateGroup(c, q.g, r, NoCopy) /\ r.fresh = k.fresh /\ r.max = k.max
                              /\ r.st \in {k.st, "DELETING"}
    <3>1. PICK a, b : /\ a = [k EXCEPT !.st = "DELETING", !.min = 0, !.desired = 0]
                      /\ b = [k EXCEPT !.desired = q.desired]
      BY Zenon
    <3>2. /\ a \in CopyType /\ a.fresh = k.fresh /\ a.max = k.max /\ a.st = "DELETING"
          /\ b \in CopyType /\ b.fresh = k.fresh /\ b.max = k.max /\ b.st = k.st
      BY <2>2, <3>1, Zenon DEF CopyType
    <3>3. UpdateGroup(c, q.g, a, NoCopy) \/ UpdateGroup(c, q.g, b, NoCopy)
      BY <1>5, <2>1, <2>3, <3>1 DEF DeleteGroup, SetDesiredCapacity
    <3> QED BY <3>2, <3>3
  <2>5. c \in Holder /\ NoCopy \in CopyType BY IdleTypes DEF Holder
  <2>6. HeldInv' /\ RowsMove BY <1>0, <2>1, <2>3, <2>4, <2>5, UpdateRows
  <2>7. \A w \in Worker : SameCopies(w) BY <1>0, <1>w, <2>1, <2>4, <2>5, UpdateTypes DEF SameCopies
  <2> QED BY <2>6, <2>7
<1> QED BY <1>1, <1>2, <1>3, <1>4, <1>5 DEF ClientStep

(* The writes of a worker. *)
LEMMA SaveRows ==
  ASSUME Shape, Agreement, HeldInv, NEW w \in Worker,
         SyncCount(w) \/ RecordFailure(w) \/ EvaluatePolicies(w)
  PROVE  /\ HeldInv' /\ RowsMove
         /\ \A h \in Group : held'[w][h].st = held[w][h].st /\ held'[w][h].max = held[w][h].max
         /\ \A h \in Group : (h # wk[w].cur \/ ~At(w, "evaluate")) => held'[w][h].desired = held[w][h].desired
<1>0. RowsType /\ HeldType /\ TicksType BY DEF Shape
<1>1. CASE UNCHANGED <<grp, held>> BY <1>1 DEF HeldInv, RowsMove, Exists
<1>2. ASSUME NEW r \in CopyType, Save(w, r), wk[w].pc \in GroupPCs,
             r.st = GroupOf(w).st, r.max = GroupOf(w).max, r.fresh = GroupOf(w).fresh,
             ~At(w, "evaluate") => r.desired = GroupOf(w).desired
      PROVE  /\ HeldInv' /\ RowsMove
             /\ \A h \in Group : held'[w][h].st = held[w][h].st /\ held'[w][h].max = held[w][h].max
             /\ \A h \in Group : (h # wk[w].cur \/ ~At(w, "evaluate")) => held'[w][h].desired = held[w][h].desired
  <2>1. wk[w].cur \in Group /\ w \in Holder BY <1>0, <1>2 DEF TicksType, Ticking, Holder
  <2>2. \/ UpdateGroup(w, wk[w].cur, r, r)
        \/ UNCHANGED grp /\ held' = [held EXCEPT ![w][wk[w].cur] = r]
    BY <1>2 DEF Save
  <2>3. HeldInv' /\ RowsMove BY <1>0, <1>2, <2>1, <2>2, UpdateRows DEF GroupOf
  <2>4. held'[w][wk[w].cur] = r /\ \A h \in Group \ {wk[w].cur} : held'[w][h] = held[w][h]
    BY <1>0, <1>2, SaveTypes, Zenon
  <2> QED BY <1>2, <2>1, <2>3, <2>4 DEF GroupOf
<1> QED BY <1>1, <1>2, Saves, Zenon

(***************************************************************************)
(* The instances of a group, with one worker.                              *)
(***************************************************************************)
OneWorker == \A v, w \in Worker : v = w

(* Sizes of sets of instances. *)
LEMMA Sized ==
  ASSUME NEW S \in SUBSET Inst, NEW T \in SUBSET Inst
  PROVE  /\ IsFiniteSet(S) /\ Cardinality(S) \in Nat
         /\ S \subseteq T => Cardinality(S) <= Cardinality(T)
         /\ S = {} => Cardinality(S) = 0
<1>1. IsFiniteSet(S) /\ IsFiniteSet(T) BY IdsFinite, FS_Subset
<1>2. S \subseteq T => Cardinality(S) <= Cardinality(T) BY <1>1, FS_Subset
<1> QED BY <1>1, <1>2, FS_CardinalityType, FS_EmptySet

LEMMA OneMore ==
  ASSUME NEW S \in SUBSET Inst, NEW i
  PROVE  Cardinality(S \cup {i}) \in Nat /\ Cardinality(S) <= Cardinality(S \cup {i})
         /\ Cardinality(S \cup {i}) <= Cardinality(S) + 1
<1>1. IsFiniteSet(S) /\ Cardinality(S) \in Nat BY Sized
<1>2. Cardinality(S \cup {i}) = IF i \in S THEN Cardinality(S) ELSE Cardinality(S) + 1
  BY <1>1, FS_AddElement, Zenon
<1>3. PICK c \in Nat : c = Cardinality(S) BY <1>1, Zenon
<1>4. Cardinality(S \cup {i}) \in {c, c + 1} BY <1>2, <1>3, Zenon
<1>5. \A d \in {c, c + 1} : d \in Nat /\ c <= d /\ d <= c + 1 OBVIOUS
<1> QED BY <1>3, <1>4, <1>5, Zenon

(* The maximum of a row or a copy is a number. *)
LEMMA MaxNat ==
  ASSUME RowsType, HeldType
  PROVE  /\ \A g \in Group : grp[g].max \in Nat
         /\ \A x \in Holder, g \in Group : held[x][g].max \in Nat /\ held[x][g].desired \in Nat
<1>1. \A g \in Group : grp[g].max \in Sizes \cup {0} BY DEF RowsType, Stored
<1>2. \A x \in Holder, g \in Group : held[x][g] \in CopyType BY DEF HeldType
<1>3. \A x \in Holder, g \in Group : held[x][g].max \in Sizes \cup {0} /\ held[x][g].desired \in Nat
  BY <1>2 DEF CopyType
<1> QED BY <1>1, <1>3, SizesNat

(* A tick does not notice that others' writes make its copies stale, nor    *)
(* that members of its groups go away.                                      *)
LEMMA TickFrame ==
  ASSUME NEW w \in Worker, NEW t \in TickType, Ticking(t), TickInv(w, t),
         HeldType, LinksType, LinksType', SameCopies(w),
         \A g \in Group : members'[g] \subseteq members[g],
         \A i \in Inst : inst'[i] \in {inst[i], NoGroup}
  PROVE  TickInv(w, t)'
<1>g. t.pc \in GroupPCs => t.cur \in Group BY DEF Ticking
<1>s. t.todo \subseteq Group BY DEF TickType
<1>m. \A g \in Group : members[g] \in SUBSET Inst /\ members'[g] \in SUBSET Inst BY DEF LinksType
<1>h. w \in Holder BY DEF Holder
<1>1. t.pc = "idle" => t.todo = {} BY Zenon DEF TickInv
<1>2. t.pc \in GroupPCs => t.cur \notin t.todo /\ held'[w][t.cur].st # "none"
  BY <1>g, Zenon DEF TickInv, SameCopies
<1>3. ASSUME NEW g \in Ahead(t) PROVE held'[w][g].st # "none" /\ held'[w][g].desired <= held'[w][g].max
  <2>1. g \in Group BY <1>g, <1>s DEF Ahead, GroupPCs
  <2> QED BY <2>1 DEF TickInv, SameCopies
<1>4. ASSUME NEW g \in Snapped(t) PROVE members'[g] \subseteq t.mem[g]
  <2>1. g \in Group BY <1>g, <1>s, Zenon DEF Snapped, GroupPCs
  <2> QED BY <2>1, Zenon DEF TickInv
<1>5. ASSUME t.pc = "launch"
      PROVE  t.need >= 0 /\ Cardinality(members'[t.cur]) + t.need <= held'[w][t.cur].max
  <2>1. t.cur \in Group BY <1>g, <1>5 DEF GroupPCs
  <2>2. PICK a, b : a = Cardinality(members'[t.cur]) /\ b = Cardinality(members[t.cur]) OBVIOUS
  <2>3. a \in Nat /\ b \in Nat /\ a <= b BY <1>m, <2>1, <2>2, Sized, Zenon
  <2>4. held[w][t.cur].max \in Nat
    <3>1. held[w][t.cur] \in CopyType BY <1>h, <2>1, Zenon DEF HeldType
    <3>2. held[w][t.cur].max \in Sizes \cup {0} BY <3>1 DEF CopyType
    <3> QED BY <3>2, SizesNat
  <2>5. t.need \in Int BY DEF TickType
  <2>6. t.need >= 0 /\ b + t.need <= held[w][t.cur].max BY <1>5, <2>2, Zenon DEF TickInv
  <2>7. held'[w][t.cur].max = held[w][t.cur].max BY <2>1 DEF SameCopies
  <2> QED BY <2>2, <2>3, <2>4, <2>5, <2>6, <2>7
<1>6. ASSUME t.pc \in {"join", "target"}
      PROVE  /\ t.need >= 1
             /\ Cardinality(members'[t.cur] \cup {t.new}) + t.need - 1 <= held'[w][t.cur].max
  <2>1. t.cur \in Group /\ t.new \in Inst BY <1>6 DEF GroupPCs, NewPCs, Ticking
  <2>2. PICK a, b : a = Cardinality(members'[t.cur] \cup {t.new}) /\ b = Cardinality(members[t.cur] \cup {t.new})
    OBVIOUS
  <2>3. a \in Nat /\ b \in Nat /\ a <= b
    <3>1. PICK S \in SUBSET Inst, T \in SUBSET Inst :
            S = members'[t.cur] \cup {t.new} /\ T = members[t.cur] \cup {t.new}
      BY <1>m, <2>1, Zenon
    <3>2. S \subseteq T BY <2>1, <3>1
    <3> QED BY <2>2, <3>1, <3>2, Sized
  <2>4. held[w][t.cur].max \in Nat
    <3>1. held[w][t.cur] \in CopyType BY <1>h, <2>1 DEF HeldType
    <3>2. held[w][t.cur].max \in Sizes \cup {0} BY <3>1 DEF CopyType
    <3> QED BY <3>2, SizesNat
  <2>5. t.need \in Int BY DEF TickType
  <2>6. t.need >= 1 /\ b + t.need - 1 <= held[w][t.cur].max BY <1>6, <2>2, Zenon DEF TickInv
  <2>7. held'[w][t.cur].max = held[w][t.cur].max BY <2>1 DEF SameCopies
  <2> QED BY <2>2, <2>3, <2>4, <2>5, <2>6, <2>7
<1>7. t.pc = "join" => inst'[t.new] \in {t.cur, NoGroup}
  BY DEF TickInv, Ticking, NewPCs
<1> QED BY <1>1, <1>2, <1>3, <1>4, <1>5, <1>6, <1>7, Zenon DEF TickInv

(* Rows change, the links do not: an inserted group has no member. *)
LEMMA LinksFrame ==
  ASSUME RowsType', LinksInv, RowsMove, UNCHANGED <<members, inst, leaked>>,
         \A w \in Worker : wk[w].pc \in Moving => wk'[w].pc \in Moving /\ wk'[w].new = wk[w].new
  PROVE  LinksInv'
<1>1. \A g \in Group : \A i \in members'[g] : inst'[i] = g BY DEF LinksInv
<1>2. \A g \in Group : ~Exists(g)' => members'[g] = {} BY DEF LinksInv, RowsMove
<1>3. ASSUME NEW g \in Group, Exists(g)' PROVE Cardinality(members'[g]) <= grp'[g].max
  <2>1. CASE Exists(g) /\ grp'[g].max = grp[g].max BY <2>1 DEF LinksInv
  <2>2. CASE grp[g].st = "none"
    <3>1. members'[g] = {} BY <2>2 DEF LinksInv, Exists
    <3>2. grp'[g].max \in Nat
      <4>1. grp'[g].max \in Sizes \cup {0} BY DEF RowsType, Stored
      <4> QED BY <4>1, SizesNat
    <3>3. Cardinality({}) = 0 BY FS_EmptySet
    <3> QED BY <3>1, <3>2, <3>3
  <2> QED BY <1>3, <2>1, <2>2 DEF RowsMove
<1>4. ASSUME NEW i \in Inst PROVE Accounted(i)'
  <2>1. Accounted(i) BY DEF LinksInv
  <2> QED BY <2>1 DEF Accounted
<1> QED BY <1>1, <1>2, <1>3, <1>4, Zenon DEF LinksInv

(* Requests, policies and terminations by users. *)
LEMMA OthersFleet ==
  ASSUME Shape, Shape', Agreement, FleetInv, ClientStep \/ PolicyStep \/ UserStep
  PROVE  FleetInv'
<1>0. /\ RowsType /\ HeldType /\ LinksType /\ TicksType /\ RowsType' /\ LinksType'
      /\ HeldInv /\ LinksInv /\ \A w \in Worker : TickInv(w, wk[w])
  BY DEF Shape, FleetInv
<1>1. ASSUME \A w \in Worker : SameCopies(w), \A g \in Group : members'[g] \subseteq members[g],
             \A i \in Inst : inst'[i] \in {inst[i], NoGroup},
             \A w \in Worker : /\ wk'[w].pc = wk[w].pc /\ wk'[w].todo = wk[w].todo /\ wk'[w].cur = wk[w].cur
                               /\ wk'[w].need = wk[w].need /\ wk'[w].new = wk[w].new
                               /\ wk'[w].mem = wk[w].mem,
             NEW w \in Worker
      PROVE  TickInv(w, wk[w])'
  <2>1. PICK t \in TickType : t = wk[w] /\ Ticking(t) BY <1>0 DEF TicksType
  <2>2. TickInv(w, t)' BY <1>0, <1>1, <2>1, TickFrame, Zenon
  <2>3. PICK u : u = wk'[w] OBVIOUS
  <2>4. /\ u.pc = t.pc /\ u.todo = t.todo /\ u.cur = t.cur /\ u.need = t.need /\ u.new = t.new
        /\ u.mem = t.mem
    BY <1>1, <2>1, <2>3, Zenon
  <2>5. TickInv(w, u)' BY <2>2, <2>4, Zenon DEF TickInv, Ahead, Snapped
  <2> QED BY <2>3, <2>5, Zenon DEF TickInv, Ahead, Snapped
<1>2. CASE ClientStep
  <2>1. HeldInv' /\ RowsMove /\ \A w \in Worker : SameCopies(w) BY <1>0, <1>2, ClientRows
  <2>2. UNCHANGED <<members, inst, leaked, wk>>
    BY <1>2, Zenon DEF ClientStep, CreateCheck, CreateInsert, Get, DeleteGroup, SetDesiredCapacity, tables
  <2>3. LinksInv' BY <1>0, <2>1, <2>2, LinksFrame
  <2> QED BY <1>1, <2>1, <2>2, <2>3 DEF FleetInv
<1>3. CASE PolicyStep
  <2>1. UNCHANGED <<grp, held, members, inst, leaked>>
    BY <1>3, Zenon DEF PolicyStep, CreatePolicy, DeletePolicy, CooldownOver, BackoffOver, tables
  <2>2. RowsMove /\ HeldInv' /\ \A w \in Worker : SameCopies(w)
    BY <1>0, <2>1 DEF RowsMove, HeldInv, Exists, SameCopies
  <2>3. ASSUME NEW w \in Worker
        PROVE  /\ wk'[w].pc = wk[w].pc /\ wk'[w].todo = wk[w].todo /\ wk'[w].cur = wk[w].cur
               /\ wk'[w].need = wk[w].need /\ wk'[w].new = wk[w].new /\ wk'[w].mem = wk[w].mem
    <3>1. CASE UNCHANGED wk BY <3>1
    <3>2. ASSUME NEW g \in Group, CooldownOver(g)
          PROVE  /\ wk'[w].pc = wk[w].pc /\ wk'[w].todo = wk[w].todo /\ wk'[w].cur = wk[w].cur
                 /\ wk'[w].need = wk[w].need /\ wk'[w].new = wk[w].new /\ wk'[w].mem = wk[w].mem
      <4>1. PICK t \in TickType : t = wk[w] BY <1>0 DEF TicksType
      <4>2. PICK u : u = [t EXCEPT !.pols[g] = IF @ = "cooling" THEN "ready" ELSE @] BY Zenon
      <4>3. wk'[w] = u BY <3>2, <4>1, <4>2 DEF CooldownOver
      <4>4. u.pc = t.pc /\ u.todo = t.todo /\ u.cur = t.cur /\ u.need = t.need /\ u.new = t.new /\ u.mem = t.mem
        BY <4>2 DEF TickType
      <4> QED BY <4>1, <4>3, <4>4
    <3>3. UNCHANGED wk \/ \E g \in Group : CooldownOver(g)
      BY <1>3, Zenon DEF PolicyStep, CreatePolicy, DeletePolicy, BackoffOver
    <3> QED BY <3>1, <3>2, <3>3
  <2>4. LinksInv' BY <1>0, <2>1, <2>2, <2>3, LinksFrame
  <2> QED BY <1>1, <2>1, <2>2, <2>3, <2>4, Zenon DEF FleetInv
<1>4. CASE UserStep
  <2>1. PICK i \in Inst : DeleteInst(i) /\ UNCHANGED <<grp, held, wk>>
    BY <1>4, Zenon DEF UserStep, UserTerminates
  <2>2. /\ inst' = [inst EXCEPT ![i] = NoGroup] /\ leaked' = leaked \ {i}
        /\ \A g \in Group : members'[g] = members[g] \ {i}
    BY <2>1 DEF DeleteInst
  <2>3. \A j \in Inst : inst'[j] = IF j = i THEN NoGroup ELSE inst[j] BY <1>0, <2>2 DEF LinksType
  <2>4. HeldInv' /\ \A w \in Worker : SameCopies(w) BY <1>0, <2>1, Zenon DEF HeldInv, Exists, SameCopies
  <2>5. LinksInv'
    <3>1. \A g \in Group : members[g] \in SUBSET Inst /\ members'[g] \in SUBSET Inst
      BY <1>0 DEF LinksType
    <3>2. \A g \in Group : \A j \in members'[g] : inst'[j] = g
      BY <1>0, <2>2, <2>3, <3>1 DEF LinksInv
    <3>3. \A g \in Group : ~Exists(g)' => members'[g] = {} BY <1>0, <2>1, <2>2 DEF LinksInv, Exists
    <3>4. ASSUME NEW g \in Group, Exists(g)' PROVE Cardinality(members'[g]) <= grp'[g].max
      <4>1. PICK a \in Nat, b \in Nat : a = Cardinality(members'[g]) /\ b = Cardinality(members[g]) /\ a <= b
        BY <2>2, <3>1, Sized, Zenon
      <4>2. b <= grp[g].max /\ grp[g].max \in Nat BY <1>0, <2>1, <3>4, <4>1, MaxNat DEF LinksInv, Exists
      <4> QED BY <2>1, <4>1, <4>2
    <3>5. ASSUME NEW j \in Inst PROVE Accounted(j)'
      <4>1. CASE j = i BY <2>3, <4>1 DEF Accounted
      <4>2. CASE j # i
        <5>1. Accounted(j) BY <1>0, Zenon DEF LinksInv
        <5>2. inst[j] # NoGroup => inst[j] \in Group BY <1>0 DEF LinksType
        <5> QED BY <2>1, <2>2, <2>3, <4>2, <5>1, <5>2 DEF Accounted
      <4> QED BY <4>1, <4>2
    <3> QED BY <3>2, <3>3, <3>4, <3>5, Zenon DEF LinksInv
  <2> QED BY <1>1, <2>1, <2>2, <2>3, <2>4, <2>5 DEF FleetInv
<1> QED BY <1>2, <1>3, <1>4

(* With one worker, what its step leaves is the invariant of its new tick. *)
LEMMA TheTick ==
  ASSUME OneWorker, NEW w \in Worker, NEW u, u = wk'[w], TickInv(w, u)', HeldInv', LinksInv'
  PROVE  FleetInv'
<1>1. TickInv(w, wk[w])' BY Zenon DEF TickInv, Ahead, Snapped
<1>2. \A v \in Worker : v = w BY DEF OneWorker
<1>3. \A v \in Worker : TickInv(v, wk[v])' BY <1>1, <1>2
<1> QED BY <1>3 DEF FleetInv

(* A step of a worker that writes nothing the invariant speaks of. *)
LEMMA LocalFleet ==
  ASSUME OneWorker, Shape, Shape', FleetInv, NEW w \in Worker, wk[w].pc \notin Moving,
         UNCHANGED <<grp, held, members, inst, leaked>>, NEW u, u = wk'[w], TickInv(w, u)
  PROVE  FleetInv'
<1>1. TickInv(w, u)' BY Zenon DEF TickInv
<1>2. HeldInv' BY DEF FleetInv, HeldInv, Exists
<1>3. \A v \in Worker : wk[v].pc \notin Moving BY DEF OneWorker
<1>4. LinksInv' BY <1>3, LinksFrame DEF Shape, FleetInv, RowsMove, Exists
<1> QED BY <1>1, <1>2, <1>4, TheTick, Zenon

(* The steps of a tick that only read, or write what the invariant does not  *)
(* speak of: policies and targets.                                          *)
LEMMA ReadsFleet ==
  ASSUME OneWorker, Shape, Shape', FleetInv, NEW w \in Worker,
         \/ GetAllScalingGroupInstances(w) \/ GetAllPolicies(w) \/ NextGroup(w)
         \/ ReconcileInstances(w) \/ AddTarget(w) \/ ShrinkDone(w) \/ RemoveTarget(w)
         \/ UpdatePolicyLastScaled(w)
  PROVE  FleetInv'
<1>0. PICK t \in TickType : t = wk[w] /\ Ticking(t) /\ TickInv(w, t)
  BY DEF Shape, TicksType, FleetInv
<1>w. wk \in [Worker -> TickType] BY DEF Shape, TicksType
<1>1. UNCHANGED <<grp, held, members, inst, leaked>>
  BY Zenon DEF GetAllScalingGroupInstances, GetAllPolicies, NextGroup, ReconcileInstances, AddTarget,
               ShrinkDone, RemoveTarget, UpdatePolicyLastScaled, tables
<1>2. wk[w].pc \notin Moving
  BY Zenon DEF GetAllScalingGroupInstances, GetAllPolicies, NextGroup, ReconcileInstances, AddTarget,
         ShrinkDone, RemoveTarget, UpdatePolicyLastScaled, At, Moving
<1>u. PICK u : u = wk'[w] OBVIOUS
<1> SUFFICES TickInv(w, u)
  BY <1>1, <1>2, <1>u, LocalFleet, Zenon
<1>i. wk' = [wk EXCEPT ![w] = IdleTick] => TickInv(w, u)
  <2> SUFFICES ASSUME wk' = [wk EXCEPT ![w] = IdleTick] PROVE TickInv(w, u) OBVIOUS
  <2>1. u.pc = "idle" /\ u.todo = {} BY <1>u, <1>w DEF IdleTick
  <2> QED BY <2>1 DEF TickInv, Ahead, Snapped, GroupPCs
<1>3. CASE GetAllScalingGroupInstances(w)
  <2>0. t.pc = "members" BY <1>0, <1>3 DEF GetAllScalingGroupInstances, At
  <2>1. CASE wk' = [wk EXCEPT ![w].pc = "policies",
                      ![w].mem = [g \in Group |-> IF g \in wk[w].todo THEN members[g] ELSE {}]]
    <3>1. PICK f : f = [g \in Group |-> IF g \in t.todo THEN members[g] ELSE {}] BY Zenon
    <3>2. u = [t EXCEPT !.pc = "policies", !.mem = f] BY <1>0, <1>u, <1>w, <2>1, <3>1
    <3>3. u.pc = "policies" /\ u.mem = f /\ u.todo = t.todo BY <3>2, Zenon DEF TickType
    <3>4. \A g \in t.todo : g \in Group /\ f[g] = members[g] BY <3>1 DEF TickType
    <3> QED BY <1>0, <2>0, <3>3, <3>4, Zenon DEF TickInv, Ahead, Snapped, GroupPCs
  <2> QED BY <1>i, <1>3, <2>1, Zenon DEF GetAllScalingGroupInstances
<1>4. CASE GetAllPolicies(w)
  <2>0. t.pc = "policies" BY <1>0, <1>4 DEF GetAllPolicies, At
  <2>1. CASE wk' = [wk EXCEPT ![w].pc = "next",
                      ![w].pols = [g \in Group |-> IF g \in wk[w].todo THEN pol[g] ELSE "none"]]
    <3>1. PICK f : f = [g \in Group |-> IF g \in wk[w].todo THEN pol[g] ELSE "none"] BY Zenon
    <3>2. u = [t EXCEPT !.pc = "next", !.pols = f] BY <1>0, <1>u, <1>w, <2>1, <3>1
    <3>3. u.pc = "next" /\ u.mem = t.mem /\ u.todo = t.todo BY <3>2 DEF TickType
    <3> QED BY <1>0, <2>0, <3>3, Zenon DEF TickInv, Ahead, Snapped, GroupPCs
  <2> QED BY <1>i, <1>4, <2>1, Zenon DEF GetAllPolicies
<1>5. CASE NextGroup(w)
  <2>0. t.pc = "next" BY <1>0, <1>5, Zenon DEF NextGroup, At
  <2>1. ASSUME NEW g \in t.todo, NEW p \in {"cleanup", "sync", "reconcile"},
               wk' = [wk EXCEPT ![w].todo = @ \ {g}, ![w].cur = g, ![w].drop = wk[w].mem[g], ![w].pc = p]
        PROVE  TickInv(w, u)
    <3>1. u = [t EXCEPT !.todo = t.todo \ {g}, !.cur = g, !.drop = t.mem[g], !.pc = p]
      BY <1>0, <1>u, <1>w, <2>1
    <3>2. u.todo = t.todo \ {g} /\ u.cur = g /\ u.mem = t.mem /\ u.pc = p BY <3>1 DEF TickType
    <3>3. \A h \in t.todo : /\ held[w][h].st # "none" /\ held[w][h].desired <= held[w][h].max
                            /\ members[h] \subseteq t.mem[h]
      BY <1>0, <2>0, Zenon DEF TickInv, Ahead, Snapped
    <3>4. \A h \in Ahead(u) \cup Snapped(u) : h \in t.todo BY <2>1, <3>2 DEF Ahead, Snapped
    <3>5. u.pc # "idle" /\ u.pc # "launch" /\ u.pc \notin {"join", "target"} BY <2>1, <3>2
    <3> QED BY <3>2, <3>3, <3>4, <3>5, Zenon DEF TickInv
  <2>2. \/ wk' = [wk EXCEPT ![w] = IdleTick]
        \/ \E g \in t.todo, p \in {"cleanup", "sync", "reconcile"} :
             wk' = [wk EXCEPT ![w].todo = @ \ {g}, ![w].cur = g, ![w].drop = wk[w].mem[g], ![w].pc = p]
    BY <1>0, <1>5, Zenon DEF NextGroup
  <2> QED BY <1>i, <2>1, <2>2, Zenon
<1>g. ASSUME NEW p \in {"evaluate", "next", "shrink", "unlink"}, t.pc \in GroupPCs, t.pc # "members",
             u.pc = p, u.todo = t.todo, u.cur = t.cur, u.mem = t.mem
      PROVE  TickInv(w, u)
  <2>1. Ahead(u) \subseteq Ahead(t) /\ Snapped(u) \subseteq Snapped(t) BY <1>g, Zenon DEF Ahead, Snapped
  <2> QED BY <1>0, <1>g, <2>1, Zenon DEF TickInv
<1>6. CASE UpdatePolicyLastScaled(w) \/ ShrinkDone(w)
  <2>1. PICK p \in {"evaluate", "next"} : Goto(w, p) /\ t.pc \in {"stamp", "shrink"}
    BY <1>0, <1>6 DEF UpdatePolicyLastScaled, ShrinkDone, At
  <2>2. u = [t EXCEPT !.pc = p] BY <1>0, <1>u, <1>w, <2>1 DEF Goto
  <2>3. u.pc = p /\ u.todo = t.todo /\ u.cur = t.cur /\ u.mem = t.mem BY <2>2 DEF TickType
  <2> QED BY <1>g, <2>1, <2>3, Zenon DEF GroupPCs
<1>7. CASE ReconcileInstances(w)
  <2>0. t.pc = "reconcile" BY <1>0, <1>7, Zenon DEF ReconcileInstances, At
  <2>1. t.cur \in Group /\ t.mem[t.cur] \in SUBSET Inst BY <1>0, <2>0, Zenon DEF Ticking, GroupPCs, TickType
  <2>2. CASE Goto(w, "evaluate")
    <3>1. u = [t EXCEPT !.pc = "evaluate"] BY <1>0, <1>u, <1>w, <2>2 DEF Goto
    <3>2. u.pc = "evaluate" /\ u.todo = t.todo /\ u.cur = t.cur /\ u.mem = t.mem BY <3>1 DEF TickType
    <3> QED BY <1>g, <2>0, <3>2 DEF GroupPCs
  <2>3. ASSUME NEW S, wk' = [wk EXCEPT ![w].pc = "shrink", ![w].drop = S]
        PROVE  TickInv(w, u)
    <3>1. u = [t EXCEPT !.pc = "shrink", !.drop = S] BY <1>0, <1>u, <1>w, <2>3
    <3>2. u.pc = "shrink" /\ u.todo = t.todo /\ u.cur = t.cur /\ u.mem = t.mem BY <3>1 DEF TickType
    <3> QED BY <1>g, <2>0, <3>2 DEF GroupPCs
  <2>4. ASSUME Current(w) < GroupOf(w).desired,
               wk' = [wk EXCEPT ![w].pc = "launch", ![w].need = GroupOf(w).desired - Current(w)]
        PROVE  TickInv(w, u)
    <3>1. PICK n : n = GroupOf(w).desired - Current(w) OBVIOUS
    <3>2. u = [t EXCEPT !.pc = "launch", !.need = n] BY <1>0, <1>u, <1>w, <2>4, <3>1
    <3>3. u.pc = "launch" /\ u.need = n /\ u.todo = t.todo /\ u.cur = t.cur /\ u.mem = t.mem
      BY <3>2 DEF TickType
    <3>4. members[t.cur] \subseteq t.mem[t.cur] /\ held[w][t.cur].desired <= held[w][t.cur].max
      BY <1>0, <2>0, Zenon DEF TickInv, Snapped, Ahead
    <3>5. PICK a \in Nat, b \in Nat : a = Cardinality(members[t.cur]) /\ b = Current(w) /\ a <= b
      <4>1. members[t.cur] \in SUBSET Inst BY <2>1, Zenon DEF Shape, LinksType
      <4> QED BY <1>0, <2>1, <3>4, <4>1, Sized, Zenon DEF Current
    <3>6. PICK d \in Nat, m \in Nat : d = GroupOf(w).desired /\ d = held[w][t.cur].desired
                                      /\ m = held[w][t.cur].max
      BY <1>0, <2>1, MaxNat, Zenon DEF GroupOf, Holder, Shape
    <3>7. n >= 0 /\ a + n <= m BY <2>4, <3>1, <3>4, <3>5, <3>6
    <3>8. Ahead(u) \subseteq Ahead(t) /\ Snapped(u) \subseteq Snapped(t)
      BY <2>0, <3>3, Zenon DEF Ahead, Snapped
    <3> QED BY <1>0, <2>0, <3>3, <3>5, <3>6, <3>7, <3>8, Zenon DEF TickInv, GroupPCs
  <2>5. \/ Goto(w, "evaluate")
        \/ /\ Current(w) < GroupOf(w).desired
           /\ wk' = [wk EXCEPT ![w].pc = "launch", ![w].need = GroupOf(w).desired - Current(w)]
        \/ \E S : wk' = [wk EXCEPT ![w].pc = "shrink", ![w].drop = S]
    BY <1>7, Zenon DEF ReconcileInstances
  <2> QED BY <2>2, <2>3, <2>4, <2>5
<1>8. CASE AddTarget(w)
  <2>0. t.pc = "target" BY <1>0, <1>8 DEF AddTarget, At
  <2>1. PICK n \in Int : n = t.need - 1 BY DEF TickType
  <2>2. u = [t EXCEPT !.pc = "launch", !.need = n, !.new = NoInst]
    BY <1>0, <1>u, <1>w, <1>8, <2>1 DEF AddTarget
  <2>3. u.pc = "launch" /\ u.need = n /\ u.todo = t.todo /\ u.cur = t.cur /\ u.mem = t.mem
    BY <2>2 DEF TickType
  <2>4. t.cur \in Group /\ w \in Holder BY <1>0, <2>0 DEF Ticking, GroupPCs, Holder
  <2>5. PICK a \in Nat, b \in Nat :
          a = Cardinality(members[t.cur]) /\ b = Cardinality(members[t.cur] \cup {t.new}) /\ a <= b
    <3>1. members[t.cur] \in SUBSET Inst BY <2>4 DEF Shape, LinksType
    <3>2. Cardinality(members[t.cur]) \in Nat BY <3>1, Sized
    <3> QED BY <3>1, <3>2, OneMore, Zenon
  <2>6. PICK m \in Nat : m = held[w][t.cur].max BY <2>4, MaxNat, Zenon DEF Shape
  <2>7. t.need \in Int /\ t.need >= 1 /\ b + t.need - 1 <= m
    BY <1>0, <2>0, <2>5, <2>6, Zenon DEF TickInv, TickType
  <2>8. n >= 0 /\ a + n <= m BY <2>1, <2>5, <2>6, <2>7
  <2>9. Ahead(u) \subseteq Ahead(t) /\ Snapped(u) \subseteq Snapped(t)
    BY <2>0, <2>3, Zenon DEF Ahead, Snapped
  <2> QED BY <1>0, <2>0, <2>3, <2>5, <2>6, <2>8, <2>9, Zenon DEF TickInv, GroupPCs
<1>9. CASE RemoveTarget(w)
  <2>0. t.pc \in {"cleanup", "shrink"} BY <1>0, <1>9, Zenon DEF RemoveTarget
  <2>1. PICK i \in t.drop :
          wk' = [wk EXCEPT ![w].pc = IF @ = "cleanup" THEN "unlinkAll" ELSE "unlink",
                           ![w].drop = @ \ {i}, ![w].new = i]
    BY <1>0, <1>9, Zenon DEF RemoveTarget
  <2>2. PICK p : p = IF t.pc = "cleanup" THEN "unlinkAll" ELSE "unlink" BY Zenon
  <2>3. u = [t EXCEPT !.pc = p, !.drop = t.drop \ {i}, !.new = i] BY <1>0, <1>u, <1>w, <2>1, <2>2
  <2>4. u.pc = p /\ u.todo = t.todo /\ u.cur = t.cur /\ u.mem = t.mem BY <2>3 DEF TickType
  <2>5. Ahead(u) \subseteq Ahead(t) /\ Snapped(u) \subseteq Snapped(t)
    BY <2>0, <2>2, <2>4 DEF Ahead, Snapped
  <2> QED BY <1>0, <2>0, <2>2, <2>4, <2>5, Zenon DEF TickInv, GroupPCs
<1> QED BY <1>3, <1>4, <1>5, <1>6, <1>7, <1>8, <1>9, Zenon

(* The steps of a tick that write rows, or copies of them. *)
LEMMA RowsFleet ==
  ASSUME OneWorker, Shape, Shape', Agreement, FleetInv, NEW w \in Worker,
         \/ ListAllGroups(w) \/ SyncCount(w) \/ RecordFailure(w) \/ EvaluatePolicies(w)
  PROVE  FleetInv'
<1>0. PICK t \in TickType : t = wk[w] /\ Ticking(t) /\ TickInv(w, t)
  BY DEF Shape, TicksType, FleetInv
<1>w. wk \in [Worker -> TickType] /\ w \in Holder BY DEF Shape, TicksType, Holder
<1>f. /\ RowsType /\ HeldType /\ LinksType /\ RowsType' /\ LinksType' /\ HeldInv /\ LinksInv
  BY DEF Shape, FleetInv
<1>u. PICK u : u = wk'[w] OBVIOUS
<1>1. UNCHANGED <<members, inst, leaked>>
  BY Zenon DEF ListAllGroups, SyncCount, RecordFailure, EvaluatePolicies, tables
<1>2. \A v \in Worker : wk[v].pc \notin Moving
  <2>1. wk[w].pc \notin Moving
    BY DEF ListAllGroups, SyncCount, RecordFailure, EvaluatePolicies, At, Moving
  <2> QED BY <2>1 DEF OneWorker
<1>3. CASE ListAllGroups(w)
  <2>1. PICK f : f = [g \in Group |-> IF Exists(g) THEN Copy(g) ELSE NoCopy] BY Zenon
  <2>2. held' = [held EXCEPT ![w] = f] /\ UNCHANGED grp BY <1>3, <2>1 DEF ListAllGroups, tables
  <2>3. /\ \A g \in Group : held'[w][g] = IF Exists(g) THEN Copy(g) ELSE NoCopy
        /\ \A y \in Holder \ {w}, g \in Group : held'[y][g] = held[y][g]
    BY <1>f, <1>w, <2>1, <2>2, Zenon DEF HeldType
  <2>4. HeldInv'
    <3>1. ASSUME NEW y \in Holder, NEW g \in Group, held'[y][g].st # "none"
          PROVE  grp[g].st # "none" /\ (Exists(g) => held'[y][g].max = grp[g].max)
      <4>1. CASE y # w BY <1>f, <2>3, <3>1, <4>1, Zenon DEF HeldInv
      <4>2. CASE y = w /\ Exists(g)
        <5>1. held'[y][g] = Copy(g) BY <2>3, <4>2
        <5>2. Copy(g).max = grp[g].max BY Zenon DEF Copy
        <5> QED BY <4>2, <5>1, <5>2 DEF Exists
      <4>3. CASE y = w /\ ~Exists(g) BY <2>3, <3>1, <4>3 DEF NoCopy
      <4> QED BY <4>1, <4>2, <4>3
    <3> QED BY <2>2, <3>1 DEF HeldInv, Exists
  <2>5. LinksInv' BY <1>1, <1>2, <1>f, <2>2, LinksFrame DEF RowsMove, Exists
  <2>6. u = [t EXCEPT !.pc = "members", !.todo = {g \in Group : Exists(g)}]
    BY <1>0, <1>u, <1>w, <1>3 DEF ListAllGroups
  <2>7. u.pc = "members" /\ u.todo = {g \in Group : Exists(g)} BY <2>6, Zenon DEF TickType
  <2>8. ASSUME NEW g \in Ahead(u)
        PROVE  held'[w][g].st # "none" /\ held'[w][g].desired <= held'[w][g].max
    <3>1. g \in Group /\ Exists(g) BY <2>7 DEF Ahead
    <3>2. held'[w][g] = Copy(g) BY <2>3, <3>1
    <3> QED BY <1>f, <3>1, <3>2 DEF Copy, Exists, RowsType, Checked
  <2>9. TickInv(w, u)' BY <2>7, <2>8, Zenon DEF TickInv, Snapped, GroupPCs
  <2> QED BY <1>u, <2>4, <2>5, <2>9, TheTick
<1>4. CASE SyncCount(w) \/ RecordFailure(w) \/ EvaluatePolicies(w)
  <2>1. /\ HeldInv' /\ RowsMove
        /\ \A h \in Group : held'[w][h].st = held[w][h].st /\ held'[w][h].max = held[w][h].max
        /\ \A h \in Group : (h # t.cur \/ t.pc # "evaluate") => held'[w][h].desired = held[w][h].desired
    BY <1>0, <1>f, <1>4, SaveRows, Zenon DEF At
  <2>2. LinksInv' BY <1>1, <1>2, <1>f, <2>1, LinksFrame, Zenon
  <2>3. PICK p \in {"reconcile", "evaluate", "stamp", "next"} :
          /\ Goto(w, p) /\ t.pc \in {"sync", "record", "evaluate"} /\ (p = "reconcile" => t.pc = "sync")
    BY <1>0, <1>4, Zenon DEF SyncCount, RecordFailure, EvaluatePolicies, At
  <2>4. u = [t EXCEPT !.pc = p] BY <1>0, <1>u, <1>w, <2>3 DEF Goto
  <2>5. u.pc = p /\ u.todo = t.todo /\ u.cur = t.cur /\ u.mem = t.mem BY <2>4 DEF TickType
  <2>6. t.cur \in Group /\ t.cur \notin t.todo /\ t.todo \subseteq Group /\ held[w][t.cur].st # "none"
    BY <1>0, <2>3, Zenon DEF Ticking, TickType, TickInv, GroupPCs
  <2>7. Ahead(u) \subseteq Ahead(t) /\ Snapped(u) \subseteq Snapped(t)
    BY <2>3, <2>5, Zenon DEF Ahead, Snapped
  <2>8. ASSUME NEW g \in Ahead(u)
        PROVE  held'[w][g].st # "none" /\ held'[w][g].desired <= held'[w][g].max
    <3>1. g \in Group /\ (g # t.cur \/ t.pc # "evaluate")
      BY <2>3, <2>5, <2>6, Zenon DEF Ahead
    <3>2. held[w][g].st # "none" /\ held[w][g].desired <= held[w][g].max
      BY <1>0, <2>7, Zenon DEF TickInv
    <3> QED BY <2>1, <3>1, <3>2, Zenon
  <2>9. \A g \in Snapped(u) : members'[g] \subseteq u.mem[g]
    BY <1>0, <1>1, <2>5, <2>7, Zenon DEF TickInv
  <2>10. u.pc \in GroupPCs => u.cur \notin u.todo /\ held'[w][u.cur].st # "none" BY <2>1, <2>5, <2>6
  <2>11. TickInv(w, u)' BY <2>3, <2>5, <2>8, <2>9, <2>10, Zenon DEF TickInv
  <2> QED BY <1>u, <2>1, <2>2, <2>11, TheTick, Zenon
<1> QED BY <1>3, <1>4

(* Launching an instance, and adding it to the group. *)
LEMMA LaunchFleet ==
  ASSUME OneWorker, Shape, Shape', FleetInv, NEW w \in Worker, LaunchInstance(w) \/ AddInstanceToGroup(w)
  PROVE  FleetInv'
<1>0. PICK t \in TickType : t = wk[w] /\ Ticking(t) /\ TickInv(w, t)
  BY DEF Shape, TicksType, FleetInv
<1>w. wk \in [Worker -> TickType] /\ w \in Holder BY DEF Shape, TicksType, Holder
<1>f. /\ RowsType /\ HeldType /\ LinksType /\ RowsType' /\ LinksType' /\ HeldInv /\ LinksInv
  BY DEF Shape, FleetInv
<1>u. PICK u : u = wk'[w] OBVIOUS
<1>v. \A v \in Worker : v = w BY DEF OneWorker
<1>1. UNCHANGED <<grp, held>> BY DEF LaunchInstance, AddInstanceToGroup, tables
<1>2. HeldInv' BY <1>1, <1>f DEF HeldInv, Exists
<1>3. t.pc \in {"launch", "join"} BY <1>0 DEF LaunchInstance, AddInstanceToGroup, At
<1>4. t.cur \in Group /\ t.cur \notin t.todo /\ held[w][t.cur].st # "none"
  BY <1>0, <1>3, Zenon DEF Ticking, TickInv, GroupPCs
<1>5. PICK m \in Nat : m = held[w][t.cur].max BY <1>f, <1>w, <1>4, MaxNat
<1>6. \A g \in Group : members[g] \in SUBSET Inst BY <1>f DEF LinksType
<1>7. \A g \in Group : \A i \in members[g] : inst[i] = g BY <1>f DEF LinksInv
<1>8. PICK a \in Nat : a = Cardinality(members[t.cur]) BY <1>4, <1>6, Sized
<1>n. t.need \in Int BY DEF TickType
<1>9. ASSUME NEW p \in {"evaluate", "record"}, u.pc = p, u.todo = t.todo, u.cur = t.cur, u.mem = t.mem
      PROVE  TickInv(w, u)
  <2>1. Ahead(u) \subseteq Ahead(t) /\ Snapped(u) \subseteq Snapped(t) BY <1>3, <1>9 DEF Ahead, Snapped
  <2> QED BY <1>0, <1>4, <1>9, <2>1, Zenon DEF TickInv
<1>10. CASE (Goto(w, "evaluate") \/ Goto(w, "record")) /\ LaunchInstance(w) /\ UNCHANGED inst
  <2>1. PICK p \in {"evaluate", "record"} : Goto(w, p) BY <1>10
  <2>2. u = [t EXCEPT !.pc = p] BY <1>0, <1>u, <1>w, <2>1 DEF Goto
  <2>3. u.pc = p /\ u.todo = t.todo /\ u.cur = t.cur /\ u.mem = t.mem BY <2>2 DEF TickType
  <2>4. TickInv(w, u) BY <1>9, <2>3
  <2>5. UNCHANGED <<members, inst, leaked>> /\ wk[w].pc \notin Moving
    BY <1>10 DEF LaunchInstance, tables, At, Moving
  <2> QED BY <1>1, <1>u, <2>4, <2>5, LocalFleet
<1>11. ASSUME NEW i \in Free, t.pc = "launch", t.need > 0, inst' = [inst EXCEPT ![i] = t.cur],
              wk' = [wk EXCEPT ![w].pc = "join", ![w].new = i], UNCHANGED <<members, leaked>>
       PROVE  FleetInv'
  <2>1. i \in Inst /\ inst[i] = NoGroup BY <1>11 DEF Free
  <2>2. \A j \in Inst : inst'[j] = IF j = i THEN t.cur ELSE inst[j] BY <1>f, <1>11 DEF LinksType
  <2>3. u = [t EXCEPT !.pc = "join", !.new = i] BY <1>0, <1>u, <1>w, <1>11
  <2>4. /\ u.pc = "join" /\ u.new = i /\ u.todo = t.todo /\ u.cur = t.cur /\ u.mem = t.mem
        /\ u.need = t.need
    BY <2>3, Zenon DEF TickType
  <2>5. a + t.need <= m BY <1>0, <1>5, <1>8, <1>11 DEF TickInv
  <2>6. PICK b \in Nat : b = Cardinality(members[t.cur] \cup {i}) /\ b <= a + 1
    BY <1>4, <1>6, <1>8, OneMore, Zenon
  <2>7. t.need >= 1 /\ b + t.need - 1 <= m BY <1>5, <1>8, <1>11, <1>n, <2>5, <2>6
  <2>8. Ahead(u) \subseteq Ahead(t) /\ Snapped(u) \subseteq Snapped(t)
    BY <1>11, <2>4 DEF Ahead, Snapped
  <2>9. TickInv(w, u)'
    <3>1. \A g \in Ahead(u) : held'[w][g].st # "none" /\ held'[w][g].desired <= held'[w][g].max
      BY <1>0, <1>1, <2>8, Zenon DEF TickInv
    <3>2. \A g \in Snapped(u) : members'[g] \subseteq u.mem[g]
      BY <1>0, <1>11, <2>4, <2>8 DEF TickInv
    <3>3. u.need >= 1 /\ Cardinality(members'[u.cur] \cup {u.new}) + u.need - 1 <= held'[w][u.cur].max
      BY <1>1, <1>5, <1>11, <2>4, <2>6, <2>7, Zenon
    <3>4. inst'[u.new] \in {u.cur, NoGroup} BY <2>1, <2>2, <2>4, Zenon
    <3>5. u.cur \notin u.todo /\ held'[w][u.cur].st # "none" BY <1>1, <1>4, <2>4
    <3> QED BY <2>4, <3>1, <3>2, <3>3, <3>4, <3>5, Zenon DEF TickInv
  <2>10. LinksInv'
    <3>1. \A g \in Group : \A j \in members'[g] : inst'[j] = g
      <4>1. \A g \in Group : i \notin members[g] BY <1>7, <2>1, NullIds
      <4> QED BY <1>6, <1>7, <1>11, <2>2, <4>1, Zenon
    <3>2. \A j \in Inst : Accounted(j)'
      <4> SUFFICES ASSUME NEW j \in Inst PROVE Accounted(j)' OBVIOUS
      <4>1. CASE j = i BY <1>u, <2>4, <4>1 DEF Accounted, Moving
      <4>2. CASE j # i
        <5>1. Accounted(j) /\ ~(\E v \in Worker : wk[v].new = j /\ wk[v].pc \in Moving)
          BY <1>0, <1>f, <1>v, <1>11 DEF LinksInv, Moving
        <5> QED BY <1>11, <2>2, <4>2, <5>1 DEF Accounted
      <4> QED BY <4>1, <4>2
    <3> QED BY <1>1, <1>f, <1>11, <3>1, <3>2, Zenon DEF LinksInv, Exists
  <2> QED BY <1>2, <1>u, <2>9, <2>10, TheTick
<1>12. CASE LaunchInstance(w)
  <2>1. Free # {} => (CHOOSE i \in Free : TRUE) \in Free OBVIOUS
  <2>2. \/ (Goto(w, "evaluate") \/ Goto(w, "record")) /\ UNCHANGED inst
        \/ \E i \in Free : /\ t.need > 0 /\ inst' = [inst EXCEPT ![i] = t.cur]
                           /\ wk' = [wk EXCEPT ![w].pc = "join", ![w].new = i]
    BY <1>0, <1>12, <2>1, Zenon DEF LaunchInstance
  <2>3. t.pc = "launch" /\ UNCHANGED <<members, leaked>> BY <1>0, <1>12 DEF LaunchInstance, At, tables
  <2> QED BY <1>10, <1>11, <1>12, <2>2, <2>3
<1>13. CASE AddInstanceToGroup(w)
  <2>0. t.pc = "join" /\ UNCHANGED inst BY <1>0, <1>13 DEF AddInstanceToGroup, At
  <2>1. t.new \in Inst /\ inst[t.new] \in {t.cur, NoGroup} BY <1>0, <2>0, Zenon DEF Ticking, NewPCs, TickInv
  <2>a. \A j \in Inst : Accounted(j) BY <1>f, Zenon DEF LinksInv
  <2>2. CASE /\ Exists(t.cur) /\ inst[t.new] # NoGroup /\ Goto(w, "target") /\ UNCHANGED leaked
             /\ members' = [members EXCEPT ![t.cur] = @ \cup {t.new}]
    <3>1. \A g \in Group : members'[g] = IF g = t.cur THEN members[g] \cup {t.new} ELSE members[g]
      BY <1>f, <2>2, Zenon DEF LinksType
    <3>2. u = [t EXCEPT !.pc = "target"] BY <1>0, <1>u, <1>w, <2>2 DEF Goto
    <3>3. /\ u.pc = "target" /\ u.new = t.new /\ u.todo = t.todo /\ u.cur = t.cur /\ u.mem = t.mem
          /\ u.need = t.need
      BY <3>2 DEF TickType
    <3>4. PICK b \in Nat : b = Cardinality(members[t.cur] \cup {t.new}) BY <1>4, <1>6, OneMore, Zenon
    <3>5. t.need >= 1 /\ b + t.need - 1 <= m BY <1>0, <1>5, <2>0, <3>4, Zenon DEF TickInv
    <3>6. members'[t.cur] \cup {t.new} = members[t.cur] \cup {t.new} BY <1>4, <3>1, Zenon
    <3>7. Ahead(u) \subseteq t.todo /\ Snapped(u) \subseteq t.todo /\ Ahead(u) \subseteq Ahead(t)
          /\ Snapped(u) \subseteq Snapped(t)
      BY <2>0, <3>3 DEF Ahead, Snapped
    <3>8. TickInv(w, u)'
      <4>1. \A g \in Ahead(u) : held'[w][g].st # "none" /\ held'[w][g].desired <= held'[w][g].max
        BY <1>0, <1>1, <3>7, Zenon DEF TickInv
      <4>2. ASSUME NEW g \in Snapped(u) PROVE members'[g] \subseteq u.mem[g]
        <5>1. g \in t.todo /\ g # t.cur /\ g \in Group BY <1>4, <3>7, Zenon DEF TickType
        <5>2. members[g] \subseteq t.mem[g] BY <1>0, <3>7, Zenon DEF TickInv
        <5> QED BY <3>1, <3>3, <5>1, <5>2, Zenon
      <4>3. u.need >= 1 /\ Cardinality(members'[u.cur] \cup {u.new}) + u.need - 1 <= held'[w][u.cur].max
        BY <1>1, <1>5, <3>3, <3>4, <3>5, <3>6, Zenon
      <4>4. u.cur \notin u.todo /\ held'[w][u.cur].st # "none" BY <1>1, <1>4, <3>3, Zenon
      <4> QED BY <3>3, <4>1, <4>2, <4>3, <4>4, Zenon DEF TickInv
    <3>9. LinksInv'
      <4>1. ASSUME NEW g \in Group, NEW j \in members'[g] PROVE inst'[j] = g
        <5>1. CASE j \in members[g] BY <1>7, <2>0, <5>1, Zenon
        <5>2. CASE j \notin members[g]
          <6>1. g = t.cur /\ j = t.new BY <3>1, <4>1, <5>2
          <6> QED BY <2>0, <2>1, <2>2, <6>1, Zenon
        <5> QED BY <5>1, <5>2, Zenon
      <4>2. \A g \in Group : ~Exists(g)' => members'[g] = {}
        BY <1>1, <1>f, <2>2, <3>1, Zenon DEF LinksInv, Exists
      <4>3. ASSUME NEW g \in Group, Exists(g)' PROVE Cardinality(members'[g]) <= grp'[g].max
        <5>1. CASE g # t.cur BY <1>1, <1>f, <3>1, <4>3, <5>1, Zenon DEF LinksInv, Exists
        <5>2. CASE g = t.cur
          <6>1. m = grp[t.cur].max BY <1>4, <1>5, <1>f, <1>w, <2>2, Zenon DEF HeldInv
          <6>2. b <= m BY <1>n, <3>4, <3>5
          <6> QED BY <1>1, <3>1, <3>4, <5>2, <6>1, <6>2, Zenon
        <5> QED BY <5>1, <5>2
      <4>4. ASSUME NEW j \in Inst PROVE Accounted(j)'
        <5>1. CASE j = t.new
          <6>1. inst'[j] = t.cur BY <2>0, <2>1, <2>2, <5>1, Zenon
          <6>2. j \in members'[t.cur] BY <1>4, <3>1, <5>1, Zenon
          <6> QED BY <6>1, <6>2, Zenon DEF Accounted
        <5>2. CASE j # t.new
          <6>1. ~(\E v \in Worker : wk[v].new = j /\ wk[v].pc \in Moving) BY <1>0, <1>v, <5>2
          <6>2. inst[j] # NoGroup => inst[j] \in Group BY <1>f DEF LinksType
          <6>3. \A g \in Group : j \in members[g] => j \in members'[g] BY <3>1
          <6>4. inst'[j] = inst[j] /\ leaked' = leaked BY <2>0, <2>2, Zenon
          <6> QED BY <2>a, <6>1, <6>2, <6>3, <6>4, Zenon DEF Accounted
        <5> QED BY <5>1, <5>2, Zenon
      <4> QED BY <4>1, <4>2, <4>3, <4>4, Zenon DEF LinksInv
    <3> QED BY <1>2, <1>u, <3>8, <3>9, TheTick
  <2>3. CASE /\ leaked' = leaked \cup {j \in {t.new} : inst[j] # NoGroup}
             /\ wk' = [wk EXCEPT ![w].pc = "record", ![w].new = NoInst] /\ UNCHANGED members
    <3>1. u = [t EXCEPT !.pc = "record", !.new = NoInst] BY <1>0, <1>u, <1>w, <2>3, Zenon
    <3>2. u.pc = "record" /\ u.todo = t.todo /\ u.cur = t.cur /\ u.mem = t.mem BY <3>1 DEF TickType
    <3>3. TickInv(w, u) BY <1>9, <3>2
    <3>4. TickInv(w, u)' BY <1>1, <2>0, <2>3, <3>3, Zenon DEF TickInv
    <3>5. ASSUME NEW j \in Inst PROVE Accounted(j)'
      <4>1. CASE j = t.new BY <2>0, <2>3, <4>1 DEF Accounted
      <4>2. CASE j # t.new
        <5>1. ~(\E v \in Worker : wk[v].new = j /\ wk[v].pc \in Moving) BY <1>0, <1>v, <4>2
        <5> QED BY <2>0, <2>a, <2>3, <5>1 DEF Accounted
      <4> QED BY <4>1, <4>2
    <3>6. LinksInv' BY <1>1, <1>f, <2>0, <2>3, <3>5, Zenon DEF LinksInv, Exists
    <3> QED BY <1>2, <1>u, <3>4, <3>6, TheTick
  <2> QED BY <1>0, <1>13, <2>2, <2>3, Zenon DEF AddInstanceToGroup
<1> QED BY <1>12, <1>13

(* cleanupGroup and scaleIn take instances out; a restart loses the one in   *)
(* hand.                                                                    *)
LEMMA RemoveFleet ==
  ASSUME OneWorker, Shape, Shape', FleetInv, NEW w \in Worker,
         CleanupGroup(w) \/ RemoveInstanceFromGroup(w) \/ TerminateInstance(w) \/ Restart(w)
  PROVE  FleetInv'
<1>0. PICK t \in TickType : t = wk[w] /\ Ticking(t) /\ TickInv(w, t)
  BY DEF Shape, TicksType, FleetInv
<1>w. wk \in [Worker -> TickType] /\ w \in Holder BY DEF Shape, TicksType, Holder
<1>f. /\ RowsType /\ HeldType /\ LinksType /\ RowsType' /\ LinksType' /\ HeldInv /\ LinksInv
  BY DEF Shape, FleetInv
<1>u. PICK u : u = wk'[w] OBVIOUS
<1>v. \A v \in Worker : v = w BY DEF OneWorker
<1>m. \A g \in Group : members[g] \in SUBSET Inst /\ members'[g] \in SUBSET Inst BY <1>f DEF LinksType
<1>a. \A j \in Inst : Accounted(j) BY <1>f DEF LinksInv
<1>l. \A g \in Group : \A i \in members[g] : inst[i] = g BY <1>f DEF LinksInv
<1>1. ASSUME t.pc \in {"cleanup", "unlinkAll", "stopAll", "unlink", "stop"},
             u.pc \in {"next", "cleanup", "stopAll", "evaluate", "stop", "shrink"},
             u.pc \in {"cleanup", "stopAll"} => t.pc \in {"cleanup", "unlinkAll", "stopAll"},
             u.todo = t.todo, u.cur = t.cur, u.mem = t.mem,
             SameCopies(w), \A g \in Group : members'[g] \subseteq members[g]
      PROVE  TickInv(w, u)'
  <2>1. Ahead(u) \subseteq t.todo /\ Ahead(u) \subseteq Ahead(t) /\ Snapped(u) \subseteq Snapped(t)
    BY <1>1 DEF Ahead, Snapped
  <2>2. t.cur \in Group /\ t.todo \subseteq Group /\ t.cur \notin t.todo /\ held[w][t.cur].st # "none"
    BY <1>0, <1>1, Zenon DEF Ticking, TickType, TickInv, GroupPCs
  <2>a. \A g \in Ahead(t) : held[w][g].st # "none" /\ held[w][g].desired <= held[w][g].max
    BY <1>0, Zenon DEF TickInv
  <2>b. \A g \in t.todo : /\ held'[w][g].st = held[w][g].st /\ held'[w][g].max = held[w][g].max
                           /\ held'[w][g].desired = held[w][g].desired
    BY <1>1, <2>2, Zenon DEF SameCopies
  <2>3. \A g \in Ahead(u) : held'[w][g].st # "none" /\ held'[w][g].desired <= held'[w][g].max
    BY <2>1, <2>a, <2>b, Zenon
  <2>4. ASSUME NEW g \in Snapped(u) PROVE members'[g] \subseteq u.mem[g]
    <3>1. g \in Group BY <1>1, <2>2 DEF Snapped
    <3>2. members[g] \subseteq t.mem[g] BY <1>0, <2>1, Zenon DEF TickInv
    <3> QED BY <1>1, <3>1, <3>2, Zenon
  <2>5. held'[w][u.cur].st # "none" BY <1>1, <2>2, Zenon DEF SameCopies
  <2>6. u.pc \notin {"idle", "launch", "join", "target"} BY <1>1
  <2> QED BY <1>1, <2>2, <2>3, <2>4, <2>5, <2>6, Zenon DEF TickInv
<1>2. ASSUME \A g \in Group : members'[g] \subseteq members[g], UNCHANGED grp
      PROVE  \A g \in Group : /\ ~Exists(g)' => members'[g] = {}
                              /\ Exists(g)' => Cardinality(members'[g]) <= grp'[g].max
  <2> SUFFICES ASSUME NEW g \in Group
               PROVE  /\ ~Exists(g)' => members'[g] = {}
                      /\ Exists(g)' => Cardinality(members'[g]) <= grp'[g].max
    OBVIOUS
  <2>1. PICK a \in Nat, b \in Nat : a = Cardinality(members'[g]) /\ b = Cardinality(members[g]) /\ a <= b
    BY <1>2, <1>m, Sized, Zenon
  <2>2. grp[g].max \in Nat BY <1>f, MaxNat, Zenon
  <2>3. /\ ~Exists(g) => members[g] = {}
        /\ Exists(g) => b <= grp[g].max
    BY <1>f, <2>1 DEF LinksInv
  <2> QED BY <1>2, <2>1, <2>2, <2>3 DEF Exists
<1>3. CASE CleanupGroup(w)
  <2>0. t.pc = "cleanup" /\ Goto(w, "next") /\ UNCHANGED <<inst, leaked>>
    BY <1>0, <1>3, Zenon DEF CleanupGroup, At
  <2>1. u = [t EXCEPT !.pc = "next"] BY <1>0, <1>u, <1>w, <2>0 DEF Goto
  <2>2. u.pc = "next" /\ u.todo = t.todo /\ u.cur = t.cur /\ u.mem = t.mem BY <2>1 DEF TickType
  <2>3. t.cur \in Group BY <1>0, <2>0, Zenon DEF Ticking, GroupPCs
  <2>4. CASE UNCHANGED <<tables, held>>
    <3>1. TickInv(w, u)' BY <1>1, <2>0, <2>2, <2>4, Zenon DEF SameCopies, tables
    <3>2. HeldInv' BY <1>f, <2>4, Zenon DEF HeldInv, Exists, tables
    <3>3. \A v \in Worker : wk[v].pc \notin Moving BY <1>0, <1>v, <2>0 DEF Moving
    <3>4. LinksInv' BY <1>f, <2>0, <2>4, <3>3, LinksFrame, Zenon DEF RowsMove, Exists, tables
    <3> QED BY <1>u, <3>1, <3>2, <3>4, TheTick, Zenon
  <2>5. CASE t.mem[t.cur] = {} /\ DeleteRow(t.cur)
    <3>1. /\ HeldInv' /\ \A x \in Holder : SameCopies(x)
          /\ ~Exists(t.cur)' /\ \A h \in Group \ {t.cur} : grp'[h] = grp[h]
      BY <1>f, <2>3, <2>5, DeleteRows, Zenon
    <3>2. members[t.cur] = {} BY <1>0, <2>0, <2>5, Zenon DEF TickInv, Snapped
    <3>3. \A g \in Group : members'[g] = members[g]
      BY <1>f, <2>3, <2>5, <3>2 DEF DeleteRow, LinksType
    <3>4. TickInv(w, u)' BY <1>1, <1>w, <2>0, <2>2, <3>1, <3>3, Zenon
    <3>5. ASSUME NEW j \in Inst PROVE Accounted(j)'
      <4>1. ~(\E v \in Worker : wk[v].new = j /\ wk[v].pc \in Moving) BY <1>0, <1>v, <2>0 DEF Moving
      <4>2. inst[j] # NoGroup => inst[j] \in Group BY <1>f, Zenon DEF LinksType
      <4> QED BY <1>a, <2>0, <3>3, <4>1, <4>2, Zenon DEF Accounted
    <3>6. \A g \in Group : \A i \in members'[g] : inst'[i] = g BY <1>l, <2>0, <3>3
    <3>7. ASSUME NEW g \in Group
          PROVE  /\ ~Exists(g)' => members'[g] = {}
                 /\ Exists(g)' => Cardinality(members'[g]) <= grp'[g].max
      <4>1. CASE g = t.cur BY <3>1, <3>2, <3>3, <4>1, Zenon
      <4>2. CASE g # t.cur BY <1>f, <3>1, <3>3, <4>2, Zenon DEF LinksInv, Exists
      <4> QED BY <4>1, <4>2, ZenonT(30)
    <3>8. LinksInv' BY <3>5, <3>6, <3>7, Zenon DEF LinksInv
    <3> QED BY <1>u, <3>1, <3>4, <3>8, TheTick, Zenon
  <2> QED BY <1>0, <1>3, <2>4, <2>5, Zenon DEF CleanupGroup
<1>4. CASE RemoveInstanceFromGroup(w)
  <2>0. t.pc \in {"unlink", "unlinkAll"} /\ UNCHANGED <<grp, held, inst, leaked>>
    BY <1>0, <1>4, Zenon DEF RemoveInstanceFromGroup
  <2>1. HeldInv' /\ SameCopies(w) BY <1>f, <2>0, Zenon DEF HeldInv, Exists, SameCopies
  <2>2. t.cur \in Group BY <1>0, <2>0, Zenon DEF Ticking, GroupPCs
  <2>n. \A j \in Inst : ~(\E v \in Worker : wk[v].new = j /\ wk[v].pc \in Moving)
    BY <1>0, <1>v, <2>0, Zenon DEF Moving
  <2>3. CASE /\ members' = [members EXCEPT ![t.cur] = @ \ {t.new}]
             /\ Goto(w, IF t.pc = "unlinkAll" THEN "stopAll" ELSE "stop")
    <3>1. PICK p : p = IF t.pc = "unlinkAll" THEN "stopAll" ELSE "stop" OBVIOUS
    <3>2. u = [t EXCEPT !.pc = p] BY <1>0, <1>u, <1>w, <2>3, <3>1, Zenon DEF Goto
    <3>3. u.pc = p /\ u.todo = t.todo /\ u.cur = t.cur /\ u.mem = t.mem /\ u.new = t.new
      BY <3>2 DEF TickType
    <3>4. \A g \in Group : members'[g] = IF g = t.cur THEN members[g] \ {t.new} ELSE members[g]
      BY <1>f, <2>3 DEF LinksType
    <3>5. \A g \in Group : members'[g] \subseteq members[g] BY <3>4, Zenon
    <3>6. TickInv(w, u)' BY <1>1, <2>0, <2>1, <3>1, <3>3, <3>5, Zenon
    <3>7. ASSUME NEW j \in Inst PROVE Accounted(j)'
      <4>1. CASE j = t.new
        <5>1. wk'[w].new = j /\ wk'[w].pc \in Moving BY <1>u, <3>1, <3>3, <4>1 DEF Moving
        <5> QED BY <5>1, Zenon DEF Accounted
      <4>2. CASE j # t.new
        <5>1. inst[j] # NoGroup => inst[j] \in Group BY <1>f DEF LinksType
        <5>2. \A g \in Group : j \in members'[g] <=> j \in members[g] BY <3>4, <4>2, Zenon
        <5> QED BY <1>a, <2>0, <2>n, <5>1, <5>2, Zenon DEF Accounted
      <4> QED BY <4>1, <4>2
    <3>8. \A g \in Group : \A i \in members'[g] : inst'[i] = g BY <1>l, <2>0, <3>5, Zenon
    <3>9. LinksInv' BY <1>2, <2>0, <3>5, <3>7, <3>8, Zenon DEF LinksInv
    <3> QED BY <1>u, <2>1, <3>6, <3>9, TheTick, Zenon
  <2>4. CASE /\ UNCHANGED members
             /\ wk' = [wk EXCEPT ![w].pc = IF t.pc = "unlinkAll" THEN "cleanup" ELSE "evaluate",
                                 ![w].drop = IF t.pc = "unlinkAll" THEN @ ELSE {}, ![w].new = NoInst]
    <3>1. PICK p, d : /\ p = IF t.pc = "unlinkAll" THEN "cleanup" ELSE "evaluate"
                      /\ d = IF t.pc = "unlinkAll" THEN t.drop ELSE {}
      BY Zenon
    <3>2. u = [t EXCEPT !.pc = p, !.drop = d, !.new = NoInst] BY <1>0, <1>u, <1>w, <2>4, <3>1, Zenon
    <3>3. u.pc = p /\ u.todo = t.todo /\ u.cur = t.cur /\ u.mem = t.mem BY <3>2 DEF TickType
    <3>4. TickInv(w, u)' BY <1>1, <2>0, <2>1, <2>4, <3>1, <3>3, Zenon
    <3>5. \A v \in Worker : wk[v].pc \notin Moving BY <1>0, <1>v, <2>0, Zenon DEF Moving
    <3>6. RowsMove BY <2>0 DEF RowsMove, Exists
    <3>7. LinksInv' BY <1>f, <2>0, <2>4, <3>5, <3>6, LinksFrame, Zenon
    <3> QED BY <1>u, <2>1, <3>4, <3>7, TheTick, Zenon
  <2> QED BY <1>0, <1>4, <2>3, <2>4, Zenon DEF RemoveInstanceFromGroup, At
<1>5. CASE TerminateInstance(w)
  <2>0. t.pc \in {"stop", "stopAll"} /\ UNCHANGED <<grp, held>> BY <1>0, <1>5, Zenon DEF TerminateInstance
  <2>1. HeldInv' /\ SameCopies(w) BY <1>f, <2>0 DEF HeldInv, Exists, SameCopies
  <2>2. PICK p : p = IF t.pc = "stopAll" THEN "cleanup" ELSE "shrink" OBVIOUS
  <2>3. u = [t EXCEPT !.pc = p, !.new = NoInst] BY <1>0, <1>u, <1>w, <1>5, <2>2 DEF TerminateInstance
  <2>4. u.pc = p /\ u.todo = t.todo /\ u.cur = t.cur /\ u.mem = t.mem BY <2>3 DEF TickType
  <2>n. \A j \in Inst \ {t.new} : ~(\E v \in Worker : wk[v].new = j /\ wk[v].pc \in Moving)
    BY <1>0, <1>v, Zenon
  <2>5. CASE DeleteInst(t.new)
    <3>1. /\ \A g \in Group : members'[g] = members[g] \ {t.new}
          /\ \A j \in Inst : inst'[j] = IF j = t.new THEN NoGroup ELSE inst[j]
          /\ leaked' = leaked \ {t.new}
      BY <1>f, <2>5, Zenon DEF DeleteInst, LinksType
    <3>2. \A g \in Group : members'[g] \subseteq members[g] BY <3>1
    <3>3. TickInv(w, u)' BY <1>1, <2>0, <2>1, <2>2, <2>4, <3>2, Zenon
    <3>4. ASSUME NEW j \in Inst PROVE Accounted(j)'
      <4>1. CASE j = t.new BY <3>1, <4>1, Zenon DEF Accounted
      <4>2. CASE j # t.new
        <5>1. inst[j] # NoGroup => inst[j] \in Group BY <1>f DEF LinksType
        <5>2. inst'[j] = inst[j] /\ (j \in leaked' <=> j \in leaked) BY <3>1, <4>2, Zenon
        <5>3. \A g \in Group : j \in members'[g] <=> j \in members[g] BY <3>1, <4>2, Zenon
        <5> QED BY <1>a, <2>n, <4>2, <5>1, <5>2, <5>3, Zenon DEF Accounted
      <4> QED BY <4>1, <4>2
    <3>5. \A g \in Group : \A i \in members'[g] : inst'[i] = g BY <1>l, <1>m, <3>1
    <3>6. LinksInv' BY <1>2, <2>0, <3>2, <3>4, <3>5, Zenon DEF LinksInv
    <3> QED BY <1>u, <2>1, <3>3, <3>6, TheTick
  <2>6. CASE leaked' = leaked \cup {t.new} /\ UNCHANGED <<inst, members>>
    <3>1. TickInv(w, u)' BY <1>1, <2>0, <2>1, <2>2, <2>4, <2>6, Zenon
    <3>2. ASSUME NEW j \in Inst PROVE Accounted(j)'
      <4>1. CASE j = t.new BY <2>6, <4>1 DEF Accounted
      <4>2. CASE j # t.new BY <1>a, <2>n, <2>6, <4>2, Zenon DEF Accounted
      <4> QED BY <4>1, <4>2
    <3>3. LinksInv' BY <1>2, <1>l, <2>0, <2>6, <3>2, Zenon DEF LinksInv
    <3> QED BY <1>u, <2>1, <3>1, <3>3, TheTick
  <2> QED BY <1>0, <1>5, <2>5, <2>6, Zenon DEF TerminateInstance
<1>6. CASE Restart(w)
  <2>1. /\ leaked' = leaked \cup {i \in Inst : i = t.new /\ inst[i] # NoGroup /\ \A g \in Group : i \notin members[g]}
        /\ wk' = [wk EXCEPT ![w] = IdleTick] /\ UNCHANGED <<grp, members, inst>>
        /\ held' = [held EXCEPT ![w] = [g \in Group |-> NoCopy]]
    BY <1>0, <1>6, Zenon DEF Restart, tables
  <2>2. u.pc = "idle" /\ u.todo = {} BY <1>u, <1>w, <2>1, Zenon DEF IdleTick
  <2>3. TickInv(w, u)' BY <2>2, Zenon DEF TickInv, Ahead, Snapped, GroupPCs
  <2>4. HeldInv'
    <3>1. ASSUME NEW y \in Holder, NEW g \in Group, held'[y][g].st # "none"
          PROVE  held'[y][g] = held[y][g]
      <4>1. CASE y # w BY <1>f, <2>1, <4>1, Zenon DEF HeldType
      <4>2. CASE y = w
        <5>1. held'[w][g] = NoCopy BY <1>f, <1>w, <2>1, Zenon DEF HeldType
        <5> QED BY <3>1, <4>2, <5>1 DEF NoCopy
      <4> QED BY <4>1, <4>2, Zenon
    <3> QED BY <1>f, <2>1, <3>1 DEF HeldInv, Exists
  <2>5. ASSUME NEW j \in Inst PROVE Accounted(j)'
    <3>1. CASE j = t.new
      <4>1. CASE \A g \in Group : j \notin members[g] BY <2>1, <3>1, <4>1, Zenon DEF Accounted
      <4>2. CASE \E g \in Group : j \in members[g] BY <1>l, <2>1, <4>2, Zenon DEF Accounted
      <4> QED BY <4>1, <4>2, Zenon
    <3>2. CASE j # t.new
      <4>1. ~(\E v \in Worker : wk[v].new = j /\ wk[v].pc \in Moving) BY <1>0, <1>v, <3>2
      <4> QED BY <1>a, <2>1, <4>1 DEF Accounted
    <3> QED BY <3>1, <3>2
  <2>6. LinksInv' BY <1>2, <1>l, <2>1, <2>5, Zenon DEF LinksInv
  <2> QED BY <1>u, <2>3, <2>4, <2>6, TheTick
<1> QED BY <1>3, <1>4, <1>5, <1>6, Zenon

LEMMA FleetInit == Init => FleetInv
<1> SUFFICES ASSUME Init PROVE FleetInv OBVIOUS
<1>1. HeldInv BY DEF Init, HeldInv, NoCopy
<1>2. LinksInv BY Zenon DEF Init, LinksInv, Accounted, Exists, NoRow
<1>3. ASSUME NEW w \in Worker PROVE TickInv(w, wk[w])
  <2>1. wk[w].pc = "idle" /\ wk[w].todo = {} BY DEF Init, IdleTick
  <2> QED BY <2>1, Zenon DEF TickInv, Ahead, Snapped, GroupPCs
<1> QED BY <1>1, <1>2, <1>3 DEF FleetInv

LEMMA FleetStep ==
  ASSUME OneWorker, Shape, Shape', CopiesInv, FleetInv, [Next]_vars
  PROVE  FleetInv'
<1>0. Agreement BY DEF CopiesInv
<1>1. CASE UNCHANGED vars
  <2>1. HeldInv' BY <1>1 DEF vars, FleetInv, HeldInv, Exists
  <2>2. LinksInv' BY <1>1, Zenon DEF vars, FleetInv, LinksInv, Accounted, Exists
  <2>3. ASSUME NEW w \in Worker PROVE TickInv(w, wk[w])'
    BY <1>1, Zenon DEF vars, FleetInv, TickInv, Ahead, Snapped
  <2> QED BY <2>1, <2>2, <2>3, Zenon DEF FleetInv
<1>2. CASE WorkerStep
  BY <1>0, <1>2, ReadsFleet, RowsFleet, LaunchFleet, RemoveFleet, Zenon DEF WorkerStep, Evaluate
<1> QED BY <1>0, <1>1, <1>2, OthersFleet DEF Next

LEMMA FleetCorrect == ASSUME OneWorker PROVE Spec => [](Shape /\ FleetInv)
<1>1. Shape /\ Shape' /\ CopiesInv /\ FleetInv /\ [Next]_vars => FleetInv'
  BY FleetStep
<1> QED BY <1>1, ShapeInit, ShapeStep, CopiesCorrect, FleetInit, PTL DEF Spec

(* With one worker, a group's members and the instance being added are at    *)
(* most max_instances, whatever requests, policies, failures and restarts   *)
(* do meanwhile, for any number of groups, instances and requests.          *)
THEOREM GroupsBounded ==
  ASSUME OneWorker
  PROVE  Spec => []SizeBounded
<1>1. Shape /\ FleetInv => SizeBounded
  <2> SUFFICES ASSUME Shape, FleetInv, NEW g \in Group, Exists(g)
               PROVE  Cardinality(members[g] \cup (InFlight(g) \ {NoInst})) <= grp[g].max
    BY DEF SizeBounded
  <2>1. members[g] \in SUBSET Inst /\ grp[g].max \in Nat /\ Cardinality(members[g]) <= grp[g].max
    BY MaxNat, Zenon DEF Shape, LinksType, FleetInv, LinksInv
  <2>2. CASE InFlight(g) \subseteq {NoInst}
    <3>1. members[g] \cup (InFlight(g) \ {NoInst}) = members[g] BY <2>2
    <3> QED BY <2>1, <3>1, Zenon
  <2>3. CASE ~(InFlight(g) \subseteq {NoInst})
    <3>1. PICK w \in Worker : wk[w].cur = g /\ wk[w].pc \in {"join", "target"} BY <2>3 DEF InFlight
    <3>2. PICK t \in TickType : t = wk[w] /\ Ticking(t) /\ TickInv(w, t)
      BY DEF Shape, TicksType, FleetInv
    <3>3. t.new \in Inst BY <3>1, <3>2 DEF Ticking, NewPCs
    <3>4. InFlight(g) \subseteq {t.new} BY <3>2 DEF InFlight, OneWorker
    <3>5. PICK S, T : S = members[g] \cup (InFlight(g) \ {NoInst}) /\ T = members[g] \cup {t.new} BY Zenon
    <3>6. PICK a \in Nat, b \in Nat : a = Cardinality(S) /\ b = Cardinality(T) /\ a <= b
      <4>1. S \subseteq T BY <3>4, <3>5
      <4>2. T \in SUBSET Inst BY <2>1, <3>3, <3>5
      <4>3. S \in SUBSET Inst BY <4>1, <4>2
      <4> QED BY <4>1, <4>2, <4>3, Sized, Zenon
    <3>7. t.need \in Int /\ t.need >= 1 /\ b + t.need - 1 <= held[w][g].max
      BY <3>1, <3>2, <3>5, <3>6, Zenon DEF TickInv, TickType
    <3>8. held[w][g].max = grp[g].max
      <4>1. held[w][g].st # "none" BY <3>1, <3>2, Zenon DEF TickInv, GroupPCs
      <4> QED BY <4>1 DEF FleetInv, HeldInv, Holder
    <3> QED BY <2>1, <3>5, <3>6, <3>7, <3>8
  <2> QED BY <2>2, <2>3
<1> QED BY <1>1, FleetCorrect, PTL

(* With one worker, an instance launched for a group is a member of it, in   *)
(* the worker's hands, or was lost by a failed call or a restart: cleanup   *)
(* deletes the row only when no member is left.                             *)
THEOREM InstancesAccounted ==
  ASSUME OneWorker
  PROVE  Spec => []NoOrphan
<1>1. Shape /\ FleetInv => NoOrphan
  <2> SUFFICES ASSUME Shape, FleetInv, NEW g \in Group, NEW i \in Running(g)
               PROVE  i \in members[g] \/ i \in leaked \/ \E w \in Worker : wk[w].new = i
    BY DEF NoOrphan
  <2>1. i \in Inst /\ inst[i] = g BY DEF Running
  <2>2. g # NoGroup BY NullIds
  <2> QED BY <2>1, <2>2 DEF FleetInv, LinksInv, Accounted
<1> QED BY <1>1, FleetCorrect, PTL
=============================================================================
