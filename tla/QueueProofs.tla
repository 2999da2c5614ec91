----------------------------- MODULE QueueProofs -----------------------------
(* Theorems about Queue, for every value of its constants. *)
EXTENDS Queue, TLAPS

Row == [st : {"unsent", "in", "gone"}, visible : Int, count : Nat]
Tx  == [pc : {"idle", "begun", "selected"}, start : Nat, limit : Int, at : Nat, msgs : SUBSET Msg]

LEMMA ClampType == ASSUME NEW k \in Int PROVE Clamp(k) \in Int
BY ConstantsType DEF Clamp

(* A transaction that begins, goes on or ends stays well typed. *)
LEMMA TxUpdate ==
  ASSUME TxType, NEW p \in Server, NEW t \in Tx, tx' = [tx EXCEPT ![p] = t]
  PROVE  TxType'
BY DEF TxType, Tx

LEMMA NoTxType == NoTx \in Tx
BY DEF NoTx, Tx

LEMMA InitType == Init => TypeOK
<1> SUFFICES ASSUME Init PROVE TypeOK
  OBVIOUS
<1>1. RowType
  BY DEF Init, RowType
<1>2. TxType
  BY NoTxType DEF Init, TxType, Tx
<1>3. last \in [Msg -> Nat \cup {Never}]
  BY DEF Init
<1> QED BY <1>1, <1>2, <1>3 DEF Init, TypeOK

(* Every step of the queue keeps the type invariant. *)
LEMMA TypeStep == TypeOK /\ [Next]_vars => TypeOK'
<1> SUFFICES ASSUME TypeOK, [Next]_vars PROVE TypeOK'
  OBVIOUS
<1>t. /\ now \in Nat /\ queue \in {"live", "gone"} /\ RowType /\ TxType
      /\ receipts \subseteq Msg \X Nat /\ last \in [Msg -> Nat \cup {Never}]
  BY DEF TypeOK
<1>r. row \in [Msg -> Row]
  BY <1>t DEF RowType, Row
<1>x. tx \in [Server -> Tx]
  BY <1>t DEF TxType, Tx
<1>1. CASE Tick
  BY <1>t, <1>1 DEF Tick, TypeOK, RowType, TxType
<1>2. ASSUME NEW m \in Msg, SendMessage(m) PROVE TypeOK'
  <2>1. \A v \in Int : Sent(v) \in Row
    BY DEF Sent, Row
  <2>2. \A t \in 0..(now - 1), p \in Server : t + Skew[p] \in Int
    BY <1>t, ConstantsType
  <2>3. \E v \in Int : row' = [row EXCEPT ![m] = Sent(v)]
    BY <1>t, <1>2, <2>2 DEF SendMessage
  <2>4. RowType'
    BY <1>r, <2>1, <2>3 DEF RowType, Row
  <2> QED BY <1>t, <1>2, <2>4 DEF SendMessage, TypeOK, TxType
<1>3. ASSUME NEW p \in Server, ReceiveBegin(p) PROVE TypeOK'
  <2>1. PICK k \in Limits :
          tx' = [tx EXCEPT ![p] = [pc |-> "begun", start |-> now, limit |-> Clamp(k),
                                   at |-> 0, msgs |-> {}]]
    BY <1>3 DEF ReceiveBegin
  <2>2. [pc |-> "begun", start |-> now, limit |-> Clamp(k), at |-> 0, msgs |-> {}] \in Tx
    BY <1>t, ClampType, ConstantsType DEF Tx
  <2>3. TxType'
    BY <1>t, <2>1, <2>2, TxUpdate
  <2> QED BY <1>t, <1>3, <2>3 DEF ReceiveBegin, TypeOK, RowType
<1>4. ASSUME NEW p \in Server, ReceiveSelect(p) PROVE TypeOK'
  <2>1. PICK S \in SUBSET Candidates(p) :
          tx' = [tx EXCEPT ![p] = [pc |-> "selected", start |-> tx[p].start,
                                   limit |-> 0, at |-> now, msgs |-> S]]
    BY <1>4 DEF ReceiveSelect
  <2>2. S \in SUBSET Msg
    BY DEF Candidates, In
  <2>3. [pc |-> "selected", start |-> tx[p].start, limit |-> 0, at |-> now, msgs |-> S] \in Tx
    BY <1>t, <1>x, <2>2 DEF Tx
  <2>4. TxType'
    BY <1>t, <2>1, <2>3, TxUpdate
  <2> QED BY <1>t, <1>4, <2>4 DEF ReceiveSelect, TypeOK, RowType
<1>5. ASSUME NEW p \in Server, ReceiveCommit(p) PROVE TypeOK'
  <2>1. tx[p].at \in Nat /\ tx[p].msgs \in SUBSET Msg
    BY <1>x DEF Tx
  <2>2. RowType'
    <3>1. ASSUME NEW m \in Msg
          PROVE  [st |-> row[m].st, visible |-> tx[p].at + Skew[p] + Timeout,
                  count |-> row[m].count + 1] \in Row
      BY <1>r, <2>1, ConstantsType DEF Row
    <3> QED BY <1>5, <1>r, <3>1 DEF ReceiveCommit, RowType, Row
  <2>3. TxType'
    BY <1>t, <1>5, NoTxType, TxUpdate DEF ReceiveCommit
  <2>4. last' \in [Msg -> Nat \cup {Never}]
    BY <1>t, <1>5, <2>1 DEF ReceiveCommit
  <2>5. receipts' \subseteq Msg \X Nat
    <3>1. \A m \in Msg : row[m].count + 1 \in Nat
      BY <1>r DEF Row
    <3> QED BY <1>t, <1>5, <2>1, <3>1 DEF ReceiveCommit
  <2> QED BY <1>t, <1>5, <2>2, <2>3, <2>4, <2>5 DEF ReceiveCommit, TypeOK
<1>6. ASSUME NEW p \in Server, ReceiveAbort(p) PROVE TypeOK'
  <2>1. TxType'
    BY <1>t, <1>6, NoTxType, TxUpdate DEF ReceiveAbort
  <2> QED BY <1>t, <1>6, <2>1 DEF ReceiveAbort, TypeOK, RowType
<1>7. ASSUME NEW r \in receipts, DeleteMessage(r[1], r[2]) PROVE TypeOK'
  <2>1. RowType'
    BY <1>r, <1>7 DEF DeleteMessage, RowType, Row
  <2> QED BY <1>t, <1>7, <2>1 DEF DeleteMessage, TypeOK, TxType
<1>8. CASE PurgeQueue \/ DeleteQueue
  <2>1. RowType'
    BY <1>r, <1>8 DEF PurgeQueue, DeleteQueue, DeleteRows, RowType, Row
  <2> QED BY <1>t, <1>8, <2>1 DEF PurgeQueue, DeleteQueue, TypeOK, TxType
<1>9. CASE UNCHANGED vars
  BY <1>t, <1>9 DEF vars, TypeOK, RowType, TxType
<1> QED BY <1>1, <1>2, <1>3, <1>4, <1>5, <1>6, <1>7, <1>8, <1>9 DEF Next, Receive

(* The tables, the receives in progress and the receipts stay well typed. *)
THEOREM TypeCorrect == Spec => []TypeOK
BY InitType, TypeStep, PTL DEF Spec

-----------------------------------------------------------------------------
(* A receive in progress holds rows only between its SELECT and its end,    *)
(* and its times are in the past, in order.                                 *)
TxInv ==
  \A p \in Server :
    /\ tx[p].start <= now
    /\ tx[p].pc = "selected" => tx[p].start <= tx[p].at
    /\ tx[p].pc # "selected" => tx[p].msgs = {}

LockInv == TypeOK /\ TxInv /\ LocksAreExclusive

(* A step that leaves the transactions and the rows they hold alone. *)
LEMMA RowsHeldAlone ==
  ASSUME LocksAreExclusive, UNCHANGED tx,
         \A m \in Locked : row'[m] = row[m]
  PROVE  LocksAreExclusive'
<1>1. \A p \in Server : \A m \in tx[p].msgs : row'[m] = row[m] /\ m \in In
  BY DEF Locked, LocksAreExclusive
<1> QED BY <1>1 DEF LocksAreExclusive, In, Visible

(* A transaction that ends. *)
LEMMA TxEnds ==
  ASSUME TypeOK, TxInv, LocksAreExclusive, NEW p \in Server, tx' = [tx EXCEPT ![p] = NoTx],
         UNCHANGED now, \A m \in Msg \ tx[p].msgs : row'[m] = row[m]
  PROVE  TxInv' /\ LocksAreExclusive'
<1>t. tx \in [Server -> Tx] /\ now \in Nat
  BY DEF TypeOK, TxType, Tx
<1>1. tx'[p] = NoTx /\ \A q \in Server \ {p} : tx'[q] = tx[q]
  BY <1>t
<1>2. TxInv'
  BY <1>t, <1>1 DEF TxInv, NoTx
<1>3. \A q \in Server \ {p} : \A m \in tx[q].msgs : row'[m] = row[m] /\ m \in In
  BY <1>t DEF LocksAreExclusive, Tx, In
<1>4. LocksAreExclusive'
  BY <1>1, <1>3 DEF LocksAreExclusive, In, Visible, NoTx
<1> QED BY <1>2, <1>4

LEMMA LockStep == LockInv /\ [Next]_vars => LockInv'
<1> SUFFICES ASSUME LockInv, [Next]_vars PROVE TxInv' /\ LocksAreExclusive'
  BY TypeStep DEF LockInv
<1>0. TypeOK /\ TxInv /\ LocksAreExclusive
  BY DEF LockInv
<1>t. /\ now \in Nat /\ tx \in [Server -> Tx] /\ row \in [Msg -> Row]
      /\ receipts \subseteq Msg \X Nat
  BY <1>0 DEF TypeOK, TxType, Tx, RowType, Row
<1>s. \A p \in Server : tx[p].start \in Nat /\ tx[p].at \in Nat /\ tx[p].msgs \subseteq Msg
  BY <1>t DEF Tx
<1>1. CASE Tick
  <2>1. TxInv'
    BY <1>0, <1>1, <1>t, <1>s DEF Tick, TxInv
  <2>2. LocksAreExclusive'
    BY <1>0, <1>1, RowsHeldAlone DEF Tick
  <2> QED BY <2>1, <2>2
<1>2. ASSUME NEW m \in Msg, SendMessage(m) PROVE TxInv' /\ LocksAreExclusive'
  <2>1. TxInv'
    BY <1>0, <1>2 DEF SendMessage, TxInv
  <2>2. m \notin Locked
    BY <1>0, <1>2 DEF SendMessage, Locked, LocksAreExclusive, In
  <2>3. \A k \in Locked : k \in Msg
    BY <1>s DEF Locked
  <2>4. \A k \in Locked : row'[k] = row[k]
    BY <1>2, <1>t, <2>2, <2>3 DEF SendMessage
  <2> QED BY <1>0, <1>2, <2>1, <2>4, RowsHeldAlone DEF SendMessage
<1>3. ASSUME NEW p \in Server, ReceiveBegin(p) PROVE TxInv' /\ LocksAreExclusive'
  <2>1. PICK k \in Limits :
          tx' = [tx EXCEPT ![p] = [pc |-> "begun", start |-> now, limit |-> Clamp(k),
                                   at |-> 0, msgs |-> {}]]
    BY <1>3 DEF ReceiveBegin
  <2>2. /\ tx'[p].pc = "begun" /\ tx'[p].start = now /\ tx'[p].msgs = {}
        /\ \A q \in Server \ {p} : tx'[q] = tx[q]
    BY <1>t, <2>1
  <2>3. TxInv'
    BY <1>0, <1>3, <1>t, <2>2 DEF ReceiveBegin, TxInv
  <2>4. LocksAreExclusive'
    BY <1>0, <1>3, <2>2 DEF ReceiveBegin, LocksAreExclusive, In, Visible
  <2> QED BY <2>3, <2>4
<1>4. ASSUME NEW p \in Server, ReceiveSelect(p) PROVE TxInv' /\ LocksAreExclusive'
  <2>1. PICK S \in SUBSET Candidates(p) :
          tx' = [tx EXCEPT ![p] = [pc |-> "selected", start |-> tx[p].start,
                                   limit |-> 0, at |-> now, msgs |-> S]]
    BY <1>4 DEF ReceiveSelect
  <2>2. /\ tx'[p].pc = "selected" /\ tx'[p].start = tx[p].start /\ tx'[p].at = now
        /\ tx'[p].msgs = S /\ \A q \in Server \ {p} : tx'[q] = tx[q]
    BY <1>t, <2>1
  <2>3. TxInv'
    BY <1>0, <1>4, <1>t, <1>s, <2>2 DEF ReceiveSelect, TxInv
  <2>4. /\ S \subseteq In /\ \A m \in S : Visible(m, tx[p].start)
        /\ \A q \in Server : S \cap tx[q].msgs = {}
    BY DEF Candidates, Locked
  <2>5. LocksAreExclusive'
    BY <1>0, <1>4, <2>2, <2>4 DEF ReceiveSelect, LocksAreExclusive, In, Visible
  <2> QED BY <2>3, <2>5
<1>5. ASSUME NEW p \in Server, ReceiveCommit(p) PROVE TxInv' /\ LocksAreExclusive'
  BY <1>0, <1>5, TxEnds DEF ReceiveCommit
<1>6. ASSUME NEW p \in Server, ReceiveAbort(p) PROVE TxInv' /\ LocksAreExclusive'
  BY <1>0, <1>6, TxEnds DEF ReceiveAbort
<1>7. ASSUME NEW r \in receipts, DeleteMessage(r[1], r[2]) PROVE TxInv' /\ LocksAreExclusive'
  <2>1. TxInv'
    BY <1>0, <1>7 DEF DeleteMessage, TxInv
  <2>2. \A k \in Locked : row'[k] = row[k]
    <3>1. r[1] \notin Locked /\ \A k \in Locked : k \in Msg
      BY <1>7, <1>s DEF DeleteMessage, Locked
    <3> QED BY <1>7, <1>t, <3>1 DEF DeleteMessage
  <2> QED BY <1>0, <1>7, <2>1, <2>2, RowsHeldAlone DEF DeleteMessage
<1>8. CASE PurgeQueue \/ DeleteQueue
  <2>1. TxInv'
    BY <1>0, <1>8 DEF PurgeQueue, DeleteQueue, TxInv
  <2>2. \A k \in Locked : k \in In
    BY <1>0 DEF Locked, LocksAreExclusive
  <2>3. Locked = {}
    BY <1>8, <2>2 DEF PurgeQueue, DeleteQueue
  <2> QED BY <1>0, <1>8, <2>1, <2>3, RowsHeldAlone DEF PurgeQueue, DeleteQueue
<1>9. CASE UNCHANGED vars
  BY <1>0, <1>9, RowsHeldAlone DEF vars, TxInv
<1> QED BY <1>1, <1>2, <1>3, <1>4, <1>5, <1>6, <1>7, <1>8, <1>9 DEF Next, Receive

(* No two receives in progress hold the same message, and a message that is *)
(* held stays in the queue: FOR UPDATE SKIP LOCKED in ReceiveMessages.      *)
LEMMA LockInvariant == Spec => []LockInv
<1>1. Init => LockInv
  <2> SUFFICES ASSUME Init PROVE TxInv /\ LocksAreExclusive
    BY InitType DEF LockInv
  <2> QED BY DEF Init, TxInv, LocksAreExclusive, NoTx
<1> QED BY <1>1, LockStep, PTL DEF Spec

(* Two receives in progress never hold the same message, for any number of  *)
(* messages and servers and whatever their clocks: the part of LockInv that *)
(* users of ReceiveMessages rely on.                                        *)
THEOREM LocksCorrect == Spec => []LocksAreExclusive
<1>1. LockInv => LocksAreExclusive
  BY DEF LockInv
<1> QED BY <1>1, LockInvariant, PTL

-----------------------------------------------------------------------------
(* The steps that change which messages are in the queue: a message is sent *)
(* or deleted by its latest receipt handle, or the queue is emptied.        *)
LEMMA StaleStep ==
  TypeOK /\ [Next]_vars =>
    (In' # {} => \A m \in In \ In' : <<m, row[m].count>> \in receipts)
<1> SUFFICES ASSUME TypeOK, [Next]_vars, In' # {}, NEW m \in In, m \notin In'
             PROVE  <<m, row[m].count>> \in receipts
  OBVIOUS
<1>t. row \in [Msg -> Row] /\ receipts \subseteq Msg \X Nat /\ m \in Msg
  BY DEF TypeOK, RowType, Row, In
<1>n. ~ UNCHANGED row
  BY DEF In
<1>1. ASSUME NEW k \in Msg, SendMessage(k) PROVE FALSE
  BY <1>1, <1>t DEF SendMessage, In
<1>2. ASSUME NEW p \in Server, ReceiveCommit(p) PROVE FALSE
  BY <1>2, <1>t DEF ReceiveCommit, In
<1>3. ASSUME NEW r \in receipts, DeleteMessage(r[1], r[2])
      PROVE  <<m, row[m].count>> \in receipts
  <2>1. m = r[1]
    BY <1>3, <1>t DEF DeleteMessage, In
  <2> QED BY <1>3, <2>1 DEF DeleteMessage
<1>4. CASE PurgeQueue \/ DeleteQueue
  <2>1. \A k \in Msg : row'[k].st # "in"
    BY <1>4, <1>t DEF PurgeQueue, DeleteQueue, DeleteRows, In, Row
  <2> QED BY <2>1 DEF In
<1> QED BY <1>n, <1>1, <1>2, <1>3, <1>4
        DEF Next, Receive, Tick, ReceiveBegin, ReceiveSelect, ReceiveAbort, vars

(* Only the receipt handle of its latest delivery deletes a single message. *)
THEOREM OnlyLatestReceiptDeletes == Spec => StaleReceiptHarmless
<1>1. TypeOK /\ [Next]_vars =>
        [In' # {} => \A m \in In \ In' : <<m, row[m].count>> \in receipts]_vars
  BY StaleStep
<1> QED BY <1>1, TypeCorrect, PTL DEF Spec, StaleReceiptHarmless

-----------------------------------------------------------------------------
(* No server's clock is behind the database's. *)
ClocksNotBehind == \A p \in Server : Skew[p] >= 0

(* A message that was delivered is hidden for the timeout from the time     *)
(* that delivery selected it.                                               *)
HiddenInv ==
  \A m \in Msg : last[m] # Never =>
    row[m].st # "unsent" /\ row[m].visible >= last[m] + Timeout

(* What HiddenForTimeout says of one step. *)
RedeliveredLate ==
  \A m \in Msg : last[m] # Never /\ row'[m].count # row[m].count
                  => last'[m] >= last[m] + Timeout

LEMMA HiddenStep ==
  ASSUME ClocksNotBehind, LockInv, HiddenInv, [Next]_vars
  PROVE  HiddenInv' /\ RedeliveredLate
<1>t. /\ row \in [Msg -> Row] /\ last \in [Msg -> Nat \cup {Never}]
      /\ \A p \in Server : tx[p].at \in Nat /\ tx[p].start \in Nat /\ tx[p].msgs \subseteq Msg
  BY DEF LockInv, TypeOK, RowType, Row, TxType
<1>c. Timeout \in Int /\ \A p \in Server : Skew[p] \in Int /\ Skew[p] >= 0
  BY ConstantsType DEF ClocksNotBehind
<1>v. \A m \in Msg : row[m].visible \in Int /\ last[m] \in Int
  BY <1>t DEF Row, Never
<1>1. ASSUME NEW k \in Msg, SendMessage(k) PROVE HiddenInv' /\ RedeliveredLate
  <2>1. last[k] = Never /\ UNCHANGED last
    BY <1>1 DEF SendMessage, HiddenInv
  <2>2. \A m \in Msg \ {k} : row'[m] = row[m]
    BY <1>1, <1>t DEF SendMessage
  <2> QED BY <2>1, <2>2 DEF HiddenInv, RedeliveredLate
<1>2. ASSUME NEW p \in Server, ReceiveCommit(p)
      PROVE  HiddenInv' /\ RedeliveredLate
  <2>1. \A m \in Msg \ tx[p].msgs : row'[m] = row[m] /\ last'[m] = last[m]
    BY <1>2, <1>t DEF ReceiveCommit
  <2>2. \A m \in tx[p].msgs : /\ last'[m] = tx[p].at
                              /\ row'[m].visible = tx[p].at + Skew[p] + Timeout
                              /\ row'[m].st = row[m].st
    BY <1>2, <1>t DEF ReceiveCommit
  <2>3. tx[p].at + Skew[p] + Timeout >= tx[p].at + Timeout
    BY <1>t, <1>c
  <2>4. \A m \in tx[p].msgs : row[m].st = "in" /\ row[m].visible <= tx[p].start
    BY DEF LockInv, LocksAreExclusive, In, Visible
  <2>5. tx[p].start <= tx[p].at
    BY <1>2 DEF LockInv, TxInv, ReceiveCommit
  <2>6. HiddenInv'
    BY <2>1, <2>2, <2>3, <2>4 DEF HiddenInv
  <2>7. \A m \in tx[p].msgs : last[m] # Never => tx[p].at >= last[m] + Timeout
    <3> SUFFICES ASSUME NEW m \in tx[p].msgs, last[m] # Never
                 PROVE  tx[p].at >= last[m] + Timeout
      OBVIOUS
    <3>1. m \in Msg /\ row[m].visible >= last[m] + Timeout /\ row[m].visible <= tx[p].start
      BY <1>t, <2>4 DEF HiddenInv
    <3> QED BY <1>t, <1>c, <1>v, <2>5, <3>1
  <2> QED BY <2>1, <2>2, <2>6, <2>7 DEF RedeliveredLate
<1>3. ASSUME NEW r \in receipts, DeleteMessage(r[1], r[2]) PROVE HiddenInv' /\ RedeliveredLate
  <2>1. \A m \in Msg : row'[m].visible = row[m].visible /\ row'[m].count = row[m].count
                       /\ (row'[m].st = row[m].st \/ row'[m].st = "gone")
    BY <1>3, <1>t DEF DeleteMessage, Row
  <2> QED BY <1>3, <2>1 DEF HiddenInv, RedeliveredLate, DeleteMessage
<1>4. ASSUME PurgeQueue \/ DeleteQueue PROVE HiddenInv' /\ RedeliveredLate
  <2>1. \A m \in Msg : row'[m].visible = row[m].visible /\ row'[m].count = row[m].count
                       /\ (row'[m].st = row[m].st \/ row'[m].st = "gone")
    BY <1>4, <1>t DEF PurgeQueue, DeleteQueue, DeleteRows, Row
  <2> QED BY <1>4, <2>1 DEF HiddenInv, RedeliveredLate, PurgeQueue, DeleteQueue
<1>5. ASSUME UNCHANGED <<row, last>> PROVE HiddenInv' /\ RedeliveredLate
  BY <1>5 DEF HiddenInv, RedeliveredLate
<1> QED BY <1>1, <1>2, <1>3, <1>4, <1>5
        DEF Next, Receive, Tick, ReceiveBegin, ReceiveSelect, ReceiveAbort, vars

(* When no server's clock is behind the database's, a message is not        *)
(* received again before the visibility timeout has passed.                 *)
THEOREM TimeoutHides == ASSUME ClocksNotBehind PROVE Spec => HiddenForTimeout
<1>1. Init => HiddenInv
  BY DEF Init, HiddenInv
<1>2. LockInv /\ HiddenInv /\ [Next]_vars => HiddenInv'
  BY HiddenStep
<1>3. LockInv /\ HiddenInv /\ [Next]_vars =>
        [RedeliveredLate]_vars
  BY HiddenStep
<1> QED BY <1>1, <1>2, <1>3, LockInvariant, PTL DEF Spec, HiddenForTimeout, RedeliveredLate

-----------------------------------------------------------------------------
(* The refinement of MessagePool: every step of the queue is a step of the  *)
(* pool or leaves the pool alone.                                           *)
states     == [m \in Msg |-> State(m)]
deliveries == [m \in Msg |-> row[m].count]

(* A message that was never sent was never delivered. *)
FreshInv == \A m \in Msg : row[m].st = "unsent" => row[m].count = 0

LEMMA FreshStep == LockInv /\ FreshInv /\ [Next]_vars => FreshInv'
<1> SUFFICES ASSUME LockInv, FreshInv, [Next]_vars, NEW m \in Msg, row'[m].st = "unsent"
             PROVE  row'[m] = row[m]
  BY DEF FreshInv
<1>t. row \in [Msg -> Row] /\ receipts \subseteq Msg \X Nat
  BY DEF LockInv, TypeOK, RowType, Row
<1>1. ASSUME NEW k \in Msg, SendMessage(k) PROVE row'[m] = row[m]
  BY <1>1, <1>t DEF SendMessage, Sent
<1>2. ASSUME NEW p \in Server, ReceiveCommit(p) PROVE row'[m] = row[m]
  BY <1>2 DEF ReceiveCommit, LockInv, LocksAreExclusive, In
<1>3. ASSUME NEW r \in receipts, DeleteMessage(r[1], r[2]) PROVE row'[m] = row[m]
  BY <1>3, <1>t DEF DeleteMessage, Row
<1>4. CASE PurgeQueue \/ DeleteQueue
  BY <1>4, <1>t DEF PurgeQueue, DeleteQueue, DeleteRows, In, Row
<1> QED BY <1>1, <1>2, <1>3, <1>4
        DEF Next, Receive, Tick, ReceiveBegin, ReceiveSelect, ReceiveAbort, vars

LEMMA PoolStutters ==
  ASSUME UNCHANGED <<now, row, receipts>> PROVE UNCHANGED Pool!vars
BY DEF Pool!vars, State, Visible

LEMMA PoolStep == LockInv /\ FreshInv /\ [Next]_vars => [Pool!Next]_(Pool!vars)
<1> SUFFICES ASSUME LockInv, FreshInv, [Next]_vars PROVE Pool!Next \/ UNCHANGED Pool!vars
  OBVIOUS
<1>t. /\ row \in [Msg -> Row] /\ now \in Nat /\ receipts \subseteq Msg \X Nat
      /\ \A p \in Server : tx[p].at \in Nat /\ tx[p].start \in Nat /\ tx[p].msgs \subseteq Msg
  BY DEF LockInv, TypeOK, RowType, Row, TxType
<1>u. row' \in [Msg -> Row] /\ now' \in Nat
  BY TypeStep DEF LockInv, TypeOK, RowType, Row
<1>v. \A m \in Msg : row[m].visible \in Int
  BY <1>t DEF Row
<1>1. CASE Tick
  <2> DEFINE S == {m \in Msg : State(m) = "hidden" /\ row'[m].visible <= now'}
  <2>1. \A m \in Msg : row[m].visible <= now => row'[m].visible <= now'
    BY <1>1, <1>t, <1>v DEF Tick, Visible
  <2>2. \A m \in Msg : State(m)' = IF m \in S THEN "ready" ELSE State(m)
    BY <1>1, <1>t, <2>1 DEF Tick, State, Visible, Row
  <2>3. Pool!Expire(S)
    BY <1>1, <2>2 DEF Tick, Pool!Expire
  <2> QED BY <2>3 DEF Pool!Next
<1>2. ASSUME NEW m \in Msg, SendMessage(m) PROVE Pool!Next
  <2>1. /\ row'[m].st = "in" /\ row'[m].count = 0
        /\ \A k \in Msg \ {m} : row'[k] = row[k] /\ State(k)' = State(k)
    BY <1>2, <1>t DEF SendMessage, Sent, State, Visible
  <2>2. State(m)' \in {"ready", "hidden"}
    BY <2>1 DEF State
  <2>3. State(m) = "unsent"
    BY <1>2 DEF SendMessage, State
  <2>4. states' = [states EXCEPT ![m] = State(m)']
    BY <2>1 DEF states
  <2>5. UNCHANGED <<deliveries, receipts>>
    <3>1. row[m].count = 0
      BY <1>2 DEF SendMessage, FreshInv
    <3> QED BY <1>2, <2>1, <3>1 DEF SendMessage, deliveries
  <2>6. Pool!Send(m)
    BY <2>2, <2>3, <2>4, <2>5 DEF Pool!Send, states, deliveries
  <2> QED BY <2>6 DEF Pool!Next
<1>3. ASSUME NEW p \in Server, ReceiveBegin(p) \/ ReceiveSelect(p) \/ ReceiveAbort(p)
      PROVE  UNCHANGED Pool!vars
  BY <1>3, PoolStutters DEF ReceiveBegin, ReceiveSelect, ReceiveAbort
<1>4. ASSUME NEW p \in Server, ReceiveCommit(p) PROVE Pool!Next
  <2> DEFINE S == tx[p].msgs
             H == {m \in S : ~ (row'[m].visible <= now')}
  <2>1. \A m \in S : row[m].st = "in" /\ row[m].visible <= tx[p].start /\ m \in Msg
    BY DEF LockInv, LocksAreExclusive, In, Visible
  <2>2. \A m \in S : State(m) = "ready"
    <3>1. tx[p].start <= now
      BY DEF LockInv, TxInv
    <3>2. \A m \in S : Visible(m, now)
      BY <1>t, <1>v, <2>1, <3>1 DEF Visible
    <3> QED BY <2>1, <3>2 DEF State
  <2>3. \A m \in Msg \ S : row'[m] = row[m]
    BY <1>4 DEF ReceiveCommit
  <2>4. \A m \in S : row'[m].st = "in" /\ row'[m].count = row[m].count + 1
    BY <1>4, <2>1 DEF ReceiveCommit
  <2>5. \A m \in Msg : State(m)' = IF m \in H THEN "hidden" ELSE State(m)
    <3>1. ASSUME NEW m \in S PROVE State(m)' = IF m \in H THEN "hidden" ELSE State(m)
      BY <2>2, <2>4 DEF State, Visible
    <3>2. ASSUME NEW m \in Msg \ S PROVE State(m)' = IF m \in H THEN "hidden" ELSE State(m)
      BY <1>4, <2>3 DEF State, Visible, ReceiveCommit
    <3> QED BY <3>1, <3>2
  <2>6. deliveries' = [m \in Msg |-> IF m \in S THEN deliveries[m] + 1 ELSE deliveries[m]]
    BY <2>3, <2>4 DEF deliveries
  <2>7. \/ receipts' = receipts \cup {<<m, deliveries[m] + 1>> : m \in S}
        \/ UNCHANGED receipts
    <3>1. \A m \in S : deliveries[m] = row[m].count
      BY <2>1 DEF deliveries
    <3> QED BY <1>4, <3>1 DEF ReceiveCommit
  <2>8. Pool!Deliver(S, H)
    BY <2>1, <2>2, <2>5, <2>6, <2>7 DEF Pool!Deliver, deliveries
  <2>9. S \in SUBSET Msg /\ H \in SUBSET S
    BY <1>t
  <2> HIDE DEF S, H
  <2>10. \E Q \in SUBSET S : Pool!Deliver(S, Q)
    BY <2>8, <2>9 DEF Pool!Deliver
  <2> QED BY <2>9, <2>10 DEF Pool!Next
<1>5. ASSUME NEW r \in receipts, DeleteMessage(r[1], r[2]) PROVE Pool!Next
  <2> DEFINE m == r[1]
  <2>1. m \in Msg /\ row[m].st = "in" /\ <<m, row[m].count>> \in receipts
    BY <1>5 DEF DeleteMessage, In
  <2>2. \A k \in Msg : row'[k] = IF k = m THEN [row[m] EXCEPT !.st = "gone"] ELSE row[k]
    BY <1>5, <1>t, <2>1 DEF DeleteMessage
  <2>3. row'[m].st = "gone" /\ row'[m].count = row[m].count
    BY <1>t, <2>1, <2>2 DEF Row
  <2>4. State(m)' = "gone" /\ \A k \in Msg \ {m} : State(k)' = State(k)
    BY <1>5, <2>2, <2>3 DEF State, Visible, DeleteMessage
  <2>5. states' = [states EXCEPT ![m] = "gone"]
    BY <2>4 DEF states
  <2>6. UNCHANGED <<deliveries, receipts>>
    BY <1>5, <2>2, <2>3 DEF deliveries, DeleteMessage
  <2>7. Pool!Acknowledge(m)
    <3>1. State(m) \in {"ready", "hidden"}
      BY <2>1 DEF State
    <3> QED BY <2>1, <2>5, <2>6, <3>1
            DEF Pool!Acknowledge, Pool!Here, states, deliveries
  <2> QED BY <2>1, <2>7 DEF Pool!Next
<1>6. ASSUME PurgeQueue \/ DeleteQueue PROVE Pool!Next
  <2>1. \A m \in Msg : row'[m] = IF row[m].st = "in" THEN [row[m] EXCEPT !.st = "gone"] ELSE row[m]
    BY <1>6 DEF PurgeQueue, DeleteQueue, DeleteRows, In
  <2>2. \A m \in Msg : row'[m].count = row[m].count
                       /\ row'[m].st = IF row[m].st = "in" THEN "gone" ELSE row[m].st
    BY <1>t, <2>1 DEF Row
  <2>3. \A m \in Msg : State(m)' = IF State(m) \in {"ready", "hidden"} THEN "gone" ELSE State(m)
    BY <1>t, <2>2 DEF State, Row
  <2>4. UNCHANGED receipts
    BY <1>6 DEF PurgeQueue, DeleteQueue
  <2>5. Pool!Purge
    BY <2>2, <2>3, <2>4 DEF Pool!Purge, Pool!Here
  <2> QED BY <2>5 DEF Pool!Next
<1>7. CASE UNCHANGED vars
  BY <1>7, PoolStutters DEF vars
<1> QED BY <1>1, <1>2, <1>3, <1>4, <1>5, <1>6, <1>7 DEF Next, Receive

(* The tables, the transactions and the clocks implement the pool of        *)
(* messages that the queue's users see.                                     *)
THEOREM QueueImplementsPool == Spec => ImplementsPool
<1>1. Init => Pool!Init
  BY DEF Init, Pool!Init, State
<1>2. Init => FreshInv
  BY DEF Init, FreshInv
<1> QED BY <1>1, <1>2, FreshStep, PoolStep, LockInvariant, PTL DEF Spec, ImplementsPool, Pool!Spec

=============================================================================
