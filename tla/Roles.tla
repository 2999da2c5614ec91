-------------------------------- MODULE Roles --------------------------------
(***************************************************************************)
(* The records of roles: rbacRepository over the roles and role_permissions *)
(* tables.  What a role then allows is not modelled.                        *)
(*                                                                          *)
(* CreateRole and UpdateRole run a transaction one statement at a time, the *)
(* other operations are one statement; PostgreSQL (external) runs them at   *)
(* READ COMMITTED, so that what a statement of another client meets of an   *)
(* open transaction is only its locks.                                      *)
(***************************************************************************)
EXTENDS Naturals, Sequences, FiniteSets, Functions

CONSTANTS Role, RName, Perm,   \* ids, names, permissions
          Lists,               \* the permission lists of requests; a list may repeat one
          Caller, NoRole,
          NoName, Gone,        \* no row yet, no row any more: an id is drawn once (uuid.New)
          MaxFaults

VARIABLES
  role,     \* the roles table: the name
  perms,    \* the role_permissions table, by role
  rtx,      \* the callers' transactions and reads
  faults,
  owed      \* history: what the operations that succeeded left a role with

vars == <<role, perms, rtx, faults, owed>>

NoTx == [pc |-> "idle", r |-> NoRole, name |-> NoName, list |-> << >>, todo |-> << >>,
         cut |-> {}, put |-> {}]
Exists(r) == role[r] \in RName

(* The tables and the transactions are well typed. *)
TypeOK ==
  /\ role \in [Role -> RName \cup {NoName, Gone}]
  /\ perms \in [Role -> SUBSET Perm] /\ owed \in [Role -> SUBSET Perm]
  /\ \A c \in Caller : /\ rtx[c].pc \in {"idle", "clear", "insert", "perms"}
                       /\ rtx[c].cut \subseteq Perm /\ rtx[c].put \subseteq Perm
  /\ faults \in 0..MaxFaults

Init ==
  /\ role = [r \in Role |-> NoName] /\ perms = [r \in Role |-> {}]
  /\ rtx = [c \in Caller |-> NoTx] /\ faults = 0 /\ owed = perms

-----------------------------------------------------------------------------
Open(c)      == rtx[c].pc \in {"clear", "insert"}
(* The row is locked by another transaction, or its name is in its hands. *)
Locked(c, r) == \E d \in Caller \ {c} : Open(d) /\ rtx[d].r = r /\ rtx[d].name \in RName
NameHeld(c, n) ==
  \E d \in Caller \ {c} : Open(d) /\ n \in {rtx[d].name, role[rtx[d].r]}
NameTaken(r, n) == \E q \in Role \ {r} : role[q] = n

Failing == faults < MaxFaults /\ faults' = faults + 1
(* The deferred tx.Rollback: nothing of the transaction was visible. *)
Rollback(c) == rtx' = [rtx EXCEPT ![c] = NoTx]

(* CreateRole, INSERT INTO roles. *)
CreateRole(c) ==
  \E r \in Role, n \in RName, list \in Lists :
    /\ rtx[c].pc = "idle" /\ role[r] = NoName /\ \A d \in Caller : rtx[d].r # r
    /\ ~NameHeld(c, n)
    /\ \/ /\ ~NameTaken(r, n) /\ UNCHANGED faults
          /\ rtx' = [rtx EXCEPT ![c] = [NoTx EXCEPT !.pc = "insert", !.r = r, !.name = n,
                                        !.list = list, !.todo = list]]
       \/ Failing /\ UNCHANGED rtx
    /\ UNCHANGED <<role, perms, owed>>

(* UpdateRole, UPDATE roles; no row to update is no error. *)
UpdateRole(c) ==
  \E r \in Role, n \in RName, list \in Lists :
    /\ rtx[c].pc = "idle" /\ role[r] # NoName /\ ~Locked(c, r) /\ (Exists(r) => ~NameHeld(c, n))
    /\ \/ /\ Exists(r) => ~NameTaken(r, n)
          /\ UNCHANGED faults
          /\ rtx' = [rtx EXCEPT ![c] = [NoTx EXCEPT !.pc = "clear", !.r = r, !.list = list, !.todo = list,
                                        !.name = IF Exists(r) THEN n ELSE NoName]]
       \/ Failing /\ UNCHANGED rtx
    /\ UNCHANGED <<role, perms, owed>>

(* Faulty variant: the DELETE is not part of the transaction. *)
ClearAtOnce(c) ==
  /\ rtx[c].pc = "clear" /\ UNCHANGED faults
  /\ rtx' = [rtx EXCEPT ![c].pc = "insert"]
  /\ perms' = [perms EXCEPT ![rtx[c].r] = {}]
  /\ UNCHANGED <<role, owed>>

(* UpdateRole, DELETE FROM role_permissions: of the rows there are now. *)
ClearPermissions(c) ==
  /\ rtx[c].pc = "clear"
  /\ \/ UNCHANGED faults /\ rtx' = [rtx EXCEPT ![c].pc = "insert", ![c].cut = perms[rtx[c].r]]
     \/ Failing /\ Rollback(c)
  /\ UNCHANGED <<role, perms, owed>>

(* The next INSERT INTO role_permissions: it fails on a row that is there   *)
(* (a repeated permission, or one that AddPermissionToRole put there since  *)
(* the DELETE) and on a role that is not.                                   *)
InsertPermission(c) ==
  LET t == rtx[c]
      p == Head(t.todo)
  IN  /\ t.pc = "insert" /\ t.todo # << >>
      /\ \/ /\ UNCHANGED faults
            /\ IF t.name = NoName \/ p \in t.put \cup (perms[t.r] \ t.cut)
               THEN Rollback(c)
               ELSE rtx' = [rtx EXCEPT ![c].todo = Tail(@), ![c].put = @ \cup {p}]
         \/ Failing /\ Rollback(c)
      /\ UNCHANGED <<role, perms, owed>>

(* tx.Commit *)
Commit(c) ==
  LET t == rtx[c] IN
  /\ t.pc = "insert" /\ t.todo = << >>
  /\ \/ /\ UNCHANGED faults
        /\ IF t.name = NoName THEN UNCHANGED <<role, perms, owed>>
           ELSE /\ role'  = [role EXCEPT ![t.r] = t.name]
                /\ perms' = [perms EXCEPT ![t.r] = (@ \ t.cut) \cup t.put]
                /\ owed'  = [owed EXCEPT ![t.r] = Range(t.list)]
     \/ Failing /\ UNCHANGED <<role, perms, owed>>
  /\ Rollback(c)

(* DeleteRole; its permissions go with it (ON DELETE CASCADE). *)
DeleteRole(c, r) ==
  /\ rtx[c].pc = "idle" /\ Exists(r) /\ ~Locked(c, r)
  /\ role'  = [role EXCEPT ![r] = Gone]
  /\ perms' = [perms EXCEPT ![r] = {}]
  /\ owed'  = [owed EXCEPT ![r] = {}]
  /\ UNCHANGED <<rtx, faults>>

(* A row that an open transaction has deleted or inserted makes others wait, *)
(* and so does, for the foreign key, a role it gives another name.           *)
RowHeld(c, r, p) ==
  \E d \in Caller \ {c} : Open(d) /\ rtx[d].r = r /\ p \in rtx[d].cut \cup rtx[d].put
Renamed(c, r) == \E d \in Caller \ {c} : Open(d) /\ rtx[d].r = r /\ rtx[d].name # role[r]

(* AddPermissionToRole, ON CONFLICT DO NOTHING. *)
AddPermissionToRole(c, r, p) ==
  /\ rtx[c].pc = "idle" /\ Exists(r) /\ ~RowHeld(c, r, p) /\ ~Renamed(c, r)
  /\ perms' = [perms EXCEPT ![r] = @ \cup {p}]
  /\ owed'  = [owed EXCEPT ![r] = @ \cup {p}]
  /\ UNCHANGED <<role, rtx, faults>>

(* RemovePermissionFromRole *)
RemovePermissionFromRole(c, r, p) ==
  /\ rtx[c].pc = "idle" /\ p \in perms[r]
  /\ ~\E d \in Caller \ {c} : Open(d) /\ rtx[d].r = r /\ p \in rtx[d].cut
  /\ perms' = [perms EXCEPT ![r] = @ \ {p}]
  /\ owed'  = [owed EXCEPT ![r] = @ \ {p}]
  /\ UNCHANGED <<role, rtx, faults>>

(* GetRoleByID, GetRoleByName and, for each role, ListRoles: the row. *)
GetRole(c, r) ==
  /\ rtx[c].pc = "idle" /\ Exists(r)
  /\ rtx' = [rtx EXCEPT ![c] = [NoTx EXCEPT !.pc = "perms", !.r = r, !.name = role[r]]]
  /\ UNCHANGED <<role, perms, faults, owed>>

(* GetPermissionsForRole: the second statement of those reads. *)
GetPermissionsForRole(c) ==
  /\ rtx[c].pc = "perms"
  /\ UNCHANGED faults \/ Failing
  /\ Rollback(c)
  /\ UNCHANGED <<role, perms, owed>>

RoleRequest(c) ==
  \/ CreateRole(c) \/ UpdateRole(c) \/ ClearPermissions(c) \/ InsertPermission(c) \/ Commit(c)
  \/ GetPermissionsForRole(c)
  \/ \E r \in Role : DeleteRole(c, r) \/ GetRole(c, r)
  \/ \E r \in Role, p \in Perm : AddPermissionToRole(c, r, p) \/ RemovePermissionFromRole(c, r, p)

Next == \E c \in Caller : RoleRequest(c)
Spec == Init /\ [][Next]_vars

-----------------------------------------------------------------------------
(* A role is whole: it has every permission of the list its last committed  *)
(* CreateRole or UpdateRole was given, and those added since, less those    *)
(* removed since, however far other transactions on it have come and        *)
(* wherever they failed; no two roles have one name; and a role that was    *)
(* deleted, or whose CreateRole did not commit, has no permission rows.     *)
RolesWhole ==
  /\ \A r \in Role : owed[r] \subseteq perms[r] /\ (~Exists(r) => perms[r] = {})
  /\ \A q, r \in Role : Exists(q) /\ role[q] = role[r] => q = r
=============================================================================
