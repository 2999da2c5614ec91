------------------------------- MODULE Secrets ------------------------------
(***************************************************************************)
(* Secrets: rows that hold an encrypted value.  A read decrypts the row it *)
(* has fetched and writes the whole of it back with the time of access.    *)
(***************************************************************************)
EXTENDS Integers, FiniteSets

CONSTANTS Secret, Reader, NoSecret,
          Owner,      \* Secret -> its user
          NameOf,     \* Secret -> its name
          Plain,      \* Secret -> the value it is created with
          MaxFaults

VARIABLES
  secret,     \* secrets: life and row of each id
  look,       \* GetSecret or GetSecretByName of each reader
  told,       \* what each reader was told last
  faults

vars == <<secret, look, told, faults>>

DeriveKey(u)  == <<"key", u>>
Encrypt(v, k) == [key |-> k, text |-> v]
Garbled       == "garbled"
Decrypt(c, k) == IF c.key = k THEN c.text ELSE Garbled

NoRow  == [st |-> "none", value |-> Encrypt(Garbled, Garbled), used |-> FALSE]
NoLook == [id |-> NoSecret, row |-> NoRow]

(* Rows and readers are well typed. *)
TypeOK ==
  /\ \A s \in Secret : secret[s].st \in {"none", "live", "gone"} /\ secret[s].used \in BOOLEAN
  /\ \A r \in Reader : look[r].id \in Secret \cup {NoSecret}
  /\ faults \in 0..MaxFaults

Init == /\ secret = [s \in Secret |-> NoRow] /\ look = [r \in Reader |-> NoLook]
        /\ told = [r \in Reader |-> NoSecret] /\ faults = 0

Fault == faults < MaxFaults /\ faults' = faults + 1
Ok    == UNCHANGED faults
Live  == {s \in Secret : secret[s].st = "live"}

-----------------------------------------------------------------------------
(* INSERT, with (name, user) unique. *)
CreateSecret(s) ==
  /\ secret[s].st = "none"
  /\ \A q \in Live : NameOf[q] # NameOf[s] \/ Owner[q] # Owner[s]
  /\ secret' = [secret EXCEPT ![s] = [st |-> "live", value |-> Encrypt(Plain[s], DeriveKey(Owner[s])), used |-> FALSE]]
  /\ UNCHANGED <<look, told, faults>>

(* SELECT by id, or by name, of one's own. *)
GetByID(s)      == IF s \in Live THEN {s} ELSE {}
GetByName(n, u) == {s \in Live : NameOf[s] = n /\ Owner[s] = u}

GetSecret(r, s) ==
  /\ look[r] = NoLook
  /\ \E q \in GetByID(s) \cup GetByName(NameOf[s], Owner[s]) : look' = [look EXCEPT ![r] = [id |-> q, row |-> secret[q]]]
  /\ UNCHANGED <<secret, told, faults>>

(* Faulty variant: the row is found by its name. *)
UpdateByName(r) ==
  /\ look[r] # NoLook
  /\ secret' = [s \in Secret |-> IF s \in GetByName(NameOf[look[r].id], Owner[look[r].id])
                                   THEN [look[r].row EXCEPT !.used = TRUE] ELSE secret[s]]
  /\ told' = [told EXCEPT ![r] = Decrypt(look[r].row.value, DeriveKey(Owner[look[r].id]))]
  /\ look' = [look EXCEPT ![r] = NoLook] /\ UNCHANGED faults

(* Update: the row as it was read, with the new time, if it is still there;   *)
(* a failure is ignored.                                                     *)
Update(r) ==
  LET s == look[r].id IN
  /\ look[r] # NoLook
  /\ \/ Ok /\ secret' = IF s \in Live THEN [secret EXCEPT ![s] = [look[r].row EXCEPT !.used = TRUE]] ELSE secret
     \/ Fault /\ UNCHANGED secret
  /\ told' = [told EXCEPT ![r] = Decrypt(look[r].row.value, DeriveKey(Owner[s]))]
  /\ look' = [look EXCEPT ![r] = NoLook]

DeleteSecret(s) ==
  /\ s \in Live /\ secret' = [secret EXCEPT ![s].st = "gone"]
  /\ UNCHANGED <<look, told, faults>>

-----------------------------------------------------------------------------
SecretStep == \E s \in Secret : CreateSecret(s) \/ DeleteSecret(s) \/ \E r \in Reader : GetSecret(r, s)
Next == SecretStep \/ \E r \in Reader : Update(r)
Spec == Init /\ [][Next]_vars

-----------------------------------------------------------------------------
(* Reading never changes what is stored: however reads, deletes and a new     *)
(* secret of the same name interleave, a live row decrypts to the value it    *)
(* was created with, no deleted row comes back, and a reader is told a value  *)
(* that was stored.                                                           *)
SecretIntact ==
  /\ \A s \in Live : Decrypt(secret[s].value, DeriveKey(Owner[s])) = Plain[s]
  /\ \A s, q \in Live : NameOf[s] = NameOf[q] /\ Owner[s] = Owner[q] => s = q
  /\ \A r \in Reader : told[r] # Garbled
=============================================================================
