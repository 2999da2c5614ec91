------------------------------- MODULE ApiKeys ------------------------------
(***************************************************************************)
(* API keys of a user: created, revoked, and rotated, which makes a new    *)
(* key before it deletes the old one.                                      *)
(***************************************************************************)
EXTENDS Integers, FiniteSets

CONSTANTS ApiKey, Caller, NoKey, MaxFaults

VARIABLES
  keys,       \* api_keys
  used,       \* ids that were given out
  kreq,       \* the request of each caller
  keysActive, \* APIKeysActive
  faults,
  turned,     \* history: old keys that a rotation deleted
  twice,      \* history: revocations of a key that was gone
  old         \* history: the key that each key replaced

vars == <<keys, used, kreq, keysActive, faults, turned, twice, old>>

NoReq == [op |-> "none", id |-> NoKey, new |-> NoKey]

(* Keys, requests and the gauge are well typed. *)
TypeOK ==
  /\ keys \subseteq used /\ used \subseteq ApiKey /\ keysActive \in Int /\ faults \in 0..MaxFaults
  /\ kreq \in [Caller -> [op : {"none", "revoke", "create", "drop"}, id : ApiKey \cup {NoKey}, new : ApiKey \cup {NoKey}]]

Init ==
  /\ keys = {} /\ used = {} /\ kreq = [c \in Caller |-> NoReq] /\ keysActive = 0 /\ faults = 0
  /\ turned = {} /\ twice = 0 /\ old = [k \in ApiKey |-> NoKey]

Fault == faults < MaxFaults /\ faults' = faults + 1
Ok    == UNCHANGED faults
Req(c, r) == kreq' = [kreq EXCEPT ![c] = r]

-----------------------------------------------------------------------------
CreateAPIKey(k) == k \notin used /\ keys' = keys \cup {k} /\ used' = used \cup {k}
DeleteAPIKey(k) == keys' = keys \ {k}     \* no row is no error
GetAPIKeyByID(k) == k \in keys

CreateKey(c, k) ==
  /\ kreq[c] = NoReq /\ CreateAPIKey(k) /\ keysActive' = keysActive + 1
  /\ UNCHANGED <<kreq, faults, turned, twice, old>>

(* RevokeKey and RotateKey read the key first. *)
RevokeRead(c, k) ==
  /\ kreq[c] = NoReq /\ GetAPIKeyByID(k) /\ Req(c, [NoReq EXCEPT !.op = "revoke", !.id = k])
  /\ UNCHANGED <<keys, used, keysActive, faults, turned, twice, old>>

RevokeKey(c) ==
  /\ kreq[c].op = "revoke" /\ Req(c, NoReq)
  /\ \/ /\ Ok /\ DeleteAPIKey(kreq[c].id) /\ keysActive' = keysActive - 1
        /\ twice' = IF kreq[c].id \in keys THEN twice ELSE twice + 1
     \/ Fault /\ UNCHANGED <<keys, keysActive, twice>>
  /\ UNCHANGED <<used, turned, old>>

RotateRead(c, k) ==
  /\ kreq[c] = NoReq /\ GetAPIKeyByID(k) /\ Req(c, [NoReq EXCEPT !.op = "create", !.id = k])
  /\ UNCHANGED <<keys, used, keysActive, faults, turned, twice, old>>

(* Faulty variant: the old key goes first. *)
RotateCreateLate(c, k) ==
  /\ kreq[c].op = "create" /\ k \notin used /\ used' = used \cup {k}
  /\ keys' = (keys \ {kreq[c].id}) \cup {k} \/ (Fault /\ keys' = keys \ {kreq[c].id})
  /\ faults' \in {faults, faults + 1} /\ Req(c, NoReq)
  /\ UNCHANGED <<keysActive, turned, twice, old>>

RotateCreate(c, k) ==
  /\ kreq[c].op = "create"
  /\ \/ /\ Ok /\ CreateAPIKey(k) /\ keysActive' = keysActive + 1
        /\ Req(c, [kreq[c] EXCEPT !.op = "drop", !.new = k]) /\ old' = [old EXCEPT ![k] = kreq[c].id]
     \/ Fault /\ Req(c, NoReq) /\ UNCHANGED <<keys, used, keysActive, old>>
  /\ UNCHANGED <<turned, twice>>

(* The old key is deleted; the gauge is not told. *)
RotateKey(c) ==
  /\ kreq[c].op = "drop" /\ Req(c, NoReq)
  /\ \/ Ok /\ DeleteAPIKey(kreq[c].id) /\ turned' = turned \cup ({kreq[c].id} \cap keys)
     \/ Fault /\ UNCHANGED <<keys, turned>>
  /\ UNCHANGED <<used, keysActive, twice, old>>

-----------------------------------------------------------------------------
KeyStep == \E c \in Caller, k \in ApiKey : CreateKey(c, k) \/ RevokeRead(c, k) \/ RotateRead(c, k)
Request(c) == RevokeKey(c) \/ RotateKey(c) \/ \E k \in ApiKey : RotateCreate(c, k)
Next == KeyStep \/ \E c \in Caller : Request(c)
Spec == Init /\ [][Next]_vars

-----------------------------------------------------------------------------
(* A rotation deletes a key only when the key that replaces it has been       *)
(* stored, and the gauge differs from the number of keys exactly by the keys  *)
(* that rotations deleted and the revocations that came second: both are      *)
(* never made up for.                                                         *)
KeysAccounted ==
  /\ \A k \in turned : \E n \in used : old[n] = k
  /\ keysActive = Cardinality(keys) + Cardinality(turned) - twice
=============================================================================
