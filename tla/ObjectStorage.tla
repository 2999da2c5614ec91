---------------------------- MODULE ObjectStorage ---------------------------
(***************************************************************************)
(* Object storage: an upload writes the file of its key, then upserts the  *)
(* row; a delete marks the row and leaves the file.                        *)
(***************************************************************************)
EXTENDS Integers, Sequences, FiniteSets

CONSTANTS Key, Upload, NoKey, NoFile,
          Size,        \* Upload -> number of chunks of its body
          MaxFaults

VARIABLES
  object,     \* objects: the row of each key
  data,       \* the file of each key: the upload each chunk came from, or NoFile
  up,         \* the uploads under way
  kdone,      \* history: the last upload of the key that was alone and ended well
  faults

vars == <<object, data, up, kdone, faults>>

NoUpload == 0
NoRow == [live |-> FALSE, size |-> 0, by |-> NoUpload]
New   == [step |-> "new", key |-> NoKey, off |-> 0, linked |-> TRUE, alone |-> TRUE]

(* Rows, files and uploads are well typed. *)
TypeOK ==
  /\ object \in [Key -> [live : BOOLEAN, size : 0..2, by : Upload \cup {NoUpload}]]
  /\ \A k \in Key : data[k] = NoFile \/ data[k] \in UNION {[1..n -> Upload \cup {NoUpload}] : n \in 0..2}
  /\ up \in [Upload -> [step : {"new", "copy", "save", "undo", "done"}, key : Key \cup {NoKey}, off : 0..2,
                        linked : BOOLEAN, alone : BOOLEAN]]
  /\ kdone \in [Key -> Upload \cup {NoUpload}] /\ faults \in 0..MaxFaults

Init ==
  /\ object = [k \in Key |-> NoRow] /\ data = [k \in Key |-> NoFile]
  /\ up = [u \in Upload |-> New] /\ kdone = [k \in Key |-> NoUpload] /\ faults = 0

Fault == faults < MaxFaults /\ faults' = faults + 1
Ok    == UNCHANGED faults
Busy(k) == {u \in Upload : up[u].key = k /\ up[u].step \in {"copy", "save", "undo"}}

-----------------------------------------------------------------------------
(* Faulty variant: the file is opened without being truncated. *)
CreateNoTrunc(u, k) ==
  /\ up[u].step = "new" /\ Ok
  /\ data' = [data EXCEPT ![k] = IF @ = NoFile THEN <<>> ELSE @]
  /\ up' = [v \in Upload |-> CASE v = u -> [New EXCEPT !.step = "copy", !.key = k, !.alone = Busy(k) = {}]
                               [] v \in Busy(k) -> [up[v] EXCEPT !.alone = FALSE]
                               [] OTHER -> up[v]]
  /\ kdone' = [kdone EXCEPT ![k] = NoUpload] /\ UNCHANGED object

(* Write: os.Create truncates the file, *)
Create(u, k) ==
  /\ up[u].step = "new"
  /\ \/ /\ Ok
        /\ data' = [data EXCEPT ![k] = <<>>]
        /\ up' = [v \in Upload |-> CASE v = u -> [New EXCEPT !.step = "copy", !.key = k, !.alone = Busy(k) = {}]
                                     [] v \in Busy(k) -> [up[v] EXCEPT !.alone = FALSE]
                                     [] OTHER -> up[v]]
        /\ kdone' = [kdone EXCEPT ![k] = NoUpload]
     \/ Fault /\ up' = [up EXCEPT ![u].step = "done"] /\ UNCHANGED <<data, kdone>>
  /\ UNCHANGED object

(* The file after u writes at its own offset; a gap reads as zeros. *)
Written(f, u) ==
  LET n == up[u].off + 1 IN
  [i \in 1..(IF Len(f) < n THEN n ELSE Len(f)) |-> CASE i = n -> u [] i <= Len(f) -> f[i] [] OTHER -> NoUpload]

(* and io.Copy writes the body; a failed read of the body leaves what was written. *)
Copy(u) ==
  /\ up[u].step = "copy"
  /\ \/ /\ Ok /\ up[u].off < Size[u] /\ up' = [up EXCEPT ![u].off = @ + 1]
        /\ data' = IF up[u].linked THEN [data EXCEPT ![up[u].key] = Written(@, u)] ELSE data
     \/ Ok /\ up[u].off = Size[u] /\ up' = [up EXCEPT ![u].step = "save"] /\ UNCHANGED data
     \/ Fault /\ up' = [up EXCEPT ![u].step = "done"] /\ UNCHANGED data
  /\ UNCHANGED <<object, kdone>>

(* Faulty variant: the upsert leaves deleted_at as it was. *)
SaveMetaOnly(u) ==
  /\ up[u].step = "save" /\ Ok
  /\ object' = [object EXCEPT ![up[u].key] = [live |-> @.by = NoUpload \/ @.live, size |-> Size[u], by |-> u]]
  /\ kdone' = IF up[u].alone THEN [kdone EXCEPT ![up[u].key] = u] ELSE kdone
  /\ up' = [up EXCEPT ![u].step = "done"] /\ UNCHANGED data

(* SaveMeta: an upsert on (bucket, key) that also revives a deleted row. *)
SaveMeta(u) ==
  /\ up[u].step = "save"
  /\ \/ /\ Ok /\ object' = [object EXCEPT ![up[u].key] = [live |-> TRUE, size |-> Size[u], by |-> u]]
        /\ kdone' = IF up[u].alone THEN [kdone EXCEPT ![up[u].key] = u] ELSE kdone
        /\ up' = [up EXCEPT ![u].step = "done"]
     \/ Fault /\ up' = [up EXCEPT ![u].step = "undo"] /\ UNCHANGED <<object, kdone>>
  /\ UNCHANGED data

(* The clean-up removes the file of the key; others that have it open write to nothing. *)
Unlink(k) == /\ data' = [data EXCEPT ![k] = NoFile]
             /\ kdone' = [kdone EXCEPT ![k] = NoUpload]
UndoUpload(u) ==
  /\ up[u].step = "undo" /\ Unlink(up[u].key)
  /\ up' = [v \in Upload |-> CASE v = u -> [up[v] EXCEPT !.step = "done"]
                               [] v \in Busy(up[u].key) -> [up[v] EXCEPT !.linked = FALSE]
                               [] OTHER -> up[v]]
  /\ UNCHANGED <<object, faults>>

(* SoftDelete: an error if no live row matches. *)
DeleteObject(k) ==
  /\ object[k].live /\ object' = [object EXCEPT ![k].live = FALSE]
  /\ kdone' = [kdone EXCEPT ![k] = NoUpload]
  /\ UNCHANGED <<data, up, faults>>

(* Download: the row, then the file. *)
GetMeta(k)  == object[k].live
Read(k)     == data[k] # NoFile
Download(k) == GetMeta(k) /\ Read(k)

Crash ==
  /\ Fault /\ up' = [u \in Upload |-> IF up[u].step = "new" THEN up[u] ELSE [up[u] EXCEPT !.step = "done"]]
  /\ UNCHANGED <<object, data, kdone>>

-----------------------------------------------------------------------------
UploadStep(u) == Copy(u) \/ SaveMeta(u) \/ UndoUpload(u)
StorageStep   == \E k \in Key : DeleteObject(k) \/ \E u \in Upload : Create(u, k)
Next == StorageStep \/ Crash \/ \E u \in Upload : UploadStep(u)
Spec == Init /\ [][Next]_vars /\ \A u \in Upload : WF_vars(UploadStep(u))

-----------------------------------------------------------------------------
(* After an upload that met no other upload of its key and no error, and until *)
(* the next upload or delete, a download gives its bytes, all of them and no   *)
(* others, and the size the row announces.                                    *)
UploadWhole ==
  \A k \in Key : kdone[k] # NoUpload =>
    /\ Download(k) /\ object[k].size = Len(data[k])
    /\ data[k] = [i \in 1..Size[kdone[k]] |-> kdone[k]]

(* An upload that has begun ends: stored, refused, or cleaned up. *)
UploadEnds == \A u \in Upload : []<>(up[u].step \in {"new", "done"})
=============================================================================
