------------------------------ MODULE Snapshots ------------------------------
(***************************************************************************)
(* Volume snapshots: SnapshotService, its repository and the helper        *)
(* containers of the Docker adapter that pack and unpack a volume.  The    *)
(* archive is written by a goroutine, while other requests delete the      *)
(* snapshot or its volume, or restore it into a new one.                   *)
(***************************************************************************)
EXTENDS Integers, FiniteSets

CONSTANTS Vol, Snap, Restore, NoVol, NoSnap,  \* Restore: requests of RestoreSnapshot
          FirstVols,                          \* the volumes there are at the start
          MaxFaults

VARIABLES
  vol,      \* volumes
  disk,     \* Docker volumes and what they hold
  snap,     \* snapshots: status and volume
  file,     \* archives and what they hold
  pack,     \* the goroutine of each snapshot
  helper,   \* helper containers, by the snapshot they pack
  rest,     \* RestoreSnapshot requests
  sdel, vdel,  \* snapshots without file, volumes without disk, about to be deleted
  faults,
  hist      \* history: snapshots and volumes whose deletion began, goroutines
            \* cut short, disks left over

vars == <<vol, disk, snap, file, pack, helper, rest, sdel, vdel, faults, hist>>

Snapshot == [st : {"none", "CREATING", "AVAILABLE", "ERROR", "deleted"}, vol : Vol \cup {NoVol}]
NoRow    == [st |-> "none", vol |-> NoVol]
NoRest   == [pc |-> "none", s |-> NoSnap, v |-> NoVol]

(* Rows, archives and requests are well typed. *)
TypeOK ==
  /\ vol \subseteq Vol /\ disk \in [Vol -> {"none", "empty", "data"}]
  /\ snap \in [Snap -> Snapshot] /\ file \in [Snap -> {"none", "partial", "empty", "data"}]
  /\ pack \in [Snap -> {"none", "start", "tar", "ok", "failed"}] /\ helper \subseteq Snap
  /\ rest \in [Restore -> [pc : {"none", "read", "disk", "filled", "undo"},
                           s : Snap \cup {NoSnap}, v : Vol \cup {NoVol}]]

Init ==
  /\ vol = FirstVols /\ disk = [v \in Vol |-> IF v \in FirstVols THEN "data" ELSE "none"]
  /\ snap = [s \in Snap |-> NoRow] /\ file = [s \in Snap |-> "none"]
  /\ pack = [s \in Snap |-> "none"] /\ helper = {} /\ rest = [r \in Restore |-> NoRest]
  /\ sdel = {} /\ vdel = {} /\ faults = 0
  /\ hist = [snaps |-> {}, vols |-> {}, cut |-> {}, spare |-> {}]

Fault   == faults < MaxFaults /\ faults' = faults + 1
NoFault == UNCHANGED faults
Stored(s) == snap[s].st \in {"CREATING", "AVAILABLE", "ERROR"}
Note(f, S) == hist' = [hist EXCEPT ![f] = @ \cup S]

-----------------------------------------------------------------------------
(* SnapshotRepository: an UPDATE of a row that is gone changes nothing. *)
GetByID(s)    == Stored(s)
Update(s, st) == snap' = [snap EXCEPT ![s].st = IF Stored(s) THEN st ELSE @]

(* CreateSnapshot: the row, then the goroutine. *)
CreateSnapshot(s, v) ==
  /\ snap[s].st = "none" /\ v \in vol
  /\ snap' = [snap EXCEPT ![s] = [st |-> "CREATING", vol |-> v]]
  /\ pack' = [pack EXCEPT ![s] = "start"]
  /\ UNCHANGED <<vol, disk, file, helper, rest, sdel, vdel, faults, hist>>

(* CreateVolumeSnapshot: create and start the helper.  Docker makes a volume *)
(* that a bind names and that is gone.                                      *)
StartPack(s) ==
  /\ pack[s] = "start"
  /\ LET v == snap[s].vol IN
       \/ /\ NoFault
          /\ helper' = helper \cup {s} /\ file' = [file EXCEPT ![s] = "partial"]
          /\ disk' = [disk EXCEPT ![v] = IF @ = "none" THEN "empty" ELSE @]
          /\ pack' = [pack EXCEPT ![s] = "tar"]
          /\ Note("spare", {v} \ vol)
       \/ Fault /\ pack' = [pack EXCEPT ![s] = "failed"] /\ UNCHANGED <<helper, file, disk, hist>>
  /\ UNCHANGED <<vol, snap, rest, sdel, vdel>>

(* Faulty variant: the exit code is not looked at. *)
WaitPackAnyCode(s) ==
  /\ pack[s] = "tar"
  /\ \/ NoFault /\ file' = [file EXCEPT ![s] = IF @ = "none" THEN @ ELSE disk[snap[s].vol]]
     \/ Fault /\ UNCHANGED file
  /\ pack' = [pack EXCEPT ![s] = "ok"]
  /\ helper' = helper \ {s}
  /\ UNCHANGED <<vol, disk, snap, rest, sdel, vdel, hist>>

(* ContainerWait, the exit code, and the deferred removal of the helper.  An *)
(* archive unlinked meanwhile does not come back.                           *)
WaitPack(s) ==
  /\ pack[s] = "tar"
  /\ \/ /\ NoFault
        /\ file' = [file EXCEPT ![s] = IF @ = "none" THEN @ ELSE disk[snap[s].vol]]
        /\ pack' = [pack EXCEPT ![s] = "ok"]
     \/ Fault /\ pack' = [pack EXCEPT ![s] = "failed"] /\ UNCHANGED file
  /\ helper' = helper \ {s}
  /\ UNCHANGED <<vol, disk, snap, rest, sdel, vdel, hist>>

(* The status, by a write whose failure nobody sees. *)
EndPack(s) ==
  /\ pack[s] \in {"ok", "failed"}
  /\ \/ NoFault /\ Update(s, IF pack[s] = "ok" THEN "AVAILABLE" ELSE "ERROR") /\ UNCHANGED hist
     \/ Fault /\ Note("cut", {s}) /\ UNCHANGED snap
  /\ pack' = [pack EXCEPT ![s] = "none"]
  /\ UNCHANGED <<vol, disk, file, helper, rest, sdel, vdel>>

(* DeleteSnapshot: file, then row. *)
RemoveFile(s) ==
  /\ GetByID(s) /\ s \notin sdel
  /\ file' = [file EXCEPT ![s] = "none"]
  /\ sdel' = sdel \cup {s} /\ Note("snaps", {s})
  /\ UNCHANGED <<vol, disk, snap, pack, helper, rest, vdel, faults>>

DeleteSnapshot(s) ==
  /\ s \in sdel
  /\ \/ NoFault /\ Update(s, "deleted")
     \/ Fault /\ UNCHANGED snap
  /\ sdel' = sdel \ {s}
  /\ UNCHANGED <<vol, disk, file, pack, helper, rest, vdel, hist>>

(* DeleteVolume: the Docker volume, which stays when a helper has it        *)
(* mounted, then the row, with which its snapshots' rows go.                *)
RemoveDisk(v) ==
  /\ v \in vol \ vdel
  /\ \/ /\ NoFault /\ \A s \in helper : snap[s].vol # v
        /\ disk' = [disk EXCEPT ![v] = "none"] /\ Note("vols", {v})
     \/ /\ Fault \/ (NoFault /\ \E s \in helper : snap[s].vol = v)
        /\ hist' = [hist EXCEPT !.vols = @ \cup {v}, !.spare = @ \cup {v}] /\ UNCHANGED disk
  /\ vdel' = vdel \cup {v}
  /\ UNCHANGED <<vol, snap, file, pack, helper, rest, sdel>>

DeleteVolume(v) ==
  /\ v \in vdel
  /\ \/ /\ NoFault
        /\ vol' = vol \ {v}
        /\ snap' = [s \in Snap |-> IF snap[s].vol = v /\ Stored(s) THEN [snap[s] EXCEPT !.st = "deleted"]
                                   ELSE snap[s]]
        /\ Note("spare", IF disk[v] = "none" THEN {} ELSE {v})
     \/ Fault /\ UNCHANGED <<vol, snap, hist>>
  /\ vdel' = vdel \ {v}
  /\ UNCHANGED <<disk, file, pack, helper, rest, sdel>>

-----------------------------------------------------------------------------
(* RestoreSnapshot: the snapshot must be AVAILABLE, then a new Docker        *)
(* volume, its content, its row; the volume is removed when a step fails.   *)
Free == {v \in Vol : v \notin vol /\ disk[v] = "none" /\ v \notin hist.vols /\ \A r \in Restore : rest[r].v # v}

RestoreRead(r, s) ==
  /\ rest[r].pc = "none" /\ GetByID(s) /\ snap[s].st = "AVAILABLE" /\ Free # {}
  /\ rest' = [rest EXCEPT ![r] = [pc |-> "read", s |-> s, v |-> CHOOSE v \in Free : TRUE]]
  /\ UNCHANGED <<vol, disk, snap, file, pack, helper, sdel, vdel, faults, hist>>

CreateDisk(r) ==
  /\ rest[r].pc = "read"
  /\ \/ NoFault /\ disk' = [disk EXCEPT ![rest[r].v] = "empty"] /\ rest' = [rest EXCEPT ![r].pc = "disk"]
     \/ Fault /\ UNCHANGED disk /\ rest' = [rest EXCEPT ![r] = NoRest]
  /\ UNCHANGED <<vol, snap, file, pack, helper, sdel, vdel, hist>>

RestoreVolumeSnapshot(r) ==
  /\ rest[r].pc = "disk"
  /\ LET f == file[rest[r].s] IN
       \/ /\ f \in {"empty", "data"} /\ NoFault
          /\ disk' = [disk EXCEPT ![rest[r].v] = f] /\ rest' = [rest EXCEPT ![r].pc = "filled"]
       \/ /\ Fault \/ (f \notin {"empty", "data"} /\ NoFault)
          /\ UNCHANGED disk /\ rest' = [rest EXCEPT ![r].pc = "undo"]
  /\ UNCHANGED <<vol, snap, file, pack, helper, sdel, vdel, hist>>

SaveVolume(r) ==
  /\ rest[r].pc = "filled"
  /\ \/ NoFault /\ vol' = vol \cup {rest[r].v} /\ rest' = [rest EXCEPT ![r] = NoRest]
     \/ Fault /\ UNCHANGED vol /\ rest' = [rest EXCEPT ![r].pc = "undo"]
  /\ UNCHANGED <<disk, snap, file, pack, helper, sdel, vdel, hist>>

(* Faulty variant: a volume that was not filled is kept. *)
UndoNothing(r) ==
  /\ rest[r].pc = "undo" /\ NoFault
  /\ rest' = [rest EXCEPT ![r] = NoRest]
  /\ UNCHANGED <<vol, disk, snap, file, pack, helper, sdel, vdel, hist>>

(* RestoreSnapshot, the new disk is removed again. *)
UndoRestore(r) ==
  /\ rest[r].pc = "undo"
  /\ \/ NoFault /\ disk' = [disk EXCEPT ![rest[r].v] = "none"] /\ UNCHANGED hist
     \/ Fault /\ UNCHANGED disk /\ Note("spare", {rest[r].v})
  /\ rest' = [rest EXCEPT ![r] = NoRest]
  /\ UNCHANGED <<vol, snap, file, pack, helper, sdel, vdel>>

(* The process ends: goroutines and requests with it. *)
Crash ==
  /\ Fault
  /\ hist' = [hist EXCEPT !.cut = @ \cup {s \in Snap : pack[s] # "none"},
                          !.spare = @ \cup {v \in Vol : v \notin vol /\ disk[v] # "none"}]
  /\ pack' = [s \in Snap |-> "none"] /\ rest' = [r \in Restore |-> NoRest] /\ sdel' = {} /\ vdel' = {}
  /\ UNCHANGED <<vol, disk, snap, file, helper>>

-----------------------------------------------------------------------------
GoStep(s) == StartPack(s) \/ WaitPack(s) \/ EndPack(s)
SnapshotStep == \E s \in Snap : \/ \E v \in Vol : CreateSnapshot(s, v)
                                \/ GoStep(s) \/ RemoveFile(s) \/ DeleteSnapshot(s)
VolumeStep   == \E v \in Vol : RemoveDisk(v) \/ DeleteVolume(v)
RestoreStep  == \E r \in Restore : \/ \E s \in Snap : RestoreRead(r, s)
                                   \/ CreateDisk(r) \/ RestoreVolumeSnapshot(r) \/ SaveVolume(r) \/ UndoRestore(r)

Next == SnapshotStep \/ VolumeStep \/ RestoreStep \/ Crash
Spec == Init /\ [][Next]_vars /\ \A s \in Snap : WF_vars(GoStep(s))

-----------------------------------------------------------------------------
(* "cannot restore from snapshot that is not available": AVAILABLE is said  *)
(* only of a snapshot whose archive holds the data of the volume, unless    *)
(* the snapshot or its volume is being deleted; and so a restored volume    *)
(* holds the data.                                                          *)
AvailableIsWhole ==
  /\ \A s \in Snap : snap[s].st = "AVAILABLE" =>
       file[s] = "data" \/ s \in hist.snaps \/ snap[s].vol \in hist.vols
  /\ hist.vols = {} => \A v \in vol : disk[v] = "data"

(* A Docker volume belongs to a volume, or a restore that is under way, or   *)
(* was left over by a failure or a deletion during a snapshot; a helper      *)
(* container belongs to a goroutine or one that was cut short.               *)
NoSpareDisk ==
  /\ \A v \in Vol : disk[v] # "none" => v \in vol \/ v \in hist.spare \/ \E r \in Restore : rest[r].v = v
  /\ \A s \in helper : pack[s] = "tar" \/ s \in hist.cut

(* A snapshot does not stay CREATING, unless its goroutine is cut short.     *)
PackSettles == \A s \in Snap : []<>(snap[s].st # "CREATING" \/ s \in hist.cut)
=============================================================================
