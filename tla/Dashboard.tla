------------------------------ MODULE Dashboard ------------------------------
(***************************************************************************)
(* DashboardService and EventService: summaries of a user's resources,     *)
(* read table by table while other requests change the tables, once or on  *)
(* a stream, and the events those requests record.                         *)
(***************************************************************************)
EXTENDS Naturals, Sequences, FiniteSets

CONSTANTS Inst, Vol, Viewer,
          Limits,       \* values of limit that callers ask for
          DefaultLimit, \* 10 in the code
          MaxLimit,     \* 100 in the code
          MaxEvents,    \* bound: events recorded
          MaxFaults

VARIABLES
  dinst,      \* the status of each instance
  dvol,       \* each volume: not there, free or attached
  events,     \* the rows of events, in the order of created_at
  view,       \* the request of each viewer
  faults,
  honest      \* history: all that was shown was so

vars == <<dinst, dvol, events, view, faults, honest>>
tables == <<dinst, dvol>>

Zero   == [total |-> 0, running |-> 0, stopped |-> 0, vols |-> 0, attached |-> 0]
NoView == [pc |-> "none", op |-> "none", sum |-> Zero, limit |-> 0]

(* Tables and requests are well typed. *)
TypeOK ==
  /\ dinst \in [Inst -> {"none", "STARTING", "RUNNING", "STOPPED"}]
  /\ dvol \in [Vol -> {"none", "free", "attached"}] /\ Len(events) <= MaxEvents /\ faults \in 0..MaxFaults
  /\ \A v \in Viewer : /\ view[v].pc \in {"none", "volumes", "vpcs", "events", "wait"}
                       /\ view[v].op \in {"none", "summary", "stats", "events", "stream"}

Count(f, S) == Cardinality({x \in DOMAIN f : f[x] \in S})
Instances   == [total |-> Count(dinst, {"STARTING", "RUNNING", "STOPPED"}),
                running |-> Count(dinst, {"RUNNING"}), stopped |-> Count(dinst, {"STOPPED"})]
Volumes     == [vols |-> Count(dvol, {"free", "attached"}), attached |-> Count(dvol, {"attached"})]

Init ==
  /\ dinst = [i \in Inst |-> "none"] /\ dvol = [x \in Vol |-> "none"] /\ events = <<>> /\ faults = 0
  /\ view = [v \in Viewer |-> NoView] /\ honest = TRUE

Fault == faults < MaxFaults /\ faults' = faults + 1
Ok    == UNCHANGED faults

-----------------------------------------------------------------------------
(* RecordEvent: a row; an error is logged and the caller goes on. *)
RecordEvent(e) ==
  \/ Ok /\ Len(events) < MaxEvents /\ events' = Append(events, e)
  \/ Fault /\ UNCHANGED events

(* InstanceService: a launch, a stop or a termination, and its event. *)
InstanceChanges(i) ==
  /\ \E s \in {"STARTING", "RUNNING", "STOPPED", "none"} \ {dinst[i]} : dinst' = [dinst EXCEPT ![i] = s]
  /\ RecordEvent(dinst'[i]) /\ UNCHANGED <<dvol, view, honest>>

(* VolumeService, and a launch that attaches or a termination that frees. *)
VolumeChanges(x) ==
  /\ \E s \in {"free", "attached", "none"} \ {dvol[x]} : dvol' = [dvol EXCEPT ![x] = s]
  /\ UNCHANGED <<dinst, events, view, faults, honest>>

-----------------------------------------------------------------------------
(* GetRecentEvents of the handler: what is no number, or not positive, is the default. *)
Clamp(k) == IF k <= 0 THEN DefaultLimit ELSE IF k > MaxLimit THEN MaxLimit ELSE k

(* Faulty variant: the oldest first. *)
Oldest(k) == [n \in 1..(IF k < Len(events) THEN k ELSE Len(events)) |-> events[n]]

(* EventRepository.List: the latest first. *)
Latest(k) == [n \in 1..(IF k < Len(events) THEN k ELSE Len(events)) |-> events[Len(events) + 1 - n]]

(* GetSummary, GetStats or the stream begins: the instances are listed; *)
ListInstances(v, op) ==
  /\ view' = [view EXCEPT ![v] = [pc |-> "volumes", op |-> op, limit |-> DefaultLimit,
                 sum |-> [Zero EXCEPT !.total = Instances.total, !.running = Instances.running,
                                      !.stopped = Instances.stopped]]]
  /\ UNCHANGED <<tables, events, faults, honest>>
GetSummary(v) == view[v].pc = "none" /\ \E op \in {"summary", "stats", "stream"} : ListInstances(v, op)

(* The request ends; a stream waits for its next tick. *)
EndView(v) ==
  view' = [view EXCEPT ![v] = IF @.op = "stream" THEN [NoView EXCEPT !.pc = "wait", !.op = "stream"] ELSE NoView]

(* then the volumes; an error ends the request; *)
ListVolumes(v) ==
  /\ view[v].pc = "volumes"
  /\ \/ /\ Ok
        /\ view' = [view EXCEPT ![v].pc = "vpcs", ![v].sum.vols = Volumes.vols, ![v].sum.attached = Volumes.attached]
     \/ Fault /\ EndView(v)
  /\ UNCHANGED <<tables, events, honest>>

(* What a summary may say: the numbers of each table belong together. *)
AddsUp(v) ==
  LET s == view[v].sum IN s.running + s.stopped <= s.total /\ s.attached <= s.vols

(* then the VPCs, and the summary is sent, or GetStats goes on to the events. *)
SendSummary(v) ==
  /\ view[v].pc = "vpcs"
  /\ \/ /\ Ok
        /\ IF view[v].op = "stats" THEN view' = [view EXCEPT ![v].pc = "events"] /\ UNCHANGED honest
           ELSE EndView(v) /\ honest' = (honest /\ AddsUp(v))
     \/ Fault /\ EndView(v) /\ UNCHANGED honest
  /\ UNCHANGED <<tables, events>>

(* StreamEvents: every 5 s, until the client leaves. *)
StreamEvents(v) == view[v].pc = "wait" /\ ListInstances(v, "stream")
Leave(v) ==
  /\ view[v].op = "stream" /\ view' = [view EXCEPT ![v] = NoView]
  /\ UNCHANGED <<tables, events, faults, honest>>

(* GetRecentEvents, alone or as the end of GetStats. *)
GetRecentEvents(v) ==
  /\ view[v].pc = "none" /\ \E k \in Limits : view' = [view EXCEPT ![v] = [NoView EXCEPT !.pc = "events", !.op = "events", !.limit = Clamp(k)]]
  /\ UNCHANGED <<tables, events, faults, honest>>
GetStats(v) ==
  /\ view[v].pc = "events"
  /\ \/ /\ Ok
        /\ LET list == Latest(view[v].limit) IN
             honest' = /\ honest /\ (view[v].op = "stats" => AddsUp(v))
                       /\ Len(list) <= MaxLimit /\ (list = <<>> => events = <<>>)
                       /\ \A n \in DOMAIN list : list[n] = events[Len(events) + 1 - n]
     \/ Fault /\ UNCHANGED honest
  /\ EndView(v) /\ UNCHANGED <<tables, events>>

-----------------------------------------------------------------------------
Next == \/ \E i \in Inst : InstanceChanges(i)
        \/ \E x \in Vol : VolumeChanges(x)
        \/ \E v \in Viewer : \/ GetSummary(v) \/ ListVolumes(v) \/ SendSummary(v) \/ StreamEvents(v) \/ Leave(v)
                             \/ GetRecentEvents(v) \/ GetStats(v)
Spec == Init /\ [][Next]_vars

-----------------------------------------------------------------------------
(* A summary mixes moments, since each table is listed for itself, but the    *)
(* numbers of one table belong together; a list of events is never empty      *)
(* while there are events, never longer than the cap, and goes back without a *)
(* gap from the latest.                                                       *)
DashboardHonest == honest
=============================================================================
