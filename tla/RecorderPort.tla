---------------------------- MODULE RecorderPort ----------------------------
(***************************************************************************)
(* What the recorder promises the rest of the application, and no more:    *)
(* the trait RecorderControl of shotik-core.  One start or session at a    *)
(* time; a session that exists is written by one worker; a worker leaves   *)
(* only when its session is over; a file is handed over at most once, by   *)
(* its own worker, while has_unfinished_file() is still true.              *)
(*                                                                         *)
(* Module Recorder is the threads and locks that implement it; module      *)
(* Handover is the application built on top of it.                         *)
(***************************************************************************)
EXTENDS Naturals

CONSTANT MaxStarts   (* how many starts a behaviour holds: a model bound *)

ASSUME MaxStartsAssumption == MaxStarts \in Nat

VARIABLES
  phase,      (* "idle", "starting" or "active"                       *)
  session,    (* the active session; 0 when there is none             *)
  unfinished, (* the sessions whose worker still runs                 *)
  worked,     (* the sessions that ever had a worker                  *)
  delivered   (* how many files each session handed to the listener   *)

portVars == <<phase, session, unfinished, worked, delivered>>

Starts == 1..MaxStarts

IsRecording == phase # "idle"
HasUnfinishedFile == unfinished # {}

PortInit ==
  /\ phase = "idle"
  /\ session = 0
  /\ unfinished = {}
  /\ worked = {}
  /\ delivered = [n \in Starts |-> 0]

-----------------------------------------------------------------------------

(* A start is accepted only when nothing runs or is starting. *)
Begin ==
  /\ phase = "idle"
  /\ phase' = "starting"
  /\ UNCHANGED <<session, unfinished, worked, delivered>>

(* The start was called off, or failed before a session existed. *)
CallOff ==
  /\ phase = "starting"
  /\ phase' = "idle"
  /\ UNCHANGED <<session, unfinished, worked, delivered>>

(* A session exists from here on; no session has had this identity before. *)
Activate(n) ==
  /\ phase = "starting"
  /\ n \notin worked
  /\ phase' = "active"
  /\ session' = n
  /\ UNCHANGED <<unfinished, worked, delivered>>

(* The session's worker is accounted for while the session is active. *)
Employ(n) ==
  /\ phase = "active"
  /\ session = n
  /\ n \notin worked
  /\ unfinished' = unfinished \cup {n}
  /\ worked' = worked \cup {n}
  /\ UNCHANGED <<phase, session, delivered>>

(* The session is over: its worker said so, it was written off by the      *)
(* safety timeout, or no worker could be started for it.                   *)
End ==
  /\ phase = "active"
  /\ phase' = "idle"
  /\ session' = 0
  /\ UNCHANGED <<unfinished, worked, delivered>>

Deliver(n) ==
  /\ n \in unfinished
  /\ delivered[n] = 0
  /\ session # n
  /\ delivered' = [delivered EXCEPT ![n] = 1]
  /\ UNCHANGED <<phase, session, unfinished, worked>>

Leave(n) ==
  /\ n \in unfinished
  /\ session # n
  /\ unfinished' = unfinished \ {n}
  /\ UNCHANGED <<phase, session, worked, delivered>>

PortNext ==
  \/ Begin
  \/ CallOff
  \/ End
  \/ \E n \in Starts : Activate(n) \/ Employ(n) \/ Deliver(n) \/ Leave(n)

PortSpec == PortInit /\ [][PortNext]_portVars

=============================================================================
