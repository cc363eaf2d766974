------------------------------ MODULE Handover ------------------------------
(***************************************************************************)
(* The application (shotik-app) on top of the recorder: threads that start *)
(* a recording (recording.rs), run a capture overlay (overlay.rs,          *)
(* actions.rs) or install an update (update.rs), and share App::state      *)
(* under its mutex.  An installer ends the process, so from the last look  *)
(* before it runs nothing may be under way that would be cut off, and      *)
(* nothing may begin.                                                      *)
(*                                                                         *)
(* The recorder is RecorderPort: whatever its threads do, the application  *)
(* sees these steps.  Between two acquisitions of the state lock, or two   *)
(* calls into a port, the other threads run.                               *)
(***************************************************************************)
EXTENDS RecorderPort, TLC

CONSTANTS
  Recorders,   (* threads that start a recording                           *)
  Overlays,    (* threads that run an overlay and handle what comes of it  *)
  Installers,  (* threads of install_update                                *)
  Nobody       (* rec_starting is None                                     *)

ASSUME HandoverAssumption == Nobody \notin Recorders

VARIABLES
  (* App::state *)
  recStarting,   (* whose start is on its way, or Nobody                   *)
  installing, handingOver,
  overlaySessions,
  (* the UI *)
  overlayOpen,
  (* the threads *)
  rec, calledOff, mine,  (* a start: where it is, its flag, its session    *)
  ov,                    (* an overlay                                     *)
  ins,                   (* an installation                                *)
  canceled,              (* sessions the application told the recorder to cancel *)
  installer              (* the installer runs: it will end this process   *)

appVars == <<recStarting, installing, handingOver, overlaySessions, overlayOpen>>
recVars == <<rec, calledOff, mine, canceled>>
vars == <<portVars, appVars, recVars, ov, ins, installer>>

AppIsRecording == recStarting # Nobody \/ IsRecording

Init ==
  /\ PortInit
  /\ recStarting = Nobody
  /\ installing = FALSE /\ handingOver = FALSE
  /\ overlaySessions = 0 /\ overlayOpen = FALSE
  /\ rec = [t \in Recorders |-> "out"]
  /\ calledOff = [t \in Recorders |-> FALSE]
  /\ mine = [t \in Recorders |-> 0]
  /\ ov = [o \in Overlays |-> "out"]
  /\ ins = [i \in Installers |-> "out"]
  /\ canceled = {}
  /\ installer = FALSE

-----------------------------------------------------------------------------
(* start_recording, begin_recording and the recorder's start                *)

RecGoes(t, from, to) == rec[t] = from /\ rec' = [rec EXCEPT ![t] = to]

(* One look under the state lock; a refused start changes nothing. *)
RecEnter(t) ==
  /\ ~AppIsRecording /\ ~handingOver
  /\ recStarting' = t
  /\ RecGoes(t, "out", "countdown")
  /\ calledOff' = [calledOff EXCEPT ![t] = FALSE]
  /\ mine' = [mine EXCEPT ![t] = 0]
  /\ UNCHANGED <<canceled, portVars, installing, handingOver, overlaySessions, overlayOpen, ov, ins, installer>>

(* The countdown is over: called off meanwhile, or on to the recorder. *)
RecAfterCountdown(t) ==
  /\ RecGoes(t, "countdown", IF calledOff[t] THEN "clear" ELSE "start")
  /\ UNCHANGED <<calledOff, mine, canceled, portVars, appVars, ov, ins, installer>>

(* A recorder that is busy turns the start away. *)
RecBegin(t) ==
  /\ IF phase = "idle" THEN Begin /\ RecGoes(t, "start", "inside")
     ELSE RecGoes(t, "start", "clear") /\ UNCHANGED portVars
  /\ UNCHANGED <<calledOff, mine, canceled, appVars, ov, ins, installer>>

RecCalledOff(t) ==
  /\ CallOff
  /\ RecGoes(t, "inside", "clear")
  /\ UNCHANGED <<calledOff, mine, canceled, appVars, ov, ins, installer>>

RecActivate(t, n) ==
  /\ Activate(n)
  /\ RecGoes(t, "inside", "spawn")
  /\ mine' = [mine EXCEPT ![t] = n]
  /\ UNCHANGED <<calledOff, canceled, appVars, ov, ins, installer>>

RecSpawn(t) ==
  /\ Employ(mine[t])
  /\ RecGoes(t, "spawn", "clear")
  /\ UNCHANGED <<calledOff, mine, canceled, appVars, ov, ins, installer>>

(* No thread for the session: the start is an error, and no session of this start is left. *)
RecSpawnFails(t) ==
  /\ IF session = mine[t] THEN End ELSE UNCHANGED portVars
  /\ RecGoes(t, "spawn", "clear")
  /\ mine' = [mine EXCEPT ![t] = 0]
  /\ UNCHANGED <<calledOff, canceled, appVars, ov, ins, installer>>

(* A slip: nobody looks at the flag again after the recorder has started. *)
RecClearUnchecked(t) ==
  /\ recStarting' = Nobody
  /\ RecGoes(t, "clear", "out")
  /\ UNCHANGED <<calledOff, mine, canceled, portVars, installing, handingOver, overlaySessions, overlayOpen,
                 ov, ins, installer>>

(* From here on stop and cancel go to the recorder.  One that came before, after the last look at the *)
(* flag, still has to reach the session.                                                              *)
RecClear(t) ==
  /\ recStarting' = Nobody
  /\ RecGoes(t, "clear", IF calledOff[t] /\ mine[t] # 0 THEN "cancel" ELSE "out")
  /\ UNCHANGED <<calledOff, mine, canceled, portVars, installing, handingOver, overlaySessions, overlayOpen,
                 ov, ins, installer>>

(* The recorder cancels the session it has by now. *)
RecLateCancel(t) ==
  /\ RecGoes(t, "cancel", "out")
  /\ canceled' = IF phase = "active" THEN canceled \cup {session} ELSE canceled
  /\ UNCHANGED <<calledOff, mine, portVars, appVars, ov, ins, installer>>

(* stop_recording and cancel_recording, while a start is on its way. *)
CallOffStart ==
  /\ recStarting # Nobody
  /\ ~calledOff[recStarting]
  /\ calledOff' = [calledOff EXCEPT ![recStarting] = TRUE]
  /\ UNCHANGED <<rec, mine, canceled, portVars, appVars, ov, ins, installer>>

(* cancel_recording otherwise. *)
CancelSession ==
  /\ recStarting = Nobody /\ phase = "active" /\ session \notin canceled
  /\ canceled' = canceled \cup {session}
  /\ UNCHANGED <<rec, calledOff, mine, portVars, appVars, ov, ins, installer>>

(* The recorder by itself: a session ends, its file is handed over, its worker leaves. *)
RecorderRuns ==
  /\ End \/ \E n \in Starts : Deliver(n) \/ Leave(n)
  /\ UNCHANGED <<appVars, recVars, ov, ins, installer>>

-----------------------------------------------------------------------------
(* run_overlay and the action that comes of it                              *)

OvGoes(o, from, to) == ov[o] = from /\ ov' = [ov EXCEPT ![o] = to]

OvEnter(o) ==
  /\ ~handingOver
  /\ overlaySessions' = overlaySessions + 1
  /\ OvGoes(o, "out", "open")
  /\ UNCHANGED <<portVars, recStarting, installing, handingOver, overlayOpen, recVars, ins, installer>>

(* A slip: a session that finds another one open takes back its count, and its guard does so again. *)
OvBusyTwice(o) ==
  /\ overlayOpen
  /\ overlaySessions' = overlaySessions - 1
  /\ OvGoes(o, "open", "leave")
  /\ UNCHANGED <<portVars, recStarting, installing, handingOver, overlayOpen, recVars, ins, installer>>

(* Another session is open already. *)
OvBusy(o) ==
  /\ overlayOpen
  /\ OvGoes(o, "open", "leave")
  /\ UNCHANGED <<portVars, appVars, recVars, ins, installer>>

OvOpen(o) ==
  /\ ~overlayOpen
  /\ overlayOpen' = TRUE
  /\ OvGoes(o, "open", "up")
  /\ UNCHANGED <<portVars, recStarting, installing, handingOver, overlaySessions, recVars, ins, installer>>

(* The user, or a failed capture, ends it: with an action to carry out or without. *)
OvDone(o) ==
  /\ overlayOpen' = FALSE
  /\ OvGoes(o, "up", "leave with action") \/ OvGoes(o, "up", "leave")
  /\ UNCHANGED <<portVars, recStarting, installing, handingOver, overlaySessions, recVars, ins, installer>>

(* The OverlaySession guard is dropped before the action is carried out. *)
OvLeave(o) ==
  /\ overlaySessions' = overlaySessions - 1
  /\ OvGoes(o, "leave with action", "handle") \/ OvGoes(o, "leave", "out")
  /\ UNCHANGED <<portVars, recStarting, installing, handingOver, overlayOpen, recVars, ins, installer>>

(* The image is saved, copied, recognized; a dialog may ask where to put it. *)
OvHandled(o) ==
  /\ OvGoes(o, "handle", "out")
  /\ UNCHANGED <<portVars, appVars, recVars, ins, installer>>

-----------------------------------------------------------------------------
(* install_update                                                           *)

InsGoes(i, from, to) == ins[i] = from /\ ins' = [ins EXCEPT ![i] = to]

(* What update_blocked looks at, one after the other.  The state lock is held over the whole of the first *)
(* look and over the whole of the last.                                                                   *)
Looks == {"recording", "unfinished", "overlay"}

Sees(what) ==
  CASE what = "recording"  -> AppIsRecording
    [] what = "unfinished" -> HasUnfinishedFile
    [] what = "overlay"    -> overlaySessions > 0 \/ overlayOpen

AfterLook(what) ==
  CASE what = "recording"  -> "unfinished"
    [] what = "unfinished" -> "overlay"
    [] what = "overlay"    -> "clear"

(* The user asks.  The first look only spares a download. *)
InsAsk(i) ==
  /\ IF \E what \in Looks : Sees(what) THEN UNCHANGED ins ELSE InsGoes(i, "out", "claim")
  /\ ins[i] = "out"
  /\ UNCHANGED <<portVars, appVars, recVars, ov, installer>>

InsClaim(i) ==
  /\ InsGoes(i, "claim", IF installing THEN "out" ELSE "download")
  /\ installing' = TRUE
  /\ UNCHANGED <<portVars, recStarting, handingOver, overlaySessions, overlayOpen, recVars, ov, installer>>

InsDownload(i) ==
  /\ InsGoes(i, "download", "raise") \/ InsGoes(i, "download", "failed")
  /\ UNCHANGED <<portVars, appVars, recVars, ov, installer>>

(* A slip: the last look without the flag. *)
InsRaiseNothing(i) ==
  /\ InsGoes(i, "raise", "recording")
  /\ UNCHANGED <<portVars, appVars, recVars, ov, installer>>

(* The flag goes up before the last look. *)
InsRaise(i) ==
  /\ handingOver' = TRUE
  /\ InsGoes(i, "raise", "recording")
  /\ UNCHANGED <<portVars, recStarting, installing, overlaySessions, overlayOpen, recVars, ov, installer>>

InsLook(i, what) ==
  /\ InsGoes(i, what, IF Sees(what) THEN "failed" ELSE AfterLook(what))
  /\ UNCHANGED <<portVars, appVars, recVars, ov, installer>>

InsRun(i) ==
  /\ \/ InsGoes(i, "clear", "left") /\ installer' = TRUE
     \/ InsGoes(i, "clear", "failed") /\ UNCHANGED installer
  /\ UNCHANGED <<portVars, appVars, recVars, ov>>

(* An error on the way, or a panic that without_panic caught: both flags come down. *)
InsFailed(i) ==
  /\ InsGoes(i, "failed", "out")
  /\ installing' = FALSE /\ handingOver' = FALSE
  /\ UNCHANGED <<portVars, recStarting, overlaySessions, overlayOpen, recVars, ov, installer>>

-----------------------------------------------------------------------------

RecNext(t) ==
  \/ RecEnter(t) \/ RecAfterCountdown(t) \/ RecBegin(t) \/ RecCalledOff(t)
  \/ \E n \in Starts : RecActivate(t, n)
  \/ RecSpawn(t) \/ RecSpawnFails(t) \/ RecClear(t) \/ RecLateCancel(t)

OvNext(o) == OvEnter(o) \/ OvBusy(o) \/ OvOpen(o) \/ OvDone(o) \/ OvLeave(o) \/ OvHandled(o)

InsNext(i) ==
  \/ InsAsk(i) \/ InsClaim(i) \/ InsDownload(i) \/ InsRaise(i)
  \/ \E what \in Looks : InsLook(i, what)
  \/ InsRun(i) \/ InsFailed(i)

Next ==
  \/ \E t \in Recorders : RecNext(t)
  \/ CallOffStart \/ CancelSession \/ RecorderRuns
  \/ \E o \in Overlays : OvNext(o)
  \/ \E i \in Installers : InsNext(i)

Spec == Init /\ [][Next]_vars

-----------------------------------------------------------------------------
(* Properties                                                               *)

TypeOK ==
  /\ recStarting \in Recorders \cup {Nobody}
  /\ installing \in BOOLEAN /\ handingOver \in BOOLEAN /\ overlayOpen \in BOOLEAN /\ installer \in BOOLEAN
  /\ overlaySessions \in Nat
  /\ rec \in [Recorders -> {"out", "countdown", "start", "inside", "spawn", "clear", "cancel"}]
  /\ calledOff \in [Recorders -> BOOLEAN]
  /\ mine \in [Recorders -> Starts \cup {0}]
  /\ canceled \subseteq Starts
  /\ ov \in [Overlays -> {"out", "open", "up", "leave with action", "leave", "handle"}]
  /\ ins \in [Installers -> Looks \cup {"out", "claim", "download", "raise", "clear", "left", "failed"}]

(* Once the installer runs, no recording is on its way or under way, no file is being written, no overlay is open, and *)
(* none of this begins until the process is gone.                                                                       *)
NothingIsCutOff ==
  installer =>
    /\ ~AppIsRecording
    /\ ~HasUnfinishedFile
    /\ overlaySessions = 0 /\ ~overlayOpen
    /\ \A t \in Recorders : rec[t] \in {"out", "cancel"}
    /\ \A o \in Overlays : ov[o] \in {"out", "handle"}

(* A start that was called off has no session that goes on recording when start_recording returns. *)
CalledOffIsOver ==
  \A t \in Recorders :
    rec[t] = "out" /\ calledOff[t] /\ mine[t] # 0 => mine[t] \in canceled \/ session # mine[t]

(* For TLC: the threads of a kind do the same, so states that differ in their names only are one. *)
SameThreads == Permutations(Recorders) \cup Permutations(Overlays) \cup Permutations(Installers)
=============================================================================
