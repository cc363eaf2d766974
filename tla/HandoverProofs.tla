--------------------------- MODULE HandoverProofs ---------------------------
(***************************************************************************)
(* Proofs about module Handover, for any number of recordings, overlays    *)
(* and installations.  What a look of the installer saw stays so, because  *)
(* the flag it raised before keeps everything new out, and what is inside  *)
(* already was seen: a start that has entered holds rec_starting, and an   *)
(* overlay that has entered is counted.                                    *)
(***************************************************************************)
EXTENDS Handover, FiniteSets, FiniteSetTheorems, TLAPS

Starting == {"countdown", "start", "inside", "spawn", "clear"}
Counted == {"open", "up", "leave with action", "leave"}
Handing == {"recording", "unfinished", "overlay", "clear", "left"}
Claimed == {"download", "raise", "failed", "recording", "unfinished", "overlay", "clear", "left"}

CountedOverlays == {o \in Overlays : ov[o] \in Counted}

(* A start on its way holds rec_starting, and nobody else does. *)
RecInv ==
  /\ \A t \in Recorders : rec[t] \in Starting => recStarting = t
  /\ recStarting \in Recorders => rec[recStarting] \in Starting

(* The recorder has a session just when it is active, and no later one has the identity of one a start has got. *)
SessionInv ==
  /\ IF phase = "active" THEN session \in Starts ELSE session = 0
  /\ \A t \in Recorders : mine[t] # 0 /\ rec[t] # "spawn" => mine[t] \in worked

(* overlay_sessions counts the overlays. *)
CountInv == IsFiniteSet(CountedOverlays) /\ overlaySessions = Cardinality(CountedOverlays)

(* One installation at a time has claimed the update, and its flags are up. *)
InsInv ==
  /\ \A i \in Installers : ins[i] \in Claimed => installing
  /\ \A i, j \in Installers : ins[i] \in Claimed /\ ins[j] \in Claimed => i = j
  /\ \A i \in Installers : ins[i] \in Handing => handingOver

(* What its looks saw, past each of them. *)
LookInv ==
  \A i \in Installers :
    /\ ins[i] \in {"unfinished", "overlay", "clear", "left"} => recStarting = Nobody /\ phase = "idle"
    /\ ins[i] \in {"overlay", "clear", "left"} => unfinished = {}
    /\ ins[i] \in {"clear", "left"} => overlaySessions = 0 /\ ~overlayOpen

RunInv == installer => \E i \in Installers : ins[i] = "left"

Core == RecInv /\ SessionInv /\ CountInv /\ InsInv /\ LookInv /\ RunInv

IInv == TypeOK /\ Core

-----------------------------------------------------------------------------
(* The count                                                                *)

(* An overlay that is counted makes the count positive. *)
LEMMA CountedIsPositive ==
  ASSUME CountInv, NEW o \in Overlays, ov[o] \in Counted
  PROVE  overlaySessions \in Nat /\ overlaySessions > 0
<1>1. o \in CountedOverlays
  BY DEF CountedOverlays
<1>2. Cardinality(CountedOverlays) \in Nat /\ Cardinality(CountedOverlays) # 0
  BY <1>1, FS_CardinalityType, FS_EmptySet DEF CountInv
<1>3. QED BY <1>2 DEF CountInv

(* An overlay that moves among the counted places, or among the others, leaves the count right. *)
LEMMA CountStays ==
  ASSUME CountInv, UNCHANGED overlaySessions,
         \A o \in Overlays : ov'[o] \in Counted <=> ov[o] \in Counted
  PROVE  CountInv'
<1>1. CountedOverlays' = CountedOverlays
  BY DEF CountedOverlays
<1>2. QED BY <1>1 DEF CountInv

LEMMA CountEnter ==
  ASSUME TypeOK, CountInv, NEW o \in Overlays, OvEnter(o)
  PROVE  CountInv'
<1>1. CountedOverlays' = CountedOverlays \cup {o} /\ o \notin CountedOverlays
  BY DEF CountedOverlays, OvEnter, OvGoes, TypeOK, Counted
<1>2. IsFiniteSet(CountedOverlays') /\ Cardinality(CountedOverlays') = Cardinality(CountedOverlays) + 1
  BY <1>1, FS_AddElement DEF CountInv
<1>3. QED BY <1>2 DEF CountInv, OvEnter

LEMMA CountLeave ==
  ASSUME TypeOK, CountInv, NEW o \in Overlays, OvLeave(o)
  PROVE  CountInv'
<1>1. CountedOverlays' = CountedOverlays \ {o} /\ o \in CountedOverlays
  BY DEF CountedOverlays, OvLeave, OvGoes, TypeOK, Counted
<1>2. IsFiniteSet(CountedOverlays') /\ Cardinality(CountedOverlays') = Cardinality(CountedOverlays) - 1
  BY <1>1, FS_RemoveElement DEF CountInv
<1>3. QED BY <1>2 DEF CountInv, OvLeave

-----------------------------------------------------------------------------
(* What no step of a kind can disturb                                       *)

(* The overlays and the installers leave the recordings alone. *)
LEMMA RecordingsAlone ==
  ASSUME RecInv, SessionInv, UNCHANGED <<phase, session, recStarting, rec, mine, worked>>
  PROVE  RecInv' /\ SessionInv'
BY DEF RecInv, SessionInv

(* The recordings and the installers leave the overlays alone. *)
LEMMA OverlaysAlone ==
  ASSUME CountInv, UNCHANGED <<ov, overlaySessions>>
  PROVE  CountInv'
BY CountStays

(* The recordings and the overlays leave the installations alone. *)
LEMMA InstallationsAlone ==
  ASSUME InsInv, RunInv, UNCHANGED <<ins, installing, handingOver, installer>>
  PROVE  InsInv' /\ RunInv'
BY DEF InsInv, RunInv

(* Past the look at the recordings no start is on its way. *)
LEMMA NoStart ==
  ASSUME RecInv, LookInv, NEW t \in Recorders, rec[t] \in Starting,
         NEW i \in Installers
  PROVE  ins[i] \notin {"unfinished", "overlay", "clear", "left"}
BY HandoverAssumption DEF RecInv, LookInv

(* A step of a start the looks allow for: it leaves what they saw, or it is made by a start that none of them missed. *)
LEMMA LooksOfStart ==
  ASSUME RecInv, LookInv, UNCHANGED <<ins, overlaySessions, overlayOpen>>,
         NEW t \in Recorders, rec[t] \in Starting
  PROVE  LookInv'
<1>1. \A i \in Installers : ins[i] \notin {"unfinished", "overlay", "clear", "left"}
  BY NoStart
<1>2. QED BY <1>1 DEF LookInv

-----------------------------------------------------------------------------
(* The inductive step                                                       *)

LEMMA RecStep == ASSUME IInv, NEW t \in Recorders, RecNext(t) PROVE Core'
<1> USE DEF IInv, Core, RecGoes, TypeOK
<1>1. CountInv'
  BY OverlaysAlone DEF RecNext, RecEnter, RecAfterCountdown, RecBegin, RecCalledOff, RecActivate, RecSpawn,
                       RecSpawnFails, RecClear, RecLateCancel, appVars
<1>2. InsInv' /\ RunInv'
  BY InstallationsAlone DEF RecNext, RecEnter, RecAfterCountdown, RecBegin, RecCalledOff, RecActivate, RecSpawn,
                            RecSpawnFails, RecClear, RecLateCancel, appVars
<1>3. ASSUME RecEnter(t) PROVE RecInv' /\ SessionInv' /\ LookInv'
  <2>1. RecInv'
    BY <1>3, HandoverAssumption DEF RecEnter, RecInv, AppIsRecording, Starting
  <2>2. SessionInv'
    BY <1>3 DEF RecEnter, SessionInv, portVars
  <2>3. LookInv'
    BY <1>3 DEF RecEnter, LookInv, InsInv, Handing
  <2>4. QED BY <2>1, <2>2, <2>3
<1>4. ASSUME RecAfterCountdown(t) PROVE RecInv' /\ SessionInv' /\ LookInv'
  <2>1. rec[t] \in Starting /\ LookInv'
    BY <1>4, LooksOfStart DEF RecAfterCountdown, Starting, appVars
  <2>2. RecInv' /\ SessionInv'
    BY <1>4 DEF RecAfterCountdown, RecInv, SessionInv, Starting, appVars, portVars
  <2>3. QED BY <2>1, <2>2
<1>5. ASSUME RecBegin(t) PROVE RecInv' /\ SessionInv' /\ LookInv'
  <2>1. rec[t] \in Starting /\ LookInv'
    BY <1>5, LooksOfStart DEF RecBegin, Starting, appVars
  <2>2. RecInv' /\ SessionInv'
    BY <1>5 DEF RecBegin, Begin, RecInv, SessionInv, Starting, appVars, portVars
  <2>3. QED BY <2>1, <2>2
<1>6. ASSUME RecCalledOff(t) PROVE RecInv' /\ SessionInv' /\ LookInv'
  <2>1. rec[t] \in Starting /\ LookInv'
    BY <1>6, LooksOfStart DEF RecCalledOff, Starting, appVars
  <2>2. RecInv' /\ SessionInv'
    BY <1>6 DEF RecCalledOff, CallOff, RecInv, SessionInv, Starting, appVars
  <2>3. QED BY <2>1, <2>2
<1>7. ASSUME NEW n \in Starts, RecActivate(t, n) PROVE RecInv' /\ SessionInv' /\ LookInv'
  <2>1. rec[t] \in Starting /\ LookInv'
    BY <1>7, LooksOfStart DEF RecActivate, Starting, appVars
  <2>2. RecInv' /\ SessionInv'
    BY <1>7 DEF RecActivate, Activate, RecInv, SessionInv, Starting, appVars
  <2>3. QED BY <2>1, <2>2
<1>8. ASSUME RecSpawn(t) PROVE RecInv' /\ SessionInv' /\ LookInv'
  <2>1. rec[t] \in Starting /\ LookInv'
    BY <1>8, LooksOfStart DEF RecSpawn, Starting, appVars
  <2>2. RecInv' /\ SessionInv'
    BY <1>8 DEF RecSpawn, Employ, RecInv, SessionInv, Starting, appVars
  <2>3. QED BY <2>1, <2>2
<1>9. ASSUME RecSpawnFails(t) PROVE RecInv' /\ SessionInv' /\ LookInv'
  <2>1. rec[t] \in Starting /\ LookInv'
    BY <1>9, LooksOfStart DEF RecSpawnFails, Starting, appVars
  <2>2. RecInv' /\ SessionInv'
    <3>1. mine' = [mine EXCEPT ![t] = 0] /\ UNCHANGED <<recStarting, worked>>
      BY <1>9 DEF RecSpawnFails, End, appVars, portVars
    <3>2. UNCHANGED <<phase, session>> \/ (phase' = "idle" /\ session' = 0)
      BY <1>9 DEF RecSpawnFails, End, portVars
    <3>3. RecInv'
      BY <1>9, <3>1 DEF RecSpawnFails, RecInv, Starting
    <3>4. SessionInv'
      BY <1>9, <3>1, <3>2 DEF RecSpawnFails, SessionInv
    <3>5. QED BY <3>3, <3>4
  <2>3. QED BY <2>1, <2>2
<1>10. ASSUME RecClear(t) PROVE RecInv' /\ SessionInv' /\ LookInv'
  <2>1. rec[t] \in Starting /\ LookInv'
    BY <1>10, LooksOfStart DEF RecClear, Starting
  <2>2. RecInv' /\ SessionInv'
    BY <1>10, HandoverAssumption DEF RecClear, RecInv, SessionInv, Starting, portVars
  <2>3. QED BY <2>1, <2>2
<1>11. ASSUME RecLateCancel(t) PROVE RecInv' /\ SessionInv' /\ LookInv'
  <2>1. RecInv' /\ SessionInv'
    BY <1>11 DEF RecLateCancel, RecInv, SessionInv, Starting, appVars, portVars
  <2>2. LookInv'
    BY <1>11 DEF RecLateCancel, LookInv, appVars, portVars
  <2>3. QED BY <2>1, <2>2
<1>12. QED
  BY <1>1, <1>2, <1>3, <1>4, <1>5, <1>6, <1>7, <1>8, <1>9, <1>10, <1>11 DEF RecNext

(* What stops a recording, and the recorder by itself. *)
LEMMA RecorderStep ==
  ASSUME IInv, CallOffStart \/ CancelSession \/ RecorderRuns
  PROVE  Core'
<1> USE DEF IInv, Core, appVars, portVars, recVars
<1>1. CountInv'
  BY OverlaysAlone DEF CallOffStart, CancelSession, RecorderRuns
<1>2. InsInv' /\ RunInv'
  BY InstallationsAlone DEF CallOffStart, CancelSession, RecorderRuns
<1>3. UNCHANGED <<recStarting, rec, mine, worked>>
  BY DEF CallOffStart, CancelSession, RecorderRuns, End, Deliver, Leave
<1>4. RecInv' /\ SessionInv'
  <2>1. UNCHANGED <<phase, session>> \/ (phase' = "idle" /\ session' = 0)
    BY DEF CallOffStart, CancelSession, RecorderRuns, End, Deliver, Leave
  <2>2. QED BY <1>3, <2>1 DEF RecInv, SessionInv
<1>5. LookInv'
  <2>1. UNCHANGED <<recStarting, overlaySessions, overlayOpen, ins>>
    BY DEF CallOffStart, CancelSession, RecorderRuns
  <2>2. phase = "idle" => phase' = "idle"
    BY DEF CallOffStart, CancelSession, RecorderRuns, End, Deliver, Leave
  <2>3. unfinished = {} => unfinished' = {}
    BY DEF CallOffStart, CancelSession, RecorderRuns, End, Deliver, Leave
  <2>4. QED BY <2>1, <2>2, <2>3 DEF LookInv
<1>6. QED BY <1>1, <1>2, <1>4, <1>5

LEMMA OvStep == ASSUME IInv, NEW o \in Overlays, OvNext(o) PROVE Core'
<1> USE DEF IInv, Core
<1>1. RecInv' /\ SessionInv'
  BY RecordingsAlone DEF OvNext, OvEnter, OvBusy, OvOpen, OvDone, OvLeave, OvHandled, appVars, recVars, portVars
<1>2. InsInv' /\ RunInv'
  BY InstallationsAlone DEF OvNext, OvEnter, OvBusy, OvOpen, OvDone, OvLeave, OvHandled, appVars
<1>3. UNCHANGED <<ins, recStarting, phase, unfinished>>
  BY DEF OvNext, OvEnter, OvBusy, OvOpen, OvDone, OvLeave, OvHandled, appVars, portVars
<1>4. ASSUME OvEnter(o) PROVE CountInv' /\ LookInv'
  <2>1. CountInv'
    BY <1>4, CountEnter
  <2>2. \A i \in Installers : ins[i] \notin {"clear", "left"}
    BY <1>4 DEF OvEnter, InsInv, Handing
  <2>3. QED BY <1>3, <2>1, <2>2 DEF LookInv
<1>5. ASSUME OvBusy(o) PROVE CountInv' /\ LookInv'
  <2>1. CountInv'
    BY <1>5, CountStays DEF OvBusy, OvGoes, TypeOK, Counted, appVars
  <2>2. QED BY <1>5, <2>1 DEF LookInv, OvBusy, appVars, portVars
<1>6. ASSUME OvOpen(o) PROVE CountInv' /\ LookInv'
  <2>1. CountInv'
    BY <1>6, CountStays DEF OvOpen, OvGoes, TypeOK, Counted
  <2>2. ov[o] \in Counted
    BY <1>6 DEF OvOpen, OvGoes, Counted
  <2>3. overlaySessions # 0
    BY <2>2, CountedIsPositive
  <2>4. QED BY <1>3, <2>1, <2>3 DEF LookInv
<1>7. ASSUME OvDone(o) PROVE CountInv' /\ LookInv'
  <2>1. CountInv'
    BY <1>7, CountStays DEF OvDone, OvGoes, TypeOK, Counted
  <2>2. QED BY <1>7, <1>3, <2>1 DEF LookInv, OvDone
<1>8. ASSUME OvLeave(o) PROVE CountInv' /\ LookInv'
  <2>1. CountInv'
    BY <1>8, CountLeave
  <2>2. ov[o] \in Counted
    BY <1>8 DEF OvLeave, OvGoes, Counted
  <2>3. overlaySessions # 0
    BY <2>2, CountedIsPositive
  <2>4. QED BY <1>3, <2>1, <2>3 DEF LookInv
<1>9. ASSUME OvHandled(o) PROVE CountInv' /\ LookInv'
  <2>1. CountInv'
    BY <1>9, CountStays DEF OvHandled, OvGoes, TypeOK, Counted, appVars
  <2>2. QED BY <1>9, <2>1 DEF LookInv, OvHandled, appVars, portVars
<1>10. QED BY <1>1, <1>2, <1>4, <1>5, <1>6, <1>7, <1>8, <1>9 DEF OvNext

LEMMA InsStep == ASSUME IInv, NEW i \in Installers, InsNext(i) PROVE Core'
<1> USE DEF IInv, Core, InsGoes, Handing, Claimed
<1> ins \in [Installers -> Looks \cup {"out", "claim", "download", "raise", "clear", "left", "failed"}]
  BY DEF TypeOK
<1>1. RecInv' /\ SessionInv'
  BY RecordingsAlone DEF InsNext, InsAsk, InsClaim, InsDownload, InsRaise, InsLook, InsRun, InsFailed,
                         appVars, recVars, portVars
<1>2. CountInv'
  BY OverlaysAlone DEF InsNext, InsAsk, InsClaim, InsDownload, InsRaise, InsLook, InsRun, InsFailed, appVars
<1>3. UNCHANGED <<recStarting, phase, unfinished, overlaySessions, overlayOpen>>
  BY DEF InsNext, InsAsk, InsClaim, InsDownload, InsRaise, InsLook, InsRun, InsFailed, appVars, portVars
<1>4. ASSUME InsAsk(i) PROVE InsInv' /\ LookInv' /\ RunInv'
  <2>1. CASE UNCHANGED ins
    BY <1>3, <1>4, <2>1, InstallationsAlone DEF InsAsk, LookInv, appVars
  <2>2. CASE InsGoes(i, "out", "claim")
    BY <1>3, <1>4, <2>2 DEF InsAsk, InsInv, LookInv, RunInv, appVars
  <2>3. QED BY <1>4, <2>1, <2>2 DEF InsAsk
<1>5. ASSUME InsClaim(i) PROVE InsInv' /\ LookInv' /\ RunInv'
  <2>1. CASE installing
    BY <1>3, <1>5, <2>1 DEF InsClaim, InsInv, LookInv, RunInv
  <2>2. CASE ~installing
    BY <1>3, <1>5, <2>2 DEF InsClaim, InsInv, LookInv, RunInv
  <2>3. QED BY <2>1, <2>2
<1>6. ASSUME InsDownload(i) PROVE InsInv' /\ LookInv' /\ RunInv'
  BY <1>3, <1>6 DEF InsDownload, InsInv, LookInv, RunInv, appVars
<1>7. ASSUME InsRaise(i) PROVE InsInv' /\ LookInv' /\ RunInv'
  BY <1>3, <1>7 DEF InsRaise, InsInv, LookInv, RunInv
<1>8. ASSUME NEW what \in Looks, InsLook(i, what) PROVE InsInv' /\ LookInv' /\ RunInv'
  <2> what \in {"recording", "unfinished", "overlay"} /\ overlaySessions \in Nat
    BY DEF Looks, TypeOK
  <2>1. CASE Sees(what)
    BY <1>3, <1>8, <2>1 DEF InsLook, InsInv, LookInv, RunInv, appVars
  <2>2. CASE ~Sees(what)
    <3>1. ins[i] = what /\ ins' = [ins EXCEPT ![i] = AfterLook(what)]
      BY <1>8, <2>2 DEF InsLook
    <3>2. InsInv' /\ RunInv'
      BY <1>8, <3>1 DEF InsLook, InsInv, RunInv, AfterLook, appVars
    <3>3. LookInv'
      <4>1. CASE what = "recording"
        BY <1>3, <2>2, <3>1, <4>1 DEF LookInv, Sees, AfterLook, AppIsRecording, IsRecording
      <4>2. CASE what = "unfinished"
        BY <1>3, <2>2, <3>1, <4>2 DEF LookInv, Sees, AfterLook, HasUnfinishedFile
      <4>3. CASE what = "overlay"
        BY <1>3, <2>2, <3>1, <4>3 DEF LookInv, Sees, AfterLook
      <4>4. QED BY <4>1, <4>2, <4>3
    <3>4. QED BY <3>2, <3>3
  <2>3. QED BY <2>1, <2>2
<1>9. ASSUME InsRun(i) PROVE InsInv' /\ LookInv' /\ RunInv'
  BY <1>3, <1>9 DEF InsRun, InsInv, LookInv, RunInv, appVars
<1>10. ASSUME InsFailed(i) PROVE InsInv' /\ LookInv' /\ RunInv'
  BY <1>3, <1>10 DEF InsFailed, InsInv, LookInv, RunInv
<1>11. QED BY <1>1, <1>2, <1>4, <1>5, <1>6, <1>7, <1>8, <1>9, <1>10 DEF InsNext

LEMMA CoreStep == ASSUME IInv, [Next]_vars PROVE Core'
<1>1. CASE UNCHANGED vars
  <2>1. UNCHANGED <<portVars, appVars, recVars, ov, ins, installer>>
    BY <1>1 DEF vars
  <2>2. RecInv' /\ SessionInv' /\ CountInv' /\ InsInv' /\ RunInv'
    BY <2>1, RecordingsAlone, OverlaysAlone, InstallationsAlone DEF IInv, Core, portVars, appVars, recVars
  <2>3. LookInv'
    BY <2>1 DEF IInv, Core, LookInv, portVars, appVars
  <2>4. QED BY <2>2, <2>3 DEF Core
<1>2. QED BY <1>1, RecStep, RecorderStep, OvStep, InsStep DEF Next

-----------------------------------------------------------------------------
(* Types                                                                    *)

LEMMA TypeStep == ASSUME IInv, [Next]_vars PROVE TypeOK'
<1> USE DEF TypeOK, portVars, appVars, recVars
<1> TypeOK
  BY DEF IInv
<1>1. overlaySessions' \in Nat
  <2>1. CountInv'
    BY CoreStep DEF Core
  <2>2. QED BY <2>1, FS_CardinalityType DEF CountInv
<1>2. ASSUME NEW t \in Recorders, RecNext(t) PROVE TypeOK'
  <2>1. UNCHANGED <<installing, handingOver, overlayOpen, installer, ov, ins>>
    BY <1>2 DEF RecNext, RecEnter, RecAfterCountdown, RecBegin, RecCalledOff, RecActivate, RecSpawn,
                RecSpawnFails, RecClear, RecLateCancel
  <2>2. recStarting' \in Recorders \cup {Nobody} /\ calledOff' \in [Recorders -> BOOLEAN]
    BY <1>2 DEF RecNext, RecEnter, RecAfterCountdown, RecBegin, RecCalledOff, RecActivate, RecSpawn,
                RecSpawnFails, RecClear, RecLateCancel
  <2>3. rec' \in [Recorders -> {"out", "countdown", "start", "inside", "spawn", "clear", "cancel"}]
    BY <1>2 DEF RecNext, RecEnter, RecAfterCountdown, RecBegin, RecCalledOff, RecActivate, RecSpawn,
                RecSpawnFails, RecClear, RecLateCancel, RecGoes
  <2>4. mine' \in [Recorders -> Starts \cup {0}]
    BY <1>2 DEF RecNext, RecEnter, RecAfterCountdown, RecBegin, RecCalledOff, RecActivate, RecSpawn,
                RecSpawnFails, RecClear, RecLateCancel
  <2>5. canceled' \subseteq Starts
    BY <1>2 DEF RecNext, RecEnter, RecAfterCountdown, RecBegin, RecCalledOff, RecActivate, RecSpawn,
                RecSpawnFails, RecClear, RecLateCancel, IInv, Core, SessionInv
  <2>6. QED BY <1>1, <2>1, <2>2, <2>3, <2>4, <2>5
<1>3. ASSUME CallOffStart \/ CancelSession \/ RecorderRuns PROVE TypeOK'
  <2>1. calledOff' \in [Recorders -> BOOLEAN]
    BY <1>3 DEF CallOffStart, CancelSession, RecorderRuns
  <2>2. canceled' \subseteq Starts
    BY <1>3 DEF CallOffStart, CancelSession, RecorderRuns, IInv, Core, SessionInv
  <2>3. UNCHANGED <<recStarting, installing, handingOver, overlayOpen, installer, rec, mine, ov, ins>>
    BY <1>3 DEF CallOffStart, CancelSession, RecorderRuns
  <2>4. QED BY <1>1, <2>1, <2>2, <2>3
<1>4. ASSUME NEW o \in Overlays, OvNext(o) PROVE TypeOK'
  <2>1. ov' \in [Overlays -> {"out", "open", "up", "leave with action", "leave", "handle"}]
    BY <1>4 DEF OvNext, OvEnter, OvBusy, OvOpen, OvDone, OvLeave, OvHandled, OvGoes
  <2>2. UNCHANGED <<recStarting, installing, handingOver, installer, recVars, ins>> /\ overlayOpen' \in BOOLEAN
    BY <1>4 DEF OvNext, OvEnter, OvBusy, OvOpen, OvDone, OvLeave, OvHandled
  <2>3. QED BY <1>1, <2>1, <2>2
<1>5. ASSUME NEW i \in Installers, InsNext(i) PROVE TypeOK'
  <2>1. ins' \in [Installers -> Looks \cup {"out", "claim", "download", "raise", "clear", "left", "failed"}]
    <3>1. ASSUME NEW what \in Looks, InsLook(i, what) PROVE ins' \in [Installers -> Looks \cup {"clear", "failed", "out", "claim", "download", "raise", "left"}]
      BY <3>1 DEF InsLook, InsGoes, AfterLook, Looks
    <3>2. QED BY <1>5, <3>1 DEF InsNext, InsAsk, InsClaim, InsDownload, InsRaise, InsRun, InsFailed, InsGoes, Looks
  <2>2. /\ installing' \in BOOLEAN /\ handingOver' \in BOOLEAN /\ installer' \in BOOLEAN
        /\ UNCHANGED <<recStarting, overlayOpen, recVars, ov>>
    BY <1>5 DEF InsNext, InsAsk, InsClaim, InsDownload, InsRaise, InsLook, InsRun, InsFailed
  <2>3. QED BY <1>1, <2>1, <2>2
<1>6. CASE UNCHANGED vars
  BY <1>6 DEF vars
<1>7. QED BY <1>2, <1>3, <1>4, <1>5, <1>6 DEF Next

-----------------------------------------------------------------------------
(* Theorems                                                                 *)

(* In every reachable state the variables of the application have their types, and what its threads hold agrees with  *)
(* App::state: a start on its way with rec_starting, the overlays with their count, an installation with its flags.    *)
THEOREM Invariance == Spec => []IInv
<1>1. Init => IInv
  <2> SUFFICES ASSUME Init PROVE IInv
    OBVIOUS
  <2>1. TypeOK
    BY DEF Init, TypeOK
  <2>2. CountInv
    <3>1. CountedOverlays = {}
      BY DEF Init, CountedOverlays, Counted
    <3>2. QED BY <3>1, FS_EmptySet DEF Init, CountInv
  <2>3. RecInv /\ SessionInv /\ InsInv /\ LookInv /\ RunInv
    BY HandoverAssumption DEF Init, PortInit, RecInv, SessionInv, InsInv, LookInv, RunInv, Starting, Claimed, Handing
  <2>4. QED BY <2>1, <2>2, <2>3 DEF IInv, Core
<1>2. IInv /\ [Next]_vars => IInv'
  BY TypeStep, CoreStep DEF IInv
<1>3. QED BY <1>1, <1>2, PTL DEF Spec

THEOREM TypeCorrect == Spec => []TypeOK
<1>1. IInv => TypeOK
  BY DEF IInv
<1>2. QED BY <1>1, Invariance, PTL

(* Once the installer of an update runs, no recording is on its way or under way, no file is being written and no    *)
(* overlay is open, and none of this begins any more: start_installer, start_recording and run_overlay together.      *)
THEOREM NothingCutOff == Spec => []NothingIsCutOff
<1>1. IInv => NothingIsCutOff
  <2> SUFFICES ASSUME IInv, installer PROVE NothingIsCutOff
    BY DEF NothingIsCutOff
  <2> USE DEF IInv, Core
  <2>1. PICK i \in Installers : ins[i] = "left"
    BY DEF RunInv
  <2>2. ~AppIsRecording /\ ~HasUnfinishedFile /\ overlaySessions = 0 /\ ~overlayOpen
    BY <2>1 DEF LookInv, AppIsRecording, IsRecording, HasUnfinishedFile
  <2>3. \A t \in Recorders : rec[t] \in {"out", "cancel"}
    BY <2>1, NoStart DEF TypeOK, Starting
  <2>4. \A o \in Overlays : ov[o] \in {"out", "handle"}
    <3> TAKE o \in Overlays
    <3>1. ov[o] \notin Counted
      BY <2>2, CountedIsPositive
    <3>2. QED BY <3>1 DEF TypeOK, Counted
  <2>5. QED BY <2>2, <2>3, <2>4 DEF NothingIsCutOff
<1>2. QED BY <1>1, Invariance, PTL

(* A start that was called off leaves no session that goes on: start_recording looks at the flag once more when the   *)
(* recorder has started, and if the recorder still has that session then, it is told to cancel it.                     *)
THEOREM CalledOff == Spec => []CalledOffIsOver
<1>1. Init => CalledOffIsOver
  BY DEF Init, CalledOffIsOver
<1>2. IInv /\ CalledOffIsOver /\ [Next]_vars => CalledOffIsOver'
  <2> SUFFICES ASSUME IInv, CalledOffIsOver, [Next]_vars PROVE CalledOffIsOver'
    OBVIOUS
  <2> USE DEF CalledOffIsOver, portVars, appVars, recVars
  <2>1. ASSUME NEW t \in Recorders, RecNext(t) PROVE CalledOffIsOver'
    <3> USE DEF RecGoes
    <3> rec \in [Recorders -> {"out", "countdown", "start", "inside", "spawn", "clear", "cancel"}]
          /\ calledOff \in [Recorders -> BOOLEAN] /\ mine \in [Recorders -> Starts \cup {0}]
      BY DEF IInv, TypeOK
    <3>1. CASE RecEnter(t)
      BY <3>1 DEF RecEnter
    <3>2. CASE RecAfterCountdown(t)
      BY <3>2 DEF RecAfterCountdown
    <3>3. CASE RecBegin(t)
      BY <3>3 DEF RecBegin, Begin
    <3>4. CASE RecCalledOff(t)
      BY <3>4 DEF RecCalledOff, CallOff
    <3>5. ASSUME NEW n \in Starts, RecActivate(t, n) PROVE CalledOffIsOver'
      <4>1. n \notin worked
        BY <3>5 DEF RecActivate, Activate
      <4>2. \A u \in Recorders : rec[u] = "out" /\ mine[u] # 0 => mine[u] \in worked
        BY DEF IInv, Core, SessionInv
      <4>3. QED BY <3>5, <4>1, <4>2 DEF RecActivate, Activate
    <3>6. CASE RecSpawn(t)
      BY <3>6 DEF RecSpawn, Employ
    <3>7. CASE RecSpawnFails(t)
      BY <3>7 DEF RecSpawnFails, End
    <3>8. CASE RecClear(t)
      BY <3>8 DEF RecClear
    <3>9. CASE RecLateCancel(t)
      <4>1. \A u \in Recorders : mine[u] # 0 /\ session = mine[u] => phase = "active"
        BY DEF IInv, Core, SessionInv
      <4>2. QED BY <3>9, <4>1 DEF RecLateCancel
    <3>10. QED BY <2>1, <3>1, <3>2, <3>3, <3>4, <3>5, <3>6, <3>7, <3>8, <3>9 DEF RecNext
  <2>2. CASE CallOffStart
    <3>1. recStarting \in Recorders
      BY <2>2 DEF CallOffStart, IInv, TypeOK
    <3>2. rec[recStarting] \in Starting
      BY <3>1, <2>2 DEF CallOffStart, IInv, Core, RecInv
    <3>3. QED BY <2>2, <3>1, <3>2 DEF CallOffStart, IInv, TypeOK, Starting
  <2>3. CASE CancelSession
    BY <2>3 DEF CancelSession
  <2>4. CASE RecorderRuns
    BY <2>4 DEF RecorderRuns, End, Deliver, Leave
  <2>5. ASSUME NEW o \in Overlays, OvNext(o) PROVE CalledOffIsOver'
    BY <2>5 DEF OvNext, OvEnter, OvBusy, OvOpen, OvDone, OvLeave, OvHandled
  <2>6. ASSUME NEW i \in Installers, InsNext(i) PROVE CalledOffIsOver'
    BY <2>6 DEF InsNext, InsAsk, InsClaim, InsDownload, InsRaise, InsLook, InsRun, InsFailed
  <2>7. CASE UNCHANGED vars
    BY <2>7 DEF vars
  <2>8. QED BY <2>1, <2>2, <2>3, <2>4, <2>5, <2>6, <2>7 DEF Next
<1>3. QED BY <1>1, <1>2, Invariance, PTL DEF Spec

(* Whatever the threads of the application do, the steps in which they touch the recorder are steps of its port: they   *)
(* ask nothing of it that the trait RecorderControl does not offer, and module Recorder is proved to implement it.     *)
THEOREM StaysWithThePort == Spec => PortSpec
<1>1. Init => PortInit
  BY DEF Init
<1>2. UNCHANGED vars => UNCHANGED portVars
  BY DEF vars
<1>3. IInv /\ Next => PortNext \/ UNCHANGED portVars
  <2> SUFFICES ASSUME IInv, Next PROVE PortNext \/ UNCHANGED portVars
    OBVIOUS
  <2> USE DEF PortNext
  <2>1. ASSUME NEW t \in Recorders, RecNext(t) PROVE PortNext \/ UNCHANGED portVars
    <3>1. CASE RecSpawn(t)
      <4>1. mine[t] \in Starts /\ Employ(mine[t])
        BY <3>1 DEF RecSpawn, Employ, IInv, Core, SessionInv
      <4>2. QED BY <4>1
    <3>2. CASE ~RecSpawn(t)
      BY <2>1, <3>2 DEF RecNext, RecEnter, RecAfterCountdown, RecBegin, RecCalledOff, RecActivate, RecSpawnFails,
                        RecClear, RecLateCancel
    <3>3. QED BY <3>1, <3>2
  <2>2. CASE CallOffStart \/ CancelSession \/ RecorderRuns
    BY <2>2 DEF CallOffStart, CancelSession, RecorderRuns
  <2>3. ASSUME NEW o \in Overlays, OvNext(o) PROVE UNCHANGED portVars
    BY <2>3 DEF OvNext, OvEnter, OvBusy, OvOpen, OvDone, OvLeave, OvHandled
  <2>4. ASSUME NEW i \in Installers, InsNext(i) PROVE UNCHANGED portVars
    BY <2>4 DEF InsNext, InsAsk, InsClaim, InsDownload, InsRaise, InsLook, InsRun, InsFailed
  <2>5. QED BY <2>1, <2>2, <2>3, <2>4 DEF Next
<1>4. IInv /\ [Next]_vars => [PortNext]_portVars
  BY <1>2, <1>3
<1>5. QED BY <1>1, <1>4, Invariance, PTL DEF Spec, PortSpec
=============================================================================
