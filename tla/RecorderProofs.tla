--------------------------- MODULE RecorderProofs ---------------------------
(***************************************************************************)
(* Proofs about module Recorder, for any number of threads and starts and  *)
(* any timeouts.  The inductive invariant relates what the threads hold:   *)
(* a start's identity is its own until a worker takes it over, the machine *)
(* is active for exactly the starts between activation and the worker's    *)
(* settle, and a worker's UnfinishedFile guard outlives everything it does.*)
(***************************************************************************)
EXTENDS Recorder, TLAPS

Before == {"folder", "countdown", "asleep", "place", "activate", "drop"}
Holding == {"count", "spawn", "settle"}

(* A start that is under way has an identity of its own. *)
StarterInv ==
  /\ \A s \in Starters : starter[s] # "out" => attempt[s] \in 1..starts
  /\ \A s, t \in Starters :
       s # t /\ starter[s] # "out" /\ starter[t] # "out" => attempt[s] # attempt[t]

(* No thread knows a start that has not begun. *)
FreshInv == \A n \in Starts : n > starts => worker[n] = "none"

(* What is known of the session of a start, by where the start is. *)
BirthInv ==
  \A s \in Starters :
    /\ starter[s] \in Before \cup Holding => worker[attempt[s]] = "none"
    /\ starter[s] \in Holding => Current(attempt[s])
    /\ starter[s] = "spawn" => attempt[s] \in unfinished
    /\ starter[s] = "watch" => worker[attempt[s]] # "none"

(* What is known of a session by where its worker is. *)
WorkerInv ==
  \A n \in Starts :
    /\ Running(n) => n \in unfinished
    /\ worker[n] \in {"settled", "reported", "gone"} => ~Current(n)
    /\ delivered[n] <= 1
    /\ delivered[n] = 1 => worker[n] \in {"reported", "gone"}

WatchdogInv == \A n \in Starts : watchdog[n] # "none" => worker[n] # "none"

(* Only an active machine has a session. *)
MachineInv == (phase = "active") <=> (session # 0)

Core == StarterInv /\ FreshInv /\ BirthInv /\ WorkerInv /\ WatchdogInv /\ MachineInv

IInv == TypeOK /\ Core

(* With one start at a time: nobody takes back the start of somebody else, and the Control in place while a *)
(* session is active is its own.                                                                             *)
SerialInv ==
  /\ \A s, t \in Starters : starter[s] # "out" /\ starter[t] # "out" => s = t
  /\ \A s \in Starters :
       /\ starter[s] \in {"folder", "countdown", "asleep", "place", "activate"} => phase = "starting"
       /\ starter[s] = "activate" => slot = attempt[s]
       /\ starter[s] = "drop" => phase = "idle"
  /\ phase = "active" => slot = session

-----------------------------------------------------------------------------
(* Types.                                                                   *)

LEMMA TypeStep == ASSUME TypeOK, StarterInv, [Next]_vars PROVE TypeOK'
<1> USE RecorderAssumption DEF TypeOK, None, Ops, Outcomes, StarterPCs, WorkerPCs, WatchdogPCs,
        machineVars, controlVars, starterVars, callerVars, workerVars, watchdogVars, fileVars
<1>1. ASSUME NEW s \in Starters, StartBegin(s) PROVE TypeOK'
  <2>1. starts' \in 0..MaxStarts /\ starts + 1 \in Starts
    BY <1>1 DEF StartBegin, Starts
  <2>2. starter' \in [Starters -> StarterPCs] /\ attempt' \in [Starters -> Starts \cup {0}]
    BY <1>1, <2>1 DEF StartBegin
  <2>3. QED BY <1>1, <2>1, <2>2 DEF StartBegin, BecomeStarting, Reset
<1>2. ASSUME NEW s \in Starters, StartFolderFails(s) PROVE TypeOK'
  BY <1>2 DEF StartFolderFails, Return, AbortStart, BecomeIdle, Reset
<1>3. ASSUME NEW s \in Starters, StartFolder(s) PROVE TypeOK'
  <2>1. CASE Step(s, "folder", "place")
    BY <1>3, <2>1 DEF StartFolder, Step
  <2>2. CASE HasCountdown /\ Step(s, "folder", "countdown")
    BY <1>3, <2>2 DEF StartFolder, Step
  <2>3. QED BY <1>3, <2>1, <2>2 DEF StartFolder
<1>4. ASSUME NEW s \in Starters, CountdownFinishes(s) PROVE TypeOK'
  BY <1>4 DEF CountdownFinishes, Step
<1>5. ASSUME NEW s \in Starters, CountdownLook(s) PROVE TypeOK'
  BY <1>5 DEF CountdownLook, Step
<1>6. ASSUME NEW s \in Starters, StartPlace(s) PROVE TypeOK'
  BY <1>6 DEF StartPlace, Step
<1>7. ASSUME NEW s \in Starters, StartActivate(s) PROVE TypeOK'
  BY <1>7 DEF StartActivate, Step, BecomeActive, Reset
<1>8. ASSUME NEW s \in Starters, StartNone(s) PROVE TypeOK'
  BY <1>8 DEF StartNone, Step, AbortStart, BecomeIdle, Reset
<1>9. ASSUME NEW s \in Starters, StartDrop(s) PROVE TypeOK'
  BY <1>9 DEF StartDrop, Return, AbortStart, BecomeIdle, Reset
<1>10. ASSUME NEW s \in Starters, StartCount(s) PROVE TypeOK'
  <2>1. attempt[s] \in Starts
    BY <1>10 DEF StartCount, Step, StarterInv
  <2>2. QED BY <1>10, <2>1 DEF StartCount, Step
<1>11. ASSUME NEW s \in Starters, StartSpawn(s) PROVE TypeOK'
  BY <1>11 DEF StartSpawn, Step
<1>12. ASSUME NEW s \in Starters, StartSpawnFails(s) PROVE TypeOK'
  BY <1>12 DEF StartSpawnFails, Step
<1>13. ASSUME NEW s \in Starters, StartSettle(s) PROVE TypeOK'
  <2>1. CASE Current(attempt[s])
    BY <1>13, <2>1 DEF StartSettle, Return, Settle, BecomeIdle, Reset
  <2>2. CASE ~Current(attempt[s])
    BY <1>13, <2>2 DEF StartSettle, Return, Settle
  <2>3. QED BY <2>1, <2>2
<1>14. ASSUME NEW s \in Starters, StartWatchdog(s) PROVE TypeOK'
  <2>1. PICK pc \in {"look", "failed"} : watchdog' = [watchdog EXCEPT ![attempt[s]] = pc]
    BY <1>14 DEF StartWatchdog
  <2>2. watchdog' \in [Starts -> WatchdogPCs]
    BY <2>1
  <2>3. QED BY <1>14, <2>2 DEF StartWatchdog, Return
<1>15. ASSUME NEW c \in Callers, NEW op \in Calls, CallerRequest(c, op) PROVE TypeOK'
  BY <1>15 DEF CallerRequest, Request, Granted, Sooner
<1>16. ASSUME NEW c \in Callers, NEW op \in Calls, CallerCallsOff(c, op) PROVE TypeOK'
  BY <1>16 DEF CallerCallsOff, CallStartOff
<1>17. ASSUME NEW c \in Callers, CallerNotify(c) PROVE TypeOK'
  BY <1>17 DEF CallerNotify, NotifyAll
<1>18. ASSUME NEW c \in Callers, CallerFetch(c) PROVE TypeOK'
  BY <1>18 DEF CallerFetch, NotifyAll
<1>19. ASSUME NEW c \in Callers, CallerApply(c) PROVE TypeOK'
  BY <1>19 DEF CallerApply
<1>20. ASSUME NEW n \in Starts, WorkerEnds(n) PROVE TypeOK'
  BY <1>20 DEF WorkerEnds
<1>21. ASSUME NEW n \in Starts, WorkerSettle(n) PROVE TypeOK'
  <2>1. CASE Current(n)
    BY <1>21, <2>1 DEF WorkerSettle, Settle, BecomeIdle, Reset
  <2>2. CASE ~Current(n)
    BY <1>21, <2>2 DEF WorkerSettle, Settle
  <2>3. QED BY <2>1, <2>2
<1>22. ASSUME NEW n \in Starts, WorkerReport(n) PROVE TypeOK'
  <2>1. delivered' \in [Starts -> Nat]
    <3>1. CASE outcome[n] = "done"
      BY <1>22, <3>1 DEF WorkerReport
    <3>2. CASE outcome[n] # "done"
      BY <1>22, <3>2 DEF WorkerReport
    <3>3. QED BY <3>1, <3>2
  <2>2. worker' \in [Starts -> WorkerPCs] /\ outcome' \in [Starts -> Outcomes]
    BY <1>22 DEF WorkerReport
  <2>3. /\ starter' \in [Starters -> StarterPCs]
        /\ watchdog' \in [Starts -> WatchdogPCs]
        /\ sleep' \in [Starts -> Nat \cup {None}]
    BY <1>22 DEF WorkerReport, NotifyAll
  <2>4. QED BY <1>22, <2>1, <2>2, <2>3 DEF WorkerReport, NotifyAll
<1>23. ASSUME NEW n \in Starts, WorkerLeaves(n) PROVE TypeOK'
  BY <1>23 DEF WorkerLeaves
<1>24. ASSUME NEW n \in Starts, WatchdogSleeps(n) PROVE TypeOK'
  BY <1>24 DEF WatchdogSleeps, Overdue
<1>25. ASSUME NEW n \in Starts, WatchdogEnds(n) PROVE TypeOK'
  BY <1>25 DEF WatchdogEnds
<1>26. ASSUME NEW n \in Starts, WatchdogExpires(n) PROVE TypeOK'
  BY <1>26 DEF WatchdogExpires, Current, BecomeIdle, Reset
<1>27. ASSUME NEW n \in Starts, WatchdogNotify(n) PROVE TypeOK'
  BY <1>27 DEF WatchdogNotify
<1>28. ASSUME NEW n \in Starts, WatchdogWakes(n) PROVE TypeOK'
  BY <1>28 DEF WatchdogWakes
<1>29. ASSUME Tick PROVE TypeOK'
  BY <1>29 DEF Tick, Less
<1>30. CASE UNCHANGED vars
  BY <1>30 DEF vars
<1>31. QED
  BY <1>1, <1>2, <1>3, <1>4, <1>5, <1>6, <1>7, <1>8, <1>9, <1>10, <1>11, <1>12, <1>13, <1>14, <1>15, <1>16, <1>17, <1>18, <1>19, <1>20, <1>21, <1>22, <1>23, <1>24, <1>25, <1>26, <1>27, <1>28, <1>29, <1>30 DEF Next, StarterNext, CallerNext, WorkerNext, WatchdogNext

-----------------------------------------------------------------------------
(* The inductive step. *)

(* Waking the threads that sleep on the condition variable disturbs nothing: only an awaited countdown and waiting  *)
(* watchdogs move.                                                                                                 *)
LEMMA NotifyKeepsCore ==
  ASSUME IInv, NotifyAll, UNCHANGED <<machineVars, workerVars, fileVars>>
  PROVE  Core'
<1> USE DEF IInv, Core, TypeOK, NotifyAll, Before, Holding, machineVars, workerVars, fileVars
<1>1. \A s \in Starters :
        starter'[s] # starter[s] => starter[s] = "asleep" /\ starter'[s] = "countdown"
  OBVIOUS
<1>2. StarterInv'
  BY <1>1 DEF StarterInv
<1>3. FreshInv'
  BY DEF FreshInv
<1>4. BirthInv'
  BY <1>1 DEF BirthInv, Current
<1>5. WorkerInv'
  BY DEF WorkerInv, Running, Current
<1>6. WatchdogInv'
  BY DEF WatchdogInv
<1>7. MachineInv'
  BY DEF MachineInv
<1>8. QED BY <1>2, <1>3, <1>4, <1>5, <1>6, <1>7

LEMMA CoreStep == ASSUME IInv, TypeOK', [Next]_vars PROVE Core'
<1> USE DEF IInv, Core, StarterInv, FreshInv, BirthInv, WorkerInv, WatchdogInv, MachineInv, TypeOK, None,
        Before, Holding, Current, Running, Starts,
        machineVars, controlVars, starterVars, callerVars, workerVars, watchdogVars, fileVars
<1>1. ASSUME NEW s \in Starters, StartBegin(s) PROVE Core'
  BY <1>1 DEF StartBegin, BecomeStarting, Reset, IsRecording
<1>2. ASSUME NEW s \in Starters, StartFolderFails(s) PROVE Core'
  BY <1>2 DEF StartFolderFails, Return, AbortStart, BecomeIdle, Reset
<1>3. ASSUME NEW s \in Starters, StartFolder(s) PROVE Core'
  BY <1>3 DEF StartFolder, Step
<1>4. ASSUME NEW s \in Starters, CountdownFinishes(s) PROVE Core'
  <2>1. CASE Step(s, "countdown", "place")
    BY <1>4, <2>1 DEF CountdownFinishes, Step
  <2>2. CASE Step(s, "asleep", "place")
    BY <1>4, <2>2 DEF CountdownFinishes, Step
  <2>3. QED BY <1>4, <2>1, <2>2 DEF CountdownFinishes
<1>5. ASSUME NEW s \in Starters, CountdownLook(s) PROVE Core'
  <2>1. PICK to \in {"place", "asleep"} : Step(s, "countdown", to)
    BY <1>5 DEF CountdownLook
  <2>2. QED BY <1>5, <2>1 DEF CountdownLook, Step
<1>6. ASSUME NEW s \in Starters, StartPlace(s) PROVE Core'
  BY <1>6 DEF StartPlace, Step
<1>7. ASSUME NEW s \in Starters, StartActivate(s) PROVE Core'
  BY <1>7 DEF StartActivate, Step, BecomeActive, Reset
<1>8. ASSUME NEW s \in Starters, StartNone(s) PROVE Core'
  BY <1>8 DEF StartNone, Step, AbortStart, BecomeIdle, Reset
<1>9. ASSUME NEW s \in Starters, StartDrop(s) PROVE Core'
  BY <1>9 DEF StartDrop, Return, AbortStart, BecomeIdle, Reset
<1>10. ASSUME NEW s \in Starters, StartCount(s) PROVE Core'
  BY <1>10 DEF StartCount, Step
<1>11. ASSUME NEW s \in Starters, StartSpawn(s) PROVE Core'
  BY <1>11 DEF StartSpawn, Step
<1>12. ASSUME NEW s \in Starters, StartSpawnFails(s) PROVE Core'
  BY <1>12 DEF StartSpawnFails, Step
<1>13. ASSUME NEW s \in Starters, StartSettle(s) PROVE Core'
  BY <1>13 DEF StartSettle, Return, Settle, BecomeIdle, Reset
<1>14. ASSUME NEW s \in Starters, StartWatchdog(s) PROVE Core'
  BY <1>14 DEF StartWatchdog, Return
<1>15. ASSUME NEW c \in Callers, NEW op \in Calls, CallerRequest(c, op) PROVE Core'
  BY <1>15 DEF CallerRequest, Request
<1>16. ASSUME NEW c \in Callers, NEW op \in Calls, CallerCallsOff(c, op) PROVE Core'
  BY <1>16 DEF CallerCallsOff, CallStartOff
<1>17. ASSUME NEW c \in Callers, CallerNotify(c) PROVE Core'
  BY <1>17, NotifyKeepsCore DEF CallerNotify
<1>18. ASSUME NEW c \in Callers, CallerFetch(c) PROVE Core'
  <2>1. CASE call[c] \in {"stop", "cancel"}
    BY <1>18, <2>1, NotifyKeepsCore DEF CallerFetch
  <2>2. CASE call[c] \notin {"stop", "cancel"}
    BY <1>18, <2>2 DEF CallerFetch
  <2>3. QED BY <2>1, <2>2
<1>19. ASSUME NEW c \in Callers, CallerApply(c) PROVE Core'
  BY <1>19 DEF CallerApply
<1>20. ASSUME NEW n \in Starts, WorkerEnds(n) PROVE Core'
  BY <1>20 DEF WorkerEnds
<1>21. ASSUME NEW n \in Starts, WorkerSettle(n) PROVE Core'
  BY <1>21 DEF WorkerSettle, Settle, Current, BecomeIdle, Reset
<1>22. ASSUME NEW n \in Starts, WorkerReport(n) PROVE Core'
  BY <1>22 DEF WorkerReport, NotifyAll
<1>23. ASSUME NEW n \in Starts, WorkerLeaves(n) PROVE Core'
  BY <1>23 DEF WorkerLeaves
<1>24. ASSUME NEW n \in Starts, WatchdogSleeps(n) PROVE Core'
  BY <1>24 DEF WatchdogSleeps
<1>25. ASSUME NEW n \in Starts, WatchdogEnds(n) PROVE Core'
  BY <1>25 DEF WatchdogEnds
<1>26. ASSUME NEW n \in Starts, WatchdogExpires(n) PROVE Core'
  BY <1>26 DEF WatchdogExpires, Current, BecomeIdle, Reset
<1>27. ASSUME NEW n \in Starts, WatchdogNotify(n) PROVE Core'
  BY <1>27 DEF WatchdogNotify
<1>28. ASSUME NEW n \in Starts, WatchdogWakes(n) PROVE Core'
  BY <1>28 DEF WatchdogWakes
<1>29. ASSUME Tick PROVE Core'
  BY <1>29 DEF Tick
<1>30. CASE UNCHANGED vars
  BY <1>30 DEF vars
<1>31. QED
  BY <1>1, <1>2, <1>3, <1>4, <1>5, <1>6, <1>7, <1>8, <1>9, <1>10, <1>11, <1>12, <1>13, <1>14, <1>15, <1>16, <1>17, <1>18, <1>19, <1>20, <1>21, <1>22, <1>23, <1>24, <1>25, <1>26, <1>27, <1>28, <1>29, <1>30 DEF Next, StarterNext, CallerNext, WorkerNext, WatchdogNext

(* Every variable keeps its type: the recorder of recorder.rs and session.rs has no state outside these sets, and *)
(* whatever the threads hold satisfies the invariant the other theorems rest on.                                  *)
THEOREM Invariance == Spec => []IInv
<1>1. Init => IInv
  <2> SUFFICES ASSUME Init PROVE IInv
    OBVIOUS
  <2>1. TypeOK
    <3>1. starter \in [Starters -> StarterPCs] /\ attempt \in [Starters -> Starts \cup {0}]
      BY DEF Init, StarterPCs
    <3>2. /\ caller \in [Callers -> {"out", "notify", "fetch", "apply"}]
          /\ call \in [Callers -> Ops]
          /\ callFor \in [Callers -> Starts \cup {0}]
          /\ callAt \in [Callers -> Starts \cup {0}]
      BY DEF Init, Ops
    <3>3. worker \in [Starts -> WorkerPCs] /\ outcome \in [Starts -> Outcomes]
      BY DEF Init, WorkerPCs, Outcomes
    <3>4. watchdog \in [Starts -> WatchdogPCs] /\ sleep \in [Starts -> Nat \cup {None}]
      BY DEF Init, WatchdogPCs
    <3>5. delivered \in [Starts -> Nat]
      BY DEF Init
    <3>6. starts \in 0..MaxStarts /\ deadline \in Nat \cup {None}
      BY RecorderAssumption DEF Init
    <3>7. QED
      BY <3>1, <3>2, <3>3, <3>4, <3>5, <3>6 DEF Init, TypeOK
  <2>2. StarterInv /\ FreshInv /\ WatchdogInv /\ MachineInv
    BY DEF Init, StarterInv, FreshInv, WatchdogInv, MachineInv
  <2>3. BirthInv
    BY DEF Init, BirthInv, Before, Holding
  <2>4. WorkerInv
    BY DEF Init, WorkerInv, Running
  <2>5. QED BY <2>1, <2>2, <2>3, <2>4 DEF IInv, Core
<1>2. IInv /\ [Next]_vars => IInv'
  <2> SUFFICES ASSUME IInv, [Next]_vars PROVE IInv'
    OBVIOUS
  <2>1. TypeOK'
    BY TypeStep DEF IInv, Core
  <2>2. Core'
    BY <2>1, CoreStep
  <2>3. QED BY <2>1, <2>2 DEF IInv
<1>3. QED
  BY <1>1, <1>2, PTL DEF Spec

(* Every variable keeps its type. *)
THEOREM TypeCorrect == Spec => []TypeOK
<1>1. IInv => TypeOK
  BY DEF IInv
<1>2. QED
  BY <1>1, Invariance, PTL

(* An installer that finds neither a recording nor an unfinished file (update_blocked, update.rs) finds no session *)
(* thread that still writes and none about to be started.                                                          *)
THEOREM QuietIsDone == Spec => []QuietMeansDone
<1>1. IInv => QuietMeansDone
  BY DEF IInv, Core, QuietMeansDone, BirthInv, WorkerInv, Holding, Before, IsRecording, HasUnfinishedFile, Current
<1>2. QED
  BY <1>1, Invariance, PTL

(* The listener hears of a finished file once, when the recorder has let go of its session (recorder.rs:182-193). *)
THEOREM DoneOnce == Spec => []DoneOnceAndIdle
<1>1. IInv => DoneOnceAndIdle
  BY DEF IInv, Core, DoneOnceAndIdle, WorkerInv
<1>2. QED
  BY <1>1, Invariance, PTL

-----------------------------------------------------------------------------
(* The recorder implements RecorderPort. *)

(* What the port sees changes only with the machine, the workers and the files. *)
LEMMA StutterStep == ASSUME phase' = phase, session' = session, delivered' = delivered,
                            \A n \in Starts : Running(n)' <=> Running(n),
                            \A n \in Starts : (worker'[n] # "none") <=> (worker[n] # "none")
                     PROVE  UNCHANGED Port!portVars
<1>1. {n \in Starts : Running(n)}' = {n \in Starts : Running(n)}
  BY DEF Starts
<1>2. {n \in Starts : worker[n] # "none"}' = {n \in Starts : worker[n] # "none"}
  BY DEF Starts
<1>3. QED BY <1>1, <1>2 DEF Port!portVars

LEMMA EndStep == ASSUME IInv, phase = "active", BecomeIdle, delivered' = delivered,
                        \A n \in Starts : Running(n)' <=> Running(n),
                        \A n \in Starts : (worker'[n] # "none") <=> (worker[n] # "none")
                 PROVE  Port!End
<1>1. {n \in Starts : Running(n)}' = {n \in Starts : Running(n)}
  BY DEF Starts
<1>2. {n \in Starts : worker[n] # "none"}' = {n \in Starts : worker[n] # "none"}
  BY DEF Starts
<1>3. QED BY <1>1, <1>2 DEF Port!End, BecomeIdle

LEMMA RefinementStep == ASSUME IInv, [Next]_vars PROVE [Port!PortNext]_(Port!portVars)
<1> DEFINE Implemented == [Port!PortNext]_(Port!portVars)
<1> USE DEF IInv, TypeOK, Starts, machineVars, starterVars, workerVars, fileVars
<1>1. ASSUME NEW s \in Starters, StartBegin(s) PROVE Implemented
  <2>1. Port!Begin
    BY <1>1 DEF StartBegin, BecomeStarting, IsRecording, Port!Begin, Running, Core, MachineInv
  <2>2. QED BY <2>1 DEF Port!PortNext
<1>2. ASSUME NEW s \in Starters, StartFolderFails(s) PROVE Implemented
  <2>1. CASE phase = "starting"
    <3>1. Port!CallOff
      BY <1>2, <2>1 DEF StartFolderFails, AbortStart, BecomeIdle, Port!CallOff, Running, Core, MachineInv
    <3>2. QED BY <3>1 DEF Port!PortNext
  <2>2. CASE phase # "starting"
    BY <1>2, <2>2, StutterStep DEF StartFolderFails, AbortStart, Running
  <2>3. QED BY <2>1, <2>2
<1>3. ASSUME NEW s \in Starters, StartFolder(s) PROVE Implemented
  BY <1>3, StutterStep DEF StartFolder, Step, Running
<1>4. ASSUME NEW s \in Starters, CountdownFinishes(s) PROVE Implemented
  BY <1>4, StutterStep DEF CountdownFinishes, Step, Running
<1>5. ASSUME NEW s \in Starters, CountdownLook(s) PROVE Implemented
  BY <1>5, StutterStep DEF CountdownLook, Step, Running
<1>6. ASSUME NEW s \in Starters, StartPlace(s) PROVE Implemented
  BY <1>6, StutterStep DEF StartPlace, Step, Running
<1>7. ASSUME NEW s \in Starters, StartActivate(s) PROVE Implemented
  <2>1. attempt[s] \in Starts /\ worker[attempt[s]] = "none"
    BY <1>7 DEF StartActivate, Step, Core, StarterInv, BirthInv, Before
  <2>2. Port!Activate(attempt[s])
    BY <1>7, <2>1 DEF StartActivate, BecomeActive, Port!Activate, Running
  <2>3. QED BY <2>1, <2>2 DEF Port!PortNext, Port!Starts
<1>8. ASSUME NEW s \in Starters, StartNone(s) PROVE Implemented
  <2>1. CASE phase = "starting"
    <3>1. Port!CallOff
      BY <1>8, <2>1 DEF StartNone, AbortStart, BecomeIdle, Port!CallOff, Running, Core, MachineInv
    <3>2. QED BY <3>1 DEF Port!PortNext
  <2>2. CASE phase # "starting"
    BY <1>8, <2>2, StutterStep DEF StartNone, AbortStart, Running
  <2>3. QED BY <2>1, <2>2
<1>9. ASSUME NEW s \in Starters, StartDrop(s) PROVE Implemented
  <2>1. CASE phase = "starting"
    <3>1. Port!CallOff
      BY <1>9, <2>1 DEF StartDrop, AbortStart, BecomeIdle, Port!CallOff, Running, Core, MachineInv
    <3>2. QED BY <3>1 DEF Port!PortNext
  <2>2. CASE phase # "starting"
    BY <1>9, <2>2, StutterStep DEF StartDrop, AbortStart, Running
  <2>3. QED BY <2>1, <2>2
<1>10. ASSUME NEW s \in Starters, StartCount(s) PROVE Implemented
  BY <1>10, StutterStep DEF StartCount, Step, Running
<1>11. ASSUME NEW s \in Starters, StartSpawn(s) PROVE Implemented
  <2>1. PICK m \in Starts : m = attempt[s] /\ worker[m] = "none" /\ Current(m)
    BY <1>11 DEF StartSpawn, Step, Core, StarterInv, BirthInv, Holding
  <2>2. {n \in Starts : Running(n)}' = {n \in Starts : Running(n)} \cup {m}
    BY <1>11, <2>1 DEF StartSpawn, Running
  <2>3. {n \in Starts : worker[n] # "none"}' = {n \in Starts : worker[n] # "none"} \cup {m}
    BY <1>11, <2>1 DEF StartSpawn
  <2>4. Port!Employ(m)
    BY <1>11, <2>1, <2>2, <2>3 DEF StartSpawn, Port!Employ, Current
  <2>5. QED BY <2>4 DEF Port!PortNext, Port!Starts
<1>12. ASSUME NEW s \in Starters, StartSpawnFails(s) PROVE Implemented
  BY <1>12, StutterStep DEF StartSpawnFails, Step, Running
<1>13. ASSUME NEW s \in Starters, StartSettle(s) PROVE Implemented
  <2>1. CASE Current(attempt[s])
    <3>1. Port!End
      BY <1>13, <2>1, EndStep DEF StartSettle, Settle, Current, Running
    <3>2. QED BY <3>1 DEF Port!PortNext
  <2>2. CASE ~Current(attempt[s])
    <3>1. UNCHANGED machineVars
      BY <1>13, <2>2 DEF StartSettle, Settle
    <3>2. QED BY <1>13, <3>1, StutterStep DEF StartSettle, Running
  <2>3. QED BY <2>1, <2>2
<1>14. ASSUME NEW s \in Starters, StartWatchdog(s) PROVE Implemented
  BY <1>14, StutterStep DEF StartWatchdog, Return, Running
<1>15. ASSUME NEW c \in Callers, NEW op \in Calls, CallerRequest(c, op) PROVE Implemented
  BY <1>15, StutterStep DEF CallerRequest, Request, Running
<1>16. ASSUME NEW c \in Callers, NEW op \in Calls, CallerCallsOff(c, op) PROVE Implemented
  BY <1>16, StutterStep DEF CallerCallsOff, CallStartOff, Running
<1>17. ASSUME NEW c \in Callers, CallerNotify(c) PROVE Implemented
  BY <1>17, StutterStep DEF CallerNotify, NotifyAll, Running
<1>18. ASSUME NEW c \in Callers, CallerFetch(c) PROVE Implemented
  BY <1>18, StutterStep DEF CallerFetch, NotifyAll, Running
<1>19. ASSUME NEW c \in Callers, CallerApply(c) PROVE Implemented
  BY <1>19, StutterStep DEF CallerApply, Running
<1>20. ASSUME NEW n \in Starts, WorkerEnds(n) PROVE Implemented
  <2>1. QED
    BY <1>20, StutterStep DEF WorkerEnds, Running
<1>21. ASSUME NEW n \in Starts, WorkerSettle(n) PROVE Implemented
  <2>1. CASE Current(n)
    <3>1. Port!End
      BY <1>21, <2>1, EndStep DEF WorkerSettle, Settle, Current, Running
    <3>2. QED BY <3>1 DEF Port!PortNext
  <2>2. CASE ~Current(n)
    <3>1. UNCHANGED machineVars
      BY <1>21, <2>2 DEF WorkerSettle, Settle
    <3>2. QED BY <1>21, <3>1, StutterStep DEF WorkerSettle, Running
  <2>3. QED BY <2>1, <2>2
<1>22. ASSUME NEW n \in Starts, WorkerReport(n) PROVE Implemented
  <2>1. CASE outcome[n] = "done"
    <3>1. delivered[n] = 0 /\ session # n
      <4>1. delivered[n] # 1 /\ delivered[n] <= 1 /\ ~Current(n)
        BY <1>22 DEF WorkerReport, Core, WorkerInv
      <4>2. session # n
        BY <4>1 DEF Core, MachineInv, Current
      <4>3. QED BY <4>1, <4>2
    <3>2. delivered' = [delivered EXCEPT ![n] = 1]
      BY <1>22, <2>1, <3>1 DEF WorkerReport
    <3>3. {m \in Starts : Running(m)}' = {m \in Starts : Running(m)}
      BY <1>22 DEF WorkerReport, Running
    <3>4. {m \in Starts : worker[m] # "none"}' = {m \in Starts : worker[m] # "none"}
      BY <1>22 DEF WorkerReport
    <3>5. Port!Deliver(n)
      BY <1>22, <3>1, <3>2, <3>3, <3>4 DEF WorkerReport, Running, Port!Deliver
    <3>6. QED BY <3>5 DEF Port!PortNext, Port!Starts
  <2>2. CASE outcome[n] # "done"
    <3>1. delivered' = delivered
      BY <1>22, <2>2 DEF WorkerReport
    <3>2. /\ \A m \in Starts : Running(m)' <=> Running(m)
          /\ \A m \in Starts : (worker'[m] # "none") <=> (worker[m] # "none")
      BY <1>22 DEF WorkerReport, Running
    <3>3. QED BY <1>22, <3>1, <3>2, StutterStep DEF WorkerReport
  <2>3. QED BY <2>1, <2>2
<1>23. ASSUME NEW n \in Starts, WorkerLeaves(n) PROVE Implemented
  <2>1. session # n
    BY <1>23 DEF WorkerLeaves, Core, WorkerInv, MachineInv, Current
  <2>2. {m \in Starts : Running(m)}' = {m \in Starts : Running(m)} \ {n}
    BY <1>23 DEF WorkerLeaves, Running
  <2>3. {m \in Starts : worker[m] # "none"}' = {m \in Starts : worker[m] # "none"}
    BY <1>23 DEF WorkerLeaves
  <2>4. Port!Leave(n)
    BY <1>23, <2>1, <2>2, <2>3 DEF WorkerLeaves, Running, Port!Leave
  <2>5. QED BY <2>4 DEF Port!PortNext, Port!Starts
<1>24. ASSUME NEW n \in Starts, WatchdogSleeps(n) PROVE Implemented
  BY <1>24, StutterStep DEF WatchdogSleeps, Running
<1>25. ASSUME NEW n \in Starts, WatchdogEnds(n) PROVE Implemented
  BY <1>25, StutterStep DEF WatchdogEnds, Running
<1>26. ASSUME NEW n \in Starts, WatchdogExpires(n) PROVE Implemented
  <2>1. Port!End
    BY <1>26, EndStep DEF WatchdogExpires, Current, Running
  <2>2. QED BY <2>1 DEF Port!PortNext
<1>27. ASSUME NEW n \in Starts, WatchdogNotify(n) PROVE Implemented
  BY <1>27, StutterStep DEF WatchdogNotify, Running
<1>28. ASSUME NEW n \in Starts, WatchdogWakes(n) PROVE Implemented
  BY <1>28, StutterStep DEF WatchdogWakes, Running
<1>29. ASSUME Tick PROVE Implemented
  BY <1>29, StutterStep DEF Tick, Running
<1>30. CASE UNCHANGED vars
  BY <1>30, StutterStep DEF vars, Running
<1>31. QED
  BY <1>1, <1>2, <1>3, <1>4, <1>5, <1>6, <1>7, <1>8, <1>9, <1>10, <1>11, <1>12, <1>13, <1>14, <1>15, <1>16, <1>17, <1>18, <1>19, <1>20, <1>21, <1>22, <1>23, <1>24, <1>25, <1>26, <1>27, <1>28, <1>29, <1>30 DEF Next, StarterNext, CallerNext, WorkerNext, WatchdogNext

(* The threads and locks of recorder.rs keep what the trait RecorderControl (ports.rs:386-403) promises: one start or *)
(* session at a time, a worker that outlives its session, a file delivered at most once and by a worker still there.  *)
THEOREM Refinement == Spec => ImplementsPort
<1>1. Init => Port!PortInit
  <2> SUFFICES ASSUME Init PROVE Port!PortInit
    OBVIOUS
  <2>1. {n \in Starts : Running(n)} = {} /\ {n \in Starts : worker[n] # "none"} = {}
    BY DEF Init, Running
  <2>2. QED BY <2>1 DEF Init, Port!PortInit, Starts, Port!Starts
<1>2. IInv /\ [Next]_vars => [Port!PortNext]_(Port!portVars)
  BY RefinementStep
<1>3. QED
  BY <1>1, <1>2, Invariance, PTL DEF Spec, ImplementsPort, Port!PortSpec

-----------------------------------------------------------------------------
(* One start at a time.                                                     *)

LEMMA SerialStep == ASSUME IInv, SerialInv, SerialStarts, [Next]_vars PROVE SerialInv'
<1> USE DEF IInv, TypeOK, SerialInv, Starts, machineVars, controlVars, starterVars, callerVars, workerVars, watchdogVars
<1>1. ASSUME NEW s \in Starters, StartBegin(s) PROVE SerialInv'
  BY <1>1 DEF StartBegin, BecomeStarting, Reset, IsRecording
<1>2. ASSUME NEW s \in Starters, StartFolderFails(s) PROVE SerialInv'
  BY <1>2 DEF StartFolderFails, Return, AbortStart, BecomeIdle, Reset
<1>3. ASSUME NEW s \in Starters, StartFolder(s) PROVE SerialInv'
  <2>1. CASE Step(s, "folder", "place")
    BY <1>3, <2>1 DEF StartFolder, Step
  <2>2. CASE Step(s, "folder", "countdown")
    BY <1>3, <2>2 DEF StartFolder, Step
  <2>3. QED BY <1>3, <2>1, <2>2 DEF StartFolder
<1>4. ASSUME NEW s \in Starters, CountdownFinishes(s) PROVE SerialInv'
  <2>1. CASE Step(s, "countdown", "place")
    BY <1>4, <2>1 DEF CountdownFinishes, Step
  <2>2. CASE Step(s, "asleep", "place")
    BY <1>4, <2>2 DEF CountdownFinishes, Step
  <2>3. QED BY <1>4, <2>1, <2>2 DEF CountdownFinishes
<1>5. ASSUME NEW s \in Starters, CountdownLook(s) PROVE SerialInv'
  <2>1. PICK to \in {"place", "asleep"} : Step(s, "countdown", to)
    BY <1>5 DEF CountdownLook
  <2>2. QED BY <1>5, <2>1 DEF CountdownLook, Step
<1>6. ASSUME NEW s \in Starters, StartPlace(s) PROVE SerialInv'
  BY <1>6 DEF StartPlace, Step
<1>7. ASSUME NEW s \in Starters, StartActivate(s) PROVE SerialInv'
  BY <1>7 DEF StartActivate, Step, BecomeActive, Reset
<1>8. ASSUME NEW s \in Starters, StartNone(s) PROVE SerialInv'
  BY <1>8 DEF StartNone, Step, AbortStart, BecomeIdle, Reset
<1>9. ASSUME NEW s \in Starters, StartDrop(s) PROVE SerialInv'
  BY <1>9 DEF StartDrop, Return, AbortStart, BecomeIdle, Reset
<1>10. ASSUME NEW s \in Starters, StartCount(s) PROVE SerialInv'
  BY <1>10 DEF StartCount, Step
<1>11. ASSUME NEW s \in Starters, StartSpawn(s) PROVE SerialInv'
  BY <1>11 DEF StartSpawn, Step
<1>12. ASSUME NEW s \in Starters, StartSpawnFails(s) PROVE SerialInv'
  BY <1>12 DEF StartSpawnFails, Step
<1>13. ASSUME NEW s \in Starters, StartSettle(s) PROVE SerialInv'
  BY <1>13 DEF StartSettle, Return, Settle, BecomeIdle, Reset
<1>14. ASSUME NEW s \in Starters, StartWatchdog(s) PROVE SerialInv'
  BY <1>14 DEF StartWatchdog, Return
<1>15. ASSUME NEW c \in Callers, NEW op \in Calls, CallerRequest(c, op) PROVE SerialInv'
  BY <1>15 DEF CallerRequest, Request
<1>16. ASSUME NEW c \in Callers, NEW op \in Calls, CallerCallsOff(c, op) PROVE SerialInv'
  BY <1>16 DEF CallerCallsOff, CallStartOff
<1>17. ASSUME NEW c \in Callers, CallerNotify(c) PROVE SerialInv'
  BY <1>17 DEF CallerNotify, NotifyAll
<1>18. ASSUME NEW c \in Callers, CallerFetch(c) PROVE SerialInv'
  BY <1>18 DEF CallerFetch, NotifyAll
<1>19. ASSUME NEW c \in Callers, CallerApply(c) PROVE SerialInv'
  BY <1>19 DEF CallerApply
<1>20. ASSUME NEW n \in Starts, WorkerEnds(n) PROVE SerialInv'
  BY <1>20 DEF WorkerEnds
<1>21. ASSUME NEW n \in Starts, WorkerSettle(n) PROVE SerialInv'
  BY <1>21 DEF WorkerSettle, Settle, Current, BecomeIdle, Reset
<1>22. ASSUME NEW n \in Starts, WorkerReport(n) PROVE SerialInv'
  BY <1>22 DEF WorkerReport, NotifyAll
<1>23. ASSUME NEW n \in Starts, WorkerLeaves(n) PROVE SerialInv'
  BY <1>23 DEF WorkerLeaves
<1>24. ASSUME NEW n \in Starts, WatchdogSleeps(n) PROVE SerialInv'
  BY <1>24 DEF WatchdogSleeps
<1>25. ASSUME NEW n \in Starts, WatchdogEnds(n) PROVE SerialInv'
  BY <1>25 DEF WatchdogEnds
<1>26. ASSUME NEW n \in Starts, WatchdogExpires(n) PROVE SerialInv'
  BY <1>26 DEF WatchdogExpires, Current, BecomeIdle, Reset
<1>27. ASSUME NEW n \in Starts, WatchdogNotify(n) PROVE SerialInv'
  BY <1>27 DEF WatchdogNotify
<1>28. ASSUME NEW n \in Starts, WatchdogWakes(n) PROVE SerialInv'
  BY <1>28 DEF WatchdogWakes
<1>29. ASSUME Tick PROVE SerialInv'
  BY <1>29 DEF Tick
<1>30. CASE UNCHANGED vars
  BY <1>30 DEF vars
<1>31. QED
  BY <1>1, <1>2, <1>3, <1>4, <1>5, <1>6, <1>7, <1>8, <1>9, <1>10, <1>11, <1>12, <1>13, <1>14, <1>15, <1>16, <1>17, <1>18, <1>19, <1>20, <1>21, <1>22, <1>23, <1>24, <1>25, <1>26, <1>27, <1>28, <1>29, <1>30 DEF Next, StarterNext, CallerNext, WorkerNext, WatchdogNext

(* A request keeps on its way through every step that changes neither the machine, nor the slot, nor the callers. *)
LEMMA RequestsFrame == ASSUME RequestsArrive, UNCHANGED <<phase, session, stopping, canceled>>,
                              UNCHANGED <<controlVars, callerVars>>
                       PROVE  RequestsArrive'
BY DEF RequestsArrive, OnItsWay, controlVars, callerVars

(* Nothing is asked of a session that has just begun, or of none. *)
LEMMA RequestsFresh == ASSUME Reset PROVE RequestsArrive'
BY DEF Reset, RequestsArrive

LEMMA RequestsStep == ASSUME IInv, SerialInv, RequestsArrive, [Next]_vars PROVE RequestsArrive'
<1> USE DEF machineVars, controlVars, starterVars, callerVars, workerVars, watchdogVars
<1>1. ASSUME NEW s \in Starters, StartBegin(s) PROVE RequestsArrive'
  BY <1>1, RequestsFresh DEF StartBegin, BecomeStarting
<1>2. ASSUME NEW s \in Starters, StartFolderFails(s) PROVE RequestsArrive'
  <2>1. CASE BecomeIdle
    BY <2>1, RequestsFresh DEF BecomeIdle
  <2>2. CASE UNCHANGED machineVars
    BY <1>2, <2>2, RequestsFrame DEF StartFolderFails
  <2>3. QED BY <1>2, <2>1, <2>2 DEF StartFolderFails, AbortStart
<1>3. ASSUME NEW s \in Starters, StartFolder(s) PROVE RequestsArrive'
  BY <1>3, RequestsFrame DEF StartFolder
<1>4. ASSUME NEW s \in Starters, CountdownFinishes(s) PROVE RequestsArrive'
  BY <1>4, RequestsFrame DEF CountdownFinishes
<1>5. ASSUME NEW s \in Starters, CountdownLook(s) PROVE RequestsArrive'
  BY <1>5, RequestsFrame DEF CountdownLook
<1>6. ASSUME NEW s \in Starters, StartPlace(s) PROVE RequestsArrive'
  BY <1>6 DEF StartPlace, Step, SerialInv, RequestsArrive
<1>7. ASSUME NEW s \in Starters, StartActivate(s) PROVE RequestsArrive'
  BY <1>7, RequestsFresh DEF StartActivate, BecomeActive
<1>8. ASSUME NEW s \in Starters, StartNone(s) PROVE RequestsArrive'
  <2>1. CASE BecomeIdle
    BY <2>1, RequestsFresh DEF BecomeIdle
  <2>2. CASE UNCHANGED machineVars
    BY <1>8, <2>2, RequestsFrame DEF StartNone
  <2>3. QED BY <1>8, <2>1, <2>2 DEF StartNone, AbortStart
<1>9. ASSUME NEW s \in Starters, StartDrop(s) PROVE RequestsArrive'
  <2>1. CASE BecomeIdle
    BY <2>1, RequestsFresh DEF BecomeIdle
  <2>2. CASE UNCHANGED machineVars
    BY <1>9, <2>2, RequestsFrame DEF StartDrop
  <2>3. QED BY <1>9, <2>1, <2>2 DEF StartDrop, AbortStart
<1>10. ASSUME NEW s \in Starters, StartCount(s) PROVE RequestsArrive'
  BY <1>10, RequestsFrame DEF StartCount
<1>11. ASSUME NEW s \in Starters, StartSpawn(s) PROVE RequestsArrive'
  BY <1>11, RequestsFrame DEF StartSpawn
<1>12. ASSUME NEW s \in Starters, StartSpawnFails(s) PROVE RequestsArrive'
  BY <1>12, RequestsFrame DEF StartSpawnFails
<1>13. ASSUME NEW s \in Starters, StartSettle(s) PROVE RequestsArrive'
  <2>1. CASE BecomeIdle
    BY <2>1, RequestsFresh DEF BecomeIdle
  <2>2. CASE UNCHANGED machineVars
    BY <1>13, <2>2, RequestsFrame DEF StartSettle
  <2>3. QED BY <1>13, <2>1, <2>2 DEF StartSettle, Settle
<1>14. ASSUME NEW s \in Starters, StartWatchdog(s) PROVE RequestsArrive'
  BY <1>14, RequestsFrame DEF StartWatchdog
<1>15. ASSUME NEW c \in Callers, NEW op \in Calls, CallerRequest(c, op) PROVE RequestsArrive'
  <2>1. ASSUME phase' = "active", stopping' PROVE session' \in stopSet' \/ \E d \in Callers : OnItsWay(d, "stop")'
    BY <1>15, <2>1 DEF CallerRequest, Request, Granted, SerialInv, RequestsArrive, OnItsWay, IInv, TypeOK
  <2>2. ASSUME phase' = "active", canceled' PROVE session' \in cancelSet' \/ \E d \in Callers : OnItsWay(d, "cancel")'
    BY <1>15, <2>2 DEF CallerRequest, Request, Granted, SerialInv, RequestsArrive, OnItsWay, IInv, TypeOK
  <2>3. QED BY <2>1, <2>2 DEF RequestsArrive
<1>16. ASSUME NEW c \in Callers, NEW op \in Calls, CallerCallsOff(c, op) PROVE RequestsArrive'
  BY <1>16 DEF CallerCallsOff, CallStartOff, RequestsArrive
<1>17. ASSUME NEW c \in Callers, CallerNotify(c) PROVE RequestsArrive'
  BY <1>17 DEF CallerNotify, RequestsArrive, OnItsWay, IInv, TypeOK
<1>18. ASSUME NEW c \in Callers, CallerFetch(c) PROVE RequestsArrive'
  <2>1. ASSUME phase' = "active", stopping' PROVE session' \in stopSet' \/ \E d \in Callers : OnItsWay(d, "stop")'
    BY <1>18, <2>1 DEF CallerFetch, RequestsArrive, OnItsWay, IInv, TypeOK
  <2>2. ASSUME phase' = "active", canceled' PROVE session' \in cancelSet' \/ \E d \in Callers : OnItsWay(d, "cancel")'
    BY <1>18, <2>2 DEF CallerFetch, RequestsArrive, OnItsWay, IInv, TypeOK
  <2>3. QED BY <2>1, <2>2 DEF RequestsArrive
<1>19. ASSUME NEW c \in Callers, CallerApply(c) PROVE RequestsArrive'
  <2>1. ASSUME phase' = "active", stopping' PROVE session' \in stopSet' \/ \E d \in Callers : OnItsWay(d, "stop")'
    BY <1>19, <2>1 DEF CallerApply, RequestsArrive, OnItsWay, IInv, TypeOK
  <2>2. ASSUME phase' = "active", canceled' PROVE session' \in cancelSet' \/ \E d \in Callers : OnItsWay(d, "cancel")'
    BY <1>19, <2>2 DEF CallerApply, RequestsArrive, OnItsWay, IInv, TypeOK
  <2>3. QED BY <2>1, <2>2 DEF RequestsArrive
<1>20. ASSUME NEW n \in Starts, WorkerEnds(n) PROVE RequestsArrive'
  BY <1>20, RequestsFrame DEF WorkerEnds
<1>21. ASSUME NEW n \in Starts, WorkerSettle(n) PROVE RequestsArrive'
  <2>1. CASE BecomeIdle
    BY <2>1, RequestsFresh DEF BecomeIdle
  <2>2. CASE UNCHANGED machineVars
    BY <1>21, <2>2, RequestsFrame DEF WorkerSettle
  <2>3. QED BY <1>21, <2>1, <2>2 DEF WorkerSettle, Settle
<1>22. ASSUME NEW n \in Starts, WorkerReport(n) PROVE RequestsArrive'
  BY <1>22, RequestsFrame DEF WorkerReport
<1>23. ASSUME NEW n \in Starts, WorkerLeaves(n) PROVE RequestsArrive'
  BY <1>23, RequestsFrame DEF WorkerLeaves
<1>24. ASSUME NEW n \in Starts, WatchdogSleeps(n) PROVE RequestsArrive'
  BY <1>24, RequestsFrame DEF WatchdogSleeps
<1>25. ASSUME NEW n \in Starts, WatchdogEnds(n) PROVE RequestsArrive'
  BY <1>25, RequestsFrame DEF WatchdogEnds
<1>26. ASSUME NEW n \in Starts, WatchdogExpires(n) PROVE RequestsArrive'
  BY <1>26, RequestsFresh DEF WatchdogExpires, BecomeIdle
<1>27. ASSUME NEW n \in Starts, WatchdogNotify(n) PROVE RequestsArrive'
  BY <1>27, RequestsFrame DEF WatchdogNotify
<1>28. ASSUME NEW n \in Starts, WatchdogWakes(n) PROVE RequestsArrive'
  BY <1>28, RequestsFrame DEF WatchdogWakes
<1>29. ASSUME Tick PROVE RequestsArrive'
  BY <1>29, RequestsFrame DEF Tick
<1>30. CASE UNCHANGED vars
  BY <1>30, RequestsFrame DEF vars
<1>31. QED
  BY <1>1, <1>2, <1>3, <1>4, <1>5, <1>6, <1>7, <1>8, <1>9, <1>10, <1>11, <1>12, <1>13, <1>14, <1>15, <1>16, <1>17, <1>18, <1>19, <1>20, <1>21, <1>22, <1>23, <1>24, <1>25, <1>26, <1>27, <1>28, <1>29, <1>30 DEF Next, StarterNext, CallerNext, WorkerNext, WatchdogNext

(* With starts let in one at a time, as start_recording of shotik-app does (recording.rs:45-62), a stop or cancel that *)
(* the machine accepted never misses its session: the Control it sets is that session's own (recorder.rs:284-291).     *)
THEOREM Arrival == ASSUME SerialStarts PROVE Spec => []RequestsArrive
<1>1. Init => SerialInv /\ RequestsArrive
  BY DEF Init, SerialInv, RequestsArrive
<1>2. IInv /\ SerialInv /\ RequestsArrive /\ [Next]_vars => SerialInv' /\ RequestsArrive'
  BY SerialStep, RequestsStep
<1>3. QED
  BY <1>1, <1>2, Invariance, PTL DEF Spec

=============================================================================
