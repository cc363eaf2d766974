------------------------------ MODULE Recorder ------------------------------
(***************************************************************************)
(* The recorder of shotik-recorder: the session state machine              *)
(* (session.rs) under its mutex, and the threads around it (recorder.rs):  *)
(*                                                                         *)
(*   starters   threads inside Recorder::start                             *)
(*   callers    threads inside stop, cancel, pause and resume              *)
(*   worker[n]  the session thread of start n, running the engine          *)
(*   watchdog[n] the safety timeout of session n                           *)
(*                                                                         *)
(* Each step is one critical section of a thread, or what it does between  *)
(* two of them.  Time is counted in ticks left until a deadline, so it     *)
(* needs no bound.  A session is named after the start that made it: the   *)
(* code compares session ids only for equality.  What the engine does is   *)
(* in module Engine; here a worker may end at any time or never.  The      *)
(* events State, Levels and Error change nothing in the recorder and are   *)
(* not modelled; Done is the delivery of a file.                           *)
(***************************************************************************)
EXTENDS Integers

CONSTANTS
  Starters,       (* threads that call start                              *)
  Callers,        (* threads that call stop, cancel, pause or resume      *)
  Calls,          (* which of these they call                             *)
  MaxStarts,      (* how many starts a behaviour holds: a model bound     *)
  StopTimeout,    (* finalize_timeout in ticks                            *)
  CancelTimeout,  (* cancel_timeout in ticks                              *)
  HasCountdown,   (* whether a countdown hook was given                   *)
  SerialStarts    (* whether the application lets one start in at a time, *)
                  (* as start_recording of shotik-app does                *)

ASSUME RecorderAssumption ==
  /\ Calls \subseteq {"stop", "cancel", "pause", "resume"}
  /\ MaxStarts \in Nat
  /\ StopTimeout \in Nat
  /\ CancelTimeout \in Nat
  /\ HasCountdown \in BOOLEAN
  /\ SerialStarts \in BOOLEAN

VARIABLES
  (* the SessionMachine, under its mutex *)
  phase,       (* "idle", "starting" or "active"                          *)
  session,     (* the active session; 0 when there is none                *)
  calledOff,   (* of a start: stop or cancel arrived                      *)
  paused, stopping, canceled,
  deadline,    (* ticks left until the session is overdue, or None        *)
  (* the Controls, which callers and session threads share *)
  slot,        (* whose Control is in Inner::control; 0 before the first  *)
  stopSet, cancelSet, pauseSet,  (* the starts whose Control has the flag *)
  (* the threads *)
  starts,      (* how many starts have begun                              *)
  starter, attempt,              (* where a start is, and which it is     *)
  caller, call, callFor, callAt, (* where a call is, what it asks, of     *)
                                 (* which session, on whose Control       *)
  worker, outcome,
  watchdog, sleep,               (* ... and how long it still waits       *)
  unfinished,  (* the UnfinishedFile guards that Inner::unfinished counts *)
  delivered    (* how many files each session has handed to the listener  *)

machineVars  == <<phase, session, calledOff, paused, stopping, canceled, deadline>>
controlVars  == <<slot, stopSet, cancelSet, pauseSet>>
starterVars  == <<starts, starter, attempt>>
callerVars   == <<caller, call, callFor, callAt>>
workerVars   == <<worker, outcome>>
watchdogVars == <<watchdog, sleep>>
fileVars     == <<unfinished, delivered>>
vars == <<machineVars, controlVars, starterVars, callerVars, workerVars, watchdogVars, fileVars>>

Starts == 1..MaxStarts
None == -1                       (* no deadline, or no end of a wait       *)
Ops == {"stop", "cancel", "pause", "resume"}
Outcomes == {"done", "canceled", "failed"}

-----------------------------------------------------------------------------
(* The session state machine: what its operations do to it.                *)

IsRecording == phase # "idle"
Current(n) == phase = "active" /\ session = n
Overdue == phase = "active" /\ deadline = 0

Reset == calledOff' = FALSE /\ paused' = FALSE /\ stopping' = FALSE /\ canceled' = FALSE /\ deadline' = None

BecomeIdle == phase' = "idle" /\ session' = 0 /\ Reset
BecomeStarting == phase' = "starting" /\ session' = 0 /\ Reset
BecomeActive(n) == phase' = "active" /\ session' = n /\ Reset

(* The StartGuard: it takes back whatever start it finds. *)
AbortStart == IF phase = "starting" THEN BecomeIdle ELSE UNCHANGED machineVars

Settle(n) == IF Current(n) THEN BecomeIdle ELSE UNCHANGED machineVars

Granted(op) ==
  /\ phase = "active"
  /\ ~canceled
  /\ op # "cancel" => ~stopping
  /\ op = "pause" => ~paused
  /\ op = "resume" => paused

Sooner(d, e) == IF d = None \/ e < d THEN e ELSE d

(* A slip: only a stop sets a deadline. *)
RequestWithoutDeadline(op) ==
  /\ stopping' = (stopping \/ op = "stop")
  /\ canceled' = (canceled \/ op = "cancel")
  /\ paused' = IF op \in {"pause", "resume"} THEN op = "pause" ELSE paused
  /\ deadline' = IF op = "stop" THEN StopTimeout ELSE deadline
  /\ UNCHANGED <<phase, session, calledOff>>

(* A cancel counts also after a stop: until the file is final, cancel wins. *)
Request(op) ==
  /\ stopping' = (stopping \/ op = "stop")
  /\ canceled' = (canceled \/ op = "cancel")
  /\ paused' = IF op \in {"pause", "resume"} THEN op = "pause" ELSE paused
  /\ deadline' = CASE op = "stop"   -> StopTimeout
                   [] op = "cancel" -> Sooner(deadline, CancelTimeout)
                   [] OTHER         -> deadline
  /\ UNCHANGED <<phase, session, calledOff>>

CallStartOff ==
  /\ phase = "starting"
  /\ calledOff' = TRUE
  /\ UNCHANGED <<phase, session, paused, stopping, canceled, deadline>>

-----------------------------------------------------------------------------

Init ==
  /\ phase = "idle" /\ session = 0 /\ calledOff = FALSE
  /\ paused = FALSE /\ stopping = FALSE /\ canceled = FALSE /\ deadline = None
  /\ slot = 0 /\ stopSet = {} /\ cancelSet = {} /\ pauseSet = {}
  /\ starts = 0
  /\ starter = [s \in Starters |-> "out"]
  /\ attempt = [s \in Starters |-> 0]
  /\ caller = [c \in Callers |-> "out"]
  /\ call = [c \in Callers |-> "stop"]
  /\ callFor = [c \in Callers |-> 0]
  /\ callAt = [c \in Callers |-> 0]
  /\ worker = [n \in Starts |-> "none"]
  /\ outcome = [n \in Starts |-> "failed"]
  /\ watchdog = [n \in Starts |-> "none"]
  /\ sleep = [n \in Starts |-> None]
  /\ unfinished = {}
  /\ delivered = [n \in Starts |-> 0]

HasUnfinishedFile == unfinished # {}

(* The condition variable: every watchdog and every countdown that waits on it looks again. *)
NotifyAll ==
  /\ watchdog' = [n \in Starts |-> IF watchdog[n] = "wait" THEN "look" ELSE watchdog[n]]
  /\ sleep' = [n \in Starts |-> None]
  /\ starter' = [s \in Starters |-> IF starter[s] = "asleep" THEN "countdown" ELSE starter[s]]
  /\ UNCHANGED <<starts, attempt>>

Step(s, from, to) ==
  /\ starter[s] = from
  /\ starter' = [starter EXCEPT ![s] = to]
  /\ UNCHANGED <<starts, attempt>>

Return(s, from) ==
  /\ starter[s] = from
  /\ starter' = [starter EXCEPT ![s] = "out"]
  /\ attempt' = [attempt EXCEPT ![s] = 0]
  /\ UNCHANGED starts

-----------------------------------------------------------------------------
(* Recorder::start                                                          *)

(* A slip: a start that does not look whether the recorder is busy. *)
StartBeginBusy(s) ==
  /\ starter[s] = "out"
  /\ SerialStarts => \A o \in Starters : starter[o] = "out"
  /\ starts < MaxStarts
  /\ BecomeStarting
  /\ starts' = starts + 1
  /\ starter' = [starter EXCEPT ![s] = "folder"]
  /\ attempt' = [attempt EXCEPT ![s] = starts + 1]
  /\ UNCHANGED <<controlVars, callerVars, workerVars, watchdogVars, fileVars>>

StartBegin(s) ==
  /\ starter[s] = "out"
  /\ SerialStarts => \A o \in Starters : starter[o] = "out"
  /\ starts < MaxStarts
  /\ ~IsRecording
  /\ BecomeStarting
  /\ starts' = starts + 1
  /\ starter' = [starter EXCEPT ![s] = "folder"]
  /\ attempt' = [attempt EXCEPT ![s] = starts + 1]
  /\ UNCHANGED <<controlVars, callerVars, workerVars, watchdogVars, fileVars>>

(* create_dir_all fails: the StartGuard takes the start back. *)
StartFolderFails(s) ==
  /\ Return(s, "folder")
  /\ AbortStart
  /\ UNCHANGED <<controlVars, callerVars, workerVars, watchdogVars, fileVars>>

(* An audio-only start has no countdown, nor has a recorder without the hook. *)
StartFolder(s) ==
  /\ \/ Step(s, "folder", "place")
     \/ HasCountdown /\ Step(s, "folder", "countdown")
  /\ UNCHANGED <<machineVars, controlVars, callerVars, workerVars, watchdogVars, fileVars>>

(* The hook reports that the countdown is over. *)
CountdownFinishes(s) ==
  /\ Step(s, "countdown", "place") \/ Step(s, "asleep", "place")
  /\ UNCHANGED <<machineVars, controlVars, callerVars, workerVars, watchdogVars, fileVars>>

(* The wait for the countdown, one look under the machine's lock. *)
CountdownLook(s) ==
  /\ Step(s, "countdown", IF phase = "starting" /\ calledOff THEN "place" ELSE "asleep")
  /\ UNCHANGED <<machineVars, controlVars, callerVars, workerVars, watchdogVars, fileVars>>

(* A slip: the Control of the session before stays in place. *)
StartPlaceNothing(s) ==
  /\ Step(s, "place", "activate")
  /\ UNCHANGED <<machineVars, controlVars, callerVars, workerVars, watchdogVars, fileVars>>

(* In place before the session exists: a stop that comes right after must find it. *)
StartPlace(s) ==
  /\ Step(s, "place", "activate")
  /\ slot' = attempt[s]
  /\ UNCHANGED <<stopSet, cancelSet, pauseSet>>
  /\ UNCHANGED <<machineVars, callerVars, workerVars, watchdogVars, fileVars>>

StartActivate(s) ==
  /\ phase = "starting" /\ ~calledOff
  /\ Step(s, "activate", "count")
  /\ BecomeActive(attempt[s])
  /\ UNCHANGED <<controlVars, callerVars, workerVars, watchdogVars, fileVars>>

(* Called off, or no longer starting: start returns None, and drops its StartGuard on the way. *)
StartNone(s) ==
  /\ ~(phase = "starting" /\ ~calledOff)
  /\ Step(s, "activate", "drop")
  /\ AbortStart
  /\ UNCHANGED <<controlVars, callerVars, workerVars, watchdogVars, fileVars>>

StartDrop(s) ==
  /\ Return(s, "drop")
  /\ AbortStart
  /\ UNCHANGED <<controlVars, callerVars, workerVars, watchdogVars, fileVars>>

(* A slip: the file is not counted before its thread starts. *)
StartCountNothing(s) ==
  /\ Step(s, "count", "spawn")
  /\ UNCHANGED <<machineVars, controlVars, callerVars, workerVars, watchdogVars, fileVars>>

StartCount(s) ==
  /\ Step(s, "count", "spawn")
  /\ unfinished' = unfinished \cup {attempt[s]}
  /\ UNCHANGED <<machineVars, controlVars, callerVars, workerVars, watchdogVars, delivered>>

StartSpawn(s) ==
  /\ Step(s, "spawn", "watch")
  /\ worker' = [worker EXCEPT ![attempt[s]] = "run"]
  /\ UNCHANGED <<machineVars, controlVars, callerVars, outcome, watchdogVars, fileVars>>

(* The closure is dropped with its UnfinishedFile, then the session is settled. *)
StartSpawnFails(s) ==
  /\ Step(s, "spawn", "settle")
  /\ unfinished' = unfinished \ {attempt[s]}
  /\ UNCHANGED <<machineVars, controlVars, callerVars, workerVars, watchdogVars, delivered>>

StartSettle(s) ==
  /\ Return(s, "settle")
  /\ Settle(attempt[s])
  /\ UNCHANGED <<controlVars, callerVars, workerVars, watchdogVars, fileVars>>

(* A watchdog that cannot be started leaves only a line in the trace. *)
StartWatchdog(s) ==
  /\ Return(s, "watch")
  /\ \E pc \in {"look", "failed"} : watchdog' = [watchdog EXCEPT ![attempt[s]] = pc]
  /\ UNCHANGED <<machineVars, controlVars, callerVars, workerVars, sleep, fileVars>>

-----------------------------------------------------------------------------
(* Recorder::stop, cancel, pause and resume                                 *)

(* The machine grants the request, under its lock.  One it does not grant changes nothing. *)
CallerRequest(c, op) ==
  /\ caller[c] = "out"
  /\ Granted(op)
  /\ Request(op)
  /\ caller' = [caller EXCEPT ![c] = "fetch"]
  /\ call' = [call EXCEPT ![c] = op]
  /\ callFor' = [callFor EXCEPT ![c] = session]
  /\ UNCHANGED <<callAt, controlVars, starterVars, workerVars, watchdogVars, fileVars>>

(* stop and cancel call off a start that waits. *)
CallerCallsOff(c, op) ==
  /\ caller[c] = "out"
  /\ op \in {"stop", "cancel"}
  /\ ~calledOff
  /\ CallStartOff
  /\ caller' = [caller EXCEPT ![c] = "notify"]
  /\ UNCHANGED <<call, callFor, callAt, controlVars, starterVars, workerVars, watchdogVars, fileVars>>

CallerNotify(c) ==
  /\ caller[c] = "notify"
  /\ NotifyAll
  /\ caller' = [caller EXCEPT ![c] = "out"]
  /\ UNCHANGED <<call, callFor, callAt, machineVars, controlVars, workerVars, fileVars>>

(* stop and cancel notify; then each takes whatever Control is in place by now. *)
CallerFetch(c) ==
  /\ caller[c] = "fetch"
  /\ caller' = [caller EXCEPT ![c] = "apply"]
  /\ callAt' = [callAt EXCEPT ![c] = slot]
  /\ IF call[c] \in {"stop", "cancel"} THEN NotifyAll ELSE UNCHANGED <<starterVars, watchdogVars>>
  /\ UNCHANGED <<call, callFor, machineVars, controlVars, workerVars, fileVars>>

CallerApply(c) ==
  /\ caller[c] = "apply"
  /\ stopSet' = IF call[c] = "stop" THEN stopSet \cup {callAt[c]} ELSE stopSet
  /\ cancelSet' = IF call[c] = "cancel" THEN cancelSet \cup {callAt[c]} ELSE cancelSet
  /\ pauseSet' = CASE call[c] = "pause"  -> pauseSet \cup {callAt[c]}
                   [] call[c] = "resume" -> pauseSet \ {callAt[c]}
                   [] OTHER              -> pauseSet
  /\ caller' = [caller EXCEPT ![c] = "out"]
  /\ call' = [call EXCEPT ![c] = "stop"]
  /\ callFor' = [callFor EXCEPT ![c] = 0]
  /\ callAt' = [callAt EXCEPT ![c] = 0]
  /\ UNCHANGED <<slot, machineVars, starterVars, workerVars, watchdogVars, fileVars>>

-----------------------------------------------------------------------------
(* The session thread                                                       *)

(* The engine returns.  It looks at cancel last, and a stop before capture runs keeps nothing. *)
WorkerEnds(n) ==
  /\ worker[n] = "run"
  /\ \E o \in Outcomes :
       /\ o = "done" => n \notin cancelSet
       /\ o = "canceled" => n \in cancelSet \cup stopSet
       /\ outcome' = [outcome EXCEPT ![n] = o]
  /\ worker' = [worker EXCEPT ![n] = "ended"]
  /\ UNCHANGED <<machineVars, controlVars, starterVars, callerVars, watchdogVars, fileVars>>

(* A slip: the outcome is reported before the machine is settled. *)
WorkerSettleNothing(n) ==
  /\ worker[n] = "ended"
  /\ worker' = [worker EXCEPT ![n] = "settled"]
  /\ UNCHANGED <<machineVars, outcome, controlVars, starterVars, callerVars, watchdogVars, fileVars>>

WorkerSettle(n) ==
  /\ worker[n] = "ended"
  /\ Settle(n)
  /\ worker' = [worker EXCEPT ![n] = "settled"]
  /\ UNCHANGED <<outcome, controlVars, starterVars, callerVars, watchdogVars, fileVars>>

WorkerReport(n) ==
  /\ worker[n] = "settled"
  /\ NotifyAll
  /\ delivered' = IF outcome[n] = "done" THEN [delivered EXCEPT ![n] = @ + 1] ELSE delivered
  /\ worker' = [worker EXCEPT ![n] = "reported"]
  /\ outcome' = [outcome EXCEPT ![n] = "failed"]
  /\ UNCHANGED <<machineVars, controlVars, callerVars, unfinished>>

(* The UnfinishedFile guard goes last. *)
WorkerLeaves(n) ==
  /\ worker[n] = "reported"
  /\ unfinished' = unfinished \ {n}
  /\ worker' = [worker EXCEPT ![n] = "gone"]
  /\ UNCHANGED <<outcome, machineVars, controlVars, starterVars, callerVars, watchdogVars, delivered>>

-----------------------------------------------------------------------------
(* The watchdog                                                             *)

(* Looking and going to sleep is one critical section, so a notification is never missed in between. *)
WatchdogSleeps(n) ==
  /\ watchdog[n] = "look"
  /\ Current(n) /\ ~Overdue
  /\ watchdog' = [watchdog EXCEPT ![n] = "wait"]
  /\ sleep' = [sleep EXCEPT ![n] = deadline]
  /\ UNCHANGED <<machineVars, controlVars, starterVars, callerVars, workerVars, fileVars>>

WatchdogEnds(n) ==
  /\ watchdog[n] = "look"
  /\ ~Current(n)
  /\ watchdog' = [watchdog EXCEPT ![n] = "gone"]
  /\ UNCHANGED <<sleep, machineVars, controlVars, starterVars, callerVars, workerVars, fileVars>>

(* A worker stuck in finalizing must not keep the recorder busy forever. *)
WatchdogExpires(n) ==
  /\ watchdog[n] = "look"
  /\ Current(n) /\ Overdue
  /\ BecomeIdle
  /\ watchdog' = [watchdog EXCEPT ![n] = "expired"]
  /\ UNCHANGED <<sleep, controlVars, starterVars, callerVars, workerVars, fileVars>>

WatchdogNotify(n) ==
  /\ watchdog[n] = "expired"
  /\ watchdog' = [m \in Starts |-> IF m = n THEN "gone"
                                   ELSE IF watchdog[m] = "wait" THEN "look" ELSE watchdog[m]]
  /\ sleep' = [m \in Starts |-> None]
  /\ starter' = [s \in Starters |-> IF starter[s] = "asleep" THEN "countdown" ELSE starter[s]]
  /\ UNCHANGED <<starts, attempt, machineVars, controlVars, callerVars, workerVars, fileVars>>

WatchdogWakes(n) ==
  /\ watchdog[n] = "wait"
  /\ watchdog' = [watchdog EXCEPT ![n] = "look"]
  /\ sleep' = [sleep EXCEPT ![n] = None]
  /\ UNCHANGED <<machineVars, controlVars, starterVars, callerVars, workerVars, fileVars>>

(* The wait is over; without that guard, WatchdogWakes is a spurious wake-up, or the *)
(* hourly one of a watchdog that has no deadline to wait for.                        *)
WatchdogTimesOut(n) == sleep[n] = 0 /\ WatchdogWakes(n)

(* A slip: the time left is subtracted without a look at what it is. *)
LessUnchecked(t) == t - 1

Less(t) == IF t > 0 THEN t - 1 ELSE t

Tick ==
  /\ deadline > 0 \/ \E n \in Starts : sleep[n] > 0
  /\ deadline' = Less(deadline)
  /\ sleep' = [n \in Starts |-> Less(sleep[n])]
  /\ UNCHANGED <<phase, session, calledOff, paused, stopping, canceled, watchdog>>
  /\ UNCHANGED <<controlVars, starterVars, callerVars, workerVars, fileVars>>

-----------------------------------------------------------------------------

StarterNext(s) ==
  \/ StartBegin(s) \/ StartFolderFails(s) \/ StartFolder(s)
  \/ CountdownFinishes(s) \/ CountdownLook(s)
  \/ StartPlace(s) \/ StartActivate(s) \/ StartNone(s) \/ StartDrop(s)
  \/ StartCount(s) \/ StartSpawn(s) \/ StartSpawnFails(s) \/ StartSettle(s) \/ StartWatchdog(s)

CallerNext(c) ==
  \/ \E op \in Calls : CallerRequest(c, op) \/ CallerCallsOff(c, op)
  \/ CallerNotify(c) \/ CallerFetch(c) \/ CallerApply(c)

WorkerNext(n) == WorkerEnds(n) \/ WorkerSettle(n) \/ WorkerReport(n) \/ WorkerLeaves(n)

WatchdogNext(n) ==
  \/ WatchdogSleeps(n) \/ WatchdogEnds(n) \/ WatchdogExpires(n) \/ WatchdogNotify(n) \/ WatchdogWakes(n)

Next ==
  \/ \E s \in Starters : StarterNext(s)
  \/ \E c \in Callers : CallerNext(c)
  \/ \E n \in Starts : WorkerNext(n) \/ WatchdogNext(n)
  \/ Tick

Spec == Init /\ [][Next]_vars

(* A thread that is not waiting for the user, for the countdown or for the engine goes on; time passes. *)
Fairness ==
  /\ \A s \in Starters :
       /\ WF_vars(StartFolder(s) \/ StartFolderFails(s))
       /\ WF_vars(CountdownLook(s))
       /\ WF_vars(StartPlace(s) \/ StartActivate(s) \/ StartNone(s) \/ StartDrop(s))
       /\ WF_vars(StartCount(s) \/ StartSpawn(s) \/ StartSpawnFails(s) \/ StartSettle(s) \/ StartWatchdog(s))
  /\ \A c \in Callers : WF_vars(CallerNotify(c) \/ CallerFetch(c) \/ CallerApply(c))
  /\ \A n \in Starts :
       /\ WF_vars(WorkerSettle(n) \/ WorkerReport(n) \/ WorkerLeaves(n))
       /\ WF_vars(WatchdogSleeps(n) \/ WatchdogEnds(n) \/ WatchdogExpires(n) \/ WatchdogNotify(n) \/ WatchdogTimesOut(n))
  /\ WF_vars(Tick)

FairSpec == Spec /\ Fairness

-----------------------------------------------------------------------------
(* Properties                                                               *)

StarterPCs == {"out", "folder", "countdown", "asleep", "place", "activate",
               "drop", "count", "spawn", "settle", "watch"}
WorkerPCs == {"none", "run", "ended", "settled", "reported", "gone"}
WatchdogPCs == {"none", "look", "wait", "expired", "gone", "failed"}

TypeOK ==
  /\ phase \in {"idle", "starting", "active"}
  /\ session \in Starts \cup {0}
  /\ calledOff \in BOOLEAN /\ paused \in BOOLEAN /\ stopping \in BOOLEAN /\ canceled \in BOOLEAN
  /\ deadline \in Nat \cup {None}
  /\ slot \in Starts \cup {0}
  /\ stopSet \subseteq Starts \cup {0}
  /\ cancelSet \subseteq Starts \cup {0}
  /\ pauseSet \subseteq Starts \cup {0}
  /\ starts \in 0..MaxStarts
  /\ starter \in [Starters -> StarterPCs]
  /\ attempt \in [Starters -> Starts \cup {0}]
  /\ caller \in [Callers -> {"out", "notify", "fetch", "apply"}]
  /\ call \in [Callers -> Ops]
  /\ callFor \in [Callers -> Starts \cup {0}]
  /\ callAt \in [Callers -> Starts \cup {0}]
  /\ worker \in [Starts -> WorkerPCs]
  /\ outcome \in [Starts -> Outcomes]
  /\ watchdog \in [Starts -> WatchdogPCs]
  /\ sleep \in [Starts -> Nat \cup {None}]
  /\ unfinished \subseteq Starts
  /\ delivered \in [Starts -> Nat]

Running(n) == worker[n] \in {"run", "ended", "settled", "reported"}

(* When the recorder says that nothing records and no file is unfinished, no session thread is left that could *)
(* still be writing, nor one about to be started: what an update relies on before it ends the process.          *)
QuietMeansDone ==
  ~IsRecording /\ ~HasUnfinishedFile =>
    /\ \A n \in Starts : ~Running(n)
    /\ \A s \in Starters : starter[s] \notin {"count", "spawn"}

(* The file of a session is announced once, and only when the recorder is no longer busy with that session. *)
DoneOnceAndIdle ==
  \A n \in Starts : delivered[n] <= 1 /\ (delivered[n] = 1 => ~Current(n))

(* A stop or cancel that the machine accepted is on its way to the Control of that session, or has arrived. *)
OnItsWay(c, op) ==
  /\ call[c] = op
  /\ \/ caller[c] = "fetch" /\ slot = session
     \/ caller[c] = "apply" /\ callAt[c] = session

(* A session the user ended hears of it: the engine's Control has the flag, or a caller is about to set it there. *)
RequestsArrive ==
  phase = "active" =>
    /\ stopping =>
         session \in stopSet \/ \E c \in Callers : OnItsWay(c, "stop")
    /\ canceled =>
         session \in cancelSet \/ \E c \in Callers : OnItsWay(c, "cancel")

(* A session that was asked to end leaves the recorder free, even when its thread never returns. *)
StuckWorkerIsWrittenOff ==
  \A n \in Starts :
    (Current(n) /\ (stopping \/ canceled)) ~> (~Current(n) \/ watchdog[n] = "failed")

(* What the rest of the application sees of all this. *)
Port == INSTANCE RecorderPort WITH
  unfinished <- {n \in Starts : Running(n)},
  worked <- {n \in Starts : worker[n] # "none"}

(* The threads together keep the promises of the port. *)
ImplementsPort == Port!PortSpec
=============================================================================
