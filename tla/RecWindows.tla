----------------------------- MODULE RecWindows -----------------------------
(* The windows that show a recording - border, controls and countdown - as  *)
(* the application (recording.rs) opens and closes them from the starter's  *)
(* thread, the session's worker and the user's clicks, all by way of the UI *)
(* thread's queue.  A session has the name of the start that made it.       *)
EXTENDS Naturals, Sequences

CONSTANTS
  Starters, (* the starts asked for *)
  Regions,  (* those of a region, with a border and a countdown; the others record sound *)
  NoOne,
  MaxPauses (* a bound: how often the user pauses or resumes, or an input is lost *)

VARIABLES
  at,           (* where each start is *)
  called_off,   (* its `pending` flag *)
  answered,     (* what the channel of its countdown holds *)
  rec_starting, (* the start the application's state names *)
  session, paused, pauses,
  worker,       (* "none", "live", "stopping", then "error" or "state", "gone" *)
  seen,         (* what a worker's event has looked at, and acts on next *)
  ui_queue,
  countdown,    (* countdown/view.rs VIEW *)
  border, controls,
  raced,        (* an event and a start have crossed *)
  stuck         (* the countdown's window could not be made, or came too late *)

vars == <<at, called_off, answered, rec_starting, session, paused, pauses, worker, seen, ui_queue,
          countdown, border, controls, raced, stuck>>

RecordingAssumption == NoOne \notin Starters /\ Regions \subseteq Starters /\ MaxPauses \in Nat

NoView == [of |-> NoOne]
Nothing == [kind |-> "nothing"]

TypeOK ==
  /\ at \in [Starters -> {"new", "count", "check", "show", "release", "over"}]
  /\ called_off \in [Starters -> BOOLEAN]
  /\ answered \in [Starters -> {"no", "done", "dropped"}]
  /\ {rec_starting, session, border.of, controls.of, countdown.of} \subseteq Starters \cup {NoOne}
  /\ paused \in BOOLEAN /\ pauses \in 0 .. MaxPauses
  /\ worker \in [Starters -> {"none", "live", "stopping", "error", "state", "gone"}]

Init ==
  /\ at = [s \in Starters |-> "new"]
  /\ called_off = [s \in Starters |-> FALSE]
  /\ answered = [s \in Starters |-> "no"]
  /\ rec_starting = NoOne /\ session = NoOne /\ paused = FALSE /\ pauses = 0
  /\ worker = [s \in Starters |-> "none"]
  /\ seen = [s \in Starters |-> Nothing]
  /\ ui_queue = <<>>
  /\ countdown = NoView /\ border = NoView /\ controls = NoView
  /\ raced = FALSE /\ stuck = FALSE

Post(job) == ui_queue' = Append(ui_queue, job)
Moves(s, to) == at' = [at EXCEPT ![s] = to]

starterVars == <<at, called_off, rec_starting>>
sessionVars == <<session, paused, pauses>>
views == <<countdown, border, controls>>

-----------------------------------------------------------------------------
(* start_recording *)

Start(s) ==
  /\ at[s] = "new"
  /\ IF rec_starting # NoOne \/ session # NoOne
     THEN Moves(s, "over") /\ UNCHANGED <<rec_starting, ui_queue>>
     ELSE /\ rec_starting' = s
          /\ IF s \in Regions THEN Moves(s, "count") /\ Post([kind |-> "countdown", of |-> s])
             ELSE Moves(s, "check") /\ UNCHANGED ui_queue
  /\ UNCHANGED <<called_off, answered, sessionVars, worker, seen, views, raced, stuck>>

(* The channel has an answer or no sender, or five seconds are over. *)
Counted(s) ==
  /\ at[s] = "count"
  /\ Moves(s, "check")
  /\ stuck' = (stuck \/ answered[s] = "no")
  /\ UNCHANGED <<called_off, answered, rec_starting, sessionVars, worker, seen, ui_queue, views, raced>>

(* The last look at `pending`, and the recorder's start. *)
Begin(s) ==
  /\ at[s] = "check"
  /\ IF called_off[s] \/ session # NoOne
     THEN Moves(s, "release") /\ UNCHANGED <<session, paused, worker>>
     ELSE /\ Moves(s, "show")
          /\ session' = s /\ paused' = FALSE
          /\ worker' = [worker EXCEPT ![s] = "live"]
  /\ UNCHANGED <<called_off, answered, rec_starting, pauses, seen, ui_queue, views, raced, stuck>>

ShowRecWindows(s) ==
  /\ at[s] = "show"
  /\ Moves(s, "release")
  /\ Post([kind |-> "show", of |-> s])
  /\ raced' = (raced \/ session # s \/ paused)
  /\ UNCHANGED <<called_off, answered, rec_starting, sessionVars, worker, seen, views, stuck>>

(* recorder.cancel() and stop() ask the worker of whatever session there is. *)
Asked == worker' = IF session = NoOne THEN worker ELSE [worker EXCEPT ![session] = "stopping"]

Release(s) ==
  /\ at[s] = "release"
  /\ Moves(s, "over")
  /\ rec_starting' = NoOne
  /\ IF called_off[s] /\ worker[s] # "none" THEN Asked ELSE UNCHANGED worker
  /\ UNCHANGED <<called_off, answered, sessionVars, seen, ui_queue, views, raced, stuck>>

-----------------------------------------------------------------------------
(* The user, by the controls, the tray or a hotkey. *)

(* stop_recording and cancel_recording *)
Stop ==
  /\ IF rec_starting # NoOne
     THEN called_off' = [called_off EXCEPT ![rec_starting] = TRUE] /\ UNCHANGED worker
     ELSE Asked /\ UNCHANGED called_off
  /\ UNCHANGED <<at, answered, rec_starting, sessionVars, seen, ui_queue, views, raced, stuck>>

(* rec_pause_toggle; pause() and resume() tell the new state themselves. *)
PauseToggle ==
  /\ session # NoOne /\ worker[session] = "live" /\ pauses < MaxPauses
  /\ pauses' = pauses + 1
  /\ paused' = ~paused
  /\ Post([kind |-> "update", paused |-> paused'])
  /\ UNCHANGED <<starterVars, answered, session, worker, seen, views, raced, stuck>>

-----------------------------------------------------------------------------
(* The session's worker and the listener, on_recorder_event. *)

(* Inner::finish, and watch when the worker takes too long: the machine is  *)
(* idle before the listener hears of it.  RecorderEvent::Done opens a toast *)
(* and no window of these.                                                  *)
Finish(s) ==
  /\ session = s /\ seen[s] = Nothing
  /\ session' = NoOne
  /\ \/ worker' = [worker EXCEPT ![s] = "error"]
     \/ worker[s] = "stopping" /\ worker' = [worker EXCEPT ![s] = "state"]
  /\ UNCHANGED <<starterVars, answered, paused, pauses, seen, ui_queue, views, raced, stuck>>

(* A slip: every error closes the controls, that of a lost input, too. *)
EveryErrorCloses(s) == seen' = [seen EXCEPT ![s] = [kind |-> "close", of |-> session]]

(* RecorderEvent::Error looks whether the recorder records ... *)
LookOnError(s) == seen' = [seen EXCEPT ![s] = [kind |-> IF session = NoOne THEN "close" ELSE "go_on", of |-> session]]

(* A lost audio input: the recording goes on. *)
LoseInput(s) ==
  /\ worker[s] = "live" /\ session = s /\ seen[s] = Nothing /\ pauses < MaxPauses
  /\ pauses' = pauses + 1
  /\ LookOnError(s)
  /\ UNCHANGED <<starterVars, answered, session, paused, worker, ui_queue, views, raced, stuck>>

(* Another session has begun since the look, or the one that was seen is    *)
(* over.                                                                    *)
ClosesFor(s) == Post([kind |-> "close"]) /\ raced' = (raced \/ session # seen[s].of)

(* ... and emit_state takes a snapshot, *)
LookOnState(s) ==
  seen' = [seen EXCEPT ![s] = IF session = NoOne THEN [kind |-> "close", of |-> NoOne]
                              ELSE [kind |-> "update", paused |-> paused]]

Look(s) ==
  /\ seen[s] = Nothing
  /\ \/ worker[s] = "error" /\ LookOnError(s)
     \/ worker[s] = "state" /\ LookOnState(s)
  /\ UNCHANGED <<starterVars, answered, sessionVars, worker, ui_queue, views, raced, stuck>>

(* ... and either acts on what it saw. *)
Act(s) ==
  LET next == [live |-> "live", stopping |-> "stopping", error |-> "state", state |-> "gone",
               none |-> "none", gone |-> "gone"]
  IN  /\ seen[s] # Nothing
      /\ seen' = [seen EXCEPT ![s] = Nothing]
      /\ worker' = [worker EXCEPT ![s] = next[@]]
      /\ \/ seen[s].kind = "close" /\ ClosesFor(s)
         \/ seen[s].kind = "update" /\ Post(seen[s]) /\ raced' = (raced \/ paused # seen[s].paused)
         \/ seen[s].kind = "go_on" /\ UNCHANGED <<ui_queue, raced>>
      /\ UNCHANGED <<starterVars, answered, sessionVars, views, stuck>>

-----------------------------------------------------------------------------
(* The UI thread: one job at a time, then what the event loop brings.       *)

NewControls(s) == [of |-> s, paused |-> FALSE]

(* rec_border::show and rec_controls::show: whatever is open goes first. *)
ShowUi(s) ==
  /\ border' = IF s \in Regions THEN [of |-> s] ELSE NoView
  /\ controls' = NewControls(s)

(* A second countdown is refused, and its callback dropped. *)
CountdownUi(s) ==
  IF countdown = NoView
  THEN countdown' = [of |-> s, ticking |-> FALSE] /\ UNCHANGED answered
  ELSE answered' = [answered EXCEPT ![s] = "dropped"] /\ UNCHANGED countdown

Ui ==
  /\ ui_queue # <<>>
  /\ ui_queue' = Tail(ui_queue)
  /\ LET job == Head(ui_queue) IN
     \/ job.kind = "show" /\ ShowUi(job.of) /\ UNCHANGED <<countdown, answered>>
     \/ job.kind = "close" /\ border' = NoView /\ controls' = NoView /\ UNCHANGED <<countdown, answered>>
     \/ /\ job.kind = "update"
        /\ controls' = IF controls = NoView THEN controls ELSE [controls EXCEPT !.paused = job.paused]
        /\ UNCHANGED <<border, countdown, answered>>
     \/ job.kind = "countdown" /\ CountdownUi(job.of) /\ UNCHANGED <<border, controls>>
  /\ UNCHANGED <<starterVars, sessionVars, worker, seen, raced, stuck>>

(* after_native: the countdown's clock starts when its window is there.     *)
Native ==
  /\ countdown # NoView /\ ~countdown.ticking /\ ~stuck
  /\ \/ countdown' = [countdown EXCEPT !.ticking = TRUE] /\ UNCHANGED stuck
     \/ stuck' = TRUE /\ UNCHANGED countdown
  /\ UNCHANGED <<starterVars, answered, sessionVars, worker, seen, ui_queue, border, controls, raced>>

DoneAfterHiding(s) == answered' = [answered EXCEPT ![s] = "done"] /\ countdown' = NoView

(* advance, when the last deadline has passed. *)
Advance ==
  /\ countdown # NoView /\ countdown.ticking
  /\ answered[countdown.of] = "no"
  /\ DoneAfterHiding(countdown.of)
  /\ UNCHANGED <<starterVars, sessionVars, worker, seen, ui_queue, border, controls, raced, stuck>>

Next ==
  \/ \E s \in Starters :
       \/ Start(s) \/ Counted(s) \/ Begin(s) \/ ShowRecWindows(s) \/ Release(s)
       \/ Finish(s) \/ LoseInput(s) \/ Look(s) \/ Act(s)
  \/ Stop \/ PauseToggle \/ Ui \/ Native \/ Advance

Spec == Init /\ [][Next]_vars

-----------------------------------------------------------------------------
AtRest ==
  /\ ui_queue = <<>>
  /\ \A s \in Starters : at[s] \in {"new", "over"} /\ worker[s] \in {"none", "live", "stopping", "gone"} /\ seen[s] = Nothing

(* The controls are open while a session is, name that one, and know        *)
(* whether it is paused; the border is there for a region.  Unless an event *)
(* and a start have crossed: the windows are opened after the session is    *)
(* there, and closed on a look at the recorder that may be old              *)
(* (recording.rs:103-115, 120-140).                                         *)
WindowsFollowSession ==
  AtRest /\ ~raced =>
    /\ controls.of = session
    /\ border.of = IF session \in Regions THEN session ELSE NoOne
    /\ session # NoOne => controls.paused = paused

(* The countdown is gone from the screen when its recording begins, and     *)
(* none stays behind, unless its window failed or took five seconds.        *)
CountdownComesFirst == ~stuck => session = NoOne \/ countdown.of # session
=============================================================================
