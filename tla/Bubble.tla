------------------------------- MODULE Bubble -------------------------------
(* The bubble beside a new selection, and the text a click on it            *)
(* translates (shotik-app/selection.rs, shotik-ui/bubble).  The watcher's   *)
(* thread, the threads of gestures and the UI thread write pending_selection *)
(* by turns; showing and hiding wait in the UI thread's queue.              *)
EXTENDS Naturals, Sequences

CONSTANTS
  Gestures,  (* threads that read the screen after a gesture                *)
  Clicks,    (* clicks on the bubble                                        *)
  Texts,
  None,
  MaxQueue   (* a bound on what waits for the UI thread                     *)

Writers == Gestures \cup {"watcher"}

(* Those who write the pending text are told apart. *)
BubbleAssumption == MaxQueue \in Nat /\ "watcher" \notin Gestures /\ "UI" \notin Writers

VARIABLES
  pending_selection, last_translated, ocr_busy,
  gesture,   (* of each gesture: its place and its text                     *)
  watcher,   (* the watcher's thread: its place and its text                *)
  clicked,   (* clicks that were made                                       *)
  queue,
  bubble,    (* the text the bubble on the screen was raised for, or None   *)
  raced,     (* the pending text was written while another writer was under *)
             (* way                                                         *)
  mistaken   (* a click translated another text, or none, without that      *)

vars == <<pending_selection, last_translated, ocr_busy, gesture, watcher, clicked, queue, bubble,
          raced, mistaken>>

Maybe == Texts \cup {None}
At(place, t) == [at |-> place, text |-> t]

TypeOK ==
  /\ pending_selection \in Maybe /\ last_translated \in Maybe /\ bubble \in Maybe
  /\ gesture \in [Gestures -> [at : {"new", "ocr", "raise", "show", "done"}, text : Maybe]]
  /\ ocr_busy <=> \E g \in Gestures : gesture[g].at = "ocr"
  /\ watcher \in [at : {"idle", "note", "show", "forget", "asks", "outside", "drop"}, text : Maybe]
  /\ clicked \subseteq Clicks /\ Len(queue) <= MaxQueue

Init ==
  /\ pending_selection = None /\ last_translated = None /\ ocr_busy = FALSE
  /\ gesture = [g \in Gestures |-> At("new", None)] /\ watcher = At("idle", None)
  /\ clicked = {} /\ queue = <<>> /\ bubble = None /\ raced = FALSE /\ mistaken = FALSE

OnUi(what, t) == Len(queue) < MaxQueue /\ queue' = Append(queue, <<what, t>>)

(* Another thread has written the pending text and not yet shown or hidden  *)
(* the bubble, or that still waits for the UI thread.                       *)
UnderWay(others) ==
  \/ watcher.at \in {"show", "drop"} /\ "watcher" \in others
  \/ \E g \in Gestures \cap others : gesture[g].at = "show"
  \/ \E k \in DOMAIN queue : queue[k][1] \in {"show", "dismiss"}

Crossed(who) == raced \/ UnderWay(Writers \ {who})
Write(t, who) == pending_selection' = t /\ raced' = Crossed(who)

-----------------------------------------------------------------------------
(* on_gesture: one reading of the screen at a time.                         *)

(* A slip: two gestures read the screen at a time. *)
GestureUnchecked(g) ==
  /\ gesture[g].at = "new"
  /\ gesture' = [gesture EXCEPT ![g] = At("ocr", None)] /\ ocr_busy' = TRUE
  /\ UNCHANGED <<pending_selection, last_translated, watcher, clicked, queue, bubble, raced, mistaken>>

Gesture(g) ==
  /\ gesture[g].at = "new"
  /\ IF ocr_busy THEN gesture' = [gesture EXCEPT ![g] = At("done", None)] /\ UNCHANGED ocr_busy
     ELSE gesture' = [gesture EXCEPT ![g] = At("ocr", None)] /\ ocr_busy' = TRUE
  /\ UNCHANGED <<pending_selection, last_translated, watcher, clicked, queue, bubble, raced, mistaken>>

(* No text where nothing is highlighted, or the reading fails. *)
Recognized(g) ==
  /\ gesture[g].at = "ocr" /\ ocr_busy' = FALSE
  /\ \/ gesture' = [gesture EXCEPT ![g] = At("done", None)]
     \/ \E t \in Texts : gesture' = [gesture EXCEPT ![g] = At("raise", t)]
  /\ UNCHANGED <<pending_selection, last_translated, watcher, clicked, queue, bubble, raced, mistaken>>

Raise(g) ==
  /\ gesture[g].at = "raise"
  /\ IF gesture[g].text = last_translated
     THEN gesture' = [gesture EXCEPT ![g] = At("done", None)] /\ UNCHANGED <<pending_selection, raced>>
     ELSE gesture' = [gesture EXCEPT ![g].at = "show"] /\ Write(gesture[g].text, g)
  /\ UNCHANGED <<last_translated, ocr_busy, watcher, clicked, queue, bubble, mistaken>>

ShowAfterGesture(g) ==
  /\ gesture[g].at = "show" /\ OnUi("show", gesture[g].text)
  /\ gesture' = [gesture EXCEPT ![g] = At("done", None)]
  /\ UNCHANGED <<pending_selection, last_translated, ocr_busy, watcher, clicked, bubble, raced, mistaken>>

-----------------------------------------------------------------------------
(* The watcher's thread handles an event before it looks for the next:      *)
(* on_selection_event.                                                      *)

WatcherOnly == UNCHANGED <<ocr_busy, gesture, clicked, bubble, mistaken>>

Selected ==
  /\ watcher.at = "idle" /\ WatcherOnly
  /\ \E t \in Texts \ {last_translated} : watcher' = At("note", t)
  /\ UNCHANGED <<pending_selection, last_translated, queue, raced>>

Note ==
  /\ watcher.at = "note" /\ watcher' = [watcher EXCEPT !.at = "show"] /\ WatcherOnly
  /\ Write(watcher.text, "watcher") /\ UNCHANGED <<last_translated, queue>>

Show ==
  /\ watcher.at = "show" /\ watcher' = At("idle", None) /\ WatcherOnly
  /\ OnUi("show", watcher.text) /\ UNCHANGED <<pending_selection, last_translated, raced>>

(* A slip: nothing selected, nothing to translate. *)
ClearedForgets ==
  /\ watcher.at = "idle" /\ watcher' = At("forget", None) /\ WatcherOnly
  /\ OnUi("clear", None) /\ pending_selection' = None /\ UNCHANGED <<last_translated, raced>>

(* A click that races with this must still have text to translate. *)
Cleared ==
  /\ watcher.at = "idle" /\ watcher' = At("forget", None) /\ WatcherOnly
  /\ OnUi("clear", None) /\ UNCHANGED <<pending_selection, last_translated, raced>>

(* The same text selected again raises the bubble again. *)
Forget ==
  /\ watcher.at = "forget" /\ watcher' = At("idle", None) /\ WatcherOnly
  /\ last_translated' = None /\ UNCHANGED <<pending_selection, queue, raced>>

(* The button goes down: the watcher asks the UI thread whether that was    *)
(* outside of the bubble, and waits for the answer.                         *)
MouseDown ==
  /\ watcher.at = "idle" /\ watcher' = At("asks", None) /\ WatcherOnly
  /\ OnUi("ask", None) /\ UNCHANGED <<pending_selection, last_translated, raced>>

HideBubble ==
  /\ watcher.at = "outside" /\ watcher' = At("drop", None) /\ WatcherOnly
  /\ OnUi("dismiss", None) /\ raced' = Crossed("watcher")
  /\ UNCHANGED <<pending_selection, last_translated>>

DropPending ==
  /\ watcher.at = "drop" /\ watcher' = At("idle", None) /\ WatcherOnly
  /\ Write(None, "watcher") /\ UNCHANGED <<last_translated, queue>>

(* Another translation is asked for with the hotkey. *)
TranslatedByHotkey ==
  /\ \E t \in Texts \ {last_translated} : last_translated' = t
  /\ UNCHANGED <<pending_selection, ocr_busy, gesture, watcher, clicked, queue, bubble, raced, mistaken>>

-----------------------------------------------------------------------------
(* The UI thread.                                                           *)

(* With nothing on the screen and nothing on its way the race is over. *)
UiWork ==
  /\ queue # <<>> /\ queue' = Tail(queue)
  /\ UNCHANGED <<pending_selection, last_translated, ocr_busy, gesture, clicked, mistaken>>
  /\ LET work == Head(queue) IN
       \/ work[1] = "show" /\ bubble' = work[2] /\ UNCHANGED <<watcher, raced>>
       \/ /\ work[1] \in {"clear", "dismiss"} /\ bubble' = None /\ UNCHANGED watcher
          /\ raced' = (raced /\ UnderWay(Writers)')
       \/ /\ work[1] = "ask" /\ UNCHANGED <<bubble, raced>>
          /\ watcher' \in {At("idle", None)} \cup (IF bubble = None THEN {} ELSE {At("outside", None)})

(* Four seconds, or the window is closed. *)
BubbleGoes ==
  /\ bubble # None /\ bubble' = None
  /\ UNCHANGED <<pending_selection, last_translated, ocr_busy, gesture, watcher, clicked, queue,
                 raced, mistaken>>

(* bubble_activate: what is pending is taken, and translated unless it is   *)
(* nothing.                                                                 *)
Click(c) ==
  /\ bubble # None /\ c \notin clicked /\ clicked' = clicked \cup {c}
  /\ OnUi("dismiss", None) /\ Write(None, "UI")
  /\ last_translated' = IF pending_selection = None THEN last_translated ELSE pending_selection
  /\ mistaken' = (mistaken \/ (~raced' /\ pending_selection # bubble))
  /\ UNCHANGED <<ocr_busy, gesture, watcher, bubble>>

Next ==
  \/ \E g \in Gestures : Gesture(g) \/ Recognized(g) \/ Raise(g) \/ ShowAfterGesture(g)
  \/ \E c \in Clicks : Click(c)
  \/ Selected \/ Note \/ Show \/ Cleared \/ Forget
  \/ MouseDown \/ HideBubble \/ DropPending \/ TranslatedByHotkey
  \/ UiWork \/ BubbleGoes

Spec == Init /\ [][Next]_vars

-----------------------------------------------------------------------------
(* A click on the bubble translates the selection it was raised for, also   *)
(* when that selection is just being cleared, unless two threads write the  *)
(* pending text in between (selection.rs:136-137, 239).                     *)
ClickTranslatesItsSelection == ~mistaken
=============================================================================
