--------------------------- MODULE TranslatePopup ---------------------------
(* The popup that shows a translation: translate_to_popup                   *)
(* (shotik-app/selection.rs), which a press of the hotkey and a click on    *)
(* the bubble run on threads of their own, and the window                   *)
(* (shotik-ui/translate_popup).  What the threads want of it, and what the  *)
(* pointer does over it, waits in the UI thread's queue.                    *)
EXTENDS Naturals, Sequences

CONSTANTS
  Threads,   (* that translate, each one text                               *)
  MaxQueue   (* a bound on what waits for the UI thread                     *)

PopupAssumption == MaxQueue \in Nat

VARIABLES
  at,     (* of each thread: before, during or after the call               *)
  queue,
  popup,  (* State; armed stands for its deadline                           *)
  over    (* whether the pointer is over the window                         *)

vars == <<at, queue, popup, over>>

NoPopup == [visible |-> FALSE, loading |-> FALSE, hovering |-> FALSE, armed |-> FALSE]

TypeOK ==
  /\ at \in [Threads -> {"new", "call", "done"}]
  /\ popup \in [visible : BOOLEAN, loading : BOOLEAN, hovering : BOOLEAN, armed : BOOLEAN]
  /\ Len(queue) <= MaxQueue
  /\ over \in BOOLEAN /\ (over => popup.visible)

Init == at = [th \in Threads |-> "new"] /\ queue = <<>> /\ popup = NoPopup /\ over = FALSE

OnUi(work) == Len(queue) < MaxQueue /\ queue' = Append(queue, work)

-----------------------------------------------------------------------------
(* show_translate_popup, then the call, then update_translate_popup with    *)
(* the translation or with the failure.                                     *)
Translate(th) ==
  /\ at[th] = "new" /\ at' = [at EXCEPT ![th] = "call"] /\ OnUi("loading")
  /\ UNCHANGED <<popup, over>>

Translated(th) ==
  /\ at[th] = "call" /\ at' = [at EXCEPT ![th] = "done"] /\ OnUi("answer")
  /\ UNCHANGED <<popup, over>>

(* A press of the mouse outside of it: on_pointer_down_dip. *)
ClickAway == popup.visible /\ ~over /\ OnUi("hide") /\ UNCHANGED <<at, popup, over>>

-----------------------------------------------------------------------------
(* State.                                                                   *)

Shown == [popup EXCEPT !.visible = TRUE, !.loading = TRUE, !.armed = FALSE]

(* The answer does not open a popup that was closed, and leaves one under   *)
(* the pointer its time.                                                    *)
Answered == [popup EXCEPT !.loading = FALSE, !.armed = popup.armed \/ ~popup.hovering]

Hovered(is) == [popup EXCEPT !.hovering = is, !.armed = ~is]

Hidden == [popup EXCEPT !.visible = FALSE, !.hovering = FALSE, !.armed = FALSE]

(* A window that is gone is heard no more. *)
Heard(works) == [k \in DOMAIN works |-> IF works[k] \in {"enter", "leave"} THEN "unheard" ELSE works[k]]

(* The window goes with it. *)
Hide == popup' = Hidden /\ over' = FALSE

UiWork ==
  /\ queue # <<>>
  /\ LET work == Head(queue) IN
       \/ work = "loading" /\ popup' = Shown /\ queue' = Tail(queue) /\ UNCHANGED over
       \/ work = "answer" /\ popup' = Answered /\ queue' = Tail(queue) /\ UNCHANGED over
       \/ work = "hide" /\ Hide /\ queue' = Heard(Tail(queue))
       \/ /\ work \in {"enter", "leave"} /\ popup' = Hovered(work = "enter")
          /\ queue' = Tail(queue) /\ UNCHANGED over
       \/ work = "unheard" /\ queue' = Tail(queue) /\ UNCHANGED <<popup, over>>
  /\ UNCHANGED at

(* The deadline has passed. *)
Tick == popup.visible /\ popup.armed /\ Hide /\ queue' = Heard(queue) /\ UNCHANGED at

(* The user closes it, or copies from it. *)
Dismiss == popup.visible /\ Hide /\ queue' = Heard(queue) /\ UNCHANGED at

PointerMoves ==
  /\ popup.visible /\ over' = ~over
  /\ OnUi(IF over THEN "leave" ELSE "enter")
  /\ UNCHANGED <<at, popup>>

Next ==
  \/ \E th \in Threads : Translate(th) \/ Translated(th)
  \/ ClickAway \/ UiWork \/ Tick \/ Dismiss \/ PointerMoves

Spec == Init /\ [][Next]_vars

-----------------------------------------------------------------------------
(* A popup on the screen goes away by itself: its time runs, or the pointer *)
(* is over it, or an answer is still to come, or the window has still to    *)
(* hear that the pointer left (translate_popup/state.rs:43-80).             *)
PopupIsNotStuck ==
  popup.visible /\ ~popup.armed /\ ~over =>
    \/ \E th \in Threads : at[th] = "call"
    \/ \E k \in DOMAIN queue : queue[k] \in {"answer", "leave"}
=============================================================================
