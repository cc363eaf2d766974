--------------------------- MODULE SelectionWatch ---------------------------
(* shotik-win/selection/state.rs: what the watcher makes of the mouse       *)
(* button, looked at every 55 ms, and of what UI Automation says is         *)
(* selected, asked when the button is let go and every few ticks besides.   *)
(* A place is abstracted to whether the pointer was dragged, a time to      *)
(* whether the press followed another at the same place soon.               *)
EXTENDS Naturals

CONSTANTS
  Texts,      (* selections                                                 *)
  Nothing,
  IdleTicks   (* IDLE_TICKS                                                 *)

VARIABLES
  was_down, double, last_emitted, idle, empty_streak,  (* WatchState        *)
  told,      (* what the application was told is selected                   *)
  reads      (* what the last two readings said, the newest first: a text,  *)
             (* Nothing, or "gesture"                                       *)

vars == <<was_down, double, last_emitted, idle, empty_streak, told, reads>>

Gesture == "gesture"

(* No selection is taken for none. *)
WatchAssumption ==
  IdleTicks \in Nat \ {0} /\ Nothing \notin Texts /\ Gesture \notin Texts \cup {Nothing}

TypeOK ==
  /\ was_down \in BOOLEAN /\ double \in BOOLEAN
  /\ last_emitted \in Texts \cup {Nothing} /\ told \in Texts \cup {Nothing}
  /\ idle \in 0 .. IdleTicks - 1 /\ empty_streak \in 0 .. 2
  /\ reads \in (Texts \cup {Nothing, Gesture}) \X (Texts \cup {Nothing, Gesture})

Init ==
  /\ was_down = FALSE /\ double = FALSE /\ last_emitted = Nothing /\ idle = 0 /\ empty_streak = 0
  /\ told = Nothing /\ reads = <<Nothing, Nothing>>

(* The button is pressed or held. *)
TickDown ==
  /\ was_down' = TRUE /\ idle' = 0
  /\ IF was_down THEN UNCHANGED double ELSE double' \in BOOLEAN
  /\ UNCHANGED <<last_emitted, empty_streak, told, reads>>

(* The button is up: it counts, and reads when it has just been let go or   *)
(* has counted far enough.                                                  *)
Reads == was_down \/ (idle + 1) % IdleTicks = 0
Up == was_down' = FALSE /\ idle' = (idle + 1) % IdleTicks
Noted(read) == reads' = <<read, reads[1]>>

TickIdle == Up /\ ~Reads /\ UNCHANGED <<double, last_emitted, empty_streak, told, reads>>

(* The same text, whatever its case, is not told again. *)
ReadText(text) ==
  /\ Reads /\ Up /\ Noted(text)
  /\ empty_streak' = 0 /\ last_emitted' = text
  /\ told' = text
  /\ UNCHANGED double

(* Nothing is selected, but the pointer was dragged or clicked twice where  *)
(* the application says nothing of selections: perhaps it shows one.        *)
ReadGesture ==
  /\ Reads /\ Up /\ was_down /\ Noted(Gesture)
  /\ empty_streak' = 0
  /\ double' \in {double, FALSE}
  /\ UNCHANGED <<last_emitted, told>>

(* Nothing, twice in a row: what was selected is no more. *)
ReadNothing ==
  /\ Reads /\ Up /\ Noted(Nothing)
  /\ LET gone == last_emitted # Nothing /\ empty_streak + 1 >= 2 IN
       /\ last_emitted' = IF gone THEN Nothing ELSE last_emitted
       /\ told' = IF gone THEN Nothing ELSE told
  /\ empty_streak' = IF empty_streak = 2 THEN 2 ELSE empty_streak + 1
  /\ UNCHANGED double

Next == TickDown \/ TickIdle \/ (\E text \in Texts : ReadText(text)) \/ ReadGesture \/ ReadNothing

Spec == Init /\ [][Next]_vars

(* The application is told of every selection at once; that it is gone      *)
(* after two readings, and never after one, which an application that is    *)
(* busy gives now and then (selection/state.rs:76-128).                     *)
ToldIsSelected ==
  /\ told = last_emitted
  /\ reads[1] \in Texts => told = reads[1]
  /\ reads[1] = Nothing /\ reads[2] \in Texts => told = reads[2]
  /\ reads = <<Nothing, Nothing>> => told = Nothing
=============================================================================
