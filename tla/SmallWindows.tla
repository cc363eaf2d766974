---------------------------- MODULE SmallWindows ----------------------------
(* The toast and the pins: states that know nothing of the toolkit, windows *)
(* that come and go with them, and the UI thread's queue, by which every    *)
(* click, hover and request reaches them (toast/, pin/, runtime.rs).        *)
EXTENDS Naturals, Sequences, FiniteSets

CONSTANTS
  Toasts,    (* what toasts can say *)
  Unreadable,(* those whose thumbnail cannot be decoded *)
  NoToast,
  MaxZoom, MaxShows, MaxInput, MaxJobs

VARIABLES
  toast,      (* toast/state.rs State *)
  window,     (* the toast's window: which one it is, 0 for none, and its text *)
  windows,    (* how many there have been *)
  timer,      (* whether the timer runs *)
  pins, sequence, (* the pins by number, and the last number given *)
  hidden,     (* windows made and not shown: what after_native waits for *)
  shown,      (* windows on the screen *)
  pointer,    (* whether the pointer is where the toast appears *)
  jobs,
  shows, inputs,
  opened,     (* the file the last click opened, and the one it was made on *)
  failed,     (* a thumbnail could not be decoded *)
  crossed     (* a click and another toast have crossed *)

vars == <<toast, window, windows, timer, pins, sequence, hidden, shown, pointer, jobs, shows, inputs,
          opened, failed, crossed>>

toastVars == <<toast, window, windows, timer, failed>>
pinVars == <<pins, sequence>>
userVars == <<pointer, shows, inputs, crossed>>

SmallAssumption == MaxZoom \in Nat

NoWindow == [id |-> 0, says |-> NoToast]
Hidden == [visible |-> FALSE, hovering |-> FALSE, deadline |-> FALSE, last |-> NoToast]

TypeOK ==
  /\ toast \in [visible : BOOLEAN, hovering : BOOLEAN, deadline : BOOLEAN, last : Toasts \cup {NoToast}]
  /\ window \in [id : 0 .. windows, says : Toasts \cup {NoToast}]
  /\ DOMAIN pins \subseteq 1 .. sequence
  /\ \A n \in DOMAIN pins : pins[n].zoom \in 0 .. 2 * MaxZoom

Init ==
  /\ toast = Hidden /\ window = NoWindow /\ windows = 0 /\ timer = FALSE /\ failed = FALSE
  /\ pins = <<>> /\ sequence = 0
  /\ hidden = {} /\ shown = {}
  /\ pointer \in BOOLEAN /\ jobs = <<>> /\ shows = 0 /\ inputs = 0
  /\ opened = <<NoToast, NoToast>> /\ crossed = FALSE

Post(job) == Len(jobs) < MaxJobs /\ jobs' = Append(jobs, job)

-----------------------------------------------------------------------------
(* toast/state.rs *)

ToastHidden(t) == [t EXCEPT !.visible = FALSE, !.hovering = FALSE, !.deadline = FALSE]

ToastShown(t, content) == [t EXCEPT !.visible = TRUE, !.last = content, !.deadline = ~t.hovering]

Hovered(t, over) == IF t.visible THEN [t EXCEPT !.hovering = over, !.deadline = ~over] ELSE t

(* toast/view.rs: hide_ui; retire takes the window away. *)
HideToast ==
  /\ toast' = ToastHidden(toast)
  /\ window' = NoWindow /\ timer' = FALSE
  /\ shown' = shown \ {<<"toast", window.id>>}
  /\ UNCHANGED <<windows, hidden, failed>>

(* View::show.  The text is in the window before the thumbnail is read; a   *)
(* thumbnail that cannot be read leaves everything else as it was.          *)
ShowToast(content) ==
  LET id == IF window.id = 0 THEN windows + 1 ELSE window.id IN
  /\ windows' = IF window.id = 0 THEN windows + 1 ELSE windows
  /\ UNCHANGED shown
  /\ IF content \in Unreadable
     THEN /\ failed' = TRUE
          /\ window' = IF window.id = 0 THEN window ELSE [window EXCEPT !.says = content]
          /\ UNCHANGED <<toast, timer, hidden>>
     ELSE /\ window' = [id |-> id, says |-> content]
          /\ toast' = ToastShown(toast, content)
          /\ timer' = toast'.deadline
          /\ hidden' = hidden \cup {<<"toast", id>>}
          /\ UNCHANGED failed

(* The hover of a window that is no longer the toast's is dropped. *)
HoverToast(id, over) ==
  /\ IF id = window.id /\ id # 0 THEN toast' = Hovered(toast, over) /\ timer' = toast'.deadline
     ELSE UNCHANGED <<toast, timer>>
  /\ UNCHANGED <<window, windows, hidden, shown, failed>>

-----------------------------------------------------------------------------
(* pin/state.rs and pin/view.rs: a pin is found by its number or not at all. *)

IsPin(id) == id \in DOMAIN pins

(* A slip: the zoom is not held between its ends. *)
ZoomedFreely(pin, direction) == [pin EXCEPT !.zoom = IF direction > 0 THEN @ + 1 ELSE @ - 1]

Zoomed(pin, direction) ==
  [pin EXCEPT !.zoom = IF direction > 0 THEN IF @ < 2 * MaxZoom THEN @ + 1 ELSE @
                       ELSE IF @ > 0 THEN @ - 1 ELSE @]
Unzoomed(pin) == [pin EXCEPT !.zoom = MaxZoom]

ShowPin ==
  /\ sequence' = sequence + 1
  /\ pins' = [n \in DOMAIN pins \cup {sequence + 1} |->
                IF n = sequence + 1 THEN [zoom |-> MaxZoom, ready |-> FALSE] ELSE pins[n]]
  /\ hidden' = hidden \cup {<<"pin", sequence + 1>>}
  /\ UNCHANGED shown

ClosePin(id) ==
  /\ pins' = [n \in DOMAIN pins \ {id} |-> pins[n]]
  /\ shown' = shown \ {<<"pin", id>>}
  /\ UNCHANGED <<sequence, hidden>>

(* geometry() shows the window again, at its new size. *)
ResizePin(id, Resized(_)) ==
  /\ pins' = [n \in DOMAIN pins |-> IF n = id THEN Resized(pins[n]) ELSE pins[n]]
  /\ shown' = IF IsPin(id) THEN shown \cup {<<"pin", id>>} ELSE shown
  /\ UNCHANGED <<sequence, hidden>>

-----------------------------------------------------------------------------
(* The UI thread. *)

Job(job) ==
  \/ job.kind = "show_toast" /\ ShowToast(job.content) /\ UNCHANGED <<pinVars, opened>>
  \/ job.kind = "hover" /\ HoverToast(job.id, job.over) /\ UNCHANGED <<pinVars, opened>>
  \/ job.kind = "dismiss" /\ HideToast /\ UNCHANGED <<pinVars, opened>>
  \/ job.kind = "open_file" /\ HideToast /\ opened' = <<job.on, toast.last>> /\ UNCHANGED pinVars
  \/ job.kind = "show_pin" /\ ShowPin /\ UNCHANGED <<toastVars, opened>>
  \/ job.kind = "zoom" /\ ResizePin(job.id, LAMBDA p : Zoomed(p, job.direction)) /\ UNCHANGED <<toastVars, opened>>
  \/ job.kind = "reset" /\ ResizePin(job.id, Unzoomed) /\ UNCHANGED <<toastVars, opened>>
  \/ job.kind = "close" /\ ClosePin(job.id) /\ UNCHANGED <<toastVars, opened>>

Ui ==
  /\ jobs # <<>>
  /\ jobs' = Tail(jobs)
  /\ Job(Head(jobs))
  /\ UNCHANGED userVars

(* What the callback of after_native looks at before it shows the window. *)
StillThere(w) == IF w[1] = "toast" THEN toast.visible /\ window.id = w[2] ELSE IsPin(w[2])

Native ==
  /\ \E w \in hidden :
       /\ hidden' = hidden \ {w}
       /\ shown' = IF StillThere(w) THEN shown \cup {w} ELSE shown
       /\ pins' = [n \in DOMAIN pins |-> IF w = <<"pin", n>> THEN [pins[n] EXCEPT !.ready = TRUE] ELSE pins[n]]
  /\ UNCHANGED <<toastVars, sequence, userVars, jobs, opened>>

(* tick, when the toast's time is up. *)
TimerFires ==
  /\ timer
  /\ HideToast
  /\ UNCHANGED <<pinVars, userVars, jobs, opened>>

-----------------------------------------------------------------------------
(* The application and the user. *)

ui == <<toastVars, pinVars, hidden, shown, opened>>

AskForToast ==
  /\ shows < MaxShows /\ shows' = shows + 1
  /\ \E content \in Toasts : Post([kind |-> "show_toast", content |-> content])
  /\ UNCHANGED <<ui, pointer, inputs, crossed>>

AskForPin ==
  /\ shows < MaxShows /\ shows' = shows + 1
  /\ Post([kind |-> "show_pin"])
  /\ UNCHANGED <<ui, pointer, inputs, crossed>>

ToastIsSeen == <<"toast", window.id>> \in shown
Input == inputs < MaxInput /\ inputs' = inputs + 1 /\ UNCHANGED <<ui, shows>>

(* The window under the pointer hears of it; a place without one does not. *)
PointerMoves ==
  /\ Input
  /\ pointer' = ~pointer
  /\ IF ToastIsSeen THEN Post([kind |-> "hover", id |-> window.id, over |-> ~pointer]) ELSE UNCHANGED jobs
  /\ UNCHANGED crossed

Waiting(kind) == \E i \in DOMAIN jobs : jobs[i].kind = kind

ClickToast ==
  /\ Input /\ ToastIsSeen /\ pointer
  /\ \/ Post([kind |-> "dismiss"]) /\ UNCHANGED crossed
     \/ Post([kind |-> "open_file", on |-> window.says]) /\ crossed' = (crossed \/ Waiting("show_toast"))
  /\ UNCHANGED pointer

UsePin ==
  /\ Input
  /\ \E w \in {v \in shown : v[1] = "pin"} :
       \/ \E d \in {0, 1} : Post([kind |-> "zoom", id |-> w[2], direction |-> d])
       \/ Post([kind |-> "reset", id |-> w[2]])
       \/ Post([kind |-> "close", id |-> w[2]])
  /\ UNCHANGED <<pointer, crossed>>

Next ==
  \/ Ui \/ Native \/ TimerFires
  \/ AskForToast \/ AskForPin \/ PointerMoves \/ ClickToast \/ UsePin

Spec == Init /\ [][Next]_vars

-----------------------------------------------------------------------------
(* A toast goes away by itself unless the pointer is on it: with no job     *)
(* waiting its clock runs, whatever windows it had before.                  *)
ToastGoesAway == toast.visible /\ ~pointer /\ jobs = <<>> => toast.deadline /\ timer

(* A click opens the file the toast spoke of - unless its window has        *)
(* already the text of one whose thumbnail could not be read, or another    *)
(* toast was on its way when the click was made (toast/view.rs:54, 87-90).  *)
ClickOpensWhatItSays == ~failed /\ ~crossed => opened[1] = opened[2]

(* Nothing is on the screen whose window has been given up: a window that   *)
(* comes after it was hidden or closed is not shown (runtime.rs             *)
(* after_native).                                                           *)
ClosedStaysClosed ==
  \A w \in shown :
    \/ w = <<"toast", window.id>> /\ toast.visible
    \/ w[1] = "pin" /\ IsPin(w[2])
=============================================================================
