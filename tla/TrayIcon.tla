------------------------------ MODULE TrayIcon ------------------------------
(* The icon in the notification area: its thread, that takes messages,      *)
(* commands and what the icon was asked (shotik-win/src/tray.rs), and the   *)
(* application, whose threads set the menu as the recorder goes on and off, *)
(* and for reasons of their own (shotik-app/src/tray.rs, recording.rs).  A  *)
(* menu is what it says of the recorder; the tooltip's text is left out.    *)
EXTENDS Naturals, Sequences

CONSTANTS
  Refreshers, (* threads that call refresh_tray *)
  NoOne,
  MaxFlips,   (* a bound: how often a start or an end, or a refresh besides, comes *)
  MaxClicks   (* a bound: how often the user or Explorer calls upon the icon *)

TrayAssumption == NoOne \notin Refreshers

VARIABLES
  starter,   (* the thread whose start rec_starting is, or NoOne *)
  recording, (* recorder.is_recording() *)
  flips, clicks,
  refresher, (* where each thread is *)
  seen,      (* what it found the recorder doing *)
  commands, messages, cancel, (* the channel; the queue of WAKEs; WM_CANCELMODE *)
  events,    (* what `procedure` noted *)
  thread,    (* "get", "commands", "events", "open" or "gone" *)
  menu, offered, chosen,      (* the model, the one on the screen, the choice *)
  icon, thread_error,
  amiss,     (* ghost: the last refresh overlapped another, or its menu was refused *)
  unsaid     (* ghost: a start came to nothing after the last look *)

vars == <<starter, recording, flips, clicks, refresher, seen, commands, messages, cancel, events, thread,
          menu, offered, chosen, icon, thread_error, amiss, unsaid>>

recorderVars == <<starter, recording, flips, unsaid>>
appVars == <<recorderVars, refresher, seen, amiss>>
threadVars == <<thread, menu, offered, chosen, icon>>
trayVars == <<commands, messages, cancel, events, threadVars, thread_error>>

(* A thread that starts a recording is at "starting" until the recorder has *)
(* one, and at "clear" before it forgets that it starts.                    *)
Refreshing == {"look", "tooltip", "tooltip_sent", "menu", "menu_sent"}
Places == {"idle", "starting", "clear"} \cup Refreshing

TypeOK ==
  /\ starter \in Refreshers \cup {NoOne}
  /\ {recording, cancel, menu, offered, icon, thread_error, amiss, unsaid} \subseteq BOOLEAN
  /\ refresher \in [Refreshers -> Places] /\ seen \in [Refreshers -> BOOLEAN]
  /\ thread \in {"get", "commands", "events", "open", "gone"}
  /\ messages \in Nat

Init ==
  /\ starter = NoOne /\ recording = FALSE /\ flips = 0 /\ clicks = 0
  /\ refresher = [r \in Refreshers |-> "idle"] /\ seen = [r \in Refreshers |-> FALSE]
  /\ commands = <<>> /\ messages = 0 /\ cancel = FALSE /\ events = <<>>
  /\ thread = "get" /\ menu = FALSE /\ offered = FALSE /\ chosen = "nothing"
  /\ icon = TRUE /\ thread_error = FALSE
  /\ amiss = FALSE /\ unsaid = FALSE

-----------------------------------------------------------------------------
(* refresh_tray, called for every state the recorder tells, and whenever    *)
(* the hotkeys, the language or the update have changed.                    *)

is_recording == starter # NoOne \/ recording

Counted == flips < MaxFlips /\ flips' = flips + 1

(* One that begins alone makes good what went amiss before. *)
Refreshes(r) ==
  /\ refresher' = [refresher EXCEPT ![r] = "look"]
  /\ amiss' = \E s \in Refreshers \ {r} : refresher[s] \in Refreshing

Goes(r, place) == refresher' = [refresher EXCEPT ![r] = place] /\ UNCHANGED amiss

(* start_recording: nobody is told. *)
StartRecording(r) ==
  /\ refresher[r] = "idle" /\ ~is_recording /\ Counted
  /\ starter' = r /\ Goes(r, "starting")
  /\ UNCHANGED <<recording, unsaid, clicks, seen, trayVars>>

(* The recorder tells its first state before the worker is there ...        *)
Begins(r) ==
  /\ refresher[r] = "starting" /\ recording' = TRUE /\ Refreshes(r)
  /\ UNCHANGED <<starter, flips, unsaid, clicks, seen, trayVars>>

(* ... or it was called off, or fails, and tells nothing.                   *)
CalledOff(r) ==
  /\ refresher[r] = "starting" /\ Goes(r, "clear")
  /\ UNCHANGED <<recorderVars, clicks, seen, trayVars>>

(* No refresh comes of it.                                                  *)
Cleared(r) ==
  /\ refresher[r] = "clear" /\ Goes(r, "idle")
  /\ starter' = NoOne /\ unsaid' = ~recording
  /\ UNCHANGED <<recording, flips, clicks, seen, trayVars>>

(* Its worker or its watchdog ends a session, or the start that could make  *)
(* no worker: the state is told, though the start may not be over yet.      *)
Ends(r) ==
  /\ recording /\ refresher[r] \in {"idle", "clear"}
  /\ starter # NoOne => refresher[starter] = "clear"
  /\ Counted /\ recording' = FALSE /\ Refreshes(r)
  /\ UNCHANGED <<starter, unsaid, clicks, seen, trayVars>>

RefreshesBesides(r) ==
  /\ refresher[r] = "idle" /\ Counted /\ Refreshes(r)
  /\ UNCHANGED <<starter, recording, unsaid, clicks, seen, trayVars>>

LookAtRecorder(r) ==
  /\ refresher[r] = "look" /\ Goes(r, "tooltip")
  /\ seen' = [seen EXCEPT ![r] = is_recording]
  /\ unsaid' = FALSE
  /\ UNCHANGED <<starter, recording, flips, clicks, trayVars>>

(* The thread that starts hears its own state, and goes on.                 *)
After(r) == IF starter = r THEN "clear" ELSE "idle"
Then(r) == IF refresher[r] \in {"tooltip", "tooltip_sent"} THEN "menu" ELSE After(r)

(* WindowsTray::send: an error kept from before is the answer, and nothing  *)
(* is sent.  A sent command waits for its reply.                            *)
Send(r) ==
  /\ refresher[r] \in {"tooltip", "menu"}
  /\ IF thread_error \/ thread = "gone"
     THEN /\ refresher' = [refresher EXCEPT ![r] = Then(r)]
          /\ amiss' = (amiss \/ refresher[r] = "menu")
          /\ UNCHANGED <<commands, messages>>
     ELSE /\ Goes(r, IF refresher[r] = "menu" THEN "menu_sent" ELSE "tooltip_sent")
          /\ commands' = Append(commands, [kind |-> refresher[r], of |-> r, says |-> seen[r]])
          /\ messages' = messages + 1
  /\ thread_error' = FALSE
  /\ UNCHANGED <<recorderVars, clicks, seen, cancel, events, threadVars>>

-----------------------------------------------------------------------------
(* The thread. *)

GetMessage ==
  /\ thread = "get"
  /\ \/ messages > 0 /\ messages' = messages - 1 /\ UNCHANGED cancel
     \/ cancel /\ cancel' = FALSE /\ UNCHANGED messages
  /\ thread' = "commands"
  /\ UNCHANGED <<appVars, clicks, commands, events, menu, offered, chosen, icon, thread_error>>

(* NativeMenu::new: a menu that cannot be made leaves the one there is;     *)
(* either way the caller has its answer.                                    *)
Command(c) ==
  /\ \/ c.kind = "menu" /\ menu' = c.says /\ UNCHANGED amiss
     \/ c.kind = "menu" /\ amiss' = TRUE /\ UNCHANGED menu
     \/ c.kind # "menu" /\ UNCHANGED <<menu, amiss>>
  /\ thread' = IF c.kind = "quit" THEN "gone" ELSE "commands"
  /\ refresher' = IF c.kind = "quit" THEN refresher ELSE [refresher EXCEPT ![c.of] = Then(c.of)]

DrainCommands ==
  /\ thread = "commands"
  /\ IF commands = <<>> THEN thread' = "events" /\ UNCHANGED <<commands, menu, refresher, amiss>>
     ELSE commands' = Tail(commands) /\ Command(Head(commands))
  /\ UNCHANGED <<recorderVars, clicks, seen, messages, cancel, events, offered, chosen, icon, thread_error>>

(* Explorer has restarted: the icon is added again, or the error kept. *)
Restart ==
  \/ icon' = TRUE /\ UNCHANGED thread_error
  \/ icon' = FALSE /\ thread_error' = TRUE

DrainEvents ==
  /\ thread = "events"
  /\ IF events = <<>>
     THEN thread' = "get" /\ UNCHANGED <<events, offered, chosen, icon, thread_error>>
     ELSE /\ events' = Tail(events)
          /\ \/ Head(events) = "restart" /\ Restart /\ UNCHANGED <<thread, offered>>
             \/ /\ Head(events) = "menu" /\ thread' = "open" /\ offered' = menu
                /\ UNCHANGED <<icon, thread_error>>
             \/ Head(events) = "activate" /\ UNCHANGED <<thread, offered, icon, thread_error>>
          /\ chosen' = "nothing"
  /\ UNCHANGED <<appVars, clicks, commands, messages, cancel, menu>>

(* The menu's own loop takes messages, too, and the commands wait. *)
NestedLoop ==
  /\ thread = "open" /\ messages > 0
  /\ messages' = messages - 1
  /\ UNCHANGED <<appVars, clicks, commands, cancel, events, threadVars, thread_error>>

WakesItself == messages' = messages + 1

(* The user chooses or turns away, or WM_CANCELMODE closes the menu; or it  *)
(* could not be shown, and the error is kept.                               *)
CloseMenu ==
  /\ thread = "open"
  /\ \/ cancel' = FALSE /\ chosen' = "nothing" /\ UNCHANGED thread_error
     \/ chosen' = (IF menu THEN "stop-rec" ELSE "record") /\ UNCHANGED <<cancel, thread_error>>
     \/ chosen' = "nothing" /\ thread_error' = TRUE /\ UNCHANGED cancel
  /\ WakesItself
  /\ thread' = "events"
  /\ UNCHANGED <<appVars, clicks, commands, events, menu, offered, icon>>

-----------------------------------------------------------------------------
Quitting == \E i \in DOMAIN commands : commands[i].kind = "quit"

(* `procedure`, called by whatever loop takes the icon's message. *)
CallUpon ==
  /\ clicks < MaxClicks /\ clicks' = clicks + 1
  /\ \E e \in {"restart", "menu", "activate"} :
       /\ events' = Append(events, e)
       /\ icon' = IF e = "restart" THEN FALSE ELSE icon
       /\ e # "restart" => icon
  /\ thread # "gone"
  /\ messages' = messages + 1
  /\ UNCHANGED <<appVars, commands, cancel, thread, menu, offered, chosen, thread_error>>

(* Drop: the command, then the message that closes an open menu; a second   *)
(* menu that was asked for meanwhile holds it up again.                     *)
Drop ==
  /\ thread # "gone" /\ ~Quitting
  /\ commands' = Append(commands, [kind |-> "quit"])
  /\ cancel' = TRUE
  /\ messages' = messages + 1
  /\ UNCHANGED <<appVars, clicks, events, threadVars, thread_error>>

Next ==
  \/ \E r \in Refreshers :
       \/ StartRecording(r) \/ Begins(r) \/ CalledOff(r) \/ Cleared(r) \/ Ends(r)
       \/ RefreshesBesides(r) \/ LookAtRecorder(r) \/ Send(r)
  \/ GetMessage \/ DrainCommands \/ DrainEvents \/ NestedLoop \/ CloseMenu
  \/ CallUpon \/ Drop

Spec == Init /\ [][Next]_vars

-----------------------------------------------------------------------------
(* What the thread has been told is never left for the next message to come *)
(* by chance, though the menu's loop takes its messages away.               *)
NothingIsOverlooked == thread = "get" /\ (commands # <<>> \/ events # <<>>) => messages > 0

(* What is chosen was on the menu that was open, however often it was set   *)
(* meanwhile.                                                               *)
ChoiceWasOffered == chosen \in {"nothing", IF offered THEN "stop-rec" ELSE "record"}

(* Once nobody starts a recording or refreshes the tray, a menu that offers *)
(* to start one tells that none runs; and one that offers to stop it tells  *)
(* that one runs, unless a start came to nothing after it was made, which   *)
(* refreshes nothing (recording.rs:55) - provided the last refresh crossed  *)
(* no other, of which the one that looked earlier can come last, and its    *)
(* menu was not refused for an older error or failed to be made             *)
(* (shotik-app/src/tray.rs:35-43).                                          *)
TrayFollowsRecorder ==
  (\A r \in Refreshers : refresher[r] = "idle") /\ ~amiss =>
    (recording => menu) /\ (menu => recording \/ unsaid)
=============================================================================
