----------------------------- MODULE MainWindow -----------------------------
(* The main window: its state on the UI thread, the worker that does what   *)
(* the window asks of the application one job after another, and the        *)
(* application's side of it: settings, the global hotkeys and the history.  *)
(* Sources: main_window/state.rs, main_window/view.rs, host.rs, tray.rs.    *)
EXTENDS Naturals, Sequences, FiniteSets, Functions

CONSTANTS
  Fields,     (* hotkey fields of the settings page                         *)
  Keys,       (* combinations; a field holds one                            *)
  Texts,      (* what the user translates                                   *)
  Entries,    (* entries of the history                                     *)
  None,
  MaxEvents   (* a bound on what the user does                              *)

WindowAssumption == Keys # {} /\ Fields \cap {"microphone", "language"} = {}

VARIABLES
  (* the UI thread *)
  page, ready, revision, shown, requested,
  focus,      (* hotkey_focus: the field a combination is recorded for      *)
  settings,   (* the settings as the window shows them                      *)
  text,       (* the text page                                              *)
  history,    (* the entries it shows                                       *)
  busy,       (* entries with an OCR or a GIF under way                     *)
  ui_queue,   (* closures posted to the UI thread                           *)
  (* the worker "shotik-main-host" and what it calls *)
  jobs,
  running,    (* the job it is at, and where                                *)
  stored,     (* the settings                                               *)
  files,      (* the entries there are                                      *)
  hotkeys_suspended,
  grabbed,    (* the combinations Windows has registered for the program    *)
  tasks,      (* work on threads of its own: translations and OCR           *)
  events

uiVars == <<page, ready, revision, shown, requested, focus, settings, text, history, busy>>
hostVars == <<stored, files, hotkeys_suspended, grabbed>>
vars == <<uiVars, ui_queue, jobs, running, hostVars, tasks, events>>

Pages == {"history", "text", "claude", "settings"}
Settings == [keys : [Fields -> Keys], microphone : BOOLEAN, language : {"en", "ru"}]
NoText == [request |-> 0, visible |-> FALSE, loading |-> FALSE, input |-> None, result |-> None]
(* Jobs, closures and tasks: what, and what it is about. *)
Do(what, about) == [what |-> what, about |-> about]
NotRunning == Do("none", None)

TypeOK ==
  /\ page \in Pages /\ ready \in BOOLEAN /\ revision \in Nat
  /\ shown \in BOOLEAN /\ requested \in BOOLEAN /\ (shown => requested)
  /\ focus \in Fields \cup {None} /\ settings \in Settings
  /\ text.loading \in BOOLEAN /\ {text.input, text.result} \subseteq Texts \cup {None}
  /\ history \subseteq Entries /\ busy \subseteq Entries /\ files \subseteq Entries
  /\ stored \in Settings /\ hotkeys_suspended \in BOOLEAN
  /\ grabbed = None \/ grabbed \in [Fields -> Keys]

FirstSettings == [keys |-> [f \in Fields |-> CHOOSE k \in Keys : TRUE], microphone |-> FALSE,
                  language |-> "en"]

(* The window has been created, which reloads it; nothing has come yet. *)
Init ==
  /\ page = "history" /\ ready = FALSE /\ revision = 1 /\ shown = FALSE /\ requested = TRUE
  /\ focus = None /\ settings = FirstSettings /\ text = [NoText EXCEPT !.request = 1]
  /\ history = {} /\ busy = {} /\ ui_queue = <<>>
  /\ jobs = <<Do("load", 1)>> /\ running = NotRunning
  /\ stored = FirstSettings /\ files = Entries
  /\ hotkeys_suspended = FALSE /\ grabbed = FirstSettings.keys
  /\ tasks = {} /\ events = 0

-----------------------------------------------------------------------------
(* The reducer.  What it asks of the application is queued for the worker,  *)
(* in order; only suspending the hotkeys is done on the spot.               *)

BlurJobs == IF focus = None THEN <<>> ELSE <<Do("resume", None)>>

Unfocused == focus' = None /\ jobs' = jobs \o BlurJobs

Suspend == hotkeys_suspended' = TRUE /\ grabbed' = None

Ask(what, about) == jobs' = Append(jobs, Do(what, about))

Reloaded ==
  /\ focus' = None
  /\ ready' = FALSE /\ revision' = revision + 1
  /\ text' = [text EXCEPT !.request = @ + 1]
  /\ jobs' = jobs \o BlurJobs \o <<Do("load", revision + 1)>>

Loaded(l) ==
  /\ settings' = l.settings /\ history' = l.history
  /\ page' = "history" /\ ready' = TRUE
  /\ text' = [NoText EXCEPT !.request = text.request]

(* An empty text asks for nothing and hides the last result. *)
Translate(input) ==
  text' = [request |-> text.request + 1, visible |-> input # None, loading |-> input # None, input |-> input,
           result |-> IF input = None THEN None ELSE text.result]

-----------------------------------------------------------------------------
(* What the user does.                                                      *)

Event == events < MaxEvents /\ events' = events + 1
OnWindow == Event /\ shown /\ UNCHANGED <<ui_queue, running, tasks>>

(* A field gets the keyboard: from another field, that one is blurred. *)
HotkeyFocus(f) ==
  /\ OnWindow /\ page = "settings" /\ focus # f
  /\ focus' = f /\ jobs' = jobs \o BlurJobs
  /\ Suspend
  /\ UNCHANGED <<page, ready, revision, shown, requested, settings, text, history, busy, stored, files>>

HotkeyBlur ==
  /\ OnWindow /\ focus # None
  /\ Unfocused
  /\ UNCHANGED <<page, ready, revision, shown, requested, settings, text, history, busy, hostVars>>

(* A slip: the hotkeys come back when the next one has been chosen. *)
HotkeyRecordedKeeps(k) ==
  /\ OnWindow /\ focus # None
  /\ focus' = None
  /\ jobs' = jobs \o IF k = None THEN <<>> ELSE <<Do("save", [field |-> focus, to |-> k])>>
  /\ UNCHANGED <<page, ready, revision, shown, requested, settings, text, history, busy, hostVars>>

(* A combination is recorded, or Escape pressed: saved first, then resumed. *)
HotkeyRecorded(k) ==
  /\ OnWindow /\ focus # None
  /\ focus' = None
  /\ jobs' = jobs \o (IF k = None THEN <<>> ELSE <<Do("save", [field |-> focus, to |-> k])>>) \o BlurJobs
  /\ UNCHANGED <<page, ready, revision, shown, requested, settings, text, history, busy, hostVars>>

Navigate(to) ==
  /\ OnWindow /\ page # to
  /\ page' = to
  /\ IF to = "settings" THEN UNCHANGED <<focus, jobs>> ELSE Unfocused
  /\ UNCHANGED <<ready, revision, shown, requested, settings, text, history, busy, hostVars>>

(* The switch turns at once, and what it shows then is what it saves. *)
MicrophoneToggle ==
  /\ OnWindow /\ page = "settings" /\ ready
  /\ settings' = [settings EXCEPT !.microphone = ~@]
  /\ Ask("save", [field |-> "microphone", to |-> settings'.microphone])
  /\ UNCHANGED <<page, ready, revision, shown, requested, focus, text, history, busy, hostVars>>

ChooseLanguage ==
  /\ OnWindow /\ page = "settings" /\ ready
  /\ \E l \in {"en", "ru"} \ {settings.language} : Ask("save", [field |-> "language", to |-> l])
  /\ UNCHANGED <<uiVars, hostVars>>

TranslateText(input) ==
  /\ OnWindow /\ page = "text"
  /\ Translate(input)
  /\ IF input = None THEN UNCHANGED jobs
     ELSE Ask("translate", [request |-> text.request + 1, input |-> input])
  /\ UNCHANGED <<page, ready, revision, shown, requested, focus, settings, history, busy, hostVars>>

(* copy, pin, reveal and open change nothing here; removing does. *)
HistoryRemove(e) ==
  /\ OnWindow /\ page = "history" /\ e \in history
  /\ Ask("remove", e)
  /\ UNCHANGED <<uiVars, hostVars>>

ClearHistory ==
  /\ OnWindow /\ page = "history" /\ Ask("clear", None)
  /\ UNCHANGED <<uiVars, hostVars>>

(* A capture is added, and the window told: HistoryChanged. *)
Captured(e) ==
  /\ Event /\ e \notin files
  /\ files' = files \cup {e} /\ Ask("list", None)
  /\ UNCHANGED <<uiVars, ui_queue, running, stored, hotkeys_suspended, grabbed, tasks>>

HistoryWork(e) ==
  /\ OnWindow /\ page = "history" /\ e \in history
  /\ busy' = busy \cup {e}
  /\ Ask("work", e)
  /\ UNCHANGED <<page, ready, revision, shown, requested, focus, settings, text, history, hostVars>>

Close ==
  /\ OnWindow
  /\ shown' = FALSE /\ requested' = FALSE
  /\ Unfocused
  /\ UNCHANGED <<page, ready, revision, settings, text, history, busy, hostVars>>

(* The tray, a second launch: the window may be shown once it is ready. *)
Show ==
  /\ Event /\ ~shown
  /\ requested' = TRUE /\ shown' = ready
  /\ UNCHANGED <<page, ready, revision, focus, settings, text, history, busy, ui_queue, jobs, running,
                 hostVars, tasks>>

-----------------------------------------------------------------------------
(* The worker.                                                              *)

Post(closures) == ui_queue' = ui_queue \o closures
Done(closures) == running' = NotRunning /\ Post(closures)

TakeJob ==
  /\ running = NotRunning /\ jobs # <<>>
  /\ running' = Head(jobs) /\ jobs' = Tail(jobs)
  /\ UNCHANGED <<uiVars, ui_queue, hostVars, tasks, events>>

(* What a reload needs is read; without the list of devices it ends there. *)
Load ==
  /\ running.what = "load"
  /\ \/ Done(<<Do("loaded", [revision |-> running.about, settings |-> stored, history |-> files])>>)
     \/ Done(<<>>)
  /\ UNCHANGED <<uiVars, jobs, hostVars, tasks, events>>

Patched(patch) ==
  CASE patch.field \in Fields -> [stored EXCEPT !.keys[patch.field] = patch.to]
    [] patch.field = "microphone" -> [stored EXCEPT !.microphone = patch.to]
    [] OTHER -> [stored EXCEPT !.language = patch.to]

(* apply_settings: stored, and what follows from it; or it cannot be stored. *)
Save ==
  /\ running.what = "save"
  /\ LET after == Patched(running.about) IN
       \/ /\ stored' = after
          /\ \/ after.keys # stored.keys /\ running' = Do("unregister", "save") /\ UNCHANGED ui_queue
             \/ /\ after.keys = stored.keys /\ after.language # stored.language
                /\ Done(<<Do("reload", None), Do("saved", after), Do("reload", None)>>)
             \/ /\ after.keys = stored.keys /\ after.language = stored.language
                /\ Done(<<Do("saved", after)>> \o
                        IF running.about.field = "language" THEN <<Do("reload", None)>> ELSE <<>>)
       \/ stored' = stored /\ Done(<<>>)
  /\ UNCHANGED <<uiVars, jobs, files, hotkeys_suspended, grabbed, tasks, events>>

Resume ==
  /\ running.what = "resume"
  /\ hotkeys_suspended' = FALSE
  /\ running' = Do("unregister", "resume")
  /\ UNCHANGED <<uiVars, ui_queue, jobs, stored, files, grabbed, tasks, events>>

(* register_hotkeys: away with the old, a look whether they are suspended,  *)
(* and the new.                                                             *)
RegisterClear ==
  /\ running.what = "unregister"
  /\ grabbed' = None
  /\ running' = Do("look", running.about)
  /\ UNCHANGED <<uiVars, ui_queue, jobs, stored, files, hotkeys_suspended, tasks, events>>

Registered(by) == IF by = "save" THEN <<Do("saved", stored)>> ELSE <<>>

RegisterLook ==
  /\ running.what = "look"
  /\ IF hotkeys_suspended THEN Done(Registered(running.about))
     ELSE running' = Do("grab", running.about) /\ UNCHANGED ui_queue
  /\ UNCHANGED <<uiVars, jobs, hostVars, tasks, events>>

RegisterGrab ==
  /\ running.what = "grab"
  /\ grabbed' = stored.keys
  /\ Done(Registered(running.about))
  /\ UNCHANGED <<uiVars, jobs, stored, files, hotkeys_suspended, tasks, events>>

(* Translations, OCR and GIFs go to threads of their own. *)
Spawn ==
  /\ running.what \in {"translate", "work"}
  /\ tasks' = tasks \cup {running} /\ Done(<<>>)
  /\ UNCHANGED <<uiVars, jobs, hostVars, events>>

TaskEnds(t) ==
  /\ tasks' = tasks \ {t}
  /\ Post(<<Do(IF t.what = "work" THEN "finished" ELSE "translated", t.about)>>)
  /\ UNCHANGED <<uiVars, jobs, running, hostVars, events>>

(* The list is read again when something was removed; each can fail. *)
ListJob ==
  /\ running.what \in {"remove", "clear", "list"}
  /\ \/ /\ files' = CASE running.what = "remove" -> files \ {running.about}
                       [] running.what = "clear" -> {}
                       [] OTHER -> files
        /\ Done(<<Do("history", files')>>)
     \/ running.what # "list" /\ files' = files /\ Done(<<>>)
  /\ UNCHANGED <<uiVars, jobs, stored, hotkeys_suspended, grabbed, tasks, events>>

-----------------------------------------------------------------------------
(* One closure on the UI thread.                                            *)

UiTurn(c) ==
  \/ /\ c.what = "loaded" /\ c.about.revision = revision
     (* after_native: a turn of its own *)
     /\ ui_queue' = Append(Tail(ui_queue), Do("show", c.about))
     /\ UNCHANGED <<uiVars, jobs>>
  \/ /\ c.what \in {"loaded", "show"} /\ c.about.revision # revision
     /\ ui_queue' = Tail(ui_queue) /\ UNCHANGED <<uiVars, jobs>>
  \/ /\ c.what = "show" /\ c.about.revision = revision
     /\ Loaded(c.about)
     /\ shown' = (shown \/ requested)
     /\ ui_queue' = Tail(ui_queue)
     /\ UNCHANGED <<revision, requested, focus, busy, jobs>>
  \/ /\ c.what = "saved"
     /\ settings' = c.about
     /\ ui_queue' = Tail(ui_queue)
     /\ UNCHANGED <<page, ready, revision, shown, requested, focus, text, history, busy, jobs>>
  \/ /\ c.what = "reload"
     /\ Reloaded
     /\ ui_queue' = Tail(ui_queue)
     /\ UNCHANGED <<page, shown, requested, settings, history, busy>>
  \/ /\ c.what = "translated"
     /\ IF c.about.request = text.request
        THEN \E answer \in {c.about.input, None} :
               text' = [text EXCEPT !.loading = FALSE, !.result = answer]
        ELSE UNCHANGED text
     /\ ui_queue' = Tail(ui_queue)
     /\ UNCHANGED <<page, ready, revision, shown, requested, focus, settings, history, busy, jobs>>
  \/ /\ c.what = "finished"
     /\ busy' = busy \ {c.about}
     /\ ui_queue' = Tail(ui_queue)
     /\ UNCHANGED <<page, ready, revision, shown, requested, focus, settings, text, history, jobs>>
  \/ /\ c.what = "history"
     /\ history' = c.about
     /\ ui_queue' = Tail(ui_queue)
     /\ UNCHANGED <<page, ready, revision, shown, requested, focus, settings, text, busy, jobs>>

Ui ==
  /\ ui_queue # <<>> /\ UiTurn(Head(ui_queue))
  /\ UNCHANGED <<running, hostVars, tasks, events>>

Work == TakeJob \/ Load \/ Save \/ Resume \/ RegisterClear \/ RegisterLook \/ RegisterGrab \/ Spawn \/ ListJob

Next ==
  \/ \E f \in Fields : HotkeyFocus(f)
  \/ HotkeyBlur
  \/ \E k \in Keys \cup {None} : HotkeyRecorded(k)
  \/ \E p \in Pages : Navigate(p)
  \/ MicrophoneToggle \/ ChooseLanguage
  \/ \E t \in Texts \cup {None} : TranslateText(t)
  \/ \E e \in Entries : HistoryRemove(e) \/ HistoryWork(e) \/ Captured(e)
  \/ ClearHistory \/ Close \/ Show
  \/ Work \/ Ui
  \/ \E t \in tasks : TaskEnds(t)

Spec == Init /\ [][Next]_vars

-----------------------------------------------------------------------------
AtRest == jobs = <<>> /\ running = NotRunning /\ ui_queue = <<>>

(* When no combination is being recorded and everything asked for is done,  *)
(* the hotkeys are registered, as last saved, however fields, pages and the *)
(* window were left (view.rs:45 "hotkey save -> real resume").              *)
KeysComeBack == AtRest /\ focus = None => grabbed = stored.keys

(* While a combination is recorded the window gets the keys, not the        *)
(* hotkeys (tray.rs:94-95).  It does not when the user goes from one field  *)
(* straight to another: the first one's ResumeHotkeys waits for the worker  *)
(* while the second one's SuspendHotkeys is done at once.                   *)
RecordingIsQuiet == AtRest /\ focus # None => grabbed = None

OnItsWay(what, about) ==
  \/ \E k \in DOMAIN jobs : jobs[k] = Do(what, about)
  \/ running = Do(what, about)
  \/ Do(what, about) \in tasks

(* What the window shows as under way is under way: a translation it waits  *)
(* for, an entry marked busy; and a result belongs to the last question.    *)
NothingWaitsInVain ==
  /\ ready /\ text.loading =>
       LET q == [request |-> text.request, input |-> text.input] IN
       OnItsWay("translate", q) \/ Do("translated", q) \in Range(ui_queue)
  /\ \A e \in busy : OnItsWay("work", e) \/ Do("finished", e) \in Range(ui_queue)
  /\ text.visible /\ ~text.loading => text.result \in {text.input, None}
=============================================================================
