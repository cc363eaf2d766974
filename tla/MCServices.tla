----------------------------- MODULE MCServices -----------------------------
(* The parts of the program that share no variable with one another, each   *)
(* on a small instance.  One of them moves at a time: `part` says which.    *)
EXTENDS Integers, Sequences

CONSTANTS
  Missing, Torn, Nothing, None, Nobody,
  Savers, Recorders, Numbers, Files, MaxItems, MaxSaves, MaxCrashes,  (* of History *)
  Fields, Keys, Texts, Entries, MaxEvents,                            (* of MainWindow *)
  Callers, Actions, Combos, Requests, MaxMessages,                    (* of Hotkeys *)
  Presses, Gestures, Clicks, Translations, MaxQueue, IdleTicks,       (* of the selection *)
  Processes,                                                          (* of SingleInstance *)
  Ports, MaxChanges,                                                  (* of McpService *)
  Wrong, MaxEdits, MaxStarts,                                         (* of AppSettings *)
  Reach, Palette, Width, Height                                       (* of SelectedText *)

VARIABLES
  part,
  up, index, items, op, on_disk, saver, counter, saves, crashes,
  page, ready, revision, shown, requested, focus, settings, text, history, busy, ui_queue, jobs,
  running, stored, files, hotkeys_suspended, grabbed, tasks, events,
  commands, messages, bindings, work, at, caller, fired,
  clipboard, asked, place, found, saved, last, users, amiss,
  thread, popup_queue, popup, over,
  pending_selection, last_translated, ocr_busy, gesture, watcher, clicked, queue, bubble, raced,
  mistaken,
  was_down, double, last_emitted, idle, empty_streak, told, reads,
  pc, holders, pipe, to_server, to_client, heard, excused,
  mcp, changes, restarts, slot, servers, listening, overlapped, refused,
  runs, state, settings_file, call, field, resumes, suspended, bound, watching, language, run_key, approved, edits,
  starts, said, lapsed,
  subject

History == INSTANCE History
Window == INSTANCE MainWindow
Keyboard == INSTANCE Hotkeys
Loan == INSTANCE ClipboardLoan WITH at <- place, text <- found, last_translated <- last
Popup == INSTANCE TranslatePopup WITH at <- thread, queue <- popup_queue, Threads <- Translations
TheBubble == INSTANCE Bubble
Watch == INSTANCE SelectionWatch
Instances == INSTANCE SingleInstance
Mcp == INSTANCE McpService WITH settings <- mcp, tasks <- restarts, told <- refused
Settings == INSTANCE AppSettings WITH stored <- settings_file, changes <- edits, told <- said,
                                      MaxChanges <- MaxEdits
Reader == INSTANCE SelectedText

ASSUME ServicesAssumption ==
  /\ History!HistoryAssumption /\ Window!WindowAssumption /\ Watch!WatchAssumption /\ Settings!SettingsAssumption
  /\ Instances!InstancesAssumption /\ Keyboard!HotkeysAssumption
  /\ Mcp!McpAssumption /\ Popup!PopupAssumption /\ TheBubble!BubbleAssumption

historyVars == <<up, index, items, op, on_disk, saver, counter, saves, crashes>>
windowVars == <<page, ready, revision, shown, requested, focus, settings, text, history, busy,
                ui_queue, jobs, running, stored, files, hotkeys_suspended, grabbed, tasks, events>>
keyboardVars == <<commands, messages, bindings, work, at, caller, fired>>
loanVars == <<clipboard, asked, place, found, saved, last, users, amiss>>
popupVars == <<thread, popup_queue, popup, over>>
bubbleVars == <<pending_selection, last_translated, ocr_busy, gesture, watcher, clicked, queue,
                bubble, raced, mistaken>>
watchVars == <<was_down, double, last_emitted, idle, empty_streak, told, reads>>
instanceVars == <<pc, holders, pipe, to_server, to_client, heard, excused>>
mcpVars == <<mcp, changes, restarts, slot, servers, listening, overlapped, refused>>
settingsVars == <<runs, state, settings_file, call, field, resumes, suspended, bound, watching,
                  language, run_key, approved, edits, starts, said, lapsed>>

vars == <<part, historyVars, windowVars, keyboardVars, loanVars, popupVars, bubbleVars, watchVars,
          instanceVars, mcpVars, settingsVars, subject>>

Parts == {"history", "window", "keyboard", "loan", "popup", "bubble", "watch", "instances", "mcp",
          "settings", "text"}

(* What does not move has one state. *)
Init ==
  /\ part \in Parts
  /\ History!Init /\ Window!Init /\ Keyboard!Init /\ Loan!Init /\ Popup!Init /\ TheBubble!Init
  /\ Watch!Init /\ Instances!Init /\ Mcp!Init /\ Settings!Init
  /\ IF part = "text" THEN Reader!Init ELSE subject = [kind |-> "none"]
  /\ part = "history" \/ items = <<>>
  /\ part = "loan" \/ clipboard = Loan!Image
  /\ part = "mcp" \/ (mcp.enabled /\ mcp.port = CHOOSE p \in Ports : TRUE)

OnlyHistory == UNCHANGED <<part, windowVars, keyboardVars, loanVars, popupVars, bubbleVars,
                           watchVars, instanceVars, mcpVars, settingsVars, subject>>
OnlyWindow == UNCHANGED <<part, historyVars, keyboardVars, loanVars, popupVars, bubbleVars,
                          watchVars, instanceVars, mcpVars, settingsVars, subject>>
OnlyKeyboard == UNCHANGED <<part, historyVars, windowVars, loanVars, popupVars, bubbleVars,
                            watchVars, instanceVars, mcpVars, settingsVars, subject>>
OnlyLoan == UNCHANGED <<part, historyVars, windowVars, keyboardVars, popupVars, bubbleVars,
                        watchVars, instanceVars, mcpVars, settingsVars, subject>>
OnlyPopup == UNCHANGED <<part, historyVars, windowVars, keyboardVars, loanVars, bubbleVars,
                         watchVars, instanceVars, mcpVars, settingsVars, subject>>
OnlyBubble == UNCHANGED <<part, historyVars, windowVars, keyboardVars, loanVars, popupVars,
                          watchVars, instanceVars, mcpVars, settingsVars, subject>>
OnlyWatch == UNCHANGED <<part, historyVars, windowVars, keyboardVars, loanVars, popupVars,
                         bubbleVars, instanceVars, mcpVars, settingsVars, subject>>
OnlyInstances == UNCHANGED <<part, historyVars, windowVars, keyboardVars, loanVars, popupVars,
                             bubbleVars, watchVars, mcpVars, settingsVars, subject>>
OnlyMcp == UNCHANGED <<part, historyVars, windowVars, keyboardVars, loanVars, popupVars, bubbleVars,
                       watchVars, instanceVars, settingsVars, subject>>
OnlySettings == UNCHANGED <<part, historyVars, windowVars, keyboardVars, loanVars, popupVars,
                            bubbleVars, watchVars, instanceVars, mcpVars, subject>>

Next ==
  \/ part = "history" /\ History!Next /\ OnlyHistory
  \/ part = "window" /\ Window!Next /\ OnlyWindow
  \/ part = "keyboard" /\ Keyboard!Next /\ OnlyKeyboard
  \/ part = "loan" /\ Loan!Next /\ OnlyLoan
  \/ part = "popup" /\ Popup!Next /\ OnlyPopup
  \/ part = "bubble" /\ TheBubble!Next /\ OnlyBubble
  \/ part = "watch" /\ Watch!Next /\ OnlyWatch
  \/ part = "instances" /\ Instances!Next /\ OnlyInstances
  \/ part = "mcp" /\ Mcp!Next /\ OnlyMcp
  \/ part = "settings" /\ Settings!Next /\ OnlySettings

Spec == Init /\ [][Next]_vars

(* Paper, a highlight and one that is as good as it. *)
MCPalette == {<<245, 245, 245>>, <<90, 150, 240>>, <<110, 150, 240>>}

(* Two bindings, and then the first combination for what the second was. *)
MCRequests ==
  LET a == CHOOSE x \in Actions : TRUE
      b == CHOOSE x \in Actions \ {a} : TRUE
      j == CHOOSE x \in Combos : TRUE
      k == CHOOSE x \in Combos \ {j} : TRUE
  IN  << << <<a, j>>, <<b, k>> >>, << <<b, j>> >> >>

(* Every variable has its type; one gesture at most reads the screen; no    *)
(* press translates nothing.                                                *)
ServicesTypeOK ==
  CASE part = "history" -> History!TypeOK
    [] part = "window" -> Window!TypeOK
    [] part = "keyboard" -> Keyboard!TypeOK
    [] part = "loan" -> Loan!TypeOK
    [] part = "popup" -> Popup!TypeOK
    [] part = "bubble" -> TheBubble!TypeOK
    [] part = "watch" -> Watch!TypeOK
    [] part = "instances" -> Instances!TypeOK
    [] part = "mcp" -> Mcp!TypeOK
    [] part = "settings" -> Settings!TypeOK
    [] OTHER -> TRUE

(* history.json is a list that changes by whole operations, whatever fails  *)
(* and whenever the process ends, and between operations memory has it too. *)
HistoryIsOneList == History!ImplementsList /\ History!MemoryFollowsDisk

(* When the window is at rest the hotkeys are back, and nothing it shows as *)
(* under way waits in vain.                                                 *)
WindowComesToRest == part = "window" => Window!KeysComeBack /\ Window!NothingWaitsInVain

(* The hotkey that translates gives back what it could read of the user's   *)
(* clipboard; the translation's popup does not stay; a click on the bubble  *)
(* translates what the bubble was raised for; the watcher tells what is     *)
(* selected, and takes one empty reading for none; and where a program says *)
(* nothing, the text is that under the gesture, read in either language,    *)
(* and goes to the service that was chosen.                                 *)
SelectionIsServed ==
  CASE part = "loan" -> Loan!ClipboardComesBack
    [] part = "popup" -> Popup!PopupIsNotStuck
    [] part = "bubble" -> TheBubble!ClickTranslatesItsSelection
    [] part = "watch" -> Watch!ToldIsSelected
    [] part = "text" ->
         /\ Reader!HighlightIsThePatch /\ Reader!OneReadingIsEnough /\ Reader!TextGoesWhereItMay
         /\ Reader!GestureIsInItsRegion /\ Reader!RepeatFitsTheScreen
    [] OTHER -> TRUE

(* What was asked for is what happens: a press starts what its combination *)
(* stood for when it was pressed, a launch is heard by the first process or *)
(* fails for a reason, the server runs as the settings say, and a setting   *)
(* that was said to be stored is stored, in memory and on disk, and has its *)
(* effect.                                                                  *)
RequestsAreMet ==
  CASE part = "keyboard" -> Keyboard!PressesMeanWhatTheyMeant
    [] part = "instances" -> Instances!LaunchesAreHeard
    [] part = "mcp" -> Mcp!ServerFollowsSettings
    [] part = "settings" -> Settings!StoredAsTold /\ Settings!SettingsHaveEffect
    [] OTHER -> TRUE
=============================================================================
