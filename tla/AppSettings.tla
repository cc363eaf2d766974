----------------------------- MODULE AppSettings -----------------------------
(* settings.rs, host.rs, tray.rs and autostart.rs: the settings in memory    *)
(* and in settings.json, and what the program makes of them.  The main       *)
(* window's worker sets them, one call after another, and applies what has   *)
(* changed; the UI thread suspends the hotkeys at once while a field records *)
(* a combination, whatever the worker is at, and leaves it to the worker to  *)
(* register them again; a capture's thread stores the last region; writing   *)
(* and the registry can fail, the process can end at any step, and between   *)
(* two processes another program may have written the file.                  *)
EXTENDS Naturals, JsonFile

CONSTANTS
  Wrong,     (* a value of a type the field does not have                    *)
  MaxChanges,(* a bound on what the user does                                *)
  MaxStarts  (* a bound on starts of the process                             *)

VARIABLES
  runs,        (* the process runs                                           *)
  state,       (* the settings in memory, with the keys nobody knows         *)
  stored,      (* settings.json, a JsonFile                                  *)
  call,        (* of each thread: where it is, its patch, what was before    *)
  field,       (* of the page, for a combination: it rests or records, or    *)
               (* is about to                                                *)
  resumes,     (* hotkeys_resume, which the worker has not taken yet         *)
  suspended,   (* the flag hotkeys_suspended                                 *)
  bound,       (* the setting the hotkeys were registered by, or Nothing     *)
  watching,    (* the selection watcher runs                                 *)
  language,    (* of the tray and the windows                                *)
  run_key,     (* the value in the registry that starts the program          *)
  approved,    (* no value of the Task Manager's says it may not             *)
  changes, starts,
  told,        (* ghost: of each field, what was last said to be stored      *)
  lapsed       (* ghost: fields whose effect failed or was cut off           *)

vars == <<runs, state, stored, call, field, resumes, suspended, bound, watching, language, run_key,
          approved, changes, starts, told, lapsed>>

(* One field of each kind: those that have an effect, the one a capture      *)
(* sets, one without either, and a key this version does not know.           *)
Effects == {"hotkeys", "launch_at_startup", "language", "auto_bubble"}
Kinds == Effects \cup {"last_region", "extra"}
Values == {0, 1}
Threads == {"host", "capture"}
Stages == {"idle", "asked", "writing", "hotkeys", "unregister", "look", "grab", "launch_at_startup",
           "approved", "language", "auto_bubble"}

Contents == [Kinds -> Values \cup {Wrong}]

(* A file that is missing or torn is told from one that is there, and a     *)
(* value of the wrong type from one of the right.                           *)
SettingsAssumption == Missing \notin Contents /\ Torn \notin Contents /\ Wrong \notin Values

Free == [at |-> "idle", patch |-> Nothing, before |-> Nothing]

TypeOK ==
  /\ runs \in BOOLEAN /\ suspended \in BOOLEAN /\ approved \in BOOLEAN
  /\ field \in {"rests", "suspending", "records"} /\ resumes \in Nat
  /\ state \in [Kinds -> Values] /\ told \in [Kinds -> Values]
  /\ bound \in Values \cup {Nothing}
  /\ {watching, language, run_key} \subseteq Values
  /\ \A t \in Threads : call[t].at \in Stages
  /\ lapsed \subseteq Effects

defaults == [f \in Kinds |-> 0]

(* The values a field can be given; the key nobody knows takes any. *)
Given(f) == IF f = "extra" THEN Values ELSE Values \cup {Wrong}

Fits(patch) == \A f \in DOMAIN patch : patch[f] # Wrong

(* deep_merge: fields the patch does not have stay.                          *)
Merged(base, over) == [f \in Kinds |-> IF f \in DOMAIN over THEN over[f] ELSE base[f]]

(* FileSettings::new: a field of the wrong type costs that field alone.      *)
Loaded(json) ==
  IF json \in {Missing, Torn} THEN defaults
  ELSE [f \in Kinds |-> IF f \in DOMAIN json /\ json[f] # Wrong THEN json[f] ELSE defaults[f]]

Init ==
  /\ runs = FALSE /\ state = defaults /\ stored = Quiet(Missing)
  /\ call = [t \in Threads |-> Free]
  /\ field = "rests" /\ resumes = 0 /\ suspended = FALSE
  /\ bound = Nothing /\ watching = 0 /\ language = 0
  /\ run_key = 0 /\ approved = TRUE
  /\ changes = 0 /\ starts = 0 /\ told = defaults /\ lapsed = {}

fieldVars == <<field, resumes, suspended>>
effectVars == <<fieldVars, bound, watching, language, run_key, approved>>
processVars == <<runs, changes, starts>>

(* App::start reads the settings, registers the hotkeys and starts the       *)
(* watcher by them; nothing is done about the start with the system.         *)
Start ==
  /\ ~runs /\ starts < MaxStarts /\ runs' = TRUE /\ starts' = starts + 1
  /\ state' = Loaded(stored.disk)
  /\ bound' = state'["hotkeys"]
  /\ watching' = state'["auto_bubble"] /\ language' = state'["language"]
  /\ lapsed' = lapsed \cap {"launch_at_startup"}
  /\ UNCHANGED <<stored, call, fieldVars, run_key, approved, changes, told>>

(* settings_set: apply_settings looks at the settings before.                *)
HostSets ==
  \E f \in Kinds \ {"last_region"} : \E v \in Given(f) \ {state[f]} :
    /\ runs /\ call["host"].at = "idle" /\ changes < MaxChanges /\ changes' = changes + 1
    /\ call' = [call EXCEPT !["host"] = [at |-> "asked", patch |-> [x \in {f} |-> v], before |-> state]]
    /\ UNCHANGED <<runs, starts, state, stored, effectVars, told, lapsed>>

(* set_last_region, on the thread of a capture. *)
CaptureSets ==
  \E v \in Values \ {state["last_region"]} :
    /\ runs /\ call["capture"].at = "idle" /\ changes < MaxChanges /\ changes' = changes + 1
    /\ call' = [call EXCEPT !["capture"] =
                  [at |-> "asked", patch |-> [x \in {"last_region"} |-> v], before |-> Nothing]]
    /\ UNCHANGED <<runs, starts, state, stored, effectVars, told, lapsed>>

ToWrite(t) == Merged(state, call[t].patch)

(* FileSettings::set takes the lock.  What does not fit is refused, and      *)
(* nothing is written.                                                       *)
Takes(t) ==
  /\ runs /\ call[t].at = "asked" /\ \A u \in Threads : call[u].at # "writing"
  /\ IF Fits(call[t].patch)
     THEN stored' = Asked(stored, ToWrite(t)) /\ call' = [call EXCEPT ![t].at = "writing"]
     ELSE stored' = stored /\ call' = [call EXCEPT ![t] = Free]
  /\ UNCHANGED <<processVars, state, effectVars, told, lapsed>>

Writes == stored' \in Steps(stored) /\ UNCHANGED <<processVars, state, call, effectVars, told, lapsed>>

Remembers(t) == state' = IF stored.told = "ok" THEN ToWrite(t) ELSE state

(* The lock is given up.  A failure is said to the caller, and a capture     *)
(* only logs it.                                                             *)
Done(t) ==
  /\ call[t].at = "writing" /\ stored.told # "none"
  /\ Remembers(t) /\ stored' = Heard(stored)
  /\ told' = IF stored.told = "ok" THEN Merged(told, call[t].patch) ELSE told
  /\ call' = [call EXCEPT ![t] = IF stored.told = "ok" /\ t = "host"
                                 THEN [@ EXCEPT !.at = "hotkeys"] ELSE Free]
  /\ UNCHANGED <<processVars, effectVars, lapsed>>

Changed(f) == call["host"].before[f] # state[f]
At(stage) == runs /\ call["host"].at = stage
Goes(stage) ==
  call' = [call EXCEPT !["host"] = IF stage = "idle" THEN Free ELSE [@ EXCEPT !.at = stage]]
Kept == UNCHANGED <<processVars, state, stored, told>>

(* register_hotkeys: everything is unregistered ...                          *)
RegistersHotkeys ==
  /\ At("hotkeys") /\ Goes(IF Changed("hotkeys") THEN "unregister" ELSE "launch_at_startup")
  /\ Kept /\ UNCHANGED <<effectVars, lapsed>>

Unregister ==
  /\ At("unregister") /\ Goes("look") /\ bound' = Nothing
  /\ Kept /\ UNCHANGED <<fieldVars, watching, language, run_key, approved, lapsed>>

(* A resume, which patches no field, is a job of its own, and done then.     *)
AfterRegistering == IF DOMAIN call["host"].patch = {} THEN "idle" ELSE "launch_at_startup"

(* ... the flag is looked at once ...                                        *)
Look ==
  /\ At("look") /\ Goes(IF suspended THEN AfterRegistering ELSE "grab")
  /\ Kept /\ UNCHANGED <<effectVars, lapsed>>

(* ... and what the settings say is registered, whatever the flag says now.  *)
Grab ==
  /\ At("grab") /\ Goes(AfterRegistering) /\ bound' = state["hotkeys"]
  /\ Kept /\ UNCHANGED <<fieldVars, watching, language, run_key, approved, lapsed>>

(* Autostart::set fails: `?` leaves, and what comes after is not applied.    *)
Fails ==
  /\ Goes("idle")
  /\ lapsed' = lapsed \cup {f \in Effects \ {"hotkeys"} : Changed(f)}
  /\ UNCHANGED <<run_key, approved>>

(* WinAutostart::set: the value that starts the program ...                  *)
SetRunKey ==
  /\ At("launch_at_startup")
  /\ \/ ~Changed("launch_at_startup") /\ Goes("language") /\ UNCHANGED <<run_key, approved, lapsed>>
     \/ /\ Changed("launch_at_startup") /\ Goes("approved")
        /\ run_key' = state["launch_at_startup"] /\ UNCHANGED <<approved, lapsed>>
     \/ Changed("launch_at_startup") /\ Fails
  /\ Kept /\ UNCHANGED <<fieldVars, bound, watching, language>>

Clears == approved' = TRUE

(* ... and then the Task Manager's, in both directions. *)
ClearApproved ==
  /\ At("approved")
  /\ \/ Clears /\ Goes("language") /\ lapsed' = lapsed \ {"launch_at_startup"} /\ UNCHANGED run_key
     \/ Fails
  /\ Kept /\ UNCHANGED <<fieldVars, bound, watching, language>>

ChangeLanguage ==
  /\ At("language") /\ Goes("auto_bubble")
  /\ IF Changed("language")
     THEN language' = state["language"] /\ lapsed' = lapsed \ {"language"}
     ELSE UNCHANGED <<language, lapsed>>
  /\ Kept /\ UNCHANGED <<fieldVars, bound, watching, run_key, approved>>

StartOrStopWatcher ==
  /\ At("auto_bubble") /\ Goes("idle")
  /\ IF Changed("auto_bubble")
     THEN watching' = state["auto_bubble"] /\ lapsed' = lapsed \ {"auto_bubble"}
     ELSE UNCHANGED <<watching, lapsed>>
  /\ Kept /\ UNCHANGED <<fieldVars, bound, language, run_key, approved>>

(* suspend_hotkeys, on the UI thread, when the field gets the focus: first   *)
(* the flag, then the hotkeys.                                               *)
Suspend ==
  /\ runs /\ field = "rests" /\ field' = "suspending" /\ suspended' = TRUE
  /\ changes < MaxChanges /\ changes' = changes + 1
  /\ UNCHANGED <<runs, starts, state, stored, told, call, resumes, bound, watching, language, run_key,
                 approved, lapsed>>

UnregisterAll ==
  /\ runs /\ field = "suspending" /\ field' = "records" /\ bound' = Nothing
  /\ Kept /\ UNCHANGED <<call, resumes, suspended, watching, language, run_key, approved, lapsed>>

(* When the focus goes the UI thread leaves the rest to the worker ...       *)
Blur ==
  /\ runs /\ field = "records" /\ field' = "rests" /\ resumes' = resumes + 1
  /\ Kept /\ UNCHANGED <<call, suspended, bound, watching, language, run_key, approved, lapsed>>

(* ... which comes to it in its turn: resume_hotkeys.                        *)
Resume ==
  /\ At("idle") /\ resumes > 0 /\ resumes' = resumes - 1 /\ suspended' = FALSE
  /\ call' = [call EXCEPT !["host"] = [at |-> "unregister", patch |-> <<>>, before |-> state]]
  /\ Kept /\ UNCHANGED <<field, bound, watching, language, run_key, approved, lapsed>>

(* The user disables the start in the Task Manager. *)
Disabled ==
  /\ approved /\ run_key = 1 /\ approved' = FALSE
  /\ lapsed' = lapsed \cup {"launch_at_startup"}
  /\ Kept /\ UNCHANGED <<call, fieldVars, bound, watching, language, run_key>>

(* The process ends, at any step.  What was being stored is stored or is     *)
(* not, and the effects that were due are not applied: at the next start     *)
(* all are but the start with the system.                                    *)
Ends ==
  LET writer == {t \in Threads : call[t].at = "writing"}
      disk == Loaded(stored.disk)
      due == IF call["host"].at = "writing"
             THEN {f \in DOMAIN call["host"].patch : disk[f] # state[f]}
             ELSE IF call["host"].at \in {"idle", "asked"} THEN {}
             ELSE {f \in Effects : Changed(f)}
  IN  /\ runs /\ runs' = FALSE
      /\ stored' = AfterCrash(stored) /\ call' = [t \in Threads |-> Free]
      /\ told' = [f \in Kinds |->
                    IF \E t \in writer : f \in DOMAIN call[t].patch THEN disk[f] ELSE told[f]]
      /\ lapsed' = lapsed \cup (due \cap {"launch_at_startup"})
      /\ field' = "rests" /\ resumes' = 0 /\ suspended' = FALSE /\ bound' = Nothing /\ watching' = 0
      /\ UNCHANGED <<changes, starts, state, language, run_key, approved>>

(* While no process runs another program writes one field. *)
Edited ==
  \E f \in Kinds : \E v \in Given(f) :
    /\ ~runs /\ starts < MaxStarts /\ changes < MaxChanges /\ changes' = changes + 1
    /\ stored.disk # Missing
    /\ stored' = [stored EXCEPT !.disk[f] = v]
    /\ told' = [told EXCEPT ![f] = IF v = Wrong THEN defaults[f] ELSE v]
    /\ lapsed' = lapsed \cup ({f} \cap {"launch_at_startup"})
    /\ UNCHANGED <<runs, starts, state, call, effectVars>>

Next ==
  \/ Start \/ HostSets \/ CaptureSets \/ Writes
  \/ \E t \in Threads : Takes(t) \/ Done(t)
  \/ RegistersHotkeys \/ Unregister \/ Look \/ Grab
  \/ SetRunKey \/ ClearApproved \/ ChangeLanguage \/ StartOrStopWatcher
  \/ Suspend \/ UnregisterAll \/ Blur \/ Resume \/ Disabled \/ Ends \/ Edited

Spec == Init /\ [][Next]_vars

(* What was said to be stored is what memory has, whenever no thread writes, *)
(* and what the next process will read: no thread's change undoes another's, *)
(* a failure changes nothing, an end leaves all of a change or none of it,   *)
(* and a field that cannot be read costs that field alone.                   *)
StoredAsTold ==
  (\A t \in Threads : call[t].at # "writing") =>
    /\ runs => state = told
    /\ Loaded(stored.disk) = told

(* When the window's worker rests, the program does what the settings say,   *)
(* but for an effect that failed or was cut off.  No hotkey of an older      *)
(* setting is registered, and all of this one are once no field records and  *)
(* every resume has been carried out, in whatever order the UI thread's      *)
(* suspends met the worker's steps; while a field records some may be, which *)
(* the code does not rule out.  And the program starts with the system if,   *)
(* and only if, it should.                                                   *)
SettingsHaveEffect ==
  At("idle") =>
    /\ bound \in {Nothing, state["hotkeys"]}
    /\ field = "rests" /\ resumes = 0 => bound = state["hotkeys"]
    /\ "auto_bubble" \in lapsed \/ watching = state["auto_bubble"]
    /\ "language" \in lapsed \/ language = state["language"]
    /\ \/ "launch_at_startup" \in lapsed
       \/ (run_key = 1 /\ approved) = (state["launch_at_startup"] = 1)
=============================================================================
