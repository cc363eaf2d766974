------------------------------- MODULE Updates -------------------------------
(***************************************************************************)
(* How a copy of the application learns of a newer release and replaces    *)
(* itself (shotik-app update.rs, shotik-core update.rs, shotik-win         *)
(* http.rs).  One thread looks on a schedule; each of the user's requests  *)
(* to check or to install has a thread of its own.  They share             *)
(* UpdateState under the mutex of App::state, and the temp folder.         *)
(*                                                                         *)
(* The author signs one manifest per release: a document is signed when it *)
(* names the build of its own version, and a signature is the version of   *)
(* the document it was made for.  What the server answers may change from  *)
(* one request to the next.  What else blocks an installation is in        *)
(* Handover: here it may or may not.                                       *)
(***************************************************************************)
EXTENDS Naturals, FiniteSets

CONSTANTS
  Requesters,     (* threads that the user's requests run on               *)
  Newest,         (* releases 1..Newest exist; the first copy is release 1 *)
  MaxProcesses    (* a bound: how often the application is started         *)

VARIABLES
  install_dir,    (* an installer put this copy here: not a portable one   *)
  update,         (* UpdateState, and whether a check is due               *)
  at, wanted,     (* the threads: where they are, and with what in hand    *)
  current,        (* env.version                                           *)
  process,        (* which start of the application this is                *)
  temp,           (* the update folders in the temp folder                 *)
  cleaned,        (* remove_old_downloads has run                          *)
  installer,      (* what run_installer was given                          *)
  told,           (* unasked toasts of this process, by version            *)
  overtaken       (* an older release was noted after a newer one          *)

vars == <<install_dir, update, at, wanted, current, process, temp, cleaned, installer, told, overtaken>>

Schedule == "schedule"
Threads == Requesters \cup {Schedule}

UpdatesAssumption ==
  Newest \in Nat \ {0} /\ MaxProcesses \in Nat \ {0} /\ Schedule \notin Requesters

Versions == 1..Newest
Nothing == [version |-> 0, build |-> 0]
Failed == [version |-> 0, build |-> 1]

(* Manifests of the author, and ones that name another build. *)
Documents == {[version |-> v, build |-> v] : v \in Versions} \cup {[version |-> Newest, build |-> 0]}

Fresh == [available |-> Nothing, checking |-> FALSE, installing |-> FALSE, handing_over |-> FALSE,
          error |-> FALSE, announced |-> 0, due |-> TRUE]

(* Only a scheduled copy has the first thread; a requester is idle. *)
AtStart == [t \in Threads |-> IF t = Schedule THEN "first" ELSE "idle"]

Init ==
  /\ install_dir \in BOOLEAN
  /\ update = Fresh
  /\ at = AtStart
  /\ wanted = [t \in Threads |-> Nothing]
  /\ current = 1 /\ process = 1
  /\ temp = {} /\ cleaned = FALSE
  /\ installer = Nothing
  /\ told = [v \in Versions |-> 0]
  /\ overtaken = FALSE

Rest(t) == IF t = Schedule THEN "asleep" ELSE "idle"

Goes(t, from, to) == at[t] = from /\ at' = [at EXCEPT ![t] = to]
Takes(t, what) == wanted' = [wanted EXCEPT ![t] = what]
Drops(t) == wanted' = [wanted EXCEPT ![t] = IF at'[t] = Rest(t) THEN Nothing ELSE @]

Elsewhere == UNCHANGED <<install_dir, current, process, temp, cleaned, installer, told, overtaken>>

-----------------------------------------------------------------------------
(* A check                                                                  *)

(* Time passes: a day since the last check, or the clock was moved. *)
Clock ==
  /\ ~update.due
  /\ update' = [update EXCEPT !.due = TRUE]
  /\ UNCHANGED <<at, wanted>> /\ Elsewhere

(* A failed check is repeated at the next look; otherwise the toast that was not welcome gets another chance. *)
Tick(allowed) ==
  /\ LET checks == allowed /\ (update.error \/ update.due)
     IN  \/ checks /\ Goes(Schedule, "asleep", "claim") /\ UNCHANGED wanted
         \/ /\ ~checks /\ update.available # Nothing
            /\ Goes(Schedule, "asleep", "look") /\ Takes(Schedule, update.available)
  /\ UNCHANGED update /\ Elsewhere

(* The user asks, in the tray or the window. *)
AskCheck(t) ==
  /\ t # Schedule
  /\ Goes(t, "idle", "claim")
  /\ UNCHANGED <<update, wanted>> /\ Elsewhere

Claim(t) ==
  /\ IF update.checking \/ update.installing
       THEN Goes(t, "claim", Rest(t)) /\ UNCHANGED update
       ELSE Goes(t, "claim", "manifest") /\ update' = [update EXCEPT !.checking = TRUE]
  /\ UNCHANGED wanted /\ Elsewhere

(* One request: no answer, one that is not 200 or one that is too long is an error, and so is a panic on the way. *)
Answers(good) == good \cup {Failed}

GetManifest(t) ==
  /\ \E answer \in Answers(Documents) :
       Takes(t, answer) /\ Goes(t, "manifest", IF answer = Failed THEN "finish" ELSE "signature")
  /\ UNCHANGED update /\ Elsewhere

(* verify_manifest: the signature has to be one of this very document. *)
VerifyManifest(document, signature) ==
  IF document.build = document.version /\ signature = document.version THEN document ELSE Failed

(* newer_release *)
GetSignature(t) ==
  /\ \E signature \in 0..Newest :
       LET manifest == VerifyManifest(wanted[t], signature)
       IN  Takes(t, IF manifest # Failed /\ manifest.version <= current THEN Nothing ELSE manifest)
  /\ Goes(t, "signature", "finish")
  /\ UNCHANGED update /\ Elsewhere

Checked(t, found) ==
  IF found = Failed THEN [update EXCEPT !.checking = FALSE, !.error = TRUE]
  ELSE [update EXCEPT !.checking = FALSE, !.error = FALSE, !.available = found, !.due = FALSE]

FinishCheck(t) ==
  /\ update' = Checked(t, wanted[t])
  /\ Goes(t, "finish", IF wanted[t] \in {Failed, Nothing} THEN Rest(t) ELSE "look")
  /\ Drops(t) /\ Elsewhere

(* A slip: nobody looks whether the release was announced before. *)
NewsAnyway(version) == TRUE

News(version) == update.announced # version

(* announcement, its first lock.  The user who asked is told anyway. *)
Look(t, welcome) ==
  /\ Goes(t, "look", IF t # Schedule \/ (News(wanted[t].version) /\ welcome) THEN "note" ELSE Rest(t))
  /\ Drops(t)
  /\ UNCHANGED update /\ Elsewhere

(* ... and its second. *)
Note(t) ==
  LET v == wanted[t].version IN
  /\ Goes(t, "note", Rest(t))
  /\ update' = [update EXCEPT !.announced = v]
  /\ told' = IF t = Schedule /\ told[v] < 2 THEN [told EXCEPT ![v] = @ + 1] ELSE told
  /\ overtaken' = (overtaken \/ v < update.announced)
  /\ Drops(t)
  /\ UNCHANGED <<install_dir, current, process, temp, cleaned, installer>>

-----------------------------------------------------------------------------
(* An installation                                                          *)

(* begin_install of a portable copy: the page of the release is opened, or is not. *)
PageFails(t) ==
  /\ t # Schedule /\ at[t] = "idle"
  /\ update.available # Nothing /\ ~install_dir /\ ~update.error
  /\ update' = [update EXCEPT !.error = TRUE]
  /\ UNCHANGED <<at, wanted>> /\ Elsewhere

(* begin_install up to its second lock: nothing on offer and a capture or a recording under way end it here. *)
AskInstall(t) ==
  /\ t # Schedule
  /\ update.available # Nothing /\ install_dir
  /\ Goes(t, "idle", "claim_install") /\ Takes(t, update.available)
  /\ UNCHANGED update /\ Elsewhere

BeginInstall(t) ==
  /\ IF update.installing
       THEN Goes(t, "claim_install", "idle") /\ UNCHANGED update
       ELSE Goes(t, "claim_install", "download") /\ update' = [update EXCEPT !.installing = TRUE, !.error = FALSE]
  /\ Drops(t) /\ Elsewhere

(* check_installer: builds of one size have hashes of their own. *)
CheckInstaller(build, manifest) == build = manifest.build

(* The right file goes on with it in hand; another one, or none, is an error. *)
Download(t) ==
  /\ \E build \in Versions \cup {0} :
       /\ Goes(t, "download", IF CheckInstaller(build, wanted[t]) THEN "folder" ELSE "failed")
       /\ Takes(t, [wanted[t] EXCEPT !.build = build])
  /\ UNCHANGED update /\ Elsewhere

Folder(t) == [process |-> process, of |-> t, stuck |-> FALSE]

MakeFolder(t) ==
  /\ \/ Goes(t, "folder", "raise") /\ temp' = temp \cup {Folder(t)}
     \/ Goes(t, "folder", "failed") /\ UNCHANGED temp
  /\ UNCHANGED <<install_dir, update, wanted, current, process, cleaned, installer, told, overtaken>>

(* Written or not; the flag goes up, and something may be under way by now. *)
Raise(t) ==
  /\ \/ Goes(t, "raise", "remove") /\ UNCHANGED update
     \/ \E blocked \in BOOLEAN :
          /\ update' = [update EXCEPT !.handing_over = TRUE]
          /\ Goes(t, "raise", IF blocked THEN "remove" ELSE "run")
  /\ UNCHANGED wanted /\ Elsewhere

RunInstaller(t) ==
  /\ \/ Goes(t, "run", "left") /\ installer' = wanted[t]
     \/ Goes(t, "run", "remove") /\ UNCHANGED installer
  /\ UNCHANGED <<install_dir, update, wanted, current, process, temp, cleaned, told, overtaken>>

(* Removed, or left behind with a line in the log. *)
Removals(folders) ==
  {(temp \ folders) \cup {[f EXCEPT !.stuck = TRUE] : f \in kept} : kept \in SUBSET folders}

FoldersOf(t) == {f \in temp : f.process = process /\ f.of = t /\ ~f.stuck}

RemoveFolder(t) ==
  /\ Goes(t, "remove", "failed")
  /\ temp' \in Removals(FoldersOf(t))
  /\ UNCHANGED <<install_dir, update, wanted, current, process, cleaned, installer, told, overtaken>>

(* The error, or the panic that without_panic caught: both flags come down ... *)
InstallFails(t) ==
  /\ Goes(t, "failed", "complain")
  /\ update' = [update EXCEPT !.installing = FALSE, !.handing_over = FALSE]
  /\ Drops(t) /\ Elsewhere

(* ... and update_failed takes the lock again. *)
UpdateFailed(t) ==
  /\ Goes(t, "complain", "idle")
  /\ update' = [update EXCEPT !.error = TRUE]
  /\ Drops(t) /\ Elsewhere

-----------------------------------------------------------------------------

(* The process leaves for the installer, which replaces the program or fails to; or it ends in any other way.  The *)
(* next one starts without a memory of this one.                                                                   *)
Restart ==
  /\ process < MaxProcesses
  /\ process' = process + 1
  /\ current' \in IF installer = Nothing THEN {current} ELSE {current, installer.build}
  /\ installer' = Nothing
  /\ update' = Fresh /\ at' = AtStart
  /\ wanted' = [t \in Threads |-> Nothing]
  /\ cleaned' = FALSE
  /\ told' = [v \in Versions |-> 0] /\ overtaken' = FALSE
  /\ UNCHANGED <<install_dir, temp>>

(* remove_old_downloads: what other processes left, if it can be removed. *)
RemoveOldDownloads ==
  /\ Goes(Schedule, "first", "asleep")
  /\ temp' \in Removals({f \in temp : f.process # process})
  /\ cleaned' = TRUE
  /\ UNCHANGED <<install_dir, update, wanted, current, process, installer, told, overtaken>>

Next ==
  \/ Clock \/ Restart \/ RemoveOldDownloads
  \/ \E allowed \in BOOLEAN : Tick(allowed)
  \/ \E t \in Threads :
       \/ AskCheck(t) \/ Claim(t) \/ GetManifest(t) \/ GetSignature(t) \/ FinishCheck(t)
       \/ \E welcome \in BOOLEAN : Look(t, welcome)
       \/ Note(t)
       \/ AskInstall(t) \/ BeginInstall(t) \/ Download(t) \/ MakeFolder(t) \/ Raise(t)
       \/ RunInstaller(t) \/ RemoveFolder(t) \/ InstallFails(t)
       \/ UpdateFailed(t) \/ PageFails(t)

Spec == Init /\ [][Next]_vars

-----------------------------------------------------------------------------
(* Properties                                                               *)

TypeOK ==
  /\ install_dir \in BOOLEAN /\ cleaned \in BOOLEAN /\ overtaken \in BOOLEAN
  /\ update.available \in Documents \cup {Nothing}
  /\ update.announced \in 0..Newest
  /\ at \in [Threads -> {"first", "asleep", "idle", "claim", "manifest", "signature", "finish", "look", "note",
                         "claim_install", "download", "folder", "raise", "run", "remove", "failed", "complain", "left"}]
  /\ DOMAIN wanted = Threads
  /\ current \in Versions /\ process \in 1..MaxProcesses
  /\ temp \subseteq [process : 1..MaxProcesses, of : Threads, stuck : BOOLEAN]
  /\ told \in [Versions -> 0..2]

(* The installer that is run is the build of a release the author signed, and newer than this copy, whatever the *)
(* server answers to which request and however checks and installations overlap.                                 *)
OnlyTheAuthorsBuildRuns ==
  installer # Nothing => installer.build = installer.version /\ installer.version > current

(* A flag is up only while the thread that raised it is on its way, so a check or an installation that fails does *)
(* not keep the next one, or a recording, from starting; and there is one of each at a time.                      *)
FlagsComeDown ==
  LET checks == {t \in Threads : at[t] \in {"manifest", "signature", "finish"}}
      installs == {t \in Threads : at[t] \in {"download", "folder", "raise", "run", "remove", "failed", "left"}}
  IN  /\ Cardinality(checks) = (IF update.checking THEN 1 ELSE 0)
      /\ Cardinality(installs) = (IF update.installing THEN 1 ELSE 0)
      /\ update.handing_over => update.installing

(* Unasked, a release is announced once, unless the answer to the user named an older one meanwhile. *)
AnnouncedOnce == ~overtaken => \A v \in Versions : told[v] <= 1

(* A folder in the temp folder belongs to an installation under way or to a process that left for its installer; *)
(* the next process removes that one and never its own.                                                          *)
DownloadsAreRemoved ==
  /\ \A f \in temp :
       \/ f.stuck
       \/ f.process = process /\ at[f.of] \in {"raise", "run", "remove", "left"}
       \/ f.process # process /\ ~cleaned
  /\ \A t \in Threads : at[t] \in {"raise", "run", "left"} => Folder(t) \in temp
=============================================================================
