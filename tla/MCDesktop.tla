------------------------------ MODULE MCDesktop ------------------------------
(* The parts at the edge of the program, towards the desktop, the devices   *)
(* and the network.  They share no variable with one another, so one of     *)
(* them moves at a time on a small instance: `part` says which.  Where      *)
(* there is nothing to move, `input` is what operators are checked on.      *)
EXTENDS Integers, Sequences

CONSTANTS
  NoOne, Blank, NoToast, NoEncoder,
  Starters, Regions, MaxPauses,                              (* of RecWindows    *)
  Toasts, Unreadable, MaxZoom, MaxShows, MaxInput, MaxJobs,  (* of SmallWindows  *)
  Refreshers, MaxFlips, MaxClicks,                           (* of TrayIcon      *)
  Users, Budget, Longest, MaxOther,                          (* of Clipboard     *)
  Handles, Titles, Calls, Stuck, MaxMoves,                   (* of WindowCapture *)
  Clients, LogMax, MaxBatch,                                 (* of McpRequests   *)
  Endpoints, Rates, SampleRate, Break, Plausible, ReopenInterval, ReopenGiveUp, ZeroCrossings, MaxPhases,
  PacketSizes, MaxPackets, MaxWaiting, MaxLosses, MaxNow,    (* of AudioInput    *)
  TicksPerSec,                                               (* of AudioInput and of GifExport *)
  Tolerance, Fps, MaxWidth, MaxFrames, MinDelay, MaxDelay, Gaps, FrameSizes, Apertures, MaxSamples,
  Sessions, TrialFrames, RecordedFrames, Room, MaxEncoders, MaxErrors, MaxLate,  (* of VideoEncoder *)
  DisplaySizes, AskedRegion, PoolBuffers, MaxPictures, MaxShots,   (* of ScreenGrab    *)
  Requesters, Newest, MaxProcesses                           (* of Updates       *)

VARIABLES
  part, input,
  starting, called_off, answered, rec_starting, session, paused, pauses, worker, seen, ui_queue,
  countdown, border, controls, raced, stuck, toast, window, windows, timer, pins, sequence, hidden,
  shown, pointer, jobs, shows, inputs, opened, failed, crossed, starter, recording, flips, clicks,
  refresher, found, commands, messages, cancel, events, thread, menu, offered, chosen, icon,
  thread_error, amiss, unsaid, lock, contents, place, job, waited, wait, items, blocks, outcome, got, others,
  targets, secure, moves, step, call, threads, counter, devices, device_lock, request, task, answers,
  response, log, logged, endpoint, device, waiting, stream, lost_since, next_retry, input_state,
  delivered, now, packets, losses, fps, layout, stamp, read_samples, builder, export, gif_part, gif,
  passed, kept, activated, in_use, broken, transform, recordings, file, errors, lates, display,
  closed, pool, pool_size, callback, slot, arrived, grab, path, crop, latest, nv12, samples, newest,
  install_dir, update, duty, wanted, current, process, temp, cleaned, installer, told, overtaken

Recording == INSTANCE RecWindows WITH at <- starting
Small == INSTANCE SmallWindows
Tray == INSTANCE TrayIcon WITH seen <- found
Clip == INSTANCE Clipboard WITH Callers <- Users, at <- place
Capture == INSTANCE WindowCapture WITH Most <- Stuck, MaxChanges <- MaxMoves,
                                       windows <- targets, changes <- moves, at <- step
Server == INSTANCE McpRequests
Audio == INSTANCE AudioInput
Gif == INSTANCE GifExport WITH part <- gif_part
Encoding == INSTANCE VideoEncoder WITH Frames <- RecordedFrames, slot <- kept, session <- recordings
Grab == INSTANCE ScreenGrab WITH Sizes <- DisplaySizes, Region <- AskedRegion, MaxFrames <- MaxShots
Update == INSTANCE Updates WITH at <- duty

ASSUME DesktopAssumption ==
  /\ Recording!RecordingAssumption /\ Small!SmallAssumption /\ Clip!ClipboardAssumption
  /\ Capture!CaptureAssumption /\ Server!RequestsAssumption /\ Grab!GrabAssumption
  /\ Audio!InputAssumption /\ Gif!GifAssumption /\ Encoding!EncoderAssumption
  /\ Update!UpdatesAssumption /\ Tray!TrayAssumption

recordingVars == <<starting, called_off, answered, rec_starting, session, paused, pauses, worker,
                   seen, ui_queue, countdown, border, controls, raced, stuck>>
smallVars == <<toast, window, windows, timer, pins, sequence, hidden, shown, pointer, jobs, shows,
               inputs, opened, failed, crossed>>
trayVars == <<starter, recording, flips, clicks, refresher, found, commands, messages, cancel, events,
              thread, menu, offered, chosen, icon, thread_error, amiss, unsaid>>
clipboardVars == <<lock, contents, place, job, waited, wait, items, blocks, outcome, got, others>>
captureVars == <<targets, secure, moves, step, call, threads, counter, devices, device_lock>>
requestsVars == <<request, task, answers, response, log, logged>>
audioVars == <<endpoint, device, waiting, stream, lost_since, next_retry, input_state, delivered,
               now, packets, losses>>
gifVars == <<fps, layout, stamp, read_samples, builder, export, gif_part, gif, passed>>
encoderVars == <<kept, activated, in_use, broken, transform, recordings, file, errors, lates>>
grabVars == <<display, closed, pool, pool_size, callback, slot, arrived, grab, path, crop, latest,
              nv12, samples, newest>>
updatesVars == <<install_dir, update, duty, wanted, current, process, temp, cleaned, installer, told,
                 overtaken>>

vars == <<part, input, recordingVars, smallVars, trayVars, clipboardVars, captureVars, requestsVars,
          audioVars, gifVars, encoderVars, grabVars, updatesVars>>

Parts == {"recording", "small", "tray", "clipboard", "capture", "requests", "formats", "arithmetic",
          "audio", "gif", "encoder", "grab", "updates"}

First(S) == CHOOSE x \in S : TRUE

(* What does not move has one state. *)
Init ==
  /\ part \in Parts
  /\ Recording!Init /\ Tray!Init /\ Encoding!StartOfEncoders
  /\ Small!Init /\ (part = "small" \/ pointer)
  /\ Clip!Init /\ (part = "clipboard" \/ (contents = <<>> /\ job = [u \in Users |-> First(Clip!Jobs)]))
  /\ Capture!Init /\ (part = "capture" \/ \A h \in Handles : targets[h].title = First(Titles))
  /\ Server!StartOfRequests /\ (part = "requests" \/ \A c \in Clients : request[c] = <<"note">>)
  /\ Audio!StartOfInput /\ (part = "audio" \/ (endpoint = First(Endpoints) /\ device = 0))
  /\ Gif!StartOfExport
  /\ part = "gif" \/ (fps = First(Fps) /\ layout = Gif!LayoutOf(First(FrameSizes), First(Apertures), TRUE, FALSE)
                       /\ export = "decoding" /\ gif = "nothing")
  /\ Grab!StartOfGrab /\ (part = "grab" \/ display.size = First(DisplaySizes))
  /\ Update!Init /\ (part = "updates" \/ install_dir)
  /\ input \in CASE part = "arithmetic" -> Server!Inputs
                 [] part = "formats" -> Audio!FormatInputs
                 [] OTHER -> {[kind |-> "none"]}

OnlyRecording == UNCHANGED <<part, input, smallVars, trayVars, clipboardVars, captureVars,
                             requestsVars, audioVars, gifVars, encoderVars, grabVars, updatesVars>>
OnlySmall == UNCHANGED <<part, input, recordingVars, trayVars, clipboardVars, captureVars,
                         requestsVars, audioVars, gifVars, encoderVars, grabVars, updatesVars>>
OnlyTray == UNCHANGED <<part, input, recordingVars, smallVars, clipboardVars, captureVars,
                        requestsVars, audioVars, gifVars, encoderVars, grabVars, updatesVars>>
OnlyClipboard == UNCHANGED <<part, input, recordingVars, smallVars, trayVars, captureVars,
                             requestsVars, audioVars, gifVars, encoderVars, grabVars, updatesVars>>
OnlyCapture == UNCHANGED <<part, input, recordingVars, smallVars, trayVars, clipboardVars,
                           requestsVars, audioVars, gifVars, encoderVars, grabVars, updatesVars>>
OnlyRequests == UNCHANGED <<part, input, recordingVars, smallVars, trayVars, clipboardVars,
                            captureVars, audioVars, gifVars, encoderVars, grabVars, updatesVars>>
OnlyAudio == UNCHANGED <<part, input, recordingVars, smallVars, trayVars, clipboardVars, captureVars,
                         requestsVars, gifVars, encoderVars, grabVars, updatesVars>>
OnlyGif == UNCHANGED <<part, input, recordingVars, smallVars, trayVars, clipboardVars, captureVars,
                       requestsVars, audioVars, encoderVars, grabVars, updatesVars>>
OnlyEncoder == UNCHANGED <<part, input, recordingVars, smallVars, trayVars, clipboardVars,
                           captureVars, requestsVars, audioVars, gifVars, grabVars, updatesVars>>
OnlyGrab == UNCHANGED <<part, input, recordingVars, smallVars, trayVars, clipboardVars, captureVars,
                        requestsVars, audioVars, gifVars, encoderVars, updatesVars>>
OnlyUpdates == UNCHANGED <<part, input, recordingVars, smallVars, trayVars, clipboardVars,
                           captureVars, requestsVars, audioVars, gifVars, encoderVars, grabVars>>

Next ==
  \/ part = "recording" /\ Recording!Next /\ OnlyRecording
  \/ part = "small" /\ Small!Next /\ OnlySmall
  \/ part = "tray" /\ Tray!Next /\ OnlyTray
  \/ part = "clipboard" /\ Clip!Next /\ OnlyClipboard
  \/ part = "capture" /\ Capture!Next /\ OnlyCapture
  \/ part = "requests" /\ Server!RequestsNext /\ OnlyRequests
  \/ part = "audio" /\ Audio!InputNext /\ OnlyAudio
  \/ part = "gif" /\ Gif!GifNext /\ OnlyGif
  \/ part = "encoder" /\ Encoding!EncoderNext /\ OnlyEncoder
  \/ part = "grab" /\ Grab!GrabNext /\ OnlyGrab
  \/ part = "updates" /\ Update!Next /\ OnlyUpdates

(* What does not move need not be compared. *)
Moving ==
  <<part, input,
    CASE part = "recording" -> recordingVars
      [] part = "small" -> smallVars
      [] part = "tray" -> trayVars
      [] part = "clipboard" -> clipboardVars
      [] part = "capture" -> captureVars
      [] part = "requests" -> requestsVars
      [] part = "audio" -> audioVars
      [] part = "gif" -> gifVars
      [] part = "encoder" -> encoderVars
      [] part = "grab" -> grabVars
      [] part = "updates" -> updatesVars
      [] OTHER -> <<>>>>

Spec == Init /\ [][Next]_vars

(* Monitors' sizes, what a media type calls visible, and the region asked   *)
(* for, which begins above the display.                                     *)
MCFrames == {<<4, 4>>, <<8, 6>>}
MCApertures ==
  {[left |-> 0, top |-> 0, width |-> 0, height |-> 0], [left |-> -1, top |-> 1, width |-> 3, height |-> 4],
   [left |-> 3, top |-> 0, width |-> 8, height |-> 9]}
MCDisplays == {<<8, 8>>, <<6, 6>>, <<2, 8>>}
MCAsked == [x |-> 3, y |-> -1, width |-> 5, height |-> 6]

(* Every variable has its type. *)
DesktopTypeOK ==
  CASE part = "recording" -> Recording!TypeOK
    [] part = "small" -> Small!TypeOK
    [] part = "tray" -> Tray!TypeOK
    [] part = "clipboard" -> Clip!TypeOK
    [] part = "capture" -> Capture!TypeOK
    [] part = "requests" -> Server!RequestsTypeOK
    [] part = "audio" -> Audio!InputTypeOK
    [] part = "gif" -> Gif!GifTypeOK
    [] part = "encoder" -> Encoding!EncoderTypeOK
    [] part = "grab" -> Grab!GrabTypeOK
    [] part = "updates" -> Update!TypeOK
    [] OTHER -> TRUE

(* What is on the screen is what is the case: the windows of a recording    *)
(* follow its session and the countdown precedes it; a toast goes away,     *)
(* opens what it says, and what was closed stays so; and the tray's icon    *)
(* overlooks no command or click, and offers what the last refresh found.   *)
WindowsKeepUp ==
  CASE part = "recording" -> Recording!WindowsFollowSession /\ Recording!CountdownComesFirst
    [] part = "small" -> Small!ToastGoesAway /\ Small!ClickOpensWhatItSays /\ Small!ClosedStaysClosed
    [] part = "tray" -> Tray!NothingIsOverlooked /\ Tray!ChoiceWasOffered /\ Tray!TrayFollowsRecorder
    [] OTHER -> TRUE

(* What others are given is whole: a writing on the clipboard by one of us, *)
(* with its memory freed and its transparency kept, and a wait that ends;   *)
(* and an agent's answers, in the order of its requests, the log's newest   *)
(* first, and the places on the screen they speak of.                       *)
AnswersAreWhole ==
  CASE part = "clipboard" ->
         Clip!OneWriting /\ Clip!KeepsTransparency /\ Clip!LeavesNothingBehind /\ Clip!WaitIsBounded
    [] part = "requests" -> Server!AnswersInOrder /\ Server!CallsAreLogged
    [] part = "arithmetic" ->
         Server!LimitsAreSlices /\ Server!RegionIsShown /\ Server!WindowIsOnItsDisplay /\ Server!BlocksAreSeen
    [] OTHER -> TRUE

(* What is captured is what was there.  A picture is of one window, cropped *)
(* inside the frame, by one device and with its stuck threads counted; the  *)
(* samples of a recording go on to newer pictures of the screen; sound      *)
(* keeps its time through drift, gaps and a lost device; a GIF shows the    *)
(* decoded picture only, keeps its rate and is whole or not there; a video  *)
(* has its own frames, from a key frame on.                                 *)
CapturesAreTrue ==
  CASE part = "capture" ->
         Capture!StuckThreadsAreCounted /\ Capture!CropStaysInside /\ Capture!OneDevice /\ Capture!NothingIsLost
    [] part = "grab" -> Grab!SamplesAreTheScreen
    [] part = "audio" -> Audio!StepIsExact /\ Audio!PiecesKeepTheirTime
    [] part = "formats" -> Audio!FormatsAreBelieved(input)
    [] part = "gif" -> Gif!OnlyThePicture /\ Gif!GifIsWhole /\ Gif!RateIsKept
    [] part = "encoder" -> Encoding!FilesAreTheirOwn /\ Encoding!NoStreamStarves
    [] OTHER -> TRUE

(* Only the build the author signed is run, a check or an installation that *)
(* fails leaves neither flag nor folder, and a release is announced once.   *)
UpdatesAreSafe ==
  part = "updates" =>
    /\ Update!OnlyTheAuthorsBuildRuns /\ Update!FlagsComeDown
    /\ Update!AnnouncedOnce /\ Update!DownloadsAreRemoved
=============================================================================
