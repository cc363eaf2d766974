# Shotik in TLA+

Shotik is a screen capture tool for Windows: screenshots with an overlay editor, screen and sound
recording, translation of selected text, a history, an MCP server and its own updater. This folder
specifies the parts of the Rust program (`src/crates/`) whose correctness depends on the order in
which threads act, on what fails in between, or on arithmetic at an edge. TLC checks the
specifications on small instances; TLAPS proves what matters most for every instance.

## Running it

    tlc -workers 2 -config MCRecorder.cfg Recorder.tla
    tlc -workers 2 -config MCDesktop.cfg MCDesktop.tla
    tlapm RecorderProofs.tla

`MCEditor`, `MCServices` and `MCDesktop` are modules and configurations of one name. Every other
`MC<name>.cfg` belongs to the module `<name>`, without the suffix `Live`, `Copy` or `Keys`: what such an
instance needs beside its constants (a set of jobs, a symmetry) stands at the end of the module.
`PROJECT.json` lists the runs, the properties, which definition models which lines, the hazards and
the theorems. The proofs of `ServicesProofs` and `DesktopProofs` take some twenty minutes each.

## The system

| Component | State it keeps | Operations | What is hard |
|---|---|---|---|
| Recorder (`shotik-recorder`: `session.rs`, `recorder.rs`) | `SessionMachine` under a mutex, the current `Control`, the count of unfinished files | `start`, `stop`, `cancel`, `pause`, `resume`; a session thread and a watchdog per session | a decision under the lock is carried out after it; a watchdog races a late worker; a start can be called off at any moment |
| Engine (`engine.rs`, `names.rs`) | `Control` (flags, timeline, end of the file), the writer's channel, the part file | a session thread, video, mixer, one thread per input, writer | a bounded channel, threads that wait for one another, failures and panics anywhere, cancel up to the last step |
| Media time and sound (`clock.rs`, `mix.rs`) | `Timeline`, `FramePacer`, `InputTrack` | pause, resume, stop, place, push, read | rounding, pauses inside packets, drift |
| Sound devices (`wasapi.rs`, `resample.rs`) | a stream, its converter, the time of the next piece | open, read, lose and reopen; resample | gaps, lost devices, a ratio that is no whole number |
| Video encoder and screen capture (`encoder.rs`, `sink.rs`, `source.rs`, `wgc.rs`) | the encoder lent to one stream at a time, the pool and its slot | begin, trial, encode, drain, drop; take a frame, refresh, copy | late notices, an encoder used again that did not get back to idle, a display that changes under the capture |
| GIF export (`gif_export.rs`, `gif_decode.rs`) | the builder, the part file | read, keep or drop, write, rename | rates and delays that must add up, failures and a crash between two steps |
| Application (`shotik-app`: `lib.rs`, `recording.rs`, `overlay.rs`, `actions.rs`) | `App::state` under a mutex | start/stop a recording, run an overlay and its action, install an update | the installer ends the process: nothing may be under way, nothing may begin |
| Updates (`update.rs`, `core/update.rs`, `http.rs`) | `UpdateState`, folders in the temporary directory | hourly and manual check, announcement, download, installation, cleaning up | check-then-act, a server whose answers change, failures that must take their flags down |
| Recording windows (`rec_controls`, `rec_border`, `countdown`) | which windows are open, for which session | recorder events, the end of a start, clicks | two threads open and close the same windows by way of the UI thread |
| Toast, pins, tray (`toast`, `pin`, `tray.rs`) | the content shown, timers, the menu | show, click, hover, zoom; refresh, menu, restart of Explorer | a replacement while a timer or a click is on its way; nested message loops; a menu made of what was true at its refresh |
| Overlay session (`shotik-ui/overlay/mod.rs`, `overlay.rs`, `mcp_wiring.rs`) | `OPEN`, `SESSION`, the event loop's queue | begin, add a display, keys, cancel, settle, tear down, render; an agent's request with a time limit | threads, the user, failures and a time limit end the same session; captures outlive it |
| Overlay editor (`overlay/state.rs`, `layer.rs`, `view.rs`) | selection, region, tool, marks, undone marks, tiles | strokes, shapes, badges, text, undo, redo; drags of the region and its handles; Live Text and translation | long sequences of events; late answers; tiles redrawn by what changed; half pixels and edges |
| Selection (`app/selection.rs`, `win/selection*`, `bubble`, `translate_popup`) | the clipboard on loan, the popup, `pending_selection`, `ocr_busy` | hotkey, watcher, gesture, click on the bubble | a clipboard shared with every program; events of three threads |
| Settings and history (`settings.rs`, `history.rs`, `storage.rs`, `autostart.rs`) | JSON files and their copy in memory, two registry values | set and its effects; add, remove, clear | a crash between two steps; disk and memory; effects that fail halfway |
| Main window (`main_window`) | what its pages show, requests under way | pages, settings, history, hotkey fields | answers out of order, work given to another thread |
| Hotkeys (`hotkeys.rs`) | registrations by number | register, suspend, resume, press | a number is used again while a press of it is queued |
| Single instance (`single_instance.rs`) | named mutex, pipe | acquire, forward, confirm, stop | a second process before the pipe exists or while the first ends |
| MCP server (`shotik-mcp`, `mcp_wiring.rs`, `host.rs`) | the server's task, the log of calls | start, stop, restart; batches, tools | restarts racing one another; the order of answers and of the log |
| Window capture (`window_source.rs`, `window_capture.rs`, `capture/*`) | the count of stuck threads, the device | list, check, print, crop, judge | windows of other programs close, hang, shrink; handles are used again |
| Clipboard (`clipboard.rs`) | memory blocks until handed over | write, read, clear | the lock is everybody's; each call can fail |
| Displays (`dip_layout.rs`, `displays.rs`, `runtime.rs`) | none; handles held by others | layout, conversions, nearest monitor | scales that do not divide, monitors that touch or overlap |
| Pixels and text reading (`raster.rs`, `pixels.rs`, `convert.rs`, `highlight.rs`, `ocr_select.rs`, `translate.rs`) | none | functions | rows, masks and edges; which of two readings is taken |

How they interact: the application calls the recorder through the trait `RecorderControl`
(`ports.rs`) and hears of it through `RecorderEvent`; the recorder's session thread runs the
engine, which shares a `Control` with whoever stops it; the engine uses `clock.rs`, `mix.rs`, the
devices and the encoder; the updater asks the recorder and `App::state` whether it may end the
process. Every window lives on one UI thread, which the other threads reach by posting to its queue.
The main window changes settings and hotkeys by a worker; the settings' changes reach the hotkeys'
thread, the autostart, the watcher and the MCP server.

## The modules

| Module | Models | Extends / uses | Run |
|---|---|---|---|
| `RecorderPort` | what `RecorderControl` promises the application: an abstract specification | | `MCRecorder`, `MCHandover` |
| `Recorder` | `session.rs`, `recorder.rs` with all threads | `Port == INSTANCE RecorderPort` | `MCRecorder`, `MCRecorderLive` |
| `Engine` | `engine.rs`, `names.rs` | | `MCEngine`, `MCEngineLive`, `MCEngineCopy` |
| `Sound` | `clock.rs`, `mix.rs` and the reading side of the mixer | | `MCSound` |
| `Handover` | `recording.rs`, `overlay.rs`, `actions.rs`, `update.rs` up to the installer | `RecorderPort` | `MCHandover` |
| `Overlay` | `overlay/mod.rs`, `overlay.rs`, `select_region_for_mcp` | | `MCOverlay` |
| `Marks`, `Editor`, `Region` | the editor: marks and tiles; selection, tools, Live Text; the region and what is placed around it | | `MCEditor` |
| `Pixels`, `Displays` | places of pixels; places of monitors and windows | | `MCEditor` |
| `JsonFile` | `storage.rs` | | |
| `HistoryList`, `History` | a list that changes as a whole: abstract; `history.rs` | `History` uses `JsonFile`, implements `HistoryList` | `MCServices` |
| `AppSettings` | `settings.rs`, what `apply_settings` does, `autostart.rs` | `JsonFile` | `MCServices` |
| `MainWindow` | `main_window`, its worker | | `MCServices`, `MCMainWindowKeys` |
| `Hotkeys` | `hotkeys.rs` | | `MCServices` |
| `ClipboardLoan`, `TranslatePopup`, `Bubble`, `SelectionWatch`, `SelectedText` | the selection: hotkey, popup, bubble, watcher, what is read of the screen | | `MCServices` |
| `SingleInstance` | `single_instance.rs` | | `MCServices` |
| `McpService`, `McpRequests` | the server's restarts; its requests | | `MCServices`, `MCDesktop` |
| `RecWindows`, `SmallWindows`, `TrayIcon` | windows of a recording; toast and pins; the tray | | `MCDesktop` |
| `Clipboard` | `clipboard.rs` | | `MCDesktop` |
| `WindowCapture`, `ScreenGrab`, `VideoEncoder`, `AudioInput`, `GifExport` | captures and their devices | | `MCDesktop` |
| `Updates` | the whole of an update, over several processes | | `MCDesktop` |
| `MCEditor`, `MCServices`, `MCDesktop` | the composites | the modules named above | of the same name |
| `RecorderProofs`, `EngineProofs`, `HandoverProofs`, `OverlayProofs`, `SoundProofs` | theorems about the module of that name | TLAPS | |
| `EditorProofs`, `ServicesProofs`, `DesktopProofs` | theorems about the composites and their parts | TLAPS | |

### Composites

`MCEditor`, `MCServices` and `MCDesktop` each hold parts that share no variable: a variable `part`
is chosen in the initial state and only that part moves, so a run explores the sum of its parts and
not their product. `Moving` is the part that moves: `MCDesktop`'s run compares states by it (VIEW), the
others' variables being constant. Each part keeps its own variables under its own module by `INSTANCE`; where two
modules use a name for different things, the instance renames one. A property of such a run says of
each part what that part promises; the definitions it names (in the part's own module) carry the
reasons and the lines. Parts that only evaluate arithmetic have a set of inputs chosen in the initial
state and no step. An assumption of a composite is the conjunction of its parts' assumptions, which
carry names in the parts' modules.

### Recorder and RecorderPort

Each critical section of a lock is one action, and so is what a thread does between two of them. A
start goes `StartBegin` (the machine's `begin`), `StartFolder` or `StartFolderFails`, the countdown
(`CountdownLook` under the machine's lock either falls asleep or goes on; `CountdownFinishes` is the
callback, `NotifyAll` the condition variable), `StartPlace` (the new `Control`), `StartActivate` or
`StartNone`, `StartDrop` (the guard), `StartCount`, `StartSpawn` or `StartSpawnFails` with
`StartSettle`, and `StartWatchdog`. `StartDrop` stands after `StartActivate` because the guard is
dropped explicitly, and it calls `abort_start`, which only acts on a machine that is starting. A call
goes `CallerRequest` (the machine decides), `CallerNotify`, `CallerFetch` (looks the `Control` up),
`CallerApply`. The worker goes `WorkerEnds`, `WorkerSettle`, `WorkerReport`, `WorkerLeaves` (the
guard of the count). Session ids are the numbers of the starts; the code only compares them.
Time is the number of ticks left until the deadline, so the clock has no bound. Events other than
`Done` change nothing in the recorder and are left out; `RecWindows` has what they do to the windows.

The look of the countdown's waiter and its falling asleep are one step, because both are under the
machine's lock, which the callback takes before it wakes (`recorder.rs:170-173`): the lost wake-up
that the comment there speaks of would need a smaller step than the lock allows.

`RecorderPort` has what the application can see: whether a start is accepted, called off or becomes
a session, that the session ends, and when its file and its count are gone. The refinement mapping
is the `INSTANCE` at the end of `Recorder`.

### Engine

`drive` is a sequence of places of the session thread: the sources are opened in order, each time
with a look at the flags; then the streams are spawned, the timeline begins, and the thread joins
video, mixer, inputs, writer in that order; then the outcome is decided (`Result`), the file
finalized, moved to the folder or, failing that, kept in the temporary folder, looked at once more
(`LastCheck`), and whatever is not the result removed (`RemovePart`, `TakeBack`). Any source can
fail, a microphone or the sound of the system of a video session being optional; the sink can fail
at any write; a file can be held by another program for a moment (`held`). Media time is counted in
units of one video frame and one audio chunk. The channel is a sequence of at most `QueueDepth`.

### Sound and AudioInput

`Sound` begins with the functions of `clock.rs` as operators on a record, and runs them with a clock
that ticks; beside the state of the code it keeps the set of ticks at which the session was on
air. A sample is the tick it was captured at, so the properties can compare where it lies in the file
with where it belongs. `Push` is `InputTrack::push` with its four cases (empty, gap, overlap, slip),
`Mix` is `read_add`. Packets come from any tick on: devices give holes and overlaps. `AudioInput`
comes before it: a device's packets with their stamps, its loss and the search for the next one, and
the resampler's history, whose frames are named by the packet and the time they were captured at.

### ScreenGrab, VideoEncoder, GifExport

`ScreenGrab` has the pool, the callback's thread and the slot it keeps the newest frame in, and the
video thread that copies the region; a texture is named by the shot it shows. A frame has two sizes: the
display's when it was rendered (`ContentSize`), by which the code clamps the region and makes the pool
anew, and that of its texture, which is the pool's of that time. A copy from outside a texture is
undefined and may happen or not; a frame that waits in the pool while it is made anew may go.

In `VideoEncoder` the transform is Windows': it asks for input, announces output, ends a stream and may
give a late notice of an ended one; a frame is named by its session and its number. Any call may fail:
a stream that begins may be refused its types, or not start; one that runs may fail with or without a
notice; and `Drop` may fail to flush, to end the stream or to take the types away, which breaks the
encoder and leaves what was inside. A stream begins on a broken encoder as on any other, as the real
one does after the trial. Of Windows two things are assumed, both external: a transform that still
has frames inside refuses new types, and a muxer that refused a frame, or a stream of which a call
failed without a notice, is written no further.

`GifExport` has times in ticks and says which frame
is kept and how long it is shown; the file is a part until it is renamed. A decoded picture has an
aperture that begins inside its surface, and sizes that are even (`GifAssumption`), as the decoder's
NV12 demands. Which colours a palette takes (the histogram, `quantize`, `nearest`) is left out.

### Handover and Updates

In `Handover` each thread's steps are cut where it gives up the lock of `App::state` or calls a port.
The first look of `begin_install` is one action although it takes the lock several times: whatever it
sees is looked at again before the installer runs, and that second look (`InsLook`) is in pieces, as
in the code. `RecorderRuns` is any step of the recorder. `Updates` has what comes before and after:
the clock's thread and the user's requests, the manifest, its signature, the download and its
checksum from a server whose answers may change from one request to the next, the folder, the
installer, and the cleaning up by the next process. A document is signed or not, and a signature
belongs to one document; that is all the cryptography there is.

### Overlay, Marks, Editor and Region

In `Overlay`, `queue` is what other threads and the UI thread itself post to Slint's event loop, in
order; each `Ui*` action is one turn of the UI thread: the head of the queue, or a native window that
is there (`UiShow`) or cannot be made (`UiNoWindow`). `Settle` marks the session and posts the
teardown; `UiTeardown` takes whatever session is there, as `teardown` does, which has no id either. A
hotkey's thread goes `Ask`, `Look`, `Begin`, `Grab` and `Hear`; an agent's has a waiter that
`TimeLimit` sends away. `choice` and `handled` are there for the properties only.

`Marks` has the lists of marks and the tiles that show them: the window is told what happened and
repaints what can have changed, so the property compares the tiles with the list. Its tiles stand in
one row and a mark is the set of tiles it touches. `Editor` has selection, drags, tools, Live Text
and the card; recognition and translation answer late, to whatever the editor has become.

`Region` drags the region along one axis, the other doing the same, in half pixels of the picture: on
a display with a scale, a pixel of the overlay is no whole number of the picture's. Bars, labels and
the magnifier are operators that place a rectangle; centring text in a bar is rounded to whole pixels.
What the model showed: grabbing a handle rounds the region although it does not move, so the opposite
edge can creep by a pixel to one and a half with each grab, and a region can reach a pixel beyond the
picture. `MaxCreep` bounds how far the model follows it, and the properties allow for that pixel.

### The selection

`ClipboardLoan` is the hotkey: it reads the text, then the picture, clears, sends the copy keystroke,
waits, reads and gives back. What is on the clipboard can be a text, a picture, both, or formats that
neither reading knows (files, HTML), with a text or without; a reading that fails reads nothing, and
the hotkey goes on. `TranslatePopup` has the popup, its timers and the threads that fill it; `Bubble` the
pending text that the watcher, gestures and clicks share; `SelectionWatch` the watcher's own readings
and its idle ticks; `SelectedText` what is done where a program says nothing: the highlight under a
double click, the choice between two readings, and the services a translation goes to.

### JsonFile, History and AppSettings

`JsonFile` is `write_json`: asked, the temporary file empty, whole, renamed; each step can fail, and
the process can end at each. `History` has the items in memory, the files of the pictures and the
index; `HistoryList` is a list that changes by whole operations, and `ImplementsList` the refinement.
In `AppSettings` the settings are one field of each kind: those that have an effect, the one a
capture sets, and a key that this version does not know. A patch is taken under the lock, merged,
written and then remembered; the effects are applied one after another and stop at the first that
fails. A hotkey field of the page suspends the hotkeys from the UI thread, at any of the worker's
steps and in two of its own (`Suspend` the flag, `UnregisterAll` the keys), and leaves the resumption
to the worker, whose registering is cut where it looks at the flag (`Unregister`, `Look`, `Grab`).
Between two processes another program may write a field, also one of the wrong type.

### The rest

`MainWindow` counts revisions of the settings and the requests under way, as the view does; its
worker takes jobs in order. `Hotkeys` has the command queue, registrations and queued presses.
`SingleInstance` has processes that end at any step. `McpService` has the tasks that stop and start
the server; `McpRequests` the messages of a batch, each a task of its own. `RecWindows` and
`SmallWindows` have the UI's queue between those who ask and the windows. `TrayIcon` has two sides: the
application's threads, of which one can be starting a recording (`rec_starting`) while the recorder
has none yet or none any more, and which refresh the tray as the recorder tells its state and for
other reasons (`RefreshesBesides`); and the tray's own thread, where the making of a menu can fail. `Clipboard`
has a lock that other programs hold too, and memory that is freed by whoever has it. In
`WindowCapture` windows close, hang, shrink and are replaced by others under the same handle; one
dimension stands for both. `Pixels` and `Displays` state where a pixel or a place comes to lie; scales
are in halves, and the rounding of 32-bit floats is left out. Pinned pictures are a function by number.

## What is checked

| Run | Instance | Shows |
|---|---|---|
| `MCRecorder` | 2 starts, 1 starter, 1 caller with all four calls, both time limits 1 tick | type invariant, `QuietMeansDone`, `DoneOnceAndIdle`, `ImplementsPort` |
| `MCRecorderLive` | 1 start, 2 callers that stop and cancel, limits 2 and 1 | `RequestsArrive`, `StuckWorkerIsWrittenOff` |
| `MCEngine` | a region with the system's sound, channel of 1, two units of recording | type invariant, `WholeUnlessTold`, `MixerWaits`, `LeavesOnlyTheResult` |
| `MCEngineLive` | every kind of session, a panic in any stream thread | `StopEnds`, `CancelEnds` |
| `MCEngineCopy` | moving the file may fail twice | `OnlyCopyStays` is violated |
| `MCHandover` | 2 threads of each kind, 2 sessions, symmetric | type invariant, `NothingIsCutOff`, `CalledOffIsOver` |
| `MCOverlay` | a hotkey, an agent, 2 displays, 2 sessions | type invariant, `OpenMeansSession`, `DoneIsTheChoice`, `NeverUnseen`, `LimitCloses` |
| `MCSound` | 3 ticks and 2 frames a second, 2 s, 2 pauses | type invariant, `PositionIsTimeOnAir`, `DueFramesAreReached`, `SoundKeepsItsTime` |
| `MCEditor` | 2 tiles and 2 marks; 2 questions of each kind, answered late; pictures of a few pixels; up to 3 monitors and a change of them; a region of 10 pixels on scales of 1 and 1.5, 2 screens | types, `WindowShowsTheList`, `BadgesCount`, `AnswersFit`, `PixelsHaveOnePlace`, `LoadingEnds` |
| `MCServices` | 2 savers and a crash; 5 events of the main window; 2 callers of the hotkeys; 2 presses, gestures and clicks; 3 launches; 2 restarts; 3 changes of the settings and 2 starts; screens of 6 pixels | types, `HistoryIsOneList`, `WindowComesToRest`, `SelectionIsServed`, `RequestsAreMet` |
| `MCMainWindowKeys` | two hotkey fields, three events | `RecordingIsQuiet` is violated |
| `MCDesktop` | 2 recordings, 2 toasts, 2 threads that refresh the tray and 2 starts or refreshes, 2 users of the clipboard, 2 agents with batches of 2, 1 newer release and 2 processes; 2 captures of a window that may hang or be replaced; a display of 3 sizes, 4 pictures and 3 samples; 2 video files of 2 frames, 2 encoders, 1 error and 1 late notice; 3 packets of sound; GIFs of 3 frames | types, `WindowsKeepUp`, `AnswersAreWhole`, `CapturesAreTrue`, `UpdatesAreSafe` |

The named properties of the composites, part by part:

- `HistoryIsOneList`: `history.json` changes by whole operations, whatever fails and whenever the
  process ends (`ImplementsList`), and memory has the same list between operations.
- `WindowComesToRest`: when nothing is under way the hotkeys are registered again and nothing is
  shown as waiting.
- `SelectionIsServed`: while no presses overlap, the clipboard holds the user's or what could be read
  of it and never the other program's answer, and when every call went well it is the user's, or the
  picture or text of it; the popup goes away; a click translates what the
  bubble was raised for; what the watcher tells is selected, and one empty answer does not clear it; a
  highlight is the whole patch of one colour nearest to the gesture, a reading that fails does not
  cost the other, and a text goes to the free service only if that was chosen, or the other has no
  key or has failed.
- `RequestsAreMet`: a press starts what its combination stood for; a launch is heard by the first
  process or fails for a reason; the server runs as the settings say; settings that were said to be
  stored are stored, in memory and on disk, and have their effect once the worker rests. Of the hotkeys:
  never are any of an older setting registered then, and all of this one are when no field records and no
  resume waits. While a field records some may be registered, which `RecordingIsQuiet` is about.
- `WindowsKeepUp`: windows of a recording follow its session, the countdown precedes it; a toast
  goes away, opens what it says and stays closed; the tray overlooks no command and offers what can be
  chosen, and its menu tells of a recording when there is one, and of none when there is none, once
  nobody starts or refreshes; except after a start that came to nothing since the last refresh.
- `AnswersAreWhole`: one of us at a time writes the clipboard, no memory is lost or freed twice and the wait
  for it is bounded; answers of a batch stand in the order of its messages; the log has every call;
  limits are slices of the list, and places are those of the display.
- `CapturesAreTrue`: stuck threads are counted, a crop stays inside, one device is made, a picture is not
  lost; samples go on to newer pictures, and to the newest taken whose texture was as large as it says; sound keeps its time through gaps and lost devices; a GIF shows only
  decoded pixels, keeps its rate and is whole or not there; a file has only its own frames,
  from the first and in their order, begins with a key frame, and misses none when it ended well.
- `UpdatesAreSafe`: only a build its author signed is run; flags go up and down with their threads; a
  release is announced once; folders in the temporary directory go away.
- `PixelsHaveOnePlace`: a picture goes through its encodings unchanged, a header that lies does not
  lead out of it, each pixel is drawn and converted once; each place is on one monitor; a region stays
  in the picture but for the pixel its rounding can cost, and bars, labels and the magnifier are where
  the user can see and reach them.

### Bounds

Two starts are what a late worker, a late watchdog or a late call needs to
meet somebody else's session; one caller at a time is enough for safety, since the machine decides
under one lock, and `MCRecorderLive` has two. Time limits of a tick make every order of deadline and
worker happen. In the engine two units let the mixer and the video thread be on different sides of a
stop, and a channel of one is the fullest it can be. In `Handover` two threads of each kind meet each
other as well as the other kinds. In `Overlay` two sessions are what a late frame, key or
cancel needs to meet somebody else's. In `Sound` the tick does not divide into frames (3 to 2), so every
rounding occurs; gap, dead band and slip rate are scaled down with the packets. In `Marks` two tiles
tell "repainted" from "not repainted", and three points make a stroke enter, cross and leave. In
`Region` ten pixels hold a region with room for every handle, and one and a half is the scale at which
a pixel of the overlay ends in the middle of the picture's. Two generations of each question are what
a late answer needs. In `History` four numbers, three files and a limit of two items let the list
overflow; in `SingleInstance` a third process meets the second while the first ends. In `VideoEncoder`
two sessions and two encoders let one be used again while the other breaks, and two frames have an
order; one error is enough to leave an encoder broken with a frame inside for the stream after it. In
`ScreenGrab` three sizes, two of which hold less of the region or none, and three samples let a display shrink
and grow between two of them. In `TrayIcon` two starts or refreshes let a refresh cross a start that is
called off, and the end of a session cross the end of its start; three were tried by hand. In `Updates`
two processes let a folder belong to somebody who has gone. One newer release lets two checks meet over
it; two, which different checks can note in either order, were tried by hand in this part alone (680
thousand states, too many beside the other parts), and the theorem has any number.

Model bounds, all named constants: `MaxStarts`, `MaxPos`, `MaxPacket`, `MaxPackets`, `MaxPauses`,
`MaxNow`, `MaxAsks`, `MaxMarks`, `MaxPoints`, `MaxChanges`, `MaxItems` (the code's own limit, scaled),
`MaxSaves`, `MaxCrashes`, `MaxEvents`, `MaxMessages`, `MaxQueue`, `MaxEdits`, `MaxShows`, `MaxInput`,
`MaxJobs`, `MaxFlips`, `MaxClicks`, `MaxOther`, `MaxMoves`, `MaxBatch`, `MaxWaiting`, `MaxLosses`,
`MaxSamples`, `MaxFrames`, `MaxEncoders`, `MaxErrors`, `MaxLate`, `MaxPictures`, `MaxShots`,
`MaxProcesses`, `MaxZoom`, `MaxCreep`, at most one panic (`PanicNext`) and one key at a time on its way
(`UserPresses`). Constants of the code are scaled down and keep their names (`LogMax`, `Budget`,
`ReopenGiveUp`, `MinDelay`, `MaxImageBytes` and others).

`CHECK_DEADLOCK FALSE` is given everywhere, because every behaviour of these modules may come to rest:
a session is over, a bound is reached, a part has only inputs. That threads do not wait for one another is what the liveness properties are for.

### Fairness

In `Recorder` a thread that is not waiting for the user, the countdown or the engine goes
on, and time passes; the worker itself may never end, which is what the watchdog is for. In `Engine`
the threads are scheduled, a call into a device or the sink returns (one that never does is the
watchdog's case) and a wait with a time limit ends; the first frame need never come, an input need
never deliver. In `Overlay` threads and the event loop go on, captures and renderings end, a native
window comes or fails, and a time limit runs out. In `Editor` an answer that is under way comes,
well or as a failure, because the translation's client has a time limit. Nothing is assumed of the user. The other modules
have safety properties only; where something must come to an end (a popup, a toast, a window's
request), their invariants say that somebody is still at work on it whenever it has not.

## What the violated properties say

- `OnlyCopyStays` (`engine.rs:391`): when both moves fail because something holds the part file for a
  moment, `remove_part` goes on trying for a second and deletes the finished recording, of which the
  comment before it says that it stays.
- `RecordingIsQuiet` (`main_window/view.rs:443`): the focus goes straight from one hotkey field to
  another. The suspension of the second is done at once, the resumption of the first by the worker, so
  every hotkey is registered while the second field records.

Three more statements are not true of the code. The models do what the code does, and the properties say
what is left of them:

- “The user's clipboard is restored right away” (`selection.rs:16`) is true of a text or a picture. Copied
  files and other formats are read as nothing, and the clipboard is cleared in the end (line 43); beside
  a picture a text is lost; and a reading that fails counts as nothing (`unwrap_or_default`).
  `ClipboardComesBack` allows for just these; `clipboard = users` in its place is violated with one press.
- `the_tray_menu_offers_stop_only_while_recording` (`tests.rs:943`) tests the menu of a given state. A
  refresh during a start makes a menu that offers to stop; when the start comes to nothing, or its session
  has ended before it returned, nothing refreshes the tray once `rec_starting` is cleared
  (`recording.rs:55`), and the menu stays. `TrayFollowsRecorder` allows for it by `unsaid`; without that
  TLC shows it.
- “the box lies inside the frame by source_box” (`wgc.rs:229-230`): the box is clamped to the frame's
  content (line 205). The first frames after the display has grown lie in textures of the old size, and
  the box leads out of them. `Refresh` leaves open what is copied then.

## What is proved

`RecorderProofs` proves, for any set of threads, any number of sessions and any time limits:

- `TypeCorrect`: `[]TypeOK`;
- `QuietIsDone`: `[]QuietMeansDone`;
- `DoneOnce`: `[]DoneOnceAndIdle`;
- `Arrival`: `[]RequestsArrive`, provided one start at a time is inside the recorder
  (`SerialStarts`), which `start_recording` ensures;
- `Refinement`: `Spec => ImplementsPort`, so what `Handover` assumes of the recorder is what it does.

They rest on `RecorderAssumption` alone: the constants have their types. The inductive invariant is
`IInv`: `TypeOK` and `Core`, whose parts say what each thread's place means for the rest:
`StarterInv` and `FreshInv` that a start inside the recorder has a number of its own, and that no
worker belongs to a start that has not begun; `BirthInv` that a start has no worker before it spawns
one, is the machine's session from its activation until then, and is counted before the spawn;
`WorkerInv` that a running worker is counted, that a settled one is not the machine's session any
more, and that only a worker past its report has delivered a file, once; `WatchdogInv` that a
watchdog has a worker; `MachineInv` that the machine has a session just when it is active.
`QuietMeansDone` alone is not inductive: that the count is given back last is a fact about
the worker's place. `Arrival` adds `SerialInv`, that `slot` is the session whenever the machine is
active. `Refinement` goes action by action: each is a step of the port or leaves its variables alone.

`EngineProofs` proves, for any set of jobs, any depth of the channel, any delay of the mixer and
recordings of any length:

- `TypeCorrect`: `[]TypeOK`;
- `WholeFile`: `[]WholeUnlessTold`;
- `NothingPassedBy`: `[]MixerWaits`;
- `OnlyTheResult`: `[]LeavesOnlyTheResult`, provided no thread panics (`Panics = {}`, as in the run that
  checks it: a panic leaves the part file behind).

They rest on `EngineAssumption`: the constants have their types, and the channel and the delays are not
empty. `WholeUnlessTold` speaks of the end of a session, and the inductive invariant of what leads
there: `StartInv` that the threads begin together, each for what there is to record, and the clock
after them; `EndInv` that the end is fixed by the video thread, or by the mixer of a session without a
picture, and only with the clock stopped and all due frames sent, unless something failed; `MixInv` that the
mixer does not pass the end and leaves when it is there; `HeldInv` that neither its cursor nor its
target passes the tracks; `CountInv` that each packet sent is in the file or in the channel (a
cardinality, with `Posted` and `Taken` for what the channel does to it); `JoinInv` that the session
thread has waited for whom it believes ended, and that a failure was told before the file is moved;
`FilesInv` where the files are while nothing holds one. The target of the mixer is a number only
because a mixer has tracks (`HaveReaches`): a minimum over no tracks is none.

`HandoverProofs` proves, for any number of threads of each kind and any number of sessions:

- `TypeCorrect`: `[]TypeOK`;
- `NothingCutOff`: `[]NothingIsCutOff`;
- `CalledOff`: `[]CalledOffIsOver`;
- `StaysWithThePort`: `Spec => PortSpec`, the steps in which the application touches the recorder are
  steps of the port that `Recorder` implements.

They rest on `HandoverAssumption` (`Nobody` is no thread) and on the bound on starts being a number.
`NothingIsCutOff` says nothing of a state without an installer, so the inductive invariant says what
leads there: `RecInv` that a start on its way, and nobody else, holds `rec_starting`; `SessionInv`
that the recorder has a session just when it is active; `CountInv` that `overlay_sessions` is the
number of threads inside an overlay (a cardinality, with `CountEnter` and `CountLeave` for one thread
more or less); `InsInv` that one installation has claimed the update and has its flags up from
`InsRaise` on; `LookInv` that what each part of the second look saw stays true behind it, because the
raised flags turn newcomers away; and `RunInv` that the installer runs only past the last part.

`OverlayProofs` proves, for any number of threads, agents, displays and sessions:

- `TypeCorrect`: `[]TypeOK`;
- `OpenIsASession`: `[]OpenMeansSession`;
- `DoneOnce`: `[]DoneIsTheChoice`.

They rest on `OverlayAssumption`: hotkeys and agents are different threads, and the display under the
cursor is none of the others. `OpenMeansSession` says where a session can be, and
not that it is in one place only; without that a teardown could find a session it does not belong to.
So the inductive invariant has `PlaceInv`: while `OPEN` is up the session is in exactly one place, in
an event that waits, on the UI thread, or in the hands of the thread that renders, and no event is
there twice; `ChosenInv`: who is on the way has not been heard of yet, and a teardown carries what was
chosen; `FramesInv`: frames and windows belong to the session that is on screen; `WaiterInv`: an
agent's thread and its waiter part only when the time is up. `TypeOK` itself needs `AskInv`: whoever
is about to begin a session was counted when it asked, `lastId + Cardinality(Asking) <= asks`.

`SoundProofs` proves, for any clock, sample rate and frame rates and any number of pauses:

- `PositionIsRight`: `[]PositionIsTimeOnAir`;
- `DueFramesAreRight`: `[]DueFramesAreReached`.

They rest on `SoundAssumption`: numbers are numbers, none that is divided by is zero, and neither samples
nor frames are finer than the clock. `Timeline::position` folds over the pauses, so the invariant
`TimeInv` says for each of them how much time is left after the pauses up to it: `Times` that stamps
lie between the start and now, `TimesAreOrdered` that no two pauses overlap, `LeftIsOnAir` that what is
left are the ticks on air up to there. Intervals are added by cardinality.

`EditorProofs` proves, for any number of tiles, points, marks, questions, monitors and changes:

- `WindowIsTheList`: `[]WindowShowsTheList`;
- `BadgesAreCounted`: `[]BadgesCount`;
- `LateAnswersDoNotShow`: `[]AnswersFit`;
- `EditorIsTyped`: `[]EditorTypeOK`;
- `RegionIsPlaced`: what `PixelsHaveOnePlace` says of `Region`, except the order of a band's words,
  for every width and screen. A region is kept within a pixel of the picture at whole scales; at
  fractional ones what is proved is that a grab moves the edge it does not hold by a pixel and a half
  at most, and several of them can lead further out, in the model as far as `MaxCreep` lets them;
- `PicturesAreRead`: what it says of an image's header and of colours, for every colour of 8 bits a
  channel and any largest picture. The run tries five values a channel. The header's lemmas
  (`AcceptedIs`, `DibsAreRead`) are for headers with any numbers.

They rest on `EditorAssumptions`: the types of the constants of the parts, and for `Region` screens at
least as wide as the widest bar and high enough for the magnifier (736 by 448). The
invariant of the tiles is `WindowInv`: a tile is `Settled` when its base has the marks of the list and
its display that and the mark being drawn; between two events of the pointer some tiles are loose, and
then the operation has told the window of each (`Told`, `Loose`). `BadgesInv` counts the badges of the
list and of the marks that can be redone together: undo hands a number back only because the marks on
the stack have the following ones. `PointerInv` says what the mark under the pointer and
the text editor can be. In `AnswersInv`, `Questions` are under way with their generations, and the newest of them is
about what is selected. `DisplaysInv` is the look at the monitors that ends. In `RegionInv`, `PullInv`
says what a drag knows and keeps a new region in the picture, and `EvenInv` why rounding does not add
up at whole scales: every edge is an even number of half pixels, except where an empty region is given
a pixel, and then it was in the picture. A colour's way to NV12 and back is linear but for three
roundings: `IsLuma`, `IsChromaU` and `IsChromaV` say how far each is off, and the sums of the way back
stay within three of the colour.

`ServicesProofs` proves, for any number of threads, processes, requests, fields and texts:

- `WindowRestsAtLast`: `[]WindowComesToRest`;
- `RequestsAreMetAlways`: `[]RequestsAreMet`;
- `SelectionIsServedAlways`: `[]SelectionIsServed`, provided a highlight found is the whole patch
  (`HighlightIsThePatch`, a flood fill), which the run shows on its screens;
- `HistoryIsOneListAlways`: `HistoryIsOneList`, the refinement of `HistoryList` and
  `[][MemoryIsDisk']_vars`, for lists of any length;
- `ServicesTypeOKAlways`: `[]ServicesTypeOK`.

They rest on `ServicesAssumption`, the assumptions of the parts: values that stand for "nothing" or "torn"
are no ordinary values, identifiers of threads and roles differ, bounds are numbers. `PartsInv` has
an invariant for each part:

- `HistoryInv`: memory and file are one list until a write has succeeded and its caller has not looked
  yet (`IndexFits`); what is being written is one of the five changes of that list (`Changes`), and
  stays one because the lock is held (`OpFits`); no id is in a list twice (`Lists`). What a filter
  leaves is `Only`, a recursive function; `OnlyLeaves` shows by induction on the entries gone through
  that it is those in the set, each once and in their order.
- `WindowInv`: whoever has suspended the hotkeys has left the resumption behind (`KeysInv`), and each
  thing shown as loading has a job or an answer under way that fits it (`Waits`).
- `KeyboardInv`: a press that waits stands for the combination its number had, because the number is
  still bound to it (`PressesAreBound`) and no number returns (`NumbersAreNew`).
- `InstancesInv`: one process has the mutex, the pipe is its own, and a client at the pipe has a
  server that has not gone, or a reason to fail (`OneOwner`, `PipeFits`, `ClientsFit`).
- `McpInv`: unless two changes overlapped there is one task at most, and the server it finds is the one
  of the settings before it (`Calm`).
- `SettingsInv`: one writer at a time; the file is what was told until the renaming and what will be
  told after it, which is why an end of the process at any step leaves all of a change or none
  (`FileInv`); each effect is that of the settings up to the writer's place among the effects (`EffectInv`). Of the
  hotkeys (`KeysFollow`): a suspension that is up has a field that records or a resume that waits, and
  nothing but `Grab` registers, after everything old was unregistered.
- `LoanInv`: while no two presses overlap, what the one under way has saved is of the user's clipboard,
  all that can be read of it unless a reading failed (`HalfRead`, `MayHave`), and between presses the
  clipboard is the user's or that.
- `PopupInv`: the answers and calls under way are those the popup waits for (`Follows`), and the news of
  the pointer in the queue lead to where it is (`Hears`).
- `BubbleInv`: unless two threads raced, whatever is under way to be shown is the pending text, nothing is being
  dismissed then, and the watcher asks one thing at a time (`Ordered`, `OneAsks`).
- `WatchInv`: a reading that is not empty ends the streak of empty ones, and an empty one begins it
  unless nothing was told (`Streak`). `TextInv` is about functions.

`DesktopProofs` proves, for any number of threads, recordings, windows, agents, encoders, releases and
processes, and for any sizes of displays:

- `WindowsKeepUpAlways`: `[]WindowsKeepUp`;
- `UpdatesAreSafeAlways`: `[]UpdatesAreSafe`;
- `AnswersAreWholeAlways`: `AnswersAreWhole`, except for its functions (limits, places);
- `CapturesAreTrueAlways`: `CapturesAreTrue`, except for sound, formats and a GIF's rate;
- `GifIsWholeAlways`: a GIF reads only decoded pixels and is whole or not there;
- `DesktopTypeOKAlways`: `[]DesktopTypeOK`.

They rest on `DesktopAssumption`, again the parts' assumptions. The parts' invariants are:

- `RecInv`: the queue of the UI thread says how it leaves the windows (`EndsIn`); a session that is over
  has somebody who closes its windows, and a countdown is asked for once.
- `SmallInv`: a toast's clock runs just when it is shown and not hovered; the pointer's news in the
  queue end where the pointer is; a click waits before no other toast.
- `TrayInv`: a command in the mail has one thread that waits for it; one thread starts (`StarterFits`);
  and what a refresh has found, or the menu says once there is none, hides no recording and tells of
  none but one that runs or starts, or of a start that came to nothing since (`Tells`), unless two
  refreshes overlapped or a menu was refused.
- `ClipInv`: who is inside has the lock; the memory not freed is that of the formats still to be
  handed over; a DIB of ours comes after its PNG,
  the form that keeps transparency.
- `RequestsInv`: an answer stands at its message's place; entries of the log are distinct and over.
- `CaptureInv`: nothing is judged before its thread is over, and the counter is the number of threads
  within (a cardinality), so the bound on stuck ones holds.
- `GrabInv`: pictures go from the pool to the callback, the slot and the texture in order, whatever
  sizes they and their textures have and whenever the pool is made anew, and a sample is of the
  texture as it was.
- `EncInv`: the frames sent are those in the file, those ready and those inside, in this order and by
  their numbers; a ready frame's notice comes before the end's; a sample is given only where one was
  asked for; an encoder has one holder. Of an idle encoder it says nothing, as it may be broken and
  full: that a stream begins on an empty one comes from the types.
- `GifInv`: the layout lies in its surface (row by row, `InRow`), and a part is whole before it is
  renamed. `InputInv`: a stream that is open has a rate of its device.
- `UpdatesInv`: a release carried by a thread has been checked as far as the thread's place says
  (`Carried`); flags are up for threads that will lower them (`Flags`); what was announced is known
  (`Told`); a folder is somebody's or will be cleaned up (`Kept`).

### What is only model-checked

- Liveness, which needs fairness and ENABLED: `StuckWorkerIsWrittenOff`, `StopEnds`, `CancelEnds`,
  `NeverUnseen`, `LimitCloses`, `LoadingEnds`. And the violated properties.
- `SoundKeepsItsTime` and the types of `Sound`, `PixelsHaveOnePlace` for whole pictures and for
  monitors, `HighlightIsThePatch`, the functions in `AnswersAreWhole`, the resampler and the sound
  devices' times, formats and the rate of a GIF: sums and folds over each packet, sample, pixel or frame. Where a proof needs induction on a
  number only (`Sound`, `Marks`, `History`), it is stated with a set of numbers instead of an operator.

## What the properties leave out

Some properties have a condition because the code does not promise more. A ghost variable notes when
it does not hold, so that nothing else hides behind it:

- `amiss` (`ClipboardLoan`): presses of the hotkey overlap, the other program copies too late or the
  user in between; a reading failed; the clipboard refused what was saved. Only the first leaves the
  property without a word: a second press reads the cleared clipboard and gives that back. A failed
  reading leaves the clipboard empty or with the text beside the picture, a refusal may leave it as it is.
- `amiss` (`TrayIcon`): the last refresh crossed another, or its menu was refused. `unsaid`: a start
  came to nothing after the last look (`recording.rs:55`).
- `raced` (`Bubble`): two threads write the pending text at once. `raced` (`RecWindows`): an event of the
  recorder and the end of a start have crossed, or an error event's look at the recorder is old.
- `overlapped` (`McpService`): two changes of the server's settings in quick succession; their tasks
  are not ordered, and the later can find no server to stop.
- `lapsed` (`AppSettings`): an effect failed or was cut off. When the autostart cannot be set, the
  effects after it are skipped although the settings are stored, and at the next start the
  autostart is not applied again: until the next change it is not what the settings say, and no
  property covers that.
- `overtaken` (`Updates`): a check asked for by the user gets an older manifest after a newer release
  was announced; that one is then announced again.

Seen while modelling, and not contradicted by any statement of the code, so no property says it:

- Two starts inside the recorder: the guard of the one called off takes back the other's
  (`recorder.rs:260`); `start_recording` lets one in at a time.
- A panic of a stream thread passes `remove_part`, and the part file stays (`engine.rs:235`).
- An overlay is no longer counted while its action is carried out (`overlay.rs:37`): an update may be
  installed meanwhile.
- The user finishes an agent's overlay as its time limit runs out (`mcp_wiring.rs:116`): nobody carries
  the action out.
- `overlay_cancel` has no session: a late one ends the next overlay (`overlay/mod.rs:515`).
- The controls of a session that ended before its start returned are opened after it, until the next
  recording closes them; the windows of `RecWindows` follow the session but for that race.
- A stored error of Explorer makes the next `set_menu` return it without sending; two refreshes of the
  tray at once can leave the older menu.
- A write to the clipboard that fails midway leaves it empty, or without its exclusion marks.
- A check asked for while another is under way gets no answer; the folder of a download stays when
  its process number is in use again.
- Arguments forwarded before `main` has put the application in place are dropped (`main.rs:53-60`).

## What is not modelled

- Wording, logs, the trace and the levels; sizes and formats, except where a property is about them.
- `Clipboard`: a listed format whose data cannot be got (`clipboard.rs:187`), which is read as none;
  the hotkey's failing readings are in `ClipboardLoan`.
- `Recorder`: the status snapshot. `Engine`: how often a wait polls; a copy to another disk is
  whole or not made at all; a panic of the session thread itself.
- `Sound`: stamps come in order, because the only caller of pause and resume is the UI thread
  (`host.rs:192-198`); a stop can be stamped a few ticks late, which the model does not show.
- `Handover`: what else can block an installation. `Overlay`: the hover-snap rectangles, the timing
  marks and the theme; the limit of the MCP tool itself, which only decides what the agent hears.
- `Marks`: shapes, styles and how a mark is drawn. `Editor`: the message that goes away by itself.
- `Pixels`: anti-aliasing, blur, pixelation and glyphs. They are values of pixels; a model of them
  would be their code again.
- The resampler's coefficients, gains, palettes, LZW and signatures: numerical code or libraries.
- Layout and drawing of every window; the parsing of JSON, URLs and HTTP.
- Pure formatting (`text.rs`, `format.rs`, `i18n.rs`, `accelerator.rs`, `geom.rs`): functions of strings
  and rectangles with a unit test each and no state.
- `shell.rs`, `theme.rs`, `dialogs.rs`, `ocr.rs`, `com.rs`: single calls into Windows. Where a part
  depends on their outcome, it is a nondeterministic step there.
- `diagnostics.rs`, `test_routes.rs` and the examples: for developers and tests.

## Plan

What would come next, in this order: the arithmetic of the mixer's track (`SoundKeepsItsTime`) proved
for every stream of packets; the queue
between `MainWindow` and `AppSettings` composed, so that the worker's order and the effects' order are
checked together; and a start-up module that joins `SingleInstance` with the arguments it hands over.
