------------------------------- MODULE Engine -------------------------------
(***************************************************************************)
(* One recording session of shotik-recorder (engine.rs): the session       *)
(* thread opens the sources, runs the stream threads and turns the part    *)
(* file into the result; the video thread and the mixer feed the writer    *)
(* through a bounded channel; a thread per audio input fills its track;    *)
(* anyone may set the flags of the shared Control at any moment.           *)
(*                                                                         *)
(* Media time is counted in frames: one video frame and one audio chunk    *)
(* per unit, so the picture and the sound of a file cover the same time    *)
(* when their counts agree.  How clock.rs maps real time to it is in       *)
(* module Sound.  A stream thread may panic when Panics says so.           *)
(***************************************************************************)
EXTENDS Integers, Sequences, FiniteSetsExt

CONSTANTS
  Jobs,          (* what may be recorded: a region or only sound, and      *)
                 (* which audio inputs the options ask for                 *)
  QueueDepth,    (* QUEUE_DEPTH, the room in the writer's channel          *)
  MixDelay,      (* MIX_DELAY_FRAMES in units                              *)
  MinAudioOnly,  (* MIN_AUDIO_ONLY_TICKS in units                          *)
  MaxPos,        (* how long a recording gets: a model bound               *)
  Panics         (* which stream threads may panic                         *)

ASSUME EngineAssumption ==
  /\ Jobs \subseteq [video : BOOLEAN, inputs : SUBSET {"system", "microphone"}]
  /\ QueueDepth \in Nat \ {0}
  /\ MixDelay \in Nat \ {0}
  /\ MinAudioOnly \in Nat \ {0}
  /\ MaxPos \in Nat
  /\ Panics \subseteq {"video", "mixer", "input", "writer"}

VARIABLES
  (* Control *)
  stop, cancel, failure, mixDone,
  end,                            (* the length of the file, or None       *)
  started, pauseAsked, paused, stopped, pos,  (* its Timeline              *)
  (* the session thread *)
  job, driver, opened, outcome,
  part,                           (* the temporary file exists             *)
  files,                          (* where the recording is, complete      *)
  result,                         (* the one of them that is the result    *)
  complete,                       (* the part file was finalized           *)
  held,                           (* a file could not be removed: somebody *)
                                  (* else has it open                      *)
  told,                           (* the user heard of some problem        *)
  (* the channel and the stream threads *)
  queue,
  video, due, viewStopped, written,
  mixer, target, last, cursor, tailWait,
  input, tail,
  writer, sinkFailed, fileVideo, fileAudio

flagVars   == <<stop, cancel, failure>>
timeVars   == <<started, pauseAsked, paused, stopped, pos>>
fileVars   == <<files, result, complete, held>>
driverVars == <<job, driver, opened, outcome, part, fileVars>>
videoVars  == <<video, due, viewStopped, written>>
mixerVars  == <<mixer, target, last, cursor, tailWait>>
inputVars  == <<input, tail>>
writerVars == <<writer, sinkFailed, fileVideo, fileAudio>>
streamVars == <<queue, videoVars, mixerVars, inputVars, writerVars>>
vars == <<flagVars, timeVars, mixDone, end, driverVars, told, streamVars>>

None == -1
HasVideo == job.video
Inputs == job.inputs
AllInputs == {"system", "microphone"}

-----------------------------------------------------------------------------
(* Control                                                                  *)

IsEnding == stop \/ cancel

StopTimeline == stop' = TRUE /\ stopped' = (stopped \/ started) /\ UNCHANGED <<started, pauseAsked, paused, pos>>

RequestStop ==
  /\ ~stop /\ driver # "gone"
  /\ StopTimeline
  /\ UNCHANGED <<cancel, failure, mixDone, end, driverVars, told, streamVars>>

RequestCancel ==
  /\ ~cancel /\ driver # "gone"
  /\ cancel' = TRUE
  /\ UNCHANGED <<stop, failure, timeVars, mixDone, end, driverVars, told, streamVars>>

(* A stopped timeline takes no more pauses. *)
Pause(on) ==
  /\ pauseAsked # on /\ driver # "gone"
  /\ pauseAsked' = on
  /\ paused' = IF started /\ ~stopped THEN on ELSE paused
  /\ UNCHANGED <<started, stopped, pos, flagVars, mixDone, end, driverVars, told, streamVars>>

(* What a stream thread does when its device or the sink gives up. *)
Fail == failure' = TRUE /\ StopTimeline /\ UNCHANGED cancel

(* The first to set it wins. *)
SetEnd(n) == end' = IF end = None THEN n ELSE end

Tick ==
  /\ started /\ ~paused /\ ~stopped
  /\ pos < MaxPos
  /\ pos' = pos + 1
  /\ UNCHANGED <<started, pauseAsked, paused, stopped, flagVars, mixDone, end, driverVars, told, streamVars>>

-----------------------------------------------------------------------------

Init ==
  /\ stop = FALSE /\ cancel = FALSE /\ failure = FALSE /\ mixDone = FALSE
  /\ end = None
  /\ started = FALSE /\ pauseAsked = FALSE /\ paused = FALSE /\ stopped = FALSE /\ pos = 0
  /\ job \in Jobs
  /\ driver = "video" /\ opened = {} /\ outcome = "none"
  /\ part = FALSE /\ told = FALSE
  /\ files = {} /\ result = "none" /\ complete = FALSE /\ held = FALSE
  /\ queue = <<>>
  /\ video = "off" /\ due = 0 /\ viewStopped = FALSE /\ written = 0
  /\ mixer = "off" /\ target = 0 /\ last = FALSE /\ cursor = 0 /\ tailWait = "none"
  /\ input = [i \in AllInputs |-> "off"] /\ tail = [i \in AllInputs |-> 0]
  /\ writer = "off" /\ sinkFailed = FALSE /\ fileVideo = 0 /\ fileAudio = 0

(* The session thread leaves drive without a result: run_session still has to remove the part file. *)
Leave(how) == driver' = "remove" /\ outcome' = how

-----------------------------------------------------------------------------
(* drive: everything is opened in order, and each time it looks whether the session is still wanted. *)

Goto(next) == IF IsEnding THEN Leave("canceled") ELSE driver' = next /\ UNCHANGED outcome

OpenVideo ==
  /\ driver = "video"
  /\ Goto("system") \/ Leave("failed")
  /\ UNCHANGED <<job, opened, part, fileVars, flagVars, timeVars, mixDone, end, told, streamVars>>

(* A video session goes on without the sound of the system, and says so. *)
OpenSystem ==
  /\ driver = "system"
  /\ \/ Goto("microphone") /\ opened' = Inputs \cap {"system"} /\ UNCHANGED told
     \/ /\ "system" \in Inputs
        /\ IF HasVideo THEN Goto("microphone") /\ told' = TRUE ELSE Leave("failed") /\ UNCHANGED told
        /\ UNCHANGED opened
  /\ UNCHANGED <<job, part, fileVars, flagVars, timeVars, mixDone, end, streamVars>>

(* A slip: the microphone is opened without being asked for. *)
OpenMicrophoneAlways ==
  /\ driver = "microphone"
  /\ opened' = opened \cup {"microphone"}
  /\ Goto("sink")
  /\ UNCHANGED <<job, part, fileVars, flagVars, timeVars, mixDone, end, told, streamVars>>

(* Without any sound an audio session has nothing to record. *)
OpenMicrophone ==
  /\ driver = "microphone"
  /\ opened' = opened \cup (Inputs \cap {"microphone"})
  /\ \/ "microphone" \in Inputs /\ Leave("failed")
     \/ IF IsEnding \/ HasVideo \/ opened' # {} THEN Goto("sink") ELSE Leave("failed")
  /\ UNCHANGED <<job, part, fileVars, flagVars, timeVars, mixDone, end, told, streamVars>>

(* The part file appears; a sink that fails to open may leave one, too. *)
OpenSink ==
  /\ driver = "sink"
  /\ \/ part' = TRUE /\ Goto(IF HasVideo THEN "first" ELSE "spawn")
     \/ part' \in BOOLEAN /\ Leave("failed")
  /\ UNCHANGED <<job, opened, fileVars, flagVars, timeVars, mixDone, end, told, streamVars>>

WaitFirstFrame ==
  /\ driver = "first"
  /\ \/ driver' = "spawn" /\ UNCHANGED outcome
     \/ IsEnding /\ Leave("canceled")
     \/ Leave("failed")
  /\ UNCHANGED <<job, opened, part, fileVars, flagVars, timeVars, mixDone, end, told, streamVars>>

-----------------------------------------------------------------------------
(* run_streams                                                              *)

Spawn ==
  /\ driver = "spawn"
  /\ driver' = "begin"
  /\ writer' = "recv"
  /\ video' = IF HasVideo THEN "look" ELSE "off"
  /\ mixer' = IF opened # {} THEN "look" ELSE "off"
  /\ input' = [i \in AllInputs |-> IF i \in opened THEN "read" ELSE "off"]
  /\ UNCHANGED <<job, opened, outcome, part, fileVars, flagVars, timeVars, mixDone, end, told, queue,
                 due, viewStopped, written, target, last, cursor, tailWait, tail, sinkFailed, fileVideo, fileAudio>>

(* Time zero of the file.  What was asked for while the session was starting applies now. *)
BeginTimeline ==
  /\ driver = "begin"
  /\ driver' = "joinVideo"
  /\ started' = TRUE
  /\ paused' = pauseAsked
  /\ stopped' = stop
  /\ UNCHANGED <<job, pauseAsked, pos, opened, outcome, part, fileVars, flagVars, mixDone, end, told, streamVars>>

Ended(pc) == pc \in {"off", "gone"}

(* Joining a thread that panicked is a panic of the session thread. *)
Join(from, to, threads) ==
  /\ driver = from
  /\ \/ (\A pc \in threads : Ended(pc)) /\ driver' = to
     \/ "dead" \in threads /\ driver' = "unwind"
  /\ UNCHANGED <<job, opened, outcome, part, fileVars, flagVars, timeVars, end, told, streamVars>>

JoinVideo == Join("joinVideo", "joinMixer", {video}) /\ UNCHANGED mixDone
JoinMixer == Join("joinMixer", "joinInputs", {mixer}) /\ mixDone' = (driver' = "joinInputs")
JoinInputs == Join("joinInputs", "joinWriter", {input[i] : i \in AllInputs}) /\ UNCHANGED mixDone
JoinWriter == Join("joinWriter", "result", {writer}) /\ UNCHANGED mixDone

(* The scope waits for every thread before the panic goes on; Recorder::start catches it.  Nothing *)
(* between the two removes the part file.                                                         *)
Unwind ==
  /\ driver = "unwind"
  /\ \A pc \in {video, mixer, writer} \cup {input[i] : i \in AllInputs} : Ended(pc) \/ pc = "dead"
  /\ driver' = "gone" /\ outcome' = "failed"
  /\ UNCHANGED <<job, opened, part, fileVars, flagVars, timeVars, mixDone, end, told, streamVars>>

-----------------------------------------------------------------------------
(* From the streams to the result                                           *)

Result ==
  /\ driver = "result"
  /\ IF cancel THEN Leave("canceled") ELSE driver' = "finalize" /\ UNCHANGED outcome
  /\ UNCHANGED <<job, opened, part, fileVars, flagVars, timeVars, mixDone, end, told, streamVars>>

(* A slip: the failure that cut the recording short is not reported. *)
FinalizeQuietly ==
  /\ driver = "finalize"
  /\ \/ Leave("failed") /\ UNCHANGED <<told, complete>>
     \/ cancel /\ Leave("canceled") /\ UNCHANGED <<told, complete>>
     \/ ~cancel /\ driver' = "move" /\ complete' = TRUE /\ told' \in {told, TRUE} /\ UNCHANGED outcome
  /\ UNCHANGED <<job, opened, part, files, result, held, flagVars, timeVars, mixDone, end, streamVars>>

(* Cancel can arrive while the index is being written.  What was written up to a failure is a valid *)
(* file: it is kept, and the user hears what happened.                                               *)
Finalize ==
  /\ driver = "finalize"
  /\ \/ Leave("failed") /\ UNCHANGED <<told, complete>>
     \/ cancel /\ Leave("canceled") /\ UNCHANGED <<told, complete>>
     \/ ~cancel /\ driver' = "move" /\ complete' = TRUE /\ told' \in {told \/ failure, TRUE} /\ UNCHANGED outcome
  /\ UNCHANGED <<job, opened, part, files, result, held, flagVars, timeVars, mixDone, end, streamVars>>

(* move_into_place: renamed, or copied and removed. *)
Moved(place) == files' = files \cup {place} /\ result' = place /\ part' = FALSE /\ driver' = "check" /\ UNCHANGED <<held, outcome>>

(* It gives up: nothing was copied, or the copy is there and the part file cannot be removed. *)
NotMoved(place) ==
  /\ \/ UNCHANGED <<files, held>>
     \/ files' = files \cup {place} /\ held' = TRUE
  /\ UNCHANGED <<result, part>>

(* Into the folder of the recordings ... *)
MoveToFolder ==
  /\ driver = "move"
  /\ \/ Moved("folder")
     \/ NotMoved("folder") /\ driver' = "moveAgain" /\ UNCHANGED outcome
  /\ UNCHANGED <<job, opened, complete, flagVars, timeVars, mixDone, end, told, streamVars>>

(* ... or else under its real name next to the part file, and the user is told where. *)
MoveToTemp ==
  /\ driver = "moveAgain"
  /\ \/ Moved("temp") /\ told' = TRUE
     \/ NotMoved("temp") /\ Leave("failed") /\ UNCHANGED told
  /\ UNCHANGED <<job, opened, complete, flagVars, timeVars, mixDone, end, streamVars>>

(* The result is taken back; an error in doing so is ignored. *)
TakeBack == \/ files' = files \ {result} /\ UNCHANGED held
            \/ held' = TRUE /\ UNCHANGED files

(* A slip: the file of a session canceled this late stays where it is. *)
LastCheckKeeps ==
  /\ driver = "check"
  /\ IF cancel THEN Leave("canceled") ELSE driver' = "gone" /\ outcome' = "done"
  /\ UNCHANGED <<job, opened, part, fileVars, flagVars, timeVars, mixDone, end, told, streamVars>>

(* Moving to another disk takes as long as the recording is large: cancel counts until it is over. *)
LastCheck ==
  /\ driver = "check"
  /\ IF cancel THEN Leave("canceled") /\ TakeBack
     ELSE driver' = "gone" /\ outcome' = "done" /\ UNCHANGED <<files, held>>
  /\ UNCHANGED <<job, opened, part, result, complete, flagVars, timeVars, mixDone, end, told, streamVars>>

(* remove_part tries for a second, then gives up. *)
RemovePart ==
  /\ driver = "remove"
  /\ \/ part' = FALSE /\ UNCHANGED held
     \/ part /\ held' = TRUE /\ UNCHANGED part
  /\ driver' = "gone"
  /\ UNCHANGED <<job, opened, outcome, files, result, complete, flagVars, timeVars, mixDone, end, told, streamVars>>

-----------------------------------------------------------------------------
(* The channel                                                              *)

Send(packet) == writer # "dead" /\ Len(queue) < QueueDepth /\ queue' = Append(queue, packet)
Closed == writer = "dead"

-----------------------------------------------------------------------------
(* video_loop                                                               *)

VideoCanceled ==
  /\ video = "look" /\ cancel
  /\ video' = "gone"
  /\ UNCHANGED <<due, viewStopped, written, flagVars, timeVars, mixDone, end, driverVars, told,
                 queue, mixerVars, inputVars, writerVars>>

(* Frame n is due at its own stamp. *)
VideoLook ==
  /\ video = "look" /\ ~cancel /\ started
  /\ due' = pos + 1
  /\ viewStopped' = stopped
  /\ video' = "frames"
  /\ UNCHANGED <<written, flagVars, timeVars, mixDone, end, driverVars, told, queue, mixerVars, inputVars, writerVars>>

VideoFrame ==
  /\ video = "frames" /\ written < due
  /\ \/ Send("frame") /\ written' = written + 1 /\ UNCHANGED <<video, end, flagVars, timeVars>>
     \/ Closed /\ SetEnd(written) /\ video' = "gone" /\ UNCHANGED <<queue, written, flagVars, timeVars>>
     \/ Fail /\ SetEnd(written) /\ video' = "gone" /\ UNCHANGED <<queue, written>>
  /\ UNCHANGED <<due, viewStopped, mixDone, driverVars, told, mixerVars, inputVars, writerVars>>

(* All due frames are sent.  After a stop that was the last of them; a lost source stops the session. *)
VideoPause ==
  /\ video = "frames" /\ written >= due
  /\ \/ viewStopped /\ SetEnd(written) /\ video' = "gone" /\ UNCHANGED <<flagVars, timeVars>>
     \/ ~viewStopped /\ video' = "look" /\ UNCHANGED <<end, flagVars, timeVars>>
     \/ ~viewStopped /\ video' = "look" /\ Fail /\ UNCHANGED end
  /\ UNCHANGED <<due, viewStopped, written, mixDone, driverVars, told, queue, mixerVars, inputVars, writerVars>>

-----------------------------------------------------------------------------
(* mix_loop                                                                 *)

MixCanceled ==
  /\ mixer = "look" /\ cancel
  /\ mixer' = "gone"
  /\ UNCHANGED <<target, last, cursor, tailWait, flagVars, timeVars, mixDone, end, driverVars, told,
                 queue, videoVars, inputVars, writerVars>>

(* How far every track reaches. *)
Have == Min({tail[i] : i \in opened})

Longer(m, n) == IF m > n THEN m ELSE n

(* A slip: the mixer writes up to the end as soon as that is known. *)
MixLookAtOnce ==
  /\ mixer = "look" /\ ~cancel /\ started
  /\ IF ~HasVideo /\ stopped THEN SetEnd(Longer(pos, MinAudioOnly)) ELSE UNCHANGED end
  /\ last' = (end' # None)
  /\ target' = IF end' = None THEN pos - MixDelay ELSE end'
  /\ mixer' = "chunks"
  /\ UNCHANGED <<tailWait, cursor, flagVars, timeVars, mixDone, driverVars, told, queue, videoVars, inputVars, writerVars>>

(* Behind real time while the session runs; to the end of the file once that is known, as soon as the tracks are there *)
(* or have been waited for.                                                                                             *)
MixLook ==
  /\ mixer = "look" /\ ~cancel /\ started
  /\ IF ~HasVideo /\ stopped THEN SetEnd(Longer(pos, MinAudioOnly)) ELSE UNCHANGED end
  /\ last' = (end' # None /\ (Have >= end' \/ tailWait = "over"))
  /\ target' = IF end' = None THEN pos - MixDelay ELSE IF last' THEN end' ELSE Have
  /\ tailWait' = IF end' # None /\ tailWait = "none" THEN "waiting" ELSE tailWait
  /\ mixer' = "chunks"
  /\ UNCHANGED <<cursor, flagVars, timeVars, mixDone, driverVars, told, queue, videoVars, inputVars, writerVars>>

MixChunk ==
  /\ mixer = "chunks" /\ cursor < target
  /\ \/ Send("chunk") /\ cursor' = cursor + 1 /\ UNCHANGED mixer
     \/ Closed /\ mixer' = "gone" /\ UNCHANGED <<queue, cursor>>
  /\ UNCHANGED <<target, last, tailWait, flagVars, timeVars, mixDone, end, driverVars, told, videoVars, inputVars, writerVars>>

MixPause ==
  /\ mixer = "chunks" /\ cursor >= target
  /\ mixer' = IF last THEN "gone" ELSE "look"
  /\ UNCHANGED <<target, last, cursor, tailWait, flagVars, timeVars, mixDone, end, driverVars, told,
                 queue, videoVars, inputVars, writerVars>>

(* The deadline of the tail passes. *)
TailOver ==
  /\ tailWait = "waiting"
  /\ tailWait' = "over"
  /\ UNCHANGED <<mixer, target, last, cursor, flagVars, timeVars, mixDone, end, driverVars, told,
                 queue, videoVars, inputVars, writerVars>>

-----------------------------------------------------------------------------
(* input_loop                                                               *)

(* A slip: an input waits for the mixer even when the session is canceled. *)
InputLeavesLate(i) ==
  /\ input[i] \in {"read", "lost"} /\ mixDone
  /\ input' = [input EXCEPT ![i] = "gone"]
  /\ UNCHANGED <<tail, flagVars, timeVars, mixDone, end, driverVars, told, queue, videoVars, mixerVars, writerVars>>

InputLeaves(i) ==
  /\ input[i] \in {"read", "lost"} /\ (mixDone \/ cancel)
  /\ input' = [input EXCEPT ![i] = "gone"]
  /\ UNCHANGED <<tail, flagVars, timeVars, mixDone, end, driverVars, told, queue, videoVars, mixerVars, writerVars>>

(* A packet lands on the track by its stamp; the last one may end slightly after the stop. *)
InputPacket(i) ==
  /\ input[i] = "read" /\ ~mixDone /\ ~cancel /\ started
  /\ \E t \in (tail[i] + 1)..(pos + 1) : tail' = [tail EXCEPT ![i] = t]
  /\ UNCHANGED <<input, flagVars, timeVars, mixDone, end, driverVars, told, queue, videoVars, mixerVars, writerVars>>

(* The input is lost, the session goes on in silence and says so. *)
InputLost(i) ==
  /\ input[i] = "read" /\ ~mixDone /\ ~cancel
  /\ input' = [input EXCEPT ![i] = "lost"]
  /\ told' = TRUE
  /\ UNCHANGED <<tail, flagVars, timeVars, mixDone, end, driverVars, queue, videoVars, mixerVars, writerVars>>

-----------------------------------------------------------------------------
(* writer_loop: it keeps draining after a failure, so the producers never block on a full queue. *)

(* A slip: after a failure of the sink the channel is left as it is. *)
WriterDrainsCanceled ==
  /\ writer = "recv" /\ queue # <<>> /\ cancel
  /\ queue' = Tail(queue)
  /\ UNCHANGED <<writerVars, flagVars, timeVars, mixDone, end, driverVars, told, videoVars, mixerVars, inputVars>>

WriterDrains ==
  /\ writer = "recv" /\ queue # <<>> /\ (sinkFailed \/ cancel)
  /\ queue' = Tail(queue)
  /\ UNCHANGED <<writerVars, flagVars, timeVars, mixDone, end, driverVars, told, videoVars, mixerVars, inputVars>>

WriterWrites ==
  /\ writer = "recv" /\ queue # <<>> /\ ~sinkFailed /\ ~cancel
  /\ queue' = Tail(queue)
  /\ \/ /\ fileVideo' = fileVideo + (IF Head(queue) = "frame" THEN 1 ELSE 0)
        /\ fileAudio' = fileAudio + (IF Head(queue) = "chunk" THEN 1 ELSE 0)
        /\ UNCHANGED <<sinkFailed, flagVars, timeVars>>
     \/ /\ sinkFailed' = TRUE
        /\ Fail
        /\ UNCHANGED <<fileVideo, fileAudio>>
  /\ UNCHANGED <<writer, mixDone, end, driverVars, told, videoVars, mixerVars, inputVars>>

(* Every sender is gone and the channel is empty. *)
WriterEnds ==
  /\ writer = "recv" /\ queue = <<>>
  /\ {video, mixer} \cap {"look", "frames", "chunks"} = {}
  /\ writer' = "gone"
  /\ UNCHANGED <<sinkFailed, fileVideo, fileAudio, flagVars, timeVars, mixDone, end, driverVars, told,
                 queue, videoVars, mixerVars, inputVars>>

-----------------------------------------------------------------------------
(* A stream thread panics: what it held is dropped, and the others learn of it through the channel at most. *)

VideoPanics ==
  /\ "video" \in Panics /\ ~Ended(video) /\ video' = "dead"
  /\ UNCHANGED <<due, viewStopped, written, flagVars, timeVars, mixDone, end, driverVars, told,
                 queue, mixerVars, inputVars, writerVars>>

MixerPanics ==
  /\ "mixer" \in Panics /\ ~Ended(mixer) /\ mixer' = "dead"
  /\ UNCHANGED <<target, last, cursor, tailWait, flagVars, timeVars, mixDone, end, driverVars, told,
                 queue, videoVars, inputVars, writerVars>>

InputPanics(i) ==
  /\ "input" \in Panics /\ ~Ended(input[i]) /\ input' = [input EXCEPT ![i] = "dead"]
  /\ UNCHANGED <<tail, flagVars, timeVars, mixDone, end, driverVars, told, queue, videoVars, mixerVars, writerVars>>

WriterPanics ==
  /\ "writer" \in Panics /\ ~Ended(writer) /\ writer' = "dead" /\ queue' = <<>>
  /\ UNCHANGED <<sinkFailed, fileVideo, fileAudio, flagVars, timeVars, mixDone, end, driverVars, told,
                 videoVars, mixerVars, inputVars>>

-----------------------------------------------------------------------------

OpenNext == OpenVideo \/ OpenSystem \/ OpenMicrophone \/ OpenSink \/ WaitFirstFrame
RunNext == Spawn \/ BeginTimeline \/ JoinVideo \/ JoinMixer \/ JoinInputs \/ JoinWriter \/ Unwind
ResultNext == Result \/ Finalize \/ MoveToFolder \/ MoveToTemp \/ LastCheck \/ RemovePart
DriverNext == OpenNext \/ RunNext \/ ResultNext
VideoNext == VideoCanceled \/ VideoLook \/ VideoFrame \/ VideoPause
MixerNext == MixCanceled \/ MixLook \/ MixChunk \/ MixPause
InputNext(i) == InputLeaves(i) \/ InputPacket(i) \/ InputLost(i)
WriterNext == WriterDrains \/ WriterWrites \/ WriterEnds
SomePanic == "dead" \in {video, mixer, writer} \cup {input[i] : i \in AllInputs}

(* At most one thread panics: a model bound. *)
PanicNext ==
  /\ ~SomePanic
  /\ VideoPanics \/ MixerPanics \/ WriterPanics \/ \E i \in AllInputs : InputPanics(i)

ControlNext == RequestStop \/ RequestCancel \/ \E on \in BOOLEAN : Pause(on)

Next ==
  \/ ControlNext \/ Tick \/ TailOver
  \/ DriverNext \/ VideoNext \/ MixerNext \/ WriterNext
  \/ \E i \in AllInputs : InputNext(i)
  \/ PanicNext

Spec == Init /\ [][Next]_vars

(* The threads run, a call into a device or the sink returns, and a wait with a deadline is over some day.  The first *)
(* frame may never come by itself: that wait looks at the flags.                                                      *)
Fairness ==
  /\ WF_vars(DriverNext) /\ WF_vars(VideoNext) /\ WF_vars(MixerNext) /\ WF_vars(WriterNext)
  /\ WF_vars(TailOver)
  /\ \A i \in AllInputs : WF_vars(InputLeaves(i))

FairSpec == Spec /\ Fairness

-----------------------------------------------------------------------------
(* Properties                                                               *)

Threads == {"off", "look", "frames", "chunks", "recv", "read", "lost", "gone", "dead"}

TypeOK ==
  /\ stop \in BOOLEAN /\ cancel \in BOOLEAN /\ failure \in BOOLEAN /\ mixDone \in BOOLEAN
  /\ end \in Nat \cup {None}
  /\ started \in BOOLEAN /\ pauseAsked \in BOOLEAN /\ paused \in BOOLEAN /\ stopped \in BOOLEAN
  /\ pos \in Nat
  /\ driver \in {"video", "system", "microphone", "sink", "first", "spawn", "begin", "joinVideo", "joinMixer",
                 "joinInputs", "joinWriter", "unwind", "result", "finalize", "move", "moveAgain", "check", "remove", "gone"}
  /\ job \in Jobs
  /\ opened \subseteq Inputs
  /\ outcome \in {"none", "done", "canceled", "failed"}
  /\ part \in BOOLEAN /\ told \in BOOLEAN /\ complete \in BOOLEAN /\ held \in BOOLEAN
  /\ files \subseteq {"folder", "temp"} /\ result \in {"none", "folder", "temp"}
  /\ queue \in Seq({"frame", "chunk"})
  /\ video \in Threads /\ due \in Nat /\ viewStopped \in BOOLEAN /\ written \in Nat
  /\ mixer \in Threads /\ target \in Int /\ last \in BOOLEAN /\ cursor \in Nat
  /\ tailWait \in {"none", "waiting", "over"}
  /\ input \in [AllInputs -> Threads] /\ tail \in [AllInputs -> Nat]
  /\ writer \in Threads /\ sinkFailed \in BOOLEAN /\ fileVideo \in Nat /\ fileAudio \in Nat

(* A file that is delivered without a word of a problem is whole: the picture and the sound both reach its end, and *)
(* nothing that was recorded up to the stop is missing.                                                             *)
WholeUnlessTold ==
  outcome = "done" /\ ~told =>
    /\ end >= pos
    /\ HasVideo => fileVideo = end
    /\ opened # {} => fileAudio = end

(* The mixer does not pass a place that an input may still fill: it stays MixDelay behind the recording, and at the end *)
(* it waits for the tracks until the deadline of the tail.                                                              *)
MixerWaits ==
  cursor > 0 =>
    \/ cursor <= pos - MixDelay
    \/ \A i \in opened : cursor <= tail[i]
    \/ tailWait = "over"

(* A session that is over leaves one file when it is done, and nothing at all when it was canceled or failed, as long *)
(* as nobody keeps the session from removing a file.                                                                  *)
LeavesOnlyTheResult ==
  driver = "gone" /\ ~held => ~part /\ files = (IF outcome = "done" THEN {result} ELSE {})

(* A recording that was written to its end is somewhere, unless the user canceled it.  It is not when both moves fail *)
(* because something has the part file open for a moment: remove_part is patient, and takes the only copy.           *)
OnlyCopyStays == driver = "gone" /\ complete /\ ~cancel => part \/ files # {}

(* Whatever the threads wait for, a stop brings the session to its end, unless one of them panicked. *)
StopEnds == stop ~> (driver = "gone" \/ SomePanic)

(* A cancel does so even then. *)
CancelEnds == cancel ~> driver = "gone"

-----------------------------------------------------------------------------
(* For TLC: values of Jobs and Panics. *)

Screen == {[video |-> TRUE, inputs |-> {"system"}]}
Every == {[video |-> TRUE, inputs |-> {"microphone"}],
          [video |-> FALSE, inputs |-> {"system"}],
          [video |-> FALSE, inputs |-> {}]}
AnyThread == {"video", "mixer", "input", "writer"}
=============================================================================
