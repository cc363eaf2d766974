---------------------------- MODULE EngineProofs ----------------------------
(***************************************************************************)
(* Proofs about module Engine, for any jobs, any depth of the channel, any *)
(* delay of the mixer and recordings of any length.  A file is whole       *)
(* because the video thread, or the mixer of a session without a picture,  *)
(* fixes the end when the clock has stopped, and each packet that is sent  *)
(* is in the channel or in the file until something fails; and whatever    *)
(* fails is told, or keeps the session from being done.                    *)
(***************************************************************************)
EXTENDS Engine, FiniteSets, FiniteSetTheorems, TLAPS

Before == {"video", "system", "microphone", "sink", "first", "spawn"}
PastWriter == {"result", "finalize", "move", "moveAgain", "check"}
PastInputs == PastWriter \cup {"joinWriter"}
PastMixer == PastInputs \cup {"joinInputs"}
PastVideo == PastMixer \cup {"joinMixer"}

(* The threads begin together, each for what there is to record, and the clock after them. *)
StartInv ==
  /\ driver \in Before => writer = "off"
  /\ driver \in PastVideo \cup {"begin", "joinVideo"} => writer # "off"
  /\ driver \in Before \cup {"begin"} => ~started
  /\ driver \in {"sink", "first", "spawn"} => HasVideo \/ opened # {}
  /\ IF writer = "off"
     THEN video = "off" /\ mixer = "off" /\ queue = <<>> /\ ~started
     ELSE (HasVideo <=> video # "off") /\ (opened # {} <=> mixer # "off") /\ (HasVideo \/ opened # {})
  /\ ~started => /\ ~stopped /\ end = None /\ ~viewStopped /\ ~last
                 /\ video # "frames" /\ mixer # "chunks" /\ written = 0 /\ cursor = 0

(* Nothing has gone wrong so far. *)
Good == ~cancel /\ ~failure /\ writer # "dead"

(* Who fixes the end of the file, and when. *)
EndInv ==
  /\ viewStopped => stopped /\ due > pos
  /\ HasVideo /\ video # "gone" => end = None
  /\ HasVideo /\ video = "gone" /\ ~cancel => end = written
  /\ HasVideo /\ video = "gone" /\ Good => stopped /\ end >= pos
  /\ ~HasVideo /\ end # None => stopped /\ end >= pos

(* As far as the mixer may get. *)
Reach == IF end = None THEN pos ELSE end

MixInv ==
  /\ last => end # None /\ target = end
  /\ mixer = "gone" /\ ~cancel /\ writer # "dead" => last /\ cursor >= target
  /\ Good => cursor <= Reach /\ (mixer = "chunks" => target <= Reach)

(* The mixer is held back by the clock, the tracks or the deadline. *)
Held(n) == n <= 0 \/ n <= pos - MixDelay \/ (\A i \in opened : n <= tail[i]) \/ tailWait = "over"

HeldInv == Held(cursor) /\ (mixer = "chunks" => Held(target))

Packets == {"frame", "chunk"}

(* How many packets of a kind wait in the channel. *)
Waiting(q, kind) == {k \in DOMAIN q : q[k] = kind}
Count(q, kind) == Cardinality(Waiting(q, kind))

(* What was sent is in the file or waits in the channel. *)
CountInv ==
  /\ sinkFailed => failure
  /\ ~cancel /\ ~sinkFailed /\ writer # "dead" =>
       /\ written = fileVideo + Count(queue, "frame")
       /\ cursor = fileAudio + Count(queue, "chunk")

(* Whom the session thread has waited for, and what nobody changes after. *)
JoinInv ==
  /\ driver \in PastVideo \/ outcome = "done" => Ended(video)
  /\ driver \in PastMixer \/ outcome = "done" => Ended(mixer)
  /\ driver \in PastWriter \/ outcome = "done" => writer = "gone"
  /\ writer = "gone" => queue = <<>> /\ {video, mixer} \cap {"look", "frames", "chunks"} = {}
  /\ driver \notin {"remove", "gone"} => outcome = "none"
  /\ outcome = "done" => driver = "gone" /\ ~cancel
  /\ driver \in {"move", "moveAgain", "check"} \/ outcome = "done" => told \/ ~failure

(* Where the files are while nothing keeps the session from removing one. *)
FilesInv ==
  /\ driver = "unwind" => SomePanic
  /\ SomePanic => Panics # {}
  /\ ~held =>
       /\ driver \notin {"check", "gone"} => files = {}
       /\ driver = "check" => files = {result} /\ ~part
       /\ driver = "gone" => SomePanic \/ (~part /\ files = (IF outcome = "done" THEN {result} ELSE {}))

IInv == TypeOK /\ StartInv /\ EndInv /\ MixInv /\ HeldInv /\ CountInv /\ JoinInv /\ FilesInv

-----------------------------------------------------------------------------
(* The channel                                                              *)

LEMMA WaitingFinite ==
  ASSUME NEW q \in Seq(Packets), NEW kind
  PROVE  IsFiniteSet(Waiting(q, kind)) /\ Count(q, kind) \in Nat
<1>1. DOMAIN q = 1..Len(q) /\ Len(q) \in Nat
  OBVIOUS
<1>2. IsFiniteSet(1..Len(q))
  BY <1>1, FS_Interval
<1>3. Waiting(q, kind) \subseteq 1..Len(q)
  BY <1>1 DEF Waiting
<1>4. QED BY <1>2, <1>3, FS_Subset, FS_CardinalityType DEF Count

LEMMA NoneWaits ==
  ASSUME NEW kind
  PROVE  <<>> \in Seq(Packets) /\ Count(<<>>, kind) = 0
<1>1. Waiting(<<>>, kind) = {}
  BY DEF Waiting
<1>2. QED BY <1>1, FS_EmptySet DEF Count

LEMMA Posted ==
  ASSUME NEW q \in Seq(Packets), NEW p \in Packets, NEW kind
  PROVE  /\ Append(q, p) \in Seq(Packets)
         /\ Count(Append(q, p), kind) = Count(q, kind) + (IF p = kind THEN 1 ELSE 0)
<1>1. /\ DOMAIN Append(q, p) = 1..(Len(q) + 1) /\ DOMAIN q = 1..Len(q) /\ Len(q) \in Nat
      /\ \A k \in 1..Len(q) : Append(q, p)[k] = q[k]
      /\ Append(q, p)[Len(q) + 1] = p
  OBVIOUS
<1>2. CASE p = kind
  <2>1. Waiting(Append(q, p), kind) = Waiting(q, kind) \cup {Len(q) + 1}
    BY <1>1, <1>2 DEF Waiting
  <2>2. Len(q) + 1 \notin Waiting(q, kind)
    BY <1>1 DEF Waiting
  <2>3. IsFiniteSet(Waiting(q, kind))
    BY WaitingFinite
  <2>4. Cardinality(Waiting(q, kind) \cup {Len(q) + 1}) = Cardinality(Waiting(q, kind)) + 1
    BY ONLY <2>2, <2>3, FS_AddElement
  <2>5. Append(q, p) \in Seq(Packets)
    OBVIOUS
  <2>6. QED BY <1>2, <2>1, <2>4, <2>5 DEF Count
<1>3. CASE p # kind
  <2>1. Waiting(Append(q, p), kind) = Waiting(q, kind)
    BY <1>1, <1>3 DEF Waiting
  <2>2. QED BY <1>3, <2>1, WaitingFinite DEF Count
<1>4. QED BY <1>2, <1>3

LEMMA Taken ==
  ASSUME NEW q \in Seq(Packets), q # <<>>, NEW kind
  PROVE  /\ Tail(q) \in Seq(Packets) /\ Head(q) \in Packets
         /\ Count(Tail(q), kind) = Count(q, kind) - (IF Head(q) = kind THEN 1 ELSE 0)
<1> DEFINE later == Waiting(q, kind) \ {1}
           shift == [k \in Waiting(Tail(q), kind) |-> k + 1]
<1>1. /\ Tail(q) \in Seq(Packets) /\ Head(q) \in Packets /\ Head(q) = q[1]
      /\ DOMAIN Tail(q) = 1..(Len(q) - 1) /\ DOMAIN q = 1..Len(q) /\ Len(q) \in Nat \ {0}
      /\ \A k \in 1..(Len(q) - 1) : Tail(q)[k] = q[k + 1]
  OBVIOUS
<1>2. shift \in Bijection(Waiting(Tail(q), kind), later)
  <2>1. \A k \in Waiting(Tail(q), kind) : k \in Nat /\ k + 1 \in later
    BY <1>1 DEF Waiting
  <2>2. \A n \in later : n - 1 \in Waiting(Tail(q), kind) /\ n = (n - 1) + 1
    BY <1>1 DEF Waiting
  <2>3. shift \in Surjection(Waiting(Tail(q), kind), later)
    BY <2>1, <2>2 DEF Surjection
  <2>4. shift \in Injection(Waiting(Tail(q), kind), later)
    BY <2>1 DEF Injection, IsInjective
  <2>5. QED BY <2>3, <2>4 DEF Bijection
<1>3. Cardinality(later) = Count(Tail(q), kind)
  <2>1. ExistsBijection(Waiting(Tail(q), kind), later)
    BY <1>2 DEF ExistsBijection
  <2>2. IsFiniteSet(Waiting(Tail(q), kind))
    BY <1>1, WaitingFinite
  <2>3. QED BY ONLY <2>1, <2>2, FS_Bijection DEF Count
<1>4. CASE Head(q) = kind
  <2>1. 1 \in Waiting(q, kind)
    BY <1>1, <1>4 DEF Waiting
  <2>2. QED BY <1>1, <1>3, <1>4, <2>1, WaitingFinite, FS_RemoveElement DEF Count
<1>5. CASE Head(q) # kind
  <2>1. later = Waiting(q, kind)
    BY <1>1, <1>5 DEF Waiting
  <2>2. Count(Tail(q), kind) = Count(q, kind)
    BY <1>3, <2>1 DEF Count
  <2>3. QED BY <1>1, <1>5, <2>2, WaitingFinite
<1>6. QED BY <1>1, <1>4, <1>5

-----------------------------------------------------------------------------
(* What each of the threads leaves alone                                    *)

(* The user's requests and pauses set flags of Control. *)
LEMMA ControlStepLeaves ==
  ASSUME ControlNext
  PROVE  UNCHANGED <<failure, mixDone, end, started, pos, job, driver, opened, outcome, part, files, result,
                    complete, held, told, queue, video, due, viewStopped, written, mixer, target, last, cursor,
                    tailWait, input, tail, writer, sinkFailed, fileVideo, fileAudio>>
BY DEF ControlNext, RequestStop, RequestCancel, Pause, StopTimeline, flagVars, timeVars, driverVars, fileVars,
   videoVars, mixerVars, inputVars, writerVars, streamVars

(* Opening the sources is the session thread's own affair. *)
LEMMA OpenStepLeaves ==
  ASSUME OpenNext
  PROVE  UNCHANGED <<stop, cancel, failure, mixDone, end, started, pauseAsked, paused, stopped, pos, job, files,
                    result, complete, held, queue, video, due, viewStopped, written, mixer, target, last, cursor,
                    tailWait, input, tail, writer, sinkFailed, fileVideo, fileAudio>>
BY DEF OpenNext, OpenVideo, OpenSystem, OpenMicrophone, OpenSink, WaitFirstFrame, Goto, Leave, flagVars, timeVars,
   driverVars, fileVars, videoVars, mixerVars, inputVars, writerVars, streamVars

(* It starts the threads and the clock, and waits for them. *)
LEMMA RunStepLeaves ==
  ASSUME RunNext
  PROVE  UNCHANGED <<stop, cancel, failure, end, pauseAsked, pos, job, opened, part, files, result, complete, held,
                    told, queue, due, viewStopped, written, target, last, cursor, tailWait, tail, sinkFailed,
                    fileVideo, fileAudio>>
BY DEF RunNext, Spawn, BeginTimeline, Join, JoinVideo, JoinMixer, JoinInputs, JoinWriter, Unwind, flagVars,
   timeVars, driverVars, fileVars, videoVars, mixerVars, inputVars, writerVars, streamVars

(* Then it has the files to itself. *)
LEMMA ResultStepLeaves ==
  ASSUME ResultNext
  PROVE  UNCHANGED <<stop, cancel, failure, mixDone, end, started, pauseAsked, paused, stopped, pos, job, opened,
                    queue, video, due, viewStopped, written, mixer, target, last, cursor, tailWait, input, tail,
                    writer, sinkFailed, fileVideo, fileAudio>>
BY DEF ResultNext, Result, Finalize, MoveToFolder, MoveToTemp, Moved, NotMoved, LastCheck, TakeBack, RemovePart,
   Leave, flagVars, timeVars, driverVars, fileVars, videoVars, mixerVars, inputVars, writerVars, streamVars

(* The video thread sends, fixes the end and may fail. *)
LEMMA VideoStepLeaves ==
  ASSUME VideoNext
  PROVE  UNCHANGED <<cancel, mixDone, started, pauseAsked, paused, pos, job, driver, opened, outcome, part, files,
                    result, complete, held, told, mixer, target, last, cursor, tailWait, input, tail, writer,
                    sinkFailed, fileVideo, fileAudio>>
BY DEF VideoNext, VideoCanceled, VideoLook, VideoFrame, VideoPause, Send, SetEnd, Fail, StopTimeline, flagVars,
   timeVars, driverVars, fileVars, videoVars, mixerVars, inputVars, writerVars, streamVars

(* The mixer sends, and fixes the end of a session without a picture. *)
LEMMA MixerStepLeaves ==
  ASSUME MixerNext
  PROVE  UNCHANGED <<stop, cancel, failure, mixDone, started, pauseAsked, paused, stopped, pos, job, driver, opened,
                    outcome, part, files, result, complete, held, told, video, due, viewStopped, written, input,
                    tail, writer, sinkFailed, fileVideo, fileAudio>>
BY DEF MixerNext, MixCanceled, MixLook, MixChunk, MixPause, Send, SetEnd, flagVars, timeVars, driverVars, fileVars,
   videoVars, mixerVars, inputVars, writerVars, streamVars

(* The writer empties the channel into the file and may fail. *)
LEMMA WriterStepLeaves ==
  ASSUME WriterNext
  PROVE  UNCHANGED <<cancel, mixDone, end, started, pauseAsked, paused, pos, job, driver, opened, outcome, part,
                    files, result, complete, held, told, video, due, viewStopped, written, mixer, target, last,
                    cursor, tailWait, input, tail>>
BY DEF WriterNext, WriterDrains, WriterWrites, WriterEnds, Fail, StopTimeline, flagVars, timeVars, driverVars,
   fileVars, videoVars, mixerVars, inputVars, writerVars, streamVars

(* An input fills its track. *)
LEMMA InputStepLeaves ==
  ASSUME NEW i \in AllInputs, InputNext(i)
  PROVE  UNCHANGED <<stop, cancel, failure, mixDone, end, started, pauseAsked, paused, stopped, pos, job, driver,
                    opened, outcome, part, files, result, complete, held, queue, video, due, viewStopped, written,
                    mixer, target, last, cursor, tailWait, writer, sinkFailed, fileVideo, fileAudio>>
BY DEF InputNext, InputLeaves, InputPacket, InputLost, flagVars, timeVars, driverVars, fileVars, videoVars,
   mixerVars, inputVars, writerVars, streamVars

(* A panic ends its thread and no other. *)
LEMMA PanicStepLeaves ==
  ASSUME PanicNext
  PROVE  UNCHANGED <<stop, cancel, failure, mixDone, end, started, pauseAsked, paused, stopped, pos, job, driver,
                    opened, outcome, part, files, result, complete, held, told, due, viewStopped, written, target,
                    last, cursor, tailWait, tail, sinkFailed, fileVideo, fileAudio>>
BY DEF PanicNext, VideoPanics, MixerPanics, InputPanics, WriterPanics, flagVars, timeVars, driverVars, fileVars,
   videoVars, mixerVars, inputVars, writerVars, streamVars

-----------------------------------------------------------------------------
(* What each part of the invariant speaks of                                *)

LEMMA StartInvAlone ==
  ASSUME StartInv, UNCHANGED <<driver, writer, started, opened, job, video, mixer, queue, stopped, end, viewStopped,
                            last, written, cursor>>
  PROVE  StartInv'
BY DEF StartInv, HasVideo

LEMMA EndInvAlone ==
  ASSUME EndInv, UNCHANGED <<viewStopped, stopped, due, pos, job, video, end, cancel, failure, writer, written>>
  PROVE  EndInv'
BY DEF EndInv, HasVideo, Good

LEMMA MixInvAlone ==
  ASSUME MixInv, UNCHANGED <<last, end, target, mixer, cancel, writer, failure, cursor, pos>>
  PROVE  MixInv'
BY DEF MixInv, Good, Reach

LEMMA HeldInvAlone ==
  ASSUME HeldInv, UNCHANGED <<cursor, pos, opened, tail, tailWait, mixer, target>>
  PROVE  HeldInv'
BY DEF HeldInv, Held

LEMMA CountInvAlone ==
  ASSUME CountInv, UNCHANGED <<sinkFailed, failure, cancel, writer, written, fileVideo, fileAudio, queue, cursor>>
  PROVE  CountInv'
BY DEF CountInv

LEMMA JoinInvAlone ==
  ASSUME JoinInv, UNCHANGED <<driver, outcome, video, mixer, writer, queue, cancel, told, failure>>
  PROVE  JoinInv'
BY DEF JoinInv, Ended

LEMMA FilesInvAlone ==
  ASSUME FilesInv, UNCHANGED <<driver, video, mixer, writer, input, held, files, result, part, outcome>>
  PROVE  FilesInv'
BY DEF FilesInv, SomePanic

-----------------------------------------------------------------------------
(* What some steps do                                                       *)

LEMMA StopsTheClock ==
  ASSUME StopTimeline
  PROVE  /\ stopped' <=> stopped \/ started
         /\ UNCHANGED <<started, pauseAsked, paused, pos>>
BY DEF StopTimeline

(* A request only ever raises a flag, and stops a clock that runs. *)
LEMMA ControlStep ==
  ASSUME ControlNext
  PROVE  (stopped' <=> stopped \/ (stopped' /\ started)) /\ (cancel => cancel')
<1>1. CASE RequestStop
  BY <1>1, StopsTheClock DEF RequestStop
<1>2. CASE RequestCancel
  BY <1>2 DEF RequestCancel, timeVars
<1>3. CASE \E on \in BOOLEAN : Pause(on)
  BY <1>3 DEF Pause, flagVars
<1>4. QED BY <1>1, <1>2, <1>3 DEF ControlNext

(* Only a thread that runs can panic. *)
LEMMA PanicStep ==
  ASSUME PanicNext
  PROVE  /\ video' # video => video \notin {"off", "gone"} /\ video' = "dead"
         /\ mixer' # mixer => mixer \notin {"off", "gone"} /\ mixer' = "dead"
         /\ writer' # writer => writer \notin {"off", "gone"} /\ writer' = "dead"
         /\ queue' # queue => writer # "off" /\ queue' = <<>> /\ writer' = "dead"
BY DEF PanicNext, VideoPanics, MixerPanics, InputPanics, WriterPanics, Ended, videoVars, mixerVars, writerVars

LEMMA HaveReaches ==
  ASSUME TypeOK, opened # {}
  PROVE  Have \in Nat /\ \A i \in opened : Have <= tail[i]
<1> DEFINE T == {tail[i] : i \in opened}
<1>1. opened \subseteq AllInputs /\ \A i \in opened : tail[i] \in Nat
  BY EngineAssumption DEF TypeOK, Inputs, AllInputs
<1>2. \E m \in T : \A n \in T : m <= n
  <2>1. PICK i \in opened : TRUE
    OBVIOUS
  <2>2. CASE \A j \in opened : tail[i] <= tail[j]
    BY <2>2
  <2>3. CASE \E j \in opened : tail[j] < tail[i]
    <3>1. PICK j \in opened : tail[j] < tail[i]
      BY <2>3
    <3>2. \A k \in opened : k = i \/ k = j
      BY <1>1, <3>1 DEF AllInputs
    <3>3. QED BY <1>1, <3>1, <3>2
  <2>4. QED BY <1>1, <2>2, <2>3
<1>3. Have \in T /\ \A n \in T : Have <= n
  BY <1>2 DEF Have, Min
<1>4. QED BY <1>1, <1>3

LEMMA MixerHas ==
  ASSUME StartInv, mixer # "off"
  PROVE  opened # {} /\ writer # "off"
BY DEF StartInv

(* What is counted are numbers. *)
LEMMA InFile ==
  ASSUME TypeOK
  PROVE  Count(queue, "frame") \in Nat /\ Count(queue, "chunk") \in Nat
BY WaitingFinite DEF TypeOK, Packets

-----------------------------------------------------------------------------
(* Types                                                                    *)

(* TypeOK in parts. *)
ControlOK ==
  /\ stop \in BOOLEAN /\ cancel \in BOOLEAN /\ failure \in BOOLEAN /\ mixDone \in BOOLEAN
  /\ end \in Nat \cup {None}
  /\ started \in BOOLEAN /\ pauseAsked \in BOOLEAN /\ paused \in BOOLEAN /\ stopped \in BOOLEAN
  /\ pos \in Nat

DriverOK ==
  /\ driver \in {"video", "system", "microphone", "sink", "first", "spawn", "begin", "joinVideo", "joinMixer",
                 "joinInputs", "joinWriter", "unwind", "result", "finalize", "move", "moveAgain", "check", "remove",
                 "gone"}
  /\ job \in Jobs
  /\ opened \subseteq Inputs
  /\ outcome \in {"none", "done", "canceled", "failed"}

FilesOK ==
  /\ part \in BOOLEAN /\ told \in BOOLEAN /\ complete \in BOOLEAN /\ held \in BOOLEAN
  /\ files \subseteq {"folder", "temp"} /\ result \in {"none", "folder", "temp"}

ProducersOK ==
  /\ video \in Threads /\ due \in Nat /\ viewStopped \in BOOLEAN /\ written \in Nat
  /\ mixer \in Threads /\ target \in Int /\ last \in BOOLEAN /\ cursor \in Nat
  /\ tailWait \in {"none", "waiting", "over"}

OthersOK ==
  /\ queue \in Seq({"frame", "chunk"})
  /\ input \in [AllInputs -> Threads] /\ tail \in [AllInputs -> Nat]
  /\ writer \in Threads /\ sinkFailed \in BOOLEAN /\ fileVideo \in Nat /\ fileAudio \in Nat

LEMMA InParts == TypeOK <=> ControlOK /\ DriverOK /\ FilesOK /\ ProducersOK /\ OthersOK
BY DEF TypeOK, ControlOK, DriverOK, FilesOK, ProducersOK, OthersOK

LEMMA InPartsNext == TypeOK' <=> ControlOK' /\ DriverOK' /\ FilesOK' /\ ProducersOK' /\ OthersOK'
BY DEF TypeOK, ControlOK, DriverOK, FilesOK, ProducersOK, OthersOK

LEMMA ControlAlone ==
  ASSUME ControlOK, UNCHANGED <<stop, cancel, failure, mixDone, end, started, pauseAsked, paused, stopped, pos>>
  PROVE  ControlOK'
BY DEF ControlOK

LEMMA DriverAlone ==
  ASSUME DriverOK, UNCHANGED <<driver, job, opened, outcome>>
  PROVE  DriverOK'
BY DEF DriverOK, Inputs

LEMMA FilesAlone ==
  ASSUME FilesOK, UNCHANGED <<part, told, complete, held, files, result>>
  PROVE  FilesOK'
BY DEF FilesOK

LEMMA ProducersAlone ==
  ASSUME ProducersOK, UNCHANGED <<video, due, viewStopped, written, mixer, target, last, cursor, tailWait>>
  PROVE  ProducersOK'
BY DEF ProducersOK

LEMMA OthersAlone ==
  ASSUME OthersOK, UNCHANGED <<queue, input, tail, writer, sinkFailed, fileVideo, fileAudio>>
  PROVE  OthersOK'
BY DEF OthersOK

LEMMA TypeControl == ASSUME TypeOK, ControlNext PROVE TypeOK'
<1>1. ControlOK'
  <2>1. /\ stop' \in BOOLEAN /\ cancel' \in BOOLEAN /\ stopped' \in BOOLEAN
        /\ pauseAsked' \in BOOLEAN /\ paused' \in BOOLEAN
    BY DEF ControlNext, RequestStop, RequestCancel, Pause, StopTimeline, flagVars, timeVars, TypeOK
  <2>2. QED BY <2>1, ControlStepLeaves, InParts DEF ControlOK
<1>2. DriverOK' /\ FilesOK' /\ ProducersOK' /\ OthersOK'
  BY ControlStepLeaves, InParts, DriverAlone, FilesAlone, ProducersAlone, OthersAlone
<1>3. QED BY <1>1, <1>2, InPartsNext

LEMMA TypeTick == ASSUME TypeOK, Tick PROVE TypeOK'
<1>1. ControlOK'
  BY InParts DEF Tick, ControlOK, flagVars
<1>2. DriverOK' /\ FilesOK' /\ ProducersOK' /\ OthersOK'
  BY InParts, DriverAlone, FilesAlone, ProducersAlone, OthersAlone
  DEF Tick, driverVars, fileVars, streamVars, videoVars, mixerVars, inputVars, writerVars
<1>3. QED BY <1>1, <1>2, InPartsNext

LEMMA TypeTail == ASSUME TypeOK, TailOver PROVE TypeOK'
<1>1. ProducersOK'
  BY InParts DEF TailOver, ProducersOK, videoVars
<1>2. ControlOK' /\ DriverOK' /\ FilesOK' /\ OthersOK'
  BY InParts, DriverAlone, FilesAlone, ControlAlone, OthersAlone
  DEF TailOver, driverVars, fileVars, flagVars, timeVars, inputVars, writerVars
<1>3. QED BY <1>1, <1>2, InPartsNext

LEMMA TypeOpen == ASSUME TypeOK, OpenNext PROVE TypeOK'
<1>1. DriverOK'
  <2>1. /\ driver' \in {"system", "microphone", "sink", "first", "spawn", "remove"}
        /\ outcome' \in {outcome, "canceled", "failed"}
        /\ opened' \subseteq Inputs
    BY DEF OpenNext, OpenVideo, OpenSystem, OpenMicrophone, OpenSink, WaitFirstFrame, Goto, Leave, TypeOK
  <2>2. QED BY <2>1, OpenStepLeaves, InParts DEF DriverOK, Inputs
<1>2. FilesOK'
  <2>1. told' \in BOOLEAN /\ part' \in BOOLEAN
    BY DEF OpenNext, OpenVideo, OpenSystem, OpenMicrophone, OpenSink, WaitFirstFrame, TypeOK
  <2>2. QED BY <2>1, OpenStepLeaves, InParts DEF FilesOK
<1>3. ControlOK' /\ ProducersOK' /\ OthersOK'
  BY OpenStepLeaves, InParts, ControlAlone, ProducersAlone, OthersAlone
<1>4. QED BY <1>1, <1>2, <1>3, InPartsNext

LEMMA TypeRun == ASSUME TypeOK, RunNext PROVE TypeOK'
<1> USE DEF RunNext, Spawn, BeginTimeline, JoinVideo, JoinMixer, JoinInputs, JoinWriter, Join, Unwind
<1>1. DriverOK'
  <2>1. driver' \in {"begin", "joinVideo", "joinMixer", "joinInputs", "joinWriter", "result", "unwind", "gone"}
    OBVIOUS
  <2>2. outcome' \in {outcome, "failed"}
    OBVIOUS
  <2>3. QED BY <2>1, <2>2, RunStepLeaves, InParts DEF DriverOK, Inputs
<1>2. ControlOK'
  <2>1. mixDone' \in BOOLEAN /\ started' \in BOOLEAN /\ paused' \in BOOLEAN /\ stopped' \in BOOLEAN
    BY DEF TypeOK, timeVars
  <2>2. QED BY <2>1, RunStepLeaves, InParts DEF ControlOK
<1>3. ProducersOK'
  <2>1. video' \in Threads /\ mixer' \in Threads
    BY DEF TypeOK, Threads, streamVars, videoVars, mixerVars
  <2>2. QED BY <2>1, RunStepLeaves, InParts DEF ProducersOK
<1>4. OthersOK'
  <2>1. writer' \in Threads /\ input' \in [AllInputs -> Threads]
    BY DEF TypeOK, Threads, streamVars, inputVars, writerVars
  <2>2. QED BY <2>1, RunStepLeaves, InParts DEF OthersOK
<1>5. FilesOK'
  BY RunStepLeaves, InParts, FilesAlone
<1>6. QED BY <1>1, <1>2, <1>3, <1>4, <1>5, InPartsNext

LEMMA TypeResult == ASSUME TypeOK, ResultNext PROVE TypeOK'
<1> USE DEF ResultNext, Result, Finalize, MoveToFolder, MoveToTemp, LastCheck, RemovePart
<1>1. DriverOK'
  <2>1. driver' \in {"finalize", "move", "moveAgain", "check", "remove", "gone"}
    BY DEF Moved, Leave
  <2>2. outcome' \in {outcome, "done", "canceled", "failed"}
    BY DEF Moved, Leave
  <2>3. QED BY <2>1, <2>2, ResultStepLeaves, InParts DEF DriverOK, Inputs
<1>2. FilesOK'
  <2>1. part' \in BOOLEAN /\ complete' \in BOOLEAN /\ held' \in BOOLEAN
    BY DEF Moved, NotMoved, TakeBack, fileVars, TypeOK
  <2>2. told' \in BOOLEAN
    BY DEF TypeOK
  <2>3. result' \in {result, "folder", "temp"} /\ files' \subseteq files \cup {"folder", "temp"}
    BY DEF Moved, NotMoved, TakeBack, fileVars, TypeOK
  <2>4. QED BY <2>1, <2>2, <2>3, InParts DEF FilesOK
<1>3. ControlOK' /\ ProducersOK' /\ OthersOK'
  BY ResultStepLeaves, InParts, ControlAlone, ProducersAlone, OthersAlone
<1>4. QED BY <1>1, <1>2, <1>3, InPartsNext

LEMMA TypeVideo == ASSUME TypeOK, VideoNext PROVE TypeOK'
<1> USE DEF VideoNext, VideoCanceled, VideoLook, VideoFrame, VideoPause
<1>1. ProducersOK'
  <2>1. video' \in Threads /\ due' \in Nat /\ viewStopped' \in BOOLEAN /\ written' \in Nat
    BY DEF TypeOK, Threads
  <2>2. QED BY <2>1, VideoStepLeaves, InParts DEF ProducersOK
<1>2. ControlOK'
  <2>1. stop' \in BOOLEAN /\ failure' \in BOOLEAN /\ stopped' \in BOOLEAN
    BY DEF Fail, StopTimeline, flagVars, timeVars, TypeOK
  <2>2. end' \in Nat \cup {None}
    BY DEF SetEnd, TypeOK
  <2>3. QED BY <2>1, <2>2, VideoStepLeaves, InParts DEF ControlOK
<1>3. OthersOK'
  <2>1. queue' \in Seq({"frame", "chunk"})
    BY DEF Send, TypeOK
  <2>2. QED BY <2>1, VideoStepLeaves, InParts DEF OthersOK
<1>4. DriverOK' /\ FilesOK'
  BY VideoStepLeaves, InParts, DriverAlone, FilesAlone
<1>5. QED BY <1>1, <1>2, <1>3, <1>4, InPartsNext

LEMMA TypeMixer == ASSUME TypeOK, StartInv, MixerNext PROVE TypeOK'
<1> USE DEF MixerNext, MixCanceled, MixLook, MixChunk, MixPause
<1>1. end' \in Nat \cup {None}
  BY EngineAssumption DEF SetEnd, Longer, TypeOK
<1>2. ProducersOK'
  <2>1. mixer' \in Threads /\ last' \in BOOLEAN /\ tailWait' \in {"none", "waiting", "over"} /\ cursor' \in Nat
    BY DEF TypeOK, Threads
  <2>2. target' \in Int
    BY <1>1, EngineAssumption, HaveReaches, MixerHas DEF TypeOK
  <2>3. QED BY <2>1, <2>2, MixerStepLeaves, InParts DEF ProducersOK
<1>3. ControlOK'
  BY <1>1, MixerStepLeaves, InParts DEF ControlOK
<1>4. OthersOK'
  <2>1. CASE MixChunk
    <3>1. queue' = queue \/ queue' = Append(queue, "chunk")
      BY <2>1 DEF Send
    <3>2. queue' \in Seq({"frame", "chunk"})
      BY <3>1 DEF TypeOK
    <3>3. QED BY <3>2, MixerStepLeaves, InParts DEF OthersOK
  <2>2. CASE queue' = queue
    BY <2>2, MixerStepLeaves, InParts, OthersAlone
  <2>3. QED BY <2>1, <2>2
<1>5. DriverOK' /\ FilesOK'
  BY MixerStepLeaves, InParts, DriverAlone, FilesAlone
<1>6. QED BY <1>2, <1>3, <1>4, <1>5, InPartsNext

LEMMA TypeWriter == ASSUME TypeOK, WriterNext PROVE TypeOK'
<1> USE DEF WriterNext, WriterDrains, WriterWrites, WriterEnds
<1>1. OthersOK'
  <2>1. writer' \in Threads /\ sinkFailed' \in BOOLEAN
    BY DEF writerVars, TypeOK, Threads
  <2>2. fileVideo' \in Nat /\ fileAudio' \in Nat
    BY DEF writerVars, TypeOK
  <2>3. queue' = queue \/ (queue # <<>> /\ queue' = Tail(queue))
    OBVIOUS
  <2>4. queue' \in Seq({"frame", "chunk"})
    <3>1. queue \in Seq({"frame", "chunk"})
      BY DEF TypeOK
    <3>2. QED BY ONLY <2>3, <3>1
  <2>5. QED BY <2>1, <2>2, <2>4, WriterStepLeaves, InParts DEF OthersOK
<1>2. ControlOK'
  <2>1. stop' \in BOOLEAN /\ failure' \in BOOLEAN /\ stopped' \in BOOLEAN
    BY DEF Fail, StopTimeline, flagVars, timeVars, TypeOK
  <2>2. QED BY <2>1, WriterStepLeaves, InParts DEF ControlOK
<1>3. DriverOK' /\ FilesOK' /\ ProducersOK'
  BY WriterStepLeaves, InParts, DriverAlone, FilesAlone, ProducersAlone
<1>4. QED BY <1>1, <1>2, <1>3, InPartsNext

LEMMA TypeInput == ASSUME TypeOK, NEW i \in AllInputs, InputNext(i) PROVE TypeOK'
<1> USE DEF InputNext, InputLeaves, InputPacket, InputLost
<1>1. OthersOK'
  <2>1. input' \in [AllInputs -> Threads]
    BY DEF TypeOK, Threads
  <2>2. tail' \in [AllInputs -> Nat]
    BY DEF TypeOK
  <2>3. QED BY <2>1, <2>2, InputStepLeaves, InParts DEF OthersOK
<1>2. FilesOK'
  <2>1. told' \in BOOLEAN
    BY DEF TypeOK
  <2>2. QED BY <2>1, InputStepLeaves, InParts DEF FilesOK
<1>3. ControlOK' /\ DriverOK' /\ ProducersOK'
  BY InputStepLeaves, InParts, ControlAlone, DriverAlone, ProducersAlone
<1>4. QED BY <1>1, <1>2, <1>3, InPartsNext

LEMMA TypePanic == ASSUME TypeOK, PanicNext PROVE TypeOK'
<1> USE DEF PanicNext, VideoPanics, MixerPanics, InputPanics, WriterPanics
<1>1. ProducersOK'
  <2>1. video' \in Threads /\ mixer' \in Threads
    BY DEF TypeOK, Threads, videoVars, mixerVars
  <2>2. QED BY <2>1, PanicStepLeaves, InParts DEF ProducersOK
<1>2. OthersOK'
  <2>1. writer' \in Threads /\ input' \in [AllInputs -> Threads]
    BY DEF TypeOK, Threads, inputVars, writerVars
  <2>2. queue' = queue \/ queue' = <<>>
    OBVIOUS
  <2>3. queue' \in Seq({"frame", "chunk"})
    BY <2>2, NoneWaits DEF TypeOK, Packets
  <2>4. QED BY <2>1, <2>3, PanicStepLeaves, InParts DEF OthersOK
<1>3. ControlOK' /\ DriverOK' /\ FilesOK'
  BY PanicStepLeaves, InParts, ControlAlone, DriverAlone, FilesAlone
<1>4. QED BY <1>1, <1>2, <1>3, InPartsNext

-----------------------------------------------------------------------------
(* The parts of the invariant, action by action                             *)

(* The threads are started once, together and before the clock. *)
LEMMA StartInvKept ==
  ASSUME StartInv, [Next]_vars
  PROVE  StartInv'
<1> USE DEF Before, PastVideo, PastMixer, PastInputs, PastWriter
<1>1. CASE ControlNext
  BY <1>1, ControlStep, ControlStepLeaves DEF StartInv, HasVideo
<1>2. CASE Tick
  BY <1>2, StartInvAlone DEF Tick, driverVars, streamVars, videoVars, mixerVars, writerVars
<1>3. CASE TailOver
  BY <1>3, StartInvAlone DEF TailOver, timeVars, driverVars, videoVars, writerVars
<1>4. CASE OpenNext
  <2>1. CASE OpenVideo
    BY <1>4, <2>1, OpenStepLeaves DEF OpenVideo, Goto, Leave, StartInv, HasVideo
  <2>2. CASE OpenSystem
    BY <1>4, <2>2, OpenStepLeaves DEF OpenSystem, Goto, Leave, StartInv, HasVideo
  <2>3. CASE OpenMicrophone
    BY <1>4, <2>3, OpenStepLeaves DEF OpenMicrophone, Goto, Leave, StartInv, HasVideo
  <2>4. CASE OpenSink
    BY <1>4, <2>4, OpenStepLeaves DEF OpenSink, Goto, Leave, StartInv, HasVideo
  <2>5. CASE WaitFirstFrame
    BY <1>4, <2>5, OpenStepLeaves DEF WaitFirstFrame, Leave, StartInv, HasVideo
  <2>6. QED BY <1>4, <2>1, <2>2, <2>3, <2>4, <2>5 DEF OpenNext
<1>5. CASE RunNext
  <2>1. CASE Spawn
    BY <1>5, <2>1, RunStepLeaves DEF Spawn, StartInv, HasVideo, timeVars
  <2>2. CASE BeginTimeline
    BY <1>5, <2>2, RunStepLeaves DEF BeginTimeline, StartInv, HasVideo, streamVars, videoVars, mixerVars, writerVars
  <2>3. CASE JoinVideo
    BY <1>5, <2>3, RunStepLeaves DEF JoinVideo, Join, StartInv, HasVideo, timeVars, streamVars, videoVars,
       mixerVars, writerVars
  <2>4. CASE JoinMixer
    BY <1>5, <2>4, RunStepLeaves DEF JoinMixer, Join, StartInv, HasVideo, timeVars, streamVars, videoVars,
       mixerVars, writerVars
  <2>5. CASE JoinInputs
    BY <1>5, <2>5, RunStepLeaves DEF JoinInputs, Join, StartInv, HasVideo, timeVars, streamVars, videoVars,
       mixerVars, writerVars
  <2>6. CASE JoinWriter
    BY <1>5, <2>6, RunStepLeaves DEF JoinWriter, Join, StartInv, HasVideo, timeVars, streamVars, videoVars,
       mixerVars, writerVars
  <2>7. CASE Unwind
    BY <1>5, <2>7, RunStepLeaves DEF Unwind, StartInv, HasVideo, timeVars, streamVars, videoVars, mixerVars,
       writerVars
  <2>8. QED BY <1>5, <2>1, <2>2, <2>3, <2>4, <2>5, <2>6, <2>7 DEF RunNext
<1>6. CASE ResultNext
  <2>1. CASE Result
    BY <1>6, <2>1, ResultStepLeaves DEF Result, Leave, StartInv, HasVideo
  <2>2. CASE Finalize
    <3>1. driver = "finalize" /\ driver' \in {"move", "remove"} /\ ResultNext
      BY <1>6, <2>2 DEF Finalize, Leave, ResultNext
    <3>2. QED BY <3>1, ResultStepLeaves DEF StartInv, HasVideo
  <2>3. CASE MoveToFolder
    BY <1>6, <2>3, ResultStepLeaves DEF MoveToFolder, Moved, NotMoved, StartInv, HasVideo
  <2>4. CASE MoveToTemp
    BY <1>6, <2>4, ResultStepLeaves DEF MoveToTemp, Moved, NotMoved, Leave, StartInv, HasVideo
  <2>5. CASE LastCheck
    BY <1>6, <2>5, ResultStepLeaves DEF LastCheck, TakeBack, Leave, StartInv, HasVideo
  <2>6. CASE RemovePart
    BY <1>6, <2>6, ResultStepLeaves DEF RemovePart, StartInv, HasVideo
  <2>7. QED BY <1>6, <2>1, <2>2, <2>3, <2>4, <2>5, <2>6 DEF ResultNext
<1>7. CASE VideoNext
  <2>1. CASE VideoCanceled
    BY <1>7, <2>1, VideoStepLeaves DEF VideoCanceled, StartInv, HasVideo, timeVars
  <2>2. CASE VideoLook
    BY <1>7, <2>2, VideoStepLeaves DEF VideoLook, StartInv, HasVideo, timeVars
  <2>3. CASE VideoFrame
    BY <1>7, <2>3, VideoStepLeaves DEF VideoFrame, Send, Closed, SetEnd, Fail, StopTimeline, StartInv, HasVideo,
       timeVars
  <2>4. CASE VideoPause
    BY <1>7, <2>4, VideoStepLeaves DEF VideoPause, SetEnd, Fail, StopTimeline, StartInv, HasVideo, timeVars
  <2>5. QED BY <1>7, <2>1, <2>2, <2>3, <2>4 DEF VideoNext
<1>8. CASE MixerNext
  <2>1. CASE MixCanceled
    BY <1>8, <2>1, MixerStepLeaves DEF MixCanceled, StartInv, HasVideo
  <2>2. CASE MixLook
    BY <1>8, <2>2, MixerStepLeaves DEF MixLook, SetEnd, Longer, StartInv, HasVideo
  <2>3. CASE MixChunk
    BY <1>8, <2>3, MixerStepLeaves DEF MixChunk, Send, Closed, StartInv, HasVideo
  <2>4. CASE MixPause
    BY <1>8, <2>4, MixerStepLeaves DEF MixPause, StartInv, HasVideo
  <2>5. QED BY <1>8, <2>1, <2>2, <2>3, <2>4 DEF MixerNext
<1>9. CASE WriterNext
  <2>1. CASE WriterDrains
    BY <1>9, <2>1, WriterStepLeaves DEF WriterDrains, StartInv, HasVideo, timeVars, writerVars
  <2>2. CASE WriterWrites
    <3>1. writer = "recv" /\ writer' = "recv" /\ (stopped' <=> stopped \/ (stopped' /\ started))
      BY <1>9, <2>2, StopsTheClock DEF WriterWrites, Fail, timeVars
    <3>2. QED BY <1>9, <2>2, <3>1, WriterStepLeaves DEF StartInv, HasVideo
  <2>3. CASE WriterEnds
    BY <1>9, <2>3, WriterStepLeaves DEF WriterEnds, StartInv, HasVideo, timeVars
  <2>4. QED BY <1>9, <2>1, <2>2, <2>3 DEF WriterNext
<1>10. ASSUME NEW i \in AllInputs, InputNext(i) PROVE StartInv'
  BY <1>10, InputStepLeaves, StartInvAlone
<1>11. CASE PanicNext
  BY <1>11, PanicStep, PanicStepLeaves DEF StartInv, HasVideo
<1>12. CASE UNCHANGED vars
  BY <1>12, StartInvAlone DEF vars, timeVars, driverVars, videoVars, mixerVars, writerVars, streamVars
<1>13. QED BY <1>1, <1>2, <1>3, <1>4, <1>5, <1>6, <1>7, <1>8, <1>9, <1>10, <1>11, <1>12 DEF Next, DriverNext

(* The end is fixed once, after a stop, and not before what is due has been sent. *)
LEMMA EndInvKept ==
  ASSUME TypeOK, StartInv, EndInv, [Next]_vars
  PROVE  EndInv'
<1>1. CASE ControlNext
  BY <1>1, ControlStep, ControlStepLeaves DEF EndInv, HasVideo, Good
<1>2. CASE Tick
  BY <1>2 DEF Tick, flagVars, driverVars, streamVars, videoVars, writerVars, EndInv, HasVideo, Good
<1>3. CASE TailOver
  BY <1>3, EndInvAlone DEF TailOver, flagVars, timeVars, driverVars, videoVars, writerVars
<1>4. CASE OpenNext
  BY <1>4, OpenStepLeaves, EndInvAlone
<1>5. CASE RunNext
  <2>1. CASE Spawn
    <3>1. ~started /\ end = None /\ ~viewStopped
      BY <1>5, <2>1 DEF Spawn, StartInv, Before
    <3>2. video' # "gone" /\ UNCHANGED <<stopped, viewStopped>>
      BY <1>5, <2>1 DEF Spawn, timeVars
    <3>3. QED BY <1>5, <2>1, <3>1, <3>2, RunStepLeaves DEF EndInv, HasVideo
  <2>2. CASE BeginTimeline
    BY <1>5, <2>2, RunStepLeaves DEF BeginTimeline, EndInv, HasVideo, Good, None, TypeOK, StartInv, streamVars,
       videoVars, writerVars
  <2>3. CASE JoinVideo
    BY <1>5, <2>3, RunStepLeaves DEF JoinVideo, Join, EndInv, HasVideo, Good, None, TypeOK, StartInv, timeVars,
       streamVars, videoVars, writerVars
  <2>4. CASE JoinMixer
    BY <1>5, <2>4, RunStepLeaves DEF JoinMixer, Join, EndInv, HasVideo, Good, None, TypeOK, StartInv, timeVars,
       streamVars, videoVars, writerVars
  <2>5. CASE JoinInputs
    BY <1>5, <2>5, RunStepLeaves DEF JoinInputs, Join, EndInv, HasVideo, Good, None, TypeOK, StartInv, timeVars,
       streamVars, videoVars, writerVars
  <2>6. CASE JoinWriter
    BY <1>5, <2>6, RunStepLeaves DEF JoinWriter, Join, EndInv, HasVideo, Good, None, TypeOK, StartInv, timeVars,
       streamVars, videoVars, writerVars
  <2>7. CASE Unwind
    BY <1>5, <2>7, RunStepLeaves DEF Unwind, EndInv, HasVideo, Good, None, TypeOK, StartInv, timeVars, streamVars,
       videoVars, writerVars
  <2>8. QED BY <1>5, <2>1, <2>2, <2>3, <2>4, <2>5, <2>6, <2>7 DEF RunNext
<1>6. CASE ResultNext
  BY <1>6, ResultStepLeaves, EndInvAlone
<1>7. CASE VideoNext
  <2>1. CASE VideoCanceled
    BY <1>7, <2>1, VideoStepLeaves DEF VideoCanceled, EndInv, HasVideo, Good, None, TypeOK, StartInv, flagVars,
       timeVars
  <2>2. CASE VideoLook
    BY <1>7, <2>2, VideoStepLeaves DEF VideoLook, EndInv, HasVideo, Good, None, TypeOK, StartInv, flagVars, timeVars
  <2>3. CASE VideoFrame
    BY <1>7, <2>3, VideoStepLeaves DEF VideoFrame, Send, Closed, SetEnd, Fail, StopTimeline, EndInv, HasVideo, Good,
       None, TypeOK, StartInv, flagVars, timeVars
  <2>4. CASE VideoPause
    BY <1>7, <2>4, VideoStepLeaves DEF VideoPause, SetEnd, Fail, StopTimeline, EndInv, HasVideo, Good, None, TypeOK,
       StartInv, flagVars, timeVars
  <2>5. QED BY <1>7, <2>1, <2>2, <2>3, <2>4 DEF VideoNext
<1>8. CASE MixerNext
  <2>1. CASE MixCanceled
    BY <1>8, <2>1, MixerStepLeaves DEF MixCanceled, EndInv, HasVideo, Good, None, TypeOK, StartInv
  <2>2. CASE MixLook
    <3>1. CASE ~HasVideo /\ stopped
      <4>1. end # None => end' = end
        BY <1>8, <2>2, <3>1 DEF MixLook, SetEnd
      <4>2. end = None => end' >= pos
        BY <1>8, <2>2, <3>1, EngineAssumption DEF MixLook, SetEnd, Longer, TypeOK
      <4>3. QED BY <1>8, <2>2, <3>1, <4>1, <4>2, MixerStepLeaves DEF EndInv, HasVideo
    <3>2. CASE ~(~HasVideo /\ stopped)
      <4>1. end' = end
        BY <1>8, <2>2, <3>2 DEF MixLook
      <4>2. QED BY <1>8, <2>2, <4>1, MixerStepLeaves, EndInvAlone
    <3>3. QED BY <3>1, <3>2
  <2>3. CASE MixChunk
    BY <1>8, <2>3, MixerStepLeaves DEF MixChunk, Send, Closed, EndInv, HasVideo, Good, None, TypeOK, StartInv
  <2>4. CASE MixPause
    BY <1>8, <2>4, MixerStepLeaves DEF MixPause, EndInv, HasVideo, Good, None, TypeOK, StartInv
  <2>5. QED BY <1>8, <2>1, <2>2, <2>3, <2>4 DEF MixerNext
<1>9. CASE WriterNext
  <2>1. CASE WriterDrains
    BY <1>9, <2>1, WriterStepLeaves DEF WriterDrains, EndInv, HasVideo, Good, None, TypeOK, StartInv, flagVars,
       timeVars, writerVars
  <2>2. CASE WriterWrites
    BY <1>9, <2>2, WriterStepLeaves DEF WriterWrites, Fail, StopTimeline, EndInv, HasVideo, Good, None, TypeOK,
       StartInv, flagVars, timeVars
  <2>3. CASE WriterEnds
    BY <1>9, <2>3, WriterStepLeaves DEF WriterEnds, EndInv, HasVideo, Good, None, TypeOK, StartInv, flagVars,
       timeVars
  <2>4. QED BY <1>9, <2>1, <2>2, <2>3 DEF WriterNext
<1>10. ASSUME NEW i \in AllInputs, InputNext(i) PROVE EndInv'
  BY <1>10, InputStepLeaves, EndInvAlone
<1>11. CASE PanicNext
  BY <1>11, PanicStep, PanicStepLeaves DEF EndInv, HasVideo, Good
<1>12. CASE UNCHANGED vars
  BY <1>12, EndInvAlone DEF vars, flagVars, timeVars, driverVars, videoVars, writerVars, streamVars
<1>13. QED BY <1>1, <1>2, <1>3, <1>4, <1>5, <1>6, <1>7, <1>8, <1>9, <1>10, <1>11, <1>12 DEF Next, DriverNext

(* The mixer does not pass the end, and goes when it is there. *)
LEMMA MixInvKept ==
  ASSUME TypeOK, StartInv, EndInv, MixInv, [Next]_vars
  PROVE  MixInv'
<1>1. CASE ControlNext
  BY <1>1, ControlStep, ControlStepLeaves DEF MixInv, Reach, Good
<1>2. CASE Tick
  <2>1. pos \in Nat /\ pos' = pos + 1 /\ end \in Nat \cup {None} /\ cursor \in Nat /\ target \in Int
    BY <1>2 DEF Tick, TypeOK
  <2>2. UNCHANGED <<last, end, target, mixer, cancel, writer, failure, cursor>>
    BY <1>2 DEF Tick, flagVars, streamVars, mixerVars, writerVars
  <2>3. (end = None => Reach = pos /\ Reach' = pos + 1) /\ (end # None => Reach' = Reach)
    BY <2>1, <2>2 DEF Reach
  <2>4. Reach \in Nat
    BY <2>1 DEF Reach, None
  <2>5. QED BY <2>1, <2>2, <2>3, <2>4 DEF MixInv, Good
<1>3. CASE TailOver
  BY <1>3, MixInvAlone DEF TailOver, flagVars, timeVars, writerVars
<1>4. CASE OpenNext
  BY <1>4, OpenStepLeaves, MixInvAlone
<1>5. CASE RunNext
  <2>1. CASE Spawn
    <3>1. writer = "off" /\ driver = "spawn"
      BY <1>5, <2>1 DEF Spawn, StartInv, Before
    <3>2. cursor = 0 /\ end = None /\ ~last /\ pos >= 0
      BY <3>1 DEF StartInv, TypeOK
    <3>3. mixer' \in {"look", "off"}
      BY <1>5, <2>1 DEF Spawn
    <3>4. QED BY <1>5, <2>1, <3>2, <3>3, RunStepLeaves DEF MixInv, Reach
  <2>2. CASE BeginTimeline
    BY <1>5, <2>2, RunStepLeaves DEF BeginTimeline, MixInv, Good, Reach, None, TypeOK, StartInv, HasVideo, EndInv,
       streamVars, mixerVars, writerVars
  <2>3. CASE JoinVideo
    BY <1>5, <2>3, RunStepLeaves DEF JoinVideo, Join, MixInv, Good, Reach, None, TypeOK, StartInv, HasVideo, EndInv,
       streamVars, mixerVars, writerVars
  <2>4. CASE JoinMixer
    BY <1>5, <2>4, RunStepLeaves DEF JoinMixer, Join, MixInv, Good, Reach, None, TypeOK, StartInv, HasVideo, EndInv,
       streamVars, mixerVars, writerVars
  <2>5. CASE JoinInputs
    BY <1>5, <2>5, RunStepLeaves DEF JoinInputs, Join, MixInv, Good, Reach, None, TypeOK, StartInv, HasVideo,
       EndInv, streamVars, mixerVars, writerVars
  <2>6. CASE JoinWriter
    BY <1>5, <2>6, RunStepLeaves DEF JoinWriter, Join, MixInv, Good, Reach, None, TypeOK, StartInv, HasVideo,
       EndInv, streamVars, mixerVars, writerVars
  <2>7. CASE Unwind
    BY <1>5, <2>7, RunStepLeaves DEF Unwind, MixInv, Good, Reach, None, TypeOK, StartInv, HasVideo, EndInv,
       streamVars, mixerVars, writerVars
  <2>8. QED BY <1>5, <2>1, <2>2, <2>3, <2>4, <2>5, <2>6, <2>7 DEF RunNext
<1>6. CASE ResultNext
  BY <1>6, ResultStepLeaves, MixInvAlone
<1>7. CASE VideoNext
  <2>1. CASE VideoCanceled
    BY <1>7, <2>1, VideoStepLeaves DEF VideoCanceled, MixInv, Good, Reach, None, TypeOK, StartInv, HasVideo, EndInv,
       flagVars
  <2>2. CASE VideoLook
    BY <1>7, <2>2, VideoStepLeaves DEF VideoLook, MixInv, Good, Reach, None, TypeOK, StartInv, HasVideo, EndInv,
       flagVars
  <2>3. CASE VideoFrame
    BY <1>7, <2>3, VideoStepLeaves DEF VideoFrame, Send, Closed, SetEnd, Fail, StopTimeline, MixInv, Good, Reach,
       None, TypeOK, StartInv, HasVideo, EndInv, flagVars
  <2>4. CASE VideoPause
    BY <1>7, <2>4, VideoStepLeaves DEF VideoPause, SetEnd, Fail, StopTimeline, MixInv, Good, Reach, None, TypeOK,
       StartInv, HasVideo, EndInv, flagVars
  <2>5. QED BY <1>7, <2>1, <2>2, <2>3, <2>4 DEF VideoNext
<1>8. CASE MixerNext
  <2>1. CASE MixCanceled
    BY <1>8, <2>1, MixerStepLeaves DEF MixCanceled, MixInv, Good, Reach, None, TypeOK, StartInv, HasVideo, EndInv
  <2>2. CASE MixLook
    <3>1. mixer' = "chunks" /\ cursor' = cursor /\ (last' => end' # None /\ target' = end')
      BY <1>8, <2>2 DEF MixLook
    <3>2. Have \in Nat
      BY <1>8, <2>2, HaveReaches, MixerHas DEF MixLook
    <3>3. /\ end' = end \/ (end = None /\ end' \in Nat /\ end' >= pos)
          /\ end \in Nat \cup {None} /\ pos \in Nat /\ cursor \in Nat
      BY <1>8, <2>2, EngineAssumption DEF MixLook, SetEnd, Longer, TypeOK
    <3>4. pos' = pos
      BY <1>8, <2>2, MixerStepLeaves
    <3>5. Reach' = (IF end' = None THEN pos ELSE end') /\ Reach' \in Nat /\ Reach \in Nat /\ Reach <= Reach'
      <4>1. CASE end' = end
        BY <3>3, <3>4, <4>1 DEF Reach, None
      <4>2. CASE end = None /\ end' \in Nat /\ end' >= pos
        BY <3>3, <3>4, <4>2 DEF Reach, None
      <4>3. QED BY <3>3, <4>1, <4>2
    <3>6. target' <= Reach'
      <4>1. CASE end' = None
        BY <1>8, <2>2, <3>5, <4>1, EngineAssumption DEF MixLook, TypeOK
      <4>2. CASE end' # None /\ last'
        BY <3>1, <3>5, <4>2
      <4>3. CASE end' # None /\ ~last'
        <5>1. target' = Have /\ ~(Have >= end')
          BY <1>8, <2>2, <4>3 DEF MixLook
        <5>2. QED BY <3>2, <3>5, <4>3, <5>1
      <4>4. QED BY <4>1, <4>2, <4>3
    <3>7. QED BY <1>8, <2>2, <3>1, <3>3, <3>5, <3>6, MixerStepLeaves DEF MixInv, Good
  <2>3. CASE MixChunk
    BY <1>8, <2>3, MixerStepLeaves DEF MixChunk, Send, Closed, MixInv, Good, Reach, None, TypeOK, StartInv,
       HasVideo, EndInv
  <2>4. CASE MixPause
    BY <1>8, <2>4, MixerStepLeaves DEF MixPause, MixInv, Good, Reach, None, TypeOK, StartInv, HasVideo, EndInv
  <2>5. QED BY <1>8, <2>1, <2>2, <2>3, <2>4 DEF MixerNext
<1>9. CASE WriterNext
  <2>1. CASE WriterDrains
    BY <1>9, <2>1, WriterStepLeaves DEF WriterDrains, MixInv, Good, Reach, None, TypeOK, StartInv, HasVideo, EndInv,
       flagVars, writerVars
  <2>2. CASE WriterWrites
    BY <1>9, <2>2, WriterStepLeaves DEF WriterWrites, Fail, StopTimeline, MixInv, Good, Reach, None, TypeOK,
       StartInv, HasVideo, EndInv, flagVars
  <2>3. CASE WriterEnds
    BY <1>9, <2>3, WriterStepLeaves DEF WriterEnds, MixInv, Good, Reach, None, TypeOK, StartInv, HasVideo, EndInv,
       flagVars
  <2>4. QED BY <1>9, <2>1, <2>2, <2>3 DEF WriterNext
<1>10. ASSUME NEW i \in AllInputs, InputNext(i) PROVE MixInv'
  BY <1>10, InputStepLeaves, MixInvAlone
<1>11. CASE PanicNext
  BY <1>11, PanicStep, PanicStepLeaves DEF MixInv, Reach, Good
<1>12. CASE UNCHANGED vars
  BY <1>12, MixInvAlone DEF vars, flagVars, timeVars, mixerVars, writerVars, streamVars
<1>13. QED BY <1>1, <1>2, <1>3, <1>4, <1>5, <1>6, <1>7, <1>8, <1>9, <1>10, <1>11, <1>12 DEF Next, DriverNext

(* The mixer does not pass what an input may still fill. *)
LEMMA HeldInvKept ==
  ASSUME TypeOK, StartInv, HeldInv, [Next]_vars
  PROVE  HeldInv'
<1>1. CASE ControlNext
  BY <1>1, ControlStepLeaves, HeldInvAlone
<1>2. CASE Tick
  <2>1. pos \in Nat /\ pos' = pos + 1 /\ cursor \in Nat /\ target \in Int
    BY <1>2 DEF Tick, TypeOK
  <2>2. UNCHANGED <<cursor, opened, tail, tailWait, mixer, target>>
    BY <1>2 DEF Tick, driverVars, streamVars, mixerVars, inputVars
  <2>3. QED BY <2>1, <2>2, EngineAssumption DEF HeldInv, Held
<1>3. CASE TailOver
  BY <1>3 DEF TailOver, timeVars, driverVars, inputVars, HeldInv, Held
<1>4. CASE OpenNext
  <2>1. writer = "off"
    BY <1>4 DEF OpenNext, OpenVideo, OpenSystem, OpenMicrophone, OpenSink, WaitFirstFrame, StartInv, Before
  <2>2. cursor = 0 /\ mixer = "off"
    BY <2>1 DEF StartInv
  <2>3. QED BY <1>4, <2>2, OpenStepLeaves DEF HeldInv, Held
<1>5. CASE RunNext
  <2>1. CASE Spawn
    <3>1. mixer' # "chunks"
      BY <1>5, <2>1 DEF Spawn
    <3>2. QED BY <1>5, <2>1, <3>1, RunStepLeaves DEF HeldInv, Held
  <2>2. CASE BeginTimeline
    BY <1>5, <2>2, RunStepLeaves DEF BeginTimeline, HeldInv, Held, TypeOK, StartInv, HasVideo, streamVars, mixerVars
  <2>3. CASE JoinVideo
    BY <1>5, <2>3, RunStepLeaves DEF JoinVideo, Join, HeldInv, Held, TypeOK, StartInv, HasVideo, streamVars,
       mixerVars
  <2>4. CASE JoinMixer
    BY <1>5, <2>4, RunStepLeaves DEF JoinMixer, Join, HeldInv, Held, TypeOK, StartInv, HasVideo, streamVars,
       mixerVars
  <2>5. CASE JoinInputs
    BY <1>5, <2>5, RunStepLeaves DEF JoinInputs, Join, HeldInv, Held, TypeOK, StartInv, HasVideo, streamVars,
       mixerVars
  <2>6. CASE JoinWriter
    BY <1>5, <2>6, RunStepLeaves DEF JoinWriter, Join, HeldInv, Held, TypeOK, StartInv, HasVideo, streamVars,
       mixerVars
  <2>7. CASE Unwind
    BY <1>5, <2>7, RunStepLeaves DEF Unwind, HeldInv, Held, TypeOK, StartInv, HasVideo, streamVars, mixerVars
  <2>8. QED BY <1>5, <2>1, <2>2, <2>3, <2>4, <2>5, <2>6, <2>7 DEF RunNext
<1>6. CASE ResultNext
  BY <1>6, ResultStepLeaves, HeldInvAlone
<1>7. CASE VideoNext
  BY <1>7, VideoStepLeaves, HeldInvAlone
<1>8. CASE MixerNext
  <2>1. CASE MixCanceled
    BY <1>8, <2>1, MixerStepLeaves DEF MixCanceled, HeldInv, Held, TypeOK, StartInv, HasVideo
  <2>2. CASE MixLook
    <3>1. mixer' = "chunks" /\ cursor' = cursor /\ (tailWait = "over" => tailWait' = "over")
      BY <1>8, <2>2 DEF MixLook
    <3>2. UNCHANGED <<pos, opened, tail>>
      BY <1>8, <2>2, MixerStepLeaves
    <3>3. Held(cursor)'
      BY <3>1, <3>2 DEF HeldInv, Held
    <3>4. Have \in Nat /\ \A i \in opened : Have <= tail[i] /\ tail[i] \in Nat
      BY <1>8, <2>2, HaveReaches, MixerHas, EngineAssumption DEF MixLook, TypeOK, Inputs, AllInputs
    <3>5. Held(target)'
      <4>1. CASE end' = None
        <5>1. target' = pos - MixDelay
          BY <1>8, <2>2, <4>1 DEF MixLook
        <5>2. QED BY <3>2, <5>1, EngineAssumption DEF Held, TypeOK
      <4>2. CASE end' # None /\ last'
        <5>1. target' = end' /\ (Have >= end' \/ tailWait = "over")
          BY <1>8, <2>2, <4>2 DEF MixLook
        <5>2. end' \in Nat
          BY <1>8, <2>2, <4>2, EngineAssumption DEF MixLook, SetEnd, Longer, TypeOK
        <5>3. QED BY <3>1, <3>2, <3>4, <5>1, <5>2 DEF Held
      <4>3. CASE end' # None /\ ~last'
        <5>1. target' = Have
          BY <1>8, <2>2, <4>3 DEF MixLook
        <5>2. QED BY <3>2, <3>4, <5>1 DEF Held
      <4>4. QED BY <4>1, <4>2, <4>3
    <3>6. QED BY <3>3, <3>5 DEF HeldInv
  <2>3. CASE MixChunk
    <3>1. cursor < target /\ cursor' \in {cursor, cursor + 1} /\ Held(target)
      BY <1>8, <2>3 DEF MixChunk, HeldInv
    <3>2. UNCHANGED <<target, tailWait, pos, opened, tail>>
      BY <1>8, <2>3, MixerStepLeaves DEF MixChunk
    <3>3. Held(cursor') /\ Held(target')
      <4>1. \A i \in opened : tail[i] \in Nat
        BY EngineAssumption DEF TypeOK, Inputs, AllInputs
      <4>2. QED BY <3>1, <3>2, <4>1, EngineAssumption DEF Held, TypeOK
    <3>4. QED BY <3>2, <3>3 DEF HeldInv, Held
  <2>4. CASE MixPause
    BY <1>8, <2>4, MixerStepLeaves DEF MixPause, HeldInv, Held, TypeOK, StartInv, HasVideo
  <2>5. QED BY <1>8, <2>1, <2>2, <2>3, <2>4 DEF MixerNext
<1>9. CASE WriterNext
  BY <1>9, WriterStepLeaves, HeldInvAlone
<1>10. ASSUME NEW i \in AllInputs, InputNext(i) PROVE HeldInv'
  <2>1. \A j \in opened : tail[j] \in Nat /\ tail'[j] \in Nat /\ tail[j] <= tail'[j]
    BY <1>10, EngineAssumption DEF InputNext, InputLeaves, InputPacket, InputLost, TypeOK, Inputs, AllInputs
  <2>2. UNCHANGED <<cursor, pos, opened, tailWait, mixer, target>>
    BY <1>10, InputStepLeaves
  <2>3. cursor \in Nat /\ target \in Int
    BY DEF TypeOK
  <2>4. ASSUME NEW n \in Int, Held(n)
        PROVE  n <= 0 \/ n <= pos - MixDelay \/ (\A j \in opened : n <= tail'[j]) \/ tailWait = "over"
    BY <2>1, <2>4 DEF Held
  <2>5. Held(cursor)'
    BY <2>2, <2>3, <2>4 DEF HeldInv, Held
  <2>6. (mixer = "chunks" => Held(target))'
    BY <2>2, <2>3, <2>4 DEF HeldInv, Held
  <2>7. QED BY <2>5, <2>6 DEF HeldInv
<1>11. CASE PanicNext
  BY <1>11, PanicStep, PanicStepLeaves DEF HeldInv, Held
<1>12. CASE UNCHANGED vars
  BY <1>12, HeldInvAlone DEF vars, timeVars, driverVars, mixerVars, inputVars, streamVars
<1>13. QED BY <1>1, <1>2, <1>3, <1>4, <1>5, <1>6, <1>7, <1>8, <1>9, <1>10, <1>11, <1>12 DEF Next, DriverNext

(* A packet that is sent stays in the channel until the writer takes it. *)
LEMMA CountInvKept ==
  ASSUME TypeOK, StartInv, CountInv, [Next]_vars
  PROVE  CountInv'
<1>1. CASE ControlNext
  BY <1>1, ControlStep, ControlStepLeaves DEF CountInv
<1>2. CASE Tick
  BY <1>2, CountInvAlone DEF Tick, flagVars, streamVars, videoVars, mixerVars, writerVars
<1>3. CASE TailOver
  BY <1>3, CountInvAlone DEF TailOver, flagVars, videoVars, writerVars
<1>4. CASE OpenNext
  BY <1>4, OpenStepLeaves, CountInvAlone
<1>5. CASE RunNext
  <2>1. CASE Spawn
    <3>1. writer = "off" /\ writer' = "recv"
      BY <1>5, <2>1 DEF Spawn, StartInv, Before
    <3>2. QED BY <1>5, <2>1, <3>1, RunStepLeaves DEF CountInv
  <2>2. CASE BeginTimeline
    BY <1>5, <2>2, RunStepLeaves DEF BeginTimeline, CountInv, TypeOK, StartInv, HasVideo, streamVars, writerVars
  <2>3. CASE JoinVideo
    BY <1>5, <2>3, RunStepLeaves DEF JoinVideo, Join, CountInv, TypeOK, StartInv, HasVideo, streamVars, writerVars
  <2>4. CASE JoinMixer
    BY <1>5, <2>4, RunStepLeaves DEF JoinMixer, Join, CountInv, TypeOK, StartInv, HasVideo, streamVars, writerVars
  <2>5. CASE JoinInputs
    BY <1>5, <2>5, RunStepLeaves DEF JoinInputs, Join, CountInv, TypeOK, StartInv, HasVideo, streamVars, writerVars
  <2>6. CASE JoinWriter
    BY <1>5, <2>6, RunStepLeaves DEF JoinWriter, Join, CountInv, TypeOK, StartInv, HasVideo, streamVars, writerVars
  <2>7. CASE Unwind
    BY <1>5, <2>7, RunStepLeaves DEF Unwind, CountInv, TypeOK, StartInv, HasVideo, streamVars, writerVars
  <2>8. QED BY <1>5, <2>1, <2>2, <2>3, <2>4, <2>5, <2>6, <2>7 DEF RunNext
<1>6. CASE ResultNext
  BY <1>6, ResultStepLeaves, CountInvAlone
<1>7. CASE VideoNext
  <2>1. CASE VideoCanceled
    BY <1>7, <2>1, VideoStepLeaves DEF VideoCanceled, CountInv, TypeOK, StartInv, HasVideo, flagVars
  <2>2. CASE VideoLook
    BY <1>7, <2>2, VideoStepLeaves DEF VideoLook, CountInv, TypeOK, StartInv, HasVideo, flagVars
  <2>3. CASE VideoFrame
    <3>1. CASE Send("frame") /\ written' = written + 1 /\ failure' = failure
      <4>1. queue \in Seq(Packets) /\ queue' = Append(queue, "frame")
        BY <3>1 DEF Send, TypeOK, Packets
      <4>2. /\ Count(queue', "frame") = Count(queue, "frame") + 1
            /\ Count(queue', "chunk") = Count(queue, "chunk") + 0
        BY <4>1, Posted DEF Packets
      <4>3. /\ written \in Nat /\ fileVideo \in Nat
            /\ Count(queue, "frame") \in Nat /\ Count(queue, "chunk") \in Nat
        BY InFile DEF TypeOK
      <4>4. QED BY <1>7, <2>3, <3>1, <4>2, <4>3, VideoStepLeaves DEF CountInv
    <3>2. CASE Closed /\ failure' = failure
      BY <1>7, <2>3, <3>2, VideoStepLeaves DEF CountInv, Closed
    <3>3. CASE Fail /\ UNCHANGED <<queue, written>>
      BY <1>7, <2>3, <3>3, VideoStepLeaves DEF CountInv, Fail
    <3>4. QED BY <1>7, <2>3, <3>1, <3>2, <3>3 DEF VideoFrame, flagVars
  <2>4. CASE VideoPause
    BY <1>7, <2>4, VideoStepLeaves DEF VideoPause, SetEnd, Fail, StopTimeline, CountInv, TypeOK, StartInv, HasVideo,
       flagVars
  <2>5. QED BY <1>7, <2>1, <2>2, <2>3, <2>4 DEF VideoNext
<1>8. CASE MixerNext
  <2>1. CASE MixCanceled
    BY <1>8, <2>1, MixerStepLeaves DEF MixCanceled, CountInv, TypeOK, StartInv, HasVideo
  <2>2. CASE MixLook
    BY <1>8, <2>2, MixerStepLeaves DEF MixLook, SetEnd, Longer, CountInv, TypeOK, StartInv, HasVideo
  <2>3. CASE MixChunk
    <3>1. CASE Send("chunk") /\ cursor' = cursor + 1
      <4>1. queue \in Seq(Packets) /\ queue' = Append(queue, "chunk")
        BY <3>1 DEF Send, TypeOK, Packets
      <4>2. /\ Count(queue', "chunk") = Count(queue, "chunk") + 1
            /\ Count(queue', "frame") = Count(queue, "frame") + 0
        BY <4>1, Posted DEF Packets
      <4>3. /\ cursor \in Nat /\ fileAudio \in Nat
            /\ Count(queue, "frame") \in Nat /\ Count(queue, "chunk") \in Nat
        BY InFile DEF TypeOK
      <4>4. QED BY <1>8, <2>3, <3>1, <4>2, <4>3, MixerStepLeaves DEF CountInv
    <3>2. CASE Closed
      BY <1>8, <2>3, <3>2, MixerStepLeaves DEF CountInv, Closed
    <3>3. QED BY <1>8, <2>3, <3>1, <3>2 DEF MixChunk
  <2>4. CASE MixPause
    BY <1>8, <2>4, MixerStepLeaves DEF MixPause, CountInv, TypeOK, StartInv, HasVideo
  <2>5. QED BY <1>8, <2>1, <2>2, <2>3, <2>4 DEF MixerNext
<1>9. CASE WriterNext
  <2>1. CASE WriterDrains
    BY <1>9, <2>1, WriterStepLeaves DEF WriterDrains, CountInv, TypeOK, StartInv, HasVideo, flagVars, writerVars
  <2>2. CASE WriterWrites
    <3>1. queue \in Seq(Packets) /\ queue' = Tail(queue) /\ queue # <<>> /\ writer' = writer
      BY <1>9, <2>2 DEF WriterWrites, TypeOK, Packets
    <3>2. /\ Count(queue', "frame") = Count(queue, "frame") - (IF Head(queue) = "frame" THEN 1 ELSE 0)
          /\ Count(queue', "chunk") = Count(queue, "chunk") - (IF Head(queue) = "chunk" THEN 1 ELSE 0)
      BY <3>1, Taken
    <3>3. CASE sinkFailed' = TRUE /\ Fail
      BY <1>9, <2>2, <3>1, <3>3, WriterStepLeaves DEF CountInv, Fail
    <3>4. CASE /\ fileVideo' = fileVideo + (IF Head(queue) = "frame" THEN 1 ELSE 0)
               /\ fileAudio' = fileAudio + (IF Head(queue) = "chunk" THEN 1 ELSE 0)
               /\ UNCHANGED <<sinkFailed, failure>>
      <4>1. /\ fileVideo \in Nat /\ fileAudio \in Nat
            /\ Count(queue, "frame") \in Nat /\ Count(queue, "chunk") \in Nat
        BY InFile DEF TypeOK
      <4>2. /\ fileVideo' + Count(queue', "frame") = fileVideo + Count(queue, "frame")
            /\ fileAudio' + Count(queue', "chunk") = fileAudio + Count(queue, "chunk")
        BY <3>2, <3>4, <4>1
      <4>3. QED BY <1>9, <2>2, <3>1, <3>4, <4>2, WriterStepLeaves DEF CountInv
    <3>5. QED BY <1>9, <2>2, <3>3, <3>4 DEF WriterWrites, flagVars
  <2>3. CASE WriterEnds
    BY <1>9, <2>3, WriterStepLeaves DEF WriterEnds, CountInv, TypeOK, StartInv, HasVideo, flagVars
  <2>4. QED BY <1>9, <2>1, <2>2, <2>3 DEF WriterNext
<1>10. ASSUME NEW i \in AllInputs, InputNext(i) PROVE CountInv'
  BY <1>10, InputStepLeaves, CountInvAlone
<1>11. CASE PanicNext
  <2>1. CASE writer' = "dead"
    BY <1>11, <2>1, PanicStepLeaves DEF CountInv
  <2>2. CASE UNCHANGED <<writer, queue>>
    BY <1>11, <2>2, PanicStepLeaves DEF CountInv
  <2>3. QED BY <1>11, <2>1, <2>2 DEF PanicNext, VideoPanics, MixerPanics, InputPanics, WriterPanics, writerVars
<1>12. CASE UNCHANGED vars
  BY <1>12, CountInvAlone DEF vars, flagVars, videoVars, mixerVars, writerVars, streamVars
<1>13. QED BY <1>1, <1>2, <1>3, <1>4, <1>5, <1>6, <1>7, <1>8, <1>9, <1>10, <1>11, <1>12 DEF Next, DriverNext

(* Whom the session thread has joined has ended for good. *)
LEMMA JoinInvKept ==
  ASSUME StartInv, JoinInv, [Next]_vars
  PROVE  JoinInv'
<1> USE DEF Before, PastVideo, PastMixer, PastInputs, PastWriter
<1>1. CASE ControlNext
  <2>1. driver # "gone"
    BY <1>1 DEF ControlNext, RequestStop, RequestCancel, Pause
  <2>2. QED BY <1>1, <2>1, ControlStepLeaves DEF JoinInv
<1>2. CASE Tick
  BY <1>2, JoinInvAlone DEF Tick, flagVars, driverVars, streamVars, videoVars, mixerVars, writerVars
<1>3. CASE TailOver
  BY <1>3, JoinInvAlone DEF TailOver, flagVars, driverVars, videoVars, writerVars
<1>4. CASE OpenNext
  <2>1. CASE OpenVideo
    BY <1>4, <2>1, OpenStepLeaves DEF OpenVideo, Goto, Leave, JoinInv, Ended, StartInv, HasVideo
  <2>2. CASE OpenSystem
    BY <1>4, <2>2, OpenStepLeaves DEF OpenSystem, Goto, Leave, JoinInv, Ended, StartInv, HasVideo
  <2>3. CASE OpenMicrophone
    BY <1>4, <2>3, OpenStepLeaves DEF OpenMicrophone, Goto, Leave, JoinInv, Ended, StartInv, HasVideo
  <2>4. CASE OpenSink
    BY <1>4, <2>4, OpenStepLeaves DEF OpenSink, Goto, Leave, JoinInv, Ended, StartInv, HasVideo
  <2>5. CASE WaitFirstFrame
    BY <1>4, <2>5, OpenStepLeaves DEF WaitFirstFrame, Leave, JoinInv, Ended, StartInv, HasVideo
  <2>6. QED BY <1>4, <2>1, <2>2, <2>3, <2>4, <2>5 DEF OpenNext
<1>5. CASE RunNext
  <2>1. CASE Spawn
    BY <1>5, <2>1, RunStepLeaves DEF Spawn, JoinInv, Ended, StartInv, HasVideo
  <2>2. CASE BeginTimeline
    BY <1>5, <2>2, RunStepLeaves DEF BeginTimeline, JoinInv, Ended, StartInv, HasVideo, streamVars, videoVars,
       mixerVars, writerVars
  <2>3. CASE JoinVideo
    BY <1>5, <2>3, RunStepLeaves DEF JoinVideo, Join, JoinInv, Ended, StartInv, HasVideo, streamVars, videoVars,
       mixerVars, writerVars
  <2>4. CASE JoinMixer
    BY <1>5, <2>4, RunStepLeaves DEF JoinMixer, Join, JoinInv, Ended, StartInv, HasVideo, streamVars, videoVars,
       mixerVars, writerVars
  <2>5. CASE JoinInputs
    BY <1>5, <2>5, RunStepLeaves DEF JoinInputs, Join, JoinInv, Ended, StartInv, HasVideo, streamVars, videoVars,
       mixerVars, writerVars
  <2>6. CASE JoinWriter
    BY <1>5, <2>6, RunStepLeaves DEF JoinWriter, Join, JoinInv, Ended, StartInv, HasVideo, streamVars, videoVars,
       mixerVars, writerVars
  <2>7. CASE Unwind
    BY <1>5, <2>7, RunStepLeaves DEF Unwind, JoinInv, Ended, StartInv, HasVideo, streamVars, videoVars, mixerVars,
       writerVars
  <2>8. QED BY <1>5, <2>1, <2>2, <2>3, <2>4, <2>5, <2>6, <2>7 DEF RunNext
<1>6. CASE ResultNext
  <2>1. CASE Result
    BY <1>6, <2>1, ResultStepLeaves DEF Result, Leave, JoinInv, Ended, StartInv, HasVideo
  <2>2. CASE Finalize
    <3>1. /\ driver = "finalize" /\ driver' \in {"move", "remove"}
          /\ driver' = "move" => outcome' = outcome
          /\ driver' = "remove" => outcome' # "done"
      <4>1. driver = "finalize" /\ driver' \in {"move", "remove"}
        BY <1>6, <2>2 DEF Finalize, Leave
      <4>2. driver' = "move" => outcome' = outcome
        BY <1>6, <2>2 DEF Finalize, Leave
      <4>3. driver' = "remove" => outcome' # "done"
        BY <1>6, <2>2 DEF Finalize, Leave
      <4>4. QED BY <4>1, <4>2, <4>3
    <3>2. driver' = "move" => told' = (told \/ failure) \/ told' = TRUE
      BY <1>6, <2>2 DEF Finalize, Leave
    <3>3. driver' = "move" /\ failure => told'
      BY <3>2, Zenon
    <3>4. QED BY <1>6, <2>2, <3>1, <3>3, ResultStepLeaves DEF JoinInv
  <2>3. CASE MoveToFolder
    BY <1>6, <2>3, ResultStepLeaves DEF MoveToFolder, Moved, NotMoved, JoinInv, Ended, StartInv, HasVideo
  <2>4. CASE MoveToTemp
    BY <1>6, <2>4, ResultStepLeaves DEF MoveToTemp, Moved, NotMoved, Leave, JoinInv, Ended, StartInv, HasVideo
  <2>5. CASE LastCheck
    BY <1>6, <2>5, ResultStepLeaves DEF LastCheck, TakeBack, Leave, JoinInv, Ended, StartInv, HasVideo
  <2>6. CASE RemovePart
    BY <1>6, <2>6, ResultStepLeaves DEF RemovePart, JoinInv, Ended, StartInv, HasVideo
  <2>7. QED BY <1>6, <2>1, <2>2, <2>3, <2>4, <2>5, <2>6 DEF ResultNext
<1>7. CASE VideoNext
  <2>1. CASE VideoCanceled
    BY <1>7, <2>1, VideoStepLeaves DEF VideoCanceled, JoinInv, Ended, StartInv, HasVideo, flagVars
  <2>2. CASE VideoLook
    BY <1>7, <2>2, VideoStepLeaves DEF VideoLook, JoinInv, Ended, StartInv, HasVideo, flagVars
  <2>3. CASE VideoFrame
    BY <1>7, <2>3, VideoStepLeaves DEF VideoFrame, Send, Closed, SetEnd, Fail, StopTimeline, JoinInv, Ended,
       StartInv, HasVideo, flagVars
  <2>4. CASE VideoPause
    BY <1>7, <2>4, VideoStepLeaves DEF VideoPause, SetEnd, Fail, StopTimeline, JoinInv, Ended, StartInv, HasVideo,
       flagVars
  <2>5. QED BY <1>7, <2>1, <2>2, <2>3, <2>4 DEF VideoNext
<1>8. CASE MixerNext
  <2>1. CASE MixCanceled
    BY <1>8, <2>1, MixerStepLeaves DEF MixCanceled, JoinInv, Ended, StartInv, HasVideo
  <2>2. CASE MixLook
    BY <1>8, <2>2, MixerStepLeaves DEF MixLook, SetEnd, Longer, JoinInv, Ended, StartInv, HasVideo
  <2>3. CASE MixChunk
    BY <1>8, <2>3, MixerStepLeaves DEF MixChunk, Send, Closed, JoinInv, Ended, StartInv, HasVideo
  <2>4. CASE MixPause
    BY <1>8, <2>4, MixerStepLeaves DEF MixPause, JoinInv, Ended, StartInv, HasVideo
  <2>5. QED BY <1>8, <2>1, <2>2, <2>3, <2>4 DEF MixerNext
<1>9. CASE WriterNext
  <2>1. CASE WriterDrains
    BY <1>9, <2>1, WriterStepLeaves DEF WriterDrains, JoinInv, Ended, StartInv, HasVideo, flagVars, writerVars
  <2>2. CASE WriterWrites
    BY <1>9, <2>2, WriterStepLeaves DEF WriterWrites, Fail, StopTimeline, JoinInv, Ended, StartInv, HasVideo,
       flagVars
  <2>3. CASE WriterEnds
    BY <1>9, <2>3, WriterStepLeaves DEF WriterEnds, JoinInv, Ended, StartInv, HasVideo, flagVars
  <2>4. QED BY <1>9, <2>1, <2>2, <2>3 DEF WriterNext
<1>10. ASSUME NEW i \in AllInputs, InputNext(i) PROVE JoinInv'
  <2>1. told' = told \/ told' = TRUE
    BY <1>10 DEF InputNext, InputLeaves, InputPacket, InputLost
  <2>2. QED BY <1>10, <2>1, InputStepLeaves DEF JoinInv
<1>11. CASE PanicNext
  BY <1>11, PanicStep, PanicStepLeaves DEF JoinInv, Ended
<1>12. CASE UNCHANGED vars
  BY <1>12, JoinInvAlone DEF vars, flagVars, driverVars, videoVars, mixerVars, writerVars, streamVars
<1>13. QED BY <1>1, <1>2, <1>3, <1>4, <1>5, <1>6, <1>7, <1>8, <1>9, <1>10, <1>11, <1>12 DEF Next, DriverNext

(* A file moves in one step, or something keeps it from moving. *)
LEMMA FilesInvKept ==
  ASSUME TypeOK, JoinInv, FilesInv, [Next]_vars
  PROVE  FilesInv'
<1>1. CASE ControlNext
  BY <1>1, ControlStepLeaves, FilesInvAlone
<1>2. CASE Tick
  BY <1>2, FilesInvAlone DEF Tick, driverVars, fileVars, streamVars, videoVars, mixerVars, inputVars, writerVars
<1>3. CASE TailOver
  BY <1>3, FilesInvAlone DEF TailOver, driverVars, fileVars, videoVars, inputVars, writerVars
<1>4. CASE OpenNext
  <2>1. CASE OpenVideo
    BY <1>4, <2>1, OpenStepLeaves DEF OpenVideo, Goto, Leave, FilesInv, SomePanic, JoinInv, Ended
  <2>2. CASE OpenSystem
    BY <1>4, <2>2, OpenStepLeaves DEF OpenSystem, Goto, Leave, FilesInv, SomePanic, JoinInv, Ended
  <2>3. CASE OpenMicrophone
    BY <1>4, <2>3, OpenStepLeaves DEF OpenMicrophone, Goto, Leave, FilesInv, SomePanic, JoinInv, Ended
  <2>4. CASE OpenSink
    BY <1>4, <2>4, OpenStepLeaves DEF OpenSink, Goto, Leave, FilesInv, SomePanic, JoinInv, Ended
  <2>5. CASE WaitFirstFrame
    BY <1>4, <2>5, OpenStepLeaves DEF WaitFirstFrame, Leave, FilesInv, SomePanic, JoinInv, Ended
  <2>6. QED BY <1>4, <2>1, <2>2, <2>3, <2>4, <2>5 DEF OpenNext
<1>5. CASE RunNext
  <2>1. CASE Spawn
    BY <1>5, <2>1, RunStepLeaves DEF Spawn, FilesInv, SomePanic, JoinInv, Ended
  <2>2. CASE BeginTimeline
    BY <1>5, <2>2, RunStepLeaves DEF BeginTimeline, FilesInv, SomePanic, JoinInv, Ended, streamVars, videoVars,
       mixerVars, inputVars, writerVars
  <2>3. CASE JoinVideo
    BY <1>5, <2>3, RunStepLeaves DEF JoinVideo, Join, FilesInv, SomePanic, JoinInv, Ended, streamVars, videoVars,
       mixerVars, inputVars, writerVars
  <2>4. CASE JoinMixer
    BY <1>5, <2>4, RunStepLeaves DEF JoinMixer, Join, FilesInv, SomePanic, JoinInv, Ended, streamVars, videoVars,
       mixerVars, inputVars, writerVars
  <2>5. CASE JoinInputs
    BY <1>5, <2>5, RunStepLeaves DEF JoinInputs, Join, FilesInv, SomePanic, JoinInv, Ended, streamVars, videoVars,
       mixerVars, inputVars, writerVars
  <2>6. CASE JoinWriter
    BY <1>5, <2>6, RunStepLeaves DEF JoinWriter, Join, FilesInv, SomePanic, JoinInv, Ended, streamVars, videoVars,
       mixerVars, inputVars, writerVars
  <2>7. CASE Unwind
    BY <1>5, <2>7, RunStepLeaves DEF Unwind, FilesInv, SomePanic, JoinInv, Ended, streamVars, videoVars, mixerVars,
       inputVars, writerVars
  <2>8. QED BY <1>5, <2>1, <2>2, <2>3, <2>4, <2>5, <2>6, <2>7 DEF RunNext
<1>6. CASE ResultNext
  <2>1. CASE Result
    BY <1>6, <2>1, ResultStepLeaves DEF Result, Leave, FilesInv, SomePanic, JoinInv, Ended, fileVars
  <2>2. CASE Finalize
    BY <1>6, <2>2, ResultStepLeaves DEF Finalize, Leave, FilesInv, SomePanic, JoinInv, Ended
  <2>3. CASE MoveToFolder
    BY <1>6, <2>3, ResultStepLeaves DEF MoveToFolder, Moved, NotMoved, FilesInv, SomePanic, JoinInv, Ended
  <2>4. CASE MoveToTemp
    BY <1>6, <2>4, ResultStepLeaves DEF MoveToTemp, Moved, NotMoved, Leave, FilesInv, SomePanic, JoinInv, Ended
  <2>5. CASE LastCheck
    BY <1>6, <2>5, ResultStepLeaves DEF LastCheck, TakeBack, Leave, FilesInv, SomePanic, JoinInv, Ended
  <2>6. CASE RemovePart
    BY <1>6, <2>6, ResultStepLeaves DEF RemovePart, FilesInv, SomePanic, JoinInv, Ended
  <2>7. QED BY <1>6, <2>1, <2>2, <2>3, <2>4, <2>5, <2>6 DEF ResultNext
<1>7. CASE VideoNext
  <2>1. CASE VideoCanceled
    BY <1>7, <2>1, VideoStepLeaves DEF VideoCanceled, FilesInv, SomePanic, JoinInv, Ended
  <2>2. CASE VideoLook
    BY <1>7, <2>2, VideoStepLeaves DEF VideoLook, FilesInv, SomePanic, JoinInv, Ended
  <2>3. CASE VideoFrame
    BY <1>7, <2>3, VideoStepLeaves DEF VideoFrame, Send, Closed, SetEnd, Fail, StopTimeline, FilesInv, SomePanic,
       JoinInv, Ended
  <2>4. CASE VideoPause
    BY <1>7, <2>4, VideoStepLeaves DEF VideoPause, SetEnd, Fail, StopTimeline, FilesInv, SomePanic, JoinInv, Ended
  <2>5. QED BY <1>7, <2>1, <2>2, <2>3, <2>4 DEF VideoNext
<1>8. CASE MixerNext
  <2>1. CASE MixCanceled
    BY <1>8, <2>1, MixerStepLeaves DEF MixCanceled, FilesInv, SomePanic, JoinInv, Ended
  <2>2. CASE MixLook
    BY <1>8, <2>2, MixerStepLeaves DEF MixLook, SetEnd, Longer, FilesInv, SomePanic, JoinInv, Ended
  <2>3. CASE MixChunk
    BY <1>8, <2>3, MixerStepLeaves DEF MixChunk, Send, Closed, FilesInv, SomePanic, JoinInv, Ended
  <2>4. CASE MixPause
    BY <1>8, <2>4, MixerStepLeaves DEF MixPause, FilesInv, SomePanic, JoinInv, Ended
  <2>5. QED BY <1>8, <2>1, <2>2, <2>3, <2>4 DEF MixerNext
<1>9. CASE WriterNext
  <2>1. CASE WriterDrains
    BY <1>9, <2>1, WriterStepLeaves DEF WriterDrains, FilesInv, SomePanic, JoinInv, Ended, writerVars
  <2>2. CASE WriterWrites
    BY <1>9, <2>2, WriterStepLeaves DEF WriterWrites, Fail, StopTimeline, FilesInv, SomePanic, JoinInv, Ended
  <2>3. CASE WriterEnds
    BY <1>9, <2>3, WriterStepLeaves DEF WriterEnds, FilesInv, SomePanic, JoinInv, Ended
  <2>4. QED BY <1>9, <2>1, <2>2, <2>3 DEF WriterNext
<1>10. ASSUME NEW i \in AllInputs, InputNext(i) PROVE FilesInv'
  <2>1. \A j \in AllInputs : input'[j] = "dead" <=> input[j] = "dead"
    BY <1>10 DEF InputNext, InputLeaves, InputPacket, InputLost, TypeOK
  <2>2. QED BY <1>10, <2>1, InputStepLeaves DEF FilesInv, SomePanic
<1>11. CASE PanicNext
  <2>1. SomePanic' /\ Panics # {}
    BY <1>11 DEF PanicNext, VideoPanics, MixerPanics, InputPanics, WriterPanics, SomePanic, TypeOK
  <2>2. QED BY <1>11, <2>1, PanicStepLeaves DEF FilesInv
<1>12. CASE UNCHANGED vars
  BY <1>12, FilesInvAlone DEF vars, fileVars, driverVars, videoVars, mixerVars, inputVars, writerVars, streamVars
<1>13. QED BY <1>1, <1>2, <1>3, <1>4, <1>5, <1>6, <1>7, <1>8, <1>9, <1>10, <1>11, <1>12 DEF Next, DriverNext

-----------------------------------------------------------------------------
(* What follows                                                             *)

LEMMA InitIInv == Init => IInv
<1> SUFFICES ASSUME Init PROVE IInv
  OBVIOUS
<1>1. TypeOK
  <2>1. ControlOK
    BY DEF Init, ControlOK
  <2>2. DriverOK
    BY DEF Init, DriverOK
  <2>3. FilesOK
    BY DEF Init, FilesOK
  <2>4. ProducersOK
    <3>1. video \in Threads /\ mixer \in Threads
      BY DEF Init, Threads
    <3>2. due \in Nat /\ written \in Nat /\ cursor \in Nat /\ target \in Int
      BY DEF Init
    <3>3. QED BY <3>1, <3>2 DEF Init, ProducersOK
  <2>5. OthersOK
    BY NoneWaits DEF Init, OthersOK, Threads, Packets
  <2>6. QED BY <2>1, <2>2, <2>3, <2>4, <2>5, InParts
<1>2. StartInv /\ EndInv
  BY DEF Init, StartInv, EndInv, None, HasVideo, Before, PastVideo, PastMixer, PastInputs, PastWriter
<1>3. MixInv /\ HeldInv
  BY DEF Init, MixInv, Reach, HeldInv, Held
<1>4. CountInv
  <2>1. written = 0 + 0 /\ fileVideo = 0 /\ cursor = 0 + 0 /\ fileAudio = 0 /\ ~sinkFailed /\ queue = <<>>
    BY DEF Init
  <2>2. QED BY <2>1, NoneWaits DEF CountInv
<1>5. JoinInv
  BY DEF Init, JoinInv, PastVideo, PastMixer, PastInputs, PastWriter
<1>6. FilesInv
  BY DEF Init, FilesInv, SomePanic
<1>7. QED BY <1>1, <1>2, <1>3, <1>4, <1>5, <1>6 DEF IInv

LEMMA NextIInv == IInv /\ [Next]_vars => IInv'
<1>1. SUFFICES ASSUME IInv, [Next]_vars PROVE IInv'
  OBVIOUS
<1>2. TypeOK'
  <2>1. CASE UNCHANGED vars
    BY <1>1, <2>1, InParts, InPartsNext, ControlAlone, DriverAlone, FilesAlone, ProducersAlone, OthersAlone
    DEF IInv, vars, flagVars, timeVars, driverVars, fileVars, videoVars, mixerVars, inputVars, writerVars, streamVars
  <2>2. QED BY <1>1, <2>1, TypeControl, TypeTick, TypeTail, TypeOpen, TypeRun, TypeResult, TypeVideo, TypeMixer,
               TypeWriter, TypeInput, TypePanic DEF IInv, Next, DriverNext
<1>3. StartInv' /\ EndInv' /\ MixInv' /\ HeldInv'
  BY <1>1, StartInvKept, EndInvKept, MixInvKept, HeldInvKept DEF IInv
<1>4. CountInv' /\ JoinInv' /\ FilesInv'
  BY <1>1, CountInvKept, JoinInvKept, FilesInvKept DEF IInv
<1>5. QED BY <1>2, <1>3, <1>4 DEF IInv

LEMMA Invariance == Spec => []IInv
BY InitIInv, NextIInv, PTL DEF Spec

(* Every reachable state of a session and of its threads is well typed. *)
THEOREM TypeCorrect == Spec => []TypeOK
<1>1. IInv => TypeOK
  BY DEF IInv
<1>2. QED BY <1>1, Invariance, PTL

(* The sound that is written is behind the recording or covered by the tracks, unless the deadline of the tail is over. *)
THEOREM NothingPassedBy == Spec => []MixerWaits
<1>1. IInv => MixerWaits
  BY DEF IInv, HeldInv, Held, MixerWaits, TypeOK
<1>2. QED BY <1>1, Invariance, PTL

(* A file that is delivered without a word of a problem has every frame and every chunk up to the end, and the end is   *)
(* not before the stop.                                                                                                 *)
THEOREM WholeFile == Spec => []WholeUnlessTold
<1>1. ASSUME IInv, outcome = "done", ~told
      PROVE  /\ end >= pos
             /\ HasVideo => fileVideo = end
             /\ opened # {} => fileAudio = end
  <2>1. /\ Ended(video) /\ Ended(mixer) /\ writer = "gone" /\ queue = <<>>
        /\ ~cancel /\ ~failure
    BY <1>1 DEF IInv, JoinInv
  <2>2. (HasVideo => video = "gone") /\ (opened # {} => mixer = "gone") /\ (HasVideo \/ opened # {})
    BY <1>1, <2>1 DEF IInv, StartInv, Ended
  <2>3. written = fileVideo /\ cursor = fileAudio
    <3>1. ~sinkFailed
      BY <1>1, <2>1 DEF IInv, CountInv
    <3>2. written = fileVideo + Count(<<>>, "frame") /\ cursor = fileAudio + Count(<<>>, "chunk")
      BY <1>1, <2>1, <3>1 DEF IInv, CountInv
    <3>3. QED BY <1>1, <3>2, NoneWaits DEF IInv, TypeOK
  <2>4. Good
    BY <2>1 DEF Good
  <2>5. HasVideo => end = written /\ end >= pos
    BY <1>1, <2>1, <2>2, <2>4 DEF IInv, EndInv
  <2>6. opened # {} => end # None /\ cursor = end
    <3>1. SUFFICES ASSUME opened # {} PROVE end # None /\ cursor = end
      OBVIOUS
    <3>2. last /\ cursor >= target /\ cursor <= Reach
      BY <1>1, <2>1, <2>2, <2>4, <3>1 DEF IInv, MixInv
    <3>3. end # None /\ target = end /\ Reach = end
      BY <1>1, <3>2 DEF IInv, MixInv, Reach
    <3>4. QED BY <1>1, <3>2, <3>3 DEF IInv, TypeOK
  <2>7. ~HasVideo => end >= pos
    BY <1>1, <2>2, <2>6 DEF IInv, EndInv
  <2>8. QED BY <2>2, <2>3, <2>5, <2>6, <2>7
<1>2. IInv => WholeUnlessTold
  BY <1>1 DEF WholeUnlessTold
<1>3. QED BY <1>2, Invariance, PTL

(* When no thread panics and nothing keeps a file from being removed, a session leaves its result and nothing else. *)
THEOREM OnlyTheResult ==
  ASSUME Panics = {}
  PROVE  Spec => []LeavesOnlyTheResult
<1>1. IInv => LeavesOnlyTheResult
  BY DEF IInv, FilesInv, LeavesOnlyTheResult
<1>2. QED BY <1>1, Invariance, PTL
=============================================================================
