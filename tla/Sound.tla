-------------------------------- MODULE Sound --------------------------------
(***************************************************************************)
(* The way of the sound: a device delivers packets stamped with the shared *)
(* clock, the Timeline says which parts of them are in the file and where, *)
(* the InputTrack (mix.rs) lays them out frame by frame, and the mixer     *)
(* reads it some time later.  The session is paused and resumed meanwhile. *)
(*                                                                         *)
(* A sample is the tick it was captured at.  Silence is what fills a hole. *)
(***************************************************************************)
EXTENDS Integers, SequencesExt

CONSTANTS
  TicksPerSec, (* of the shared clock, whose ticks are the times          *)
  SampleRate,  (* frames per second, fewer than ticks                      *)
  Gap,         (* GAP_FRAMES                                               *)
  Deadband,    (* DEADBAND_FRAMES                                          *)
  SlipEvery,   (* one frame in 100 may slip; scaled down like the others   *)
  Rates,       (* frame rates of a picture                                 *)
  MaxPacket,   (* frames in a packet: a model bound                        *)
  MaxPauses,   (* a model bound                                            *)
  MaxNow       (* a model bound                                            *)

ASSUME SoundAssumption ==
  /\ TicksPerSec \in Nat \ {0}
  /\ SampleRate \in Nat \ {0} /\ SampleRate <= TicksPerSec
  /\ Deadband \in Nat /\ Gap \in Nat /\ Deadband < Gap
  /\ SlipEvery \in Nat \ {0}
  /\ Rates \subseteq 1..TicksPerSec
  /\ MaxPacket \in Nat /\ MaxPauses \in Nat /\ MaxNow \in Nat

-----------------------------------------------------------------------------
(* Media time (clock.rs): the Timeline that maps the shared clock to the    *)
(* time of the file, and the FramePacer that says which frames exist.       *)

None == -1
Least(m, n) == IF m < n THEN m ELSE n
Greatest(m, n) == IF m > n THEN m ELSE n

(* origin, the finished pauses (oldest first), the open one, and the stop. *)
NewTimeline == [origin |-> None, pauses |-> <<>>, open |-> None, stopped |-> None]

TimelineStart(tl, now) == [tl EXCEPT !.origin = now]

TimelinePause(tl, now) ==
  IF tl.open = None /\ tl.stopped = None THEN [tl EXCEPT !.open = now] ELSE tl

(* A slip: the pause is over and forgotten. *)
TimelineResumeForgets(tl, now) == [tl EXCEPT !.open = None]

TimelineResume(tl, now) ==
  IF tl.stopped # None \/ tl.open = None THEN tl
  ELSE [tl EXCEPT !.open = None, !.pauses = Append(@, [start |-> tl.open, end |-> Greatest(now, tl.open)])]

TimelineStop(tl, now) == IF tl.stopped = None THEN [tl EXCEPT !.stopped = now] ELSE tl

(* How much of a finished pause lies before t. *)
PausedBefore(p, t) == Greatest(0, Least(t, p.end) - p.start)

(* What is left of t after the first n pauses. *)
MediaAfter(tl, t) ==
  LET after[n \in 0 .. Len(tl.pauses)] ==
        IF n = 0 THEN t - tl.origin ELSE after[n - 1] - PausedBefore(tl.pauses[n], t)
  IN  after

MediaOf(tl, t) == Greatest(0, MediaAfter(tl, t)[Len(tl.pauses)])

(* A pause that is not over yet ends what came before it. *)
Unpaused(tl, t) == IF tl.open # None THEN Least(t, tl.open) ELSE t

(* Frozen during a pause and after a stop. *)
Position(tl, now) ==
  LET t == Unpaused(tl, now)
  IN  MediaOf(tl, IF tl.stopped # None THEN Least(t, tl.stopped) ELSE t)

Piece(tl, at, from, to) == [media |-> MediaOf(tl, from), offset |-> from - at, len |-> to - from]

(* The parts of the span [at, at + len) that are on the timeline.  The loop over the pauses goes on at cur, breaks at *)
(* the first pause behind the span, and returns when one covers the rest.                                             *)
Place(tl, at, len) ==
  LET end == at + len
      Pass(acc, p) ==
        IF acc.break \/ acc.return \/ acc.cur >= p.end THEN acc
        ELSE IF end <= p.start THEN [acc EXCEPT !.break = TRUE]
        ELSE [acc EXCEPT !.cur = p.end, !.return = p.end >= end,
                         !.pieces = IF acc.cur < p.start THEN Append(@, Piece(tl, at, acc.cur, p.start)) ELSE @]
      acc == FoldLeft(Pass, [cur |-> Greatest(at, tl.origin), pieces |-> <<>>, break |-> FALSE, return |-> FALSE], tl.pauses)
      limit == Unpaused(tl, end)
  IN  IF tl.origin = None THEN <<>>
      ELSE IF acc.return \/ acc.cur >= limit THEN acc.pieces
      ELSE Append(acc.pieces, Piece(tl, at, acc.cur, limit))

-----------------------------------------------------------------------------
(* FramePacer                                                               *)

Pts(fps, n) == (n * TicksPerSec) \div fps

(* A slip: the division is taken at its word. *)
DueCountByDivision(fps, pos) == (pos * fps) \div TicksPerSec + 1

(* The stamps are rounded down, so a position can reach the next one before the division says so. *)
DueCount(fps, pos) ==
  LET whole == (pos * fps) \div TicksPerSec
  IN  IF Pts(fps, whole + 1) <= pos THEN whole + 2 ELSE whole + 1

-----------------------------------------------------------------------------
VARIABLES
  now,
  timeline,
  onAir,      (* the ticks that passed while the session was recording     *)
  head, buf,  (* the track: its samples, the first at timeline frame head  *)
  cursor      (* how far the mixer has read                                *)

trackVars == <<head, buf, cursor>>
vars == <<now, timeline, onAir, trackVars>>

Silence == -2

TicksToFrames(ticks) == (ticks * SampleRate + TicksPerSec \div 2) \div TicksPerSec
FramesToTicks(frames) == (frames * TicksPerSec) \div SampleRate

Init ==
  /\ now = 0 /\ timeline = NewTimeline /\ onAir = {}
  /\ head = None /\ buf = <<>> /\ cursor = 0

-----------------------------------------------------------------------------
(* The session and its clock                                                *)

Recording == timeline.origin # None /\ timeline.open = None /\ timeline.stopped = None

Tick ==
  /\ now < MaxNow
  /\ now' = now + 1
  /\ onAir' = IF Recording THEN onAir \cup {now} ELSE onAir
  /\ UNCHANGED <<timeline, trackVars>>

Start ==
  /\ timeline.origin = None
  /\ timeline' = TimelineStart(timeline, now)
  /\ UNCHANGED <<now, onAir, trackVars>>

Pause ==
  /\ Recording /\ Len(timeline.pauses) < MaxPauses
  /\ timeline' = TimelinePause(timeline, now)
  /\ UNCHANGED <<now, onAir, trackVars>>

Resume ==
  /\ timeline.open # None
  /\ timeline' = TimelineResume(timeline, now)
  /\ UNCHANGED <<now, onAir, trackVars>>

Stop ==
  /\ timeline.origin # None /\ timeline.stopped = None
  /\ timeline' = TimelineStop(timeline, now)
  /\ UNCHANGED <<now, onAir, trackVars>>

-----------------------------------------------------------------------------
(* InputTrack                                                               *)

TrackTail(t) == t.head + Len(t.buf)

(* One frame in every step slips, count of them: it is left out of a late device's data and doubled in a slow one's. *)
Slip(samples, err) ==
  LET frames == Len(samples)
      excess == (IF err < 0 THEN -err ELSE err) - Deadband
      count == Greatest(1, Least(excess, frames \div SlipEvery + 1))
      step == Greatest(1, frames \div count)
      Hit(i) == (i - 1) % step = step \div 2 /\ (i - 1) \div step < count
      Taken(i) == IF ~Hit(i) THEN <<samples[i]>> ELSE IF err < 0 THEN <<>> ELSE <<samples[i], samples[i]>>
  IN  FlattenSeq([i \in 1..frames |-> Taken(i)])

(* A slip: a hole before a packet is not filled while data is pending. *)
PushWithoutSilence(t, pos, samples) ==
  IF samples = <<>> THEN t
  ELSE IF t.head = None \/ (pos > TrackTail(t) /\ t.buf = <<>>) THEN [head |-> pos, buf |-> samples]
  ELSE [t EXCEPT !.buf = @ \o samples]

(* push: where a packet stamped for timeline frame pos goes. *)
Push(t, pos, samples) ==
  LET err == pos - TrackTail(t)
      skip == Least(-err, Len(samples))
      With(more) == [t EXCEPT !.buf = @ \o more]
  IN  IF samples = <<>> THEN t
      ELSE IF t.head = None \/ (err > 0 /\ t.buf = <<>>) THEN [head |-> pos, buf |-> samples]
      ELSE IF err >= Gap THEN With([i \in 1..err |-> Silence] \o samples)
      ELSE IF err <= -Gap THEN With(SubSeq(samples, skip + 1, Len(samples)))
      ELSE IF err \in -Deadband..Deadband THEN With(samples)
      ELSE With(Slip(samples, err))

(* A packet of n frames captured from at on: each of its pieces on the timeline is pushed where it belongs. *)
Packet(at, n) ==
  LET samples == [i \in 1..n |-> at + FramesToTicks(i - 1)]
      Put(t, piece) ==
        LET first == TicksToFrames(piece.offset)
            last == Least(first + TicksToFrames(piece.len), n)
        IN  Push(t, TicksToFrames(piece.media), SubSeq(samples, first + 1, last))
      track == FoldLeft(Put, [head |-> head, buf |-> buf], Place(timeline, at, FramesToTicks(n)))
  IN  /\ at + FramesToTicks(n) <= now
      /\ head' = track.head /\ buf' = track.buf
      /\ UNCHANGED <<now, timeline, onAir, cursor>>

(* A slip: the head goes back by what was drained. *)
MixBackwards(frames) ==
  /\ cursor + frames <= TicksToFrames(Position(timeline, now))
  /\ cursor' = cursor + frames
  /\ IF head = None THEN UNCHANGED <<head, buf>>
     ELSE LET n == Least(frames, Len(buf))
          IN  buf' = SubSeq(buf, n + 1, Len(buf)) /\ head' = head - n
  /\ UNCHANGED <<now, timeline, onAir>>

(* read_add: stale samples go, what precedes the head is silent, the rest is drained. *)
Mix(frames) ==
  /\ cursor + frames <= TicksToFrames(Position(timeline, now))
  /\ cursor' = cursor + frames
  /\ IF head = None THEN UNCHANGED <<head, buf>>
     ELSE LET stale == Least(Greatest(0, cursor - head), Len(buf))
              from == Greatest(cursor, head)
              lead == from - cursor
              n == IF lead < frames THEN Least(frames - lead, Len(buf) - stale) ELSE 0
          IN  /\ buf' = SubSeq(buf, stale + n + 1, Len(buf))
              /\ head' = IF buf' = <<>> THEN Greatest(from + n, cursor + frames) ELSE from + n
  /\ UNCHANGED <<now, timeline, onAir>>

-----------------------------------------------------------------------------

Next ==
  \/ Tick \/ Start \/ Pause \/ Resume \/ Stop
  \/ timeline.origin # None /\ \E at \in 0..MaxNow, n \in 1..MaxPacket : Packet(at, n)
  \/ timeline.origin # None /\ \E frames \in 1..MaxNow : Mix(frames)

Spec == Init /\ [][Next]_vars

-----------------------------------------------------------------------------
(* Properties                                                               *)

TypeOK ==
  /\ now \in Nat
  /\ timeline.origin \in Nat \cup {None} /\ timeline.open \in Nat \cup {None} /\ timeline.stopped \in Nat \cup {None}
  /\ timeline.pauses \in Seq([start : Nat, end : Nat])
  /\ onAir \subseteq Nat
  /\ head \in Nat \cup {None} /\ buf \in Seq(Nat \cup {Silence}) /\ cursor \in Nat

(* Pauses leave neither a gap nor drift: the position is the time the session has been recording, and no more. *)
PositionIsTimeOnAir == timeline.origin # None => Position(timeline, now) = Cardinality(onAir)

(* At every position exactly the frames whose stamp is reached are due, whatever the division rounds. *)
DueFramesAreReached ==
  timeline.origin # None =>
    LET pos == Position(timeline, now)
    IN  \A fps \in Rates : DueCount(fps, pos) = Cardinality({n \in 0..(pos + 1) : Pts(fps, n) <= pos})

(* Where sample s belongs. *)
FrameOf(s) == TicksToFrames(MediaOf(timeline, s))

(* Whatever holes, overlaps and drift the packets have: no sample on the track is as far from its own time as what *)
(* counts as a hole; and what the device heard before the start or during a pause is not in the file, but for a      *)
(* rounded frame at its edge.                                                                                        *)
SoundKeepsItsTime ==
  \A k \in 1..Len(buf) :
    buf[k] # Silence =>
      /\ head + k - 1 - FrameOf(buf[k]) \in (1 - Gap)..(Gap - 1)
      /\ \E t \in onAir \cup {t \in 0..MaxNow : timeline.stopped # None /\ t >= timeline.stopped} :
           t - buf[k] \in -FramesToTicks(1)..FramesToTicks(1)
=============================================================================
