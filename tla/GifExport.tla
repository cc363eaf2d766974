----------------------------- MODULE GifExport ------------------------------
(***************************************************************************)
(* Making a GIF of a video (gif_export.rs, win/gif_decode.rs): the reader  *)
(* hands over samples with their stamps, the builder keeps those that are  *)
(* next in its rate, and the file is written beside its name and renamed.  *)
(*                                                                         *)
(* Times are ticks, TicksPerSec of them in a second; pixels are left out,  *)
(* except for where they are read.                                         *)
(***************************************************************************)
EXTENDS Integers, Sequences, FiniteSets, Functions

CONSTANTS
  TicksPerSec, Tolerance,  (* GAP_TOLERANCE_SEC                            *)
  Fps,                     (* the rates asked for                          *)
  MaxWidth,
  MaxFrames,               (* MAX_FRAMES                                   *)
  MinDelay, MaxDelay,      (* in hundredths: MIN_DELAY_CS, u16::MAX        *)
  Gaps,                    (* between the stamps of two samples            *)
  FrameSizes,              (* of the surfaces, width and height            *)
  Apertures,               (* what a media type says is visible of them    *)
  MaxSamples               (* a model bound                                *)

GifAssumption ==
  /\ MaxWidth \in Nat /\ MaxFrames \in Nat /\ MaxSamples \in Nat /\ Gaps \subseteq Nat
  /\ \A frame \in FrameSizes :
       /\ frame[1] \in Nat /\ frame[2] \in Nat
       /\ frame[1] % 2 = 0 /\ frame[2] % 2 = 0  (* of codecs with 4:2:0     *)
  /\ \A area \in Apertures :
       /\ area.left \in Int /\ area.top \in Int /\ area.width \in Int /\ area.height \in Int
       /\ \A frame \in FrameSizes : area.left <= frame[1] /\ area.top <= frame[2]

VARIABLES
  fps,
  layout,     (* what the reader's media type says                         *)
  stamp,      (* of the last sample                                        *)
  read_samples,
  builder,    (* frames kept: their stamps and sizes                       *)
  export,     (* what the call does now, or what it returned               *)
  part, gif,  (* what lies at the two names: nothing, "half", "whole" ...  *)
  passed      (* a ghost: the multiples of the interval a sample reached   *)

gifVars == <<fps, layout, stamp, read_samples, builder, export, part, gif, passed>>

Fewer(a, b) == IF a < b THEN a ELSE b
More(a, b) == IF a > b THEN a ELSE b
HalfUp(a, b) == (2 * a + b) \div (2 * b)

-----------------------------------------------------------------------------
(* What the decoder hands over                                              *)

(* The visible part lies in the surface, whatever the aperture says.  A row *)
(* of RGB32 is four times as long and, unless the media type says, the last *)
(* row comes first.                                                         *)
LayoutOf(frame, area, nv12, upward) ==
  LET left == More(area.left, 0)
      top == More(area.top, 0)
      all == [left |-> 0, top |-> 0, width |-> frame[1], height |-> frame[2], frame |-> frame,
              nv12 |-> nv12, row |-> IF nv12 THEN frame[1] ELSE 4 * frame[1], upward |-> upward /\ ~nv12]
  IN  IF area.width <= 0 \/ area.height <= 0 THEN all
      ELSE [all EXCEPT !.left = left, !.top = top,
                       !.width = Fewer(area.width, More(0, frame[1] - left)),
                       !.height = Fewer(area.height, More(0, frame[2] - top))]

Even(n) == n - (n % 2)

(* The bytes copied of a surface, from its first on.  Of NV12 the crop goes *)
(* to whole pairs, and half as many rows of chroma follow those of luma.    *)
CopiedRgb(l) ==
  {(IF l.upward THEN (l.frame[2] - 1 - l.top - y) * l.row ELSE (l.top + y) * l.row) + 4 * (l.left + x) + k :
     x \in 0 .. l.width - 1, y \in 0 .. l.height - 1, k \in 0 .. 3}

CopiedNv12(l) ==
  LET left == Even(l.left)
      top == Even(l.top)
      chroma == l.row * l.frame[2]
  IN  {(top + y) * l.row + left + x : x \in 0 .. l.width - 1, y \in 0 .. l.height - 1}
      \cup {chroma + (top \div 2 + y \div 2) * l.row + left + 2 * (x \div 2) + k :
              x \in 0 .. l.width - 1, y \in 0 .. l.height - 1, k \in 0 .. 1}

(* What a plain buffer must have; a shorter one is not read. *)
Needed(l) == IF l.nv12 THEN (l.row * l.frame[2] * 3) \div 2 ELSE l.row * l.frame[2]

-----------------------------------------------------------------------------
(* GifBuilder                                                               *)

ScaledSize(width, height) ==
  LET w == More(width, 1)
  IN  IF w <= MaxWidth THEN <<More(width, 1), More(height, 1)>>
      ELSE <<More(1, HalfUp(width * MaxWidth, w)), More(1, HalfUp(height * MaxWidth, w))>>

NewBuilder == [next_sample |-> 0, seconds |-> <<>>, taken |-> <<>>, size |-> <<0, 0>>]

(* A slip: the next multiple, however many this sample has passed. *)
OneMore(b, t) == b.next_sample + 1

(* wants: the multiple of the interval after the last one this sample reached. *)
NextSample(b, t) == ((t + Tolerance) * fps) \div TicksPerSec + 1

Wants(b, t) ==
  IF Len(b.taken) >= MaxFrames THEN "stop"
  ELSE IF (t + Tolerance) * fps < b.next_sample * TicksPerSec THEN "skip"
  ELSE "frame"

(* The first frame fixes the size of all. *)
Take(b, t, l) ==
  LET size == IF b.taken = <<>> THEN ScaledSize(l.width, l.height) ELSE b.size
  IN  [next_sample |-> NextSample(b, t), seconds |-> Append(b.seconds, t),
       taken |-> Append(b.taken, size), size |-> size]

Hundredths(t) == HalfUp(t * 100, TicksPerSec)

(* The difference of the rounded stamps carries the error. *)
Delays(seconds) ==
  [i \in DOMAIN seconds |->
    Fewer(MaxDelay, More(MinDelay,
      IF i < Len(seconds) THEN Hundredths(seconds[i + 1]) - Hundredths(seconds[i]) ELSE HalfUp(100, fps)))]

-----------------------------------------------------------------------------
(* export_gif                                                               *)

StartOfExport ==
  /\ fps \in Fps
  /\ \E frame \in FrameSizes, area \in Apertures, nv12, upward \in BOOLEAN :
       layout = LayoutOf(frame, area, nv12, upward)
  /\ stamp = 0 /\ read_samples = 0 /\ builder = NewBuilder
  /\ export \in {"decoding", "cannot_read"}
  /\ part = "nothing" /\ gif \in {"nothing", "old"} /\ passed = {}

(* A new media type is of the same kind. *)
TypeChanges ==
  \/ UNCHANGED layout
  \/ \E frame \in FrameSizes, area \in Apertures, upward \in BOOLEAN :
       layout' = LayoutOf(frame, area, layout.nv12, upward)

(* A round of decode_frames: a sample, with a new media type now and then, and what the builder wants of it.  Samples *)
(* come at stamps that do not go back.  A frame can be a byte too short.                                              *)
ReadSample ==
  /\ export = "decoding" /\ read_samples < MaxSamples
  /\ read_samples' = read_samples + 1
  /\ \E gap \in IF read_samples = 0 THEN {0} ELSE Gaps, last \in BOOLEAN, short \in {0, 1} :
       /\ stamp' = stamp + gap
       /\ TypeChanges
       /\ LET wanted == Wants(builder, stamp')
              long_enough == Needed(layout') <= Needed(layout') - short
          IN  \/ /\ wanted = "frame" /\ long_enough
                 /\ builder' = Take(builder, stamp', layout')
                 /\ export' = IF last THEN "decoded" ELSE export
              \/ /\ wanted = "frame" /\ ~long_enough
                 /\ export' = "failed" /\ UNCHANGED builder
              \/ /\ wanted = "skip"
                 /\ export' = IF last THEN "decoded" ELSE export
                 /\ UNCHANGED builder
              \/ /\ wanted = "stop"
                 /\ export' = "decoded" /\ UNCHANGED builder
       /\ passed' = passed \cup {((stamp' + Tolerance) * fps) \div TicksPerSec}
  /\ UNCHANGED <<fps, part, gif>>

(* A round that brings no sample: a new media type, or the end of the stream. *)
ReadNothing ==
  /\ export = "decoding"
  /\ TypeChanges
  /\ export' \in {"decoding", "decoded"}
  /\ UNCHANGED <<fps, stamp, read_samples, builder, part, gif, passed>>

(* Reading ends the export, in the middle as well. *)
ReadFails ==
  /\ export = "decoding"
  /\ export' = "failed"
  /\ UNCHANGED <<fps, layout, stamp, read_samples, builder, part, gif, passed>>

NothingDecoded ==
  /\ export = "decoded" /\ builder.taken = <<>>
  /\ export' = "failed"
  /\ UNCHANGED <<fps, layout, stamp, read_samples, builder, part, gif, passed>>

CreatePart ==
  /\ export = "decoded" /\ builder.taken # <<>>
  /\ \/ part' = "half" /\ export' = "writing"
     \/ part' = "nothing" /\ export' = "failed"
  /\ UNCHANGED <<fps, layout, stamp, read_samples, builder, gif, passed>>

(* All frames and the last flush; an error takes the part away. *)
WriteFrames ==
  /\ export = "writing"
  /\ \/ part' = "whole" /\ export' = "written"
     \/ part' = "nothing" /\ export' = "failed"
  /\ UNCHANGED <<fps, layout, stamp, read_samples, builder, gif, passed>>

Rename ==
  /\ export = "written"
  /\ \/ gif' = part /\ part' = "nothing" /\ export' = "done"
     \/ export' = "failed" /\ UNCHANGED <<part, gif>>
  /\ UNCHANGED <<fps, layout, stamp, read_samples, builder, passed>>

(* The process can end while the part is being written. *)
Crash ==
  /\ export \in {"writing", "written"}
  /\ export' = "gone"
  /\ UNCHANGED <<fps, layout, stamp, read_samples, builder, part, gif, passed>>

GifNext ==
  \/ ReadSample \/ ReadNothing \/ ReadFails \/ NothingDecoded
  \/ CreatePart \/ WriteFrames \/ Rename \/ Crash

-----------------------------------------------------------------------------
(* Every variable has its type. *)
GifTypeOK ==
  /\ fps \in Fps /\ stamp \in Nat /\ read_samples \in 0 .. MaxSamples
  /\ export \in {"decoding", "cannot_read", "decoded", "writing", "written", "done", "failed", "gone"}
  /\ part \in {"nothing", "half", "whole"} /\ gif \in {"nothing", "old", "whole"}
  /\ Len(builder.seconds) = Len(builder.taken) /\ Len(builder.taken) <= MaxFrames

(* Whatever fails, what lies at the GIF's name is what lay there before, or *)
(* a whole new one of frames that have one size.                            *)
GifIsWhole ==
  /\ export = "done" => gif = "whole"
  /\ export # "done" => gif \in {"nothing", "old"}
  /\ \A i \in DOMAIN builder.taken : builder.taken[i] = builder.size

(* Only bytes that are in the surface are copied, and of the columns and    *)
(* rows the aperture leaves each pixel once.                                *)
OnlyThePicture ==
  /\ (IF layout.nv12 THEN CopiedNv12(layout) ELSE CopiedRgb(layout)) \subseteq 0 .. Needed(layout) - 1
  /\ layout.left + layout.width <= layout.frame[1] /\ layout.top + layout.height <= layout.frame[2]

(* A frame is kept whenever a sample reaches a multiple of the interval     *)
(* that none had reached, so the average rate is the one asked for; and     *)
(* unless a delay is too short to say, the delays add up to the time from   *)
(* the first frame to the last, whatever each of them is rounded by.        *)
RateIsKept ==
  LET seconds == builder.seconds
      steps == {Hundredths(seconds[i + 1]) - Hundredths(seconds[i]) : i \in 1 .. Len(seconds) - 1}
  IN  /\ export = "decoding" => Len(seconds) = Fewer(Cardinality(passed), MaxFrames)
      /\ seconds # <<>> /\ steps \subseteq MinDelay .. MaxDelay =>
           FoldFunction(LAMBDA d, sum : d + sum, 0, Delays(seconds))
             = Hundredths(seconds[Len(seconds)]) - Hundredths(Head(seconds)) + HalfUp(100, fps)
=============================================================================
