---------------------------- MODULE VideoEncoder ----------------------------
(***************************************************************************)
(* The way of the picture into the file (win/source.rs, win/encoder.rs,    *)
(* win/sink.rs, win/d3d.rs): one hardware encoder is activated per device  *)
(* and lent to one stream at a time; a trial stream goes before the real   *)
(* one; whatever does not work out before a frame was written falls back   *)
(* to the software encoder.  A session that was given up on may still be   *)
(* in the encoder when the next one starts.                                *)
(*                                                                         *)
(* The transform is Windows': it asks for input and announces output with  *)
(* events, and a notice of an ended stream can come late; it refuses types *)
(* while frames are inside.  A muxer that fails takes no more.  A frame is *)
(* the session it was made for, its number and whether it is a key frame.  *)
(***************************************************************************)
EXTENDS Naturals, Sequences, Functions

CONSTANTS
  Sessions,
  NoEncoder,
  TrialFrames,  (* TRIAL_FRAMES                                            *)
  Frames,       (* of a recording: a model bound                           *)
  Room,         (* how many inputs the transform asks for at once          *)
  MaxEncoders, MaxErrors, MaxLate  (* model bounds *)

EncoderAssumption == NoEncoder \notin Nat /\ MaxEncoders \in Nat

VARIABLES
  slot,         (* the encoder the device keeps                            *)
  activated,    (* how many there were                                     *)
  in_use, broken,
  transform,    (* of an encoder: what Windows keeps for it                *)
  session,      (* where it is, and its stream                             *)
  file,         (* the compressed frames in it                             *)
  errors, lates

encoderVars == <<slot, activated, in_use, broken, transform, session, file, errors, lates>>

Encoders == 1 .. MaxEncoders

Idle == [room |-> 0, inside |-> <<>>, ready |-> <<>>, events |-> <<>>, streaming |-> FALSE,
         draining |-> FALSE, force |-> FALSE, used |-> FALSE]
NoStream == [pc |-> "start", encoder |-> NoEncoder, trial |-> TRUE, need |-> 0, at_start |-> TRUE,
             sent |-> 0, outputs |-> 0, streaming |-> FALSE]

StartOfEncoders ==
  /\ slot = NoEncoder /\ activated = 0
  /\ in_use = [e \in Encoders |-> FALSE] /\ broken = [e \in Encoders |-> FALSE]
  /\ transform = [e \in Encoders |-> Idle]
  /\ session = [s \in Sessions |-> NoStream]
  /\ file = [s \in Sessions |-> <<>>]
  /\ errors = 0 /\ lates = 0

(* The frames a stream is given. *)
Wanted(s) == IF session[s].trial THEN TrialFrames ELSE Frames

-----------------------------------------------------------------------------
(* The device and its encoder                                               *)

(* A small region, no device or no encoder: the software encoder writes the whole recording. *)
GoesSoft(s) ==
  /\ session[s].pc = "start"
  /\ session' = [session EXCEPT ![s].pc = "software"]
  /\ UNCHANGED <<slot, activated, in_use, broken, transform, file, errors, lates>>

(* retained_encoder: under the lock the kept encoder is taken while it is usable, or another one is activated. *)
Acquire(s) ==
  /\ session[s].pc = "start"
  /\ \/ /\ slot # NoEncoder /\ ~broken[slot]
        /\ session' = [session EXCEPT ![s].pc = "begin", ![s].encoder = slot]
        /\ UNCHANGED <<slot, activated>>
     \/ /\ slot # NoEncoder => broken[slot]
        /\ activated < MaxEncoders
        /\ activated' = activated + 1 /\ slot' = activated + 1
        /\ session' = [session EXCEPT ![s].pc = "begin", ![s].encoder = activated + 1]
  /\ UNCHANGED <<in_use, broken, transform, file, errors, lates>>

(* The driver resets: the device is kept, and the next session finds a new one, without an encoder. *)
DeviceLost ==
  /\ slot # NoEncoder /\ errors < MaxErrors
  /\ errors' = errors + 1
  /\ slot' = NoEncoder
  /\ UNCHANGED <<activated, in_use, broken, transform, session, file, lates>>

-----------------------------------------------------------------------------
(* EncoderStream                                                            *)

(* What a stream that begins finds: nothing of the ones before. *)
Begun(t) == [t EXCEPT !.events = <<>>, !.streaming = TRUE, !.draining = FALSE, !.room = 0]

MayFail == errors < MaxErrors /\ errors' = errors + 1

(* begin takes the encoder whether it is broken or not: the real stream     *)
(* follows the trial without a look.                                        *)
Begin(s) ==
  /\ session[s].pc = "begin" /\ ~in_use[session[s].encoder]
  /\ LET e == session[s].encoder
         t == transform[e]
         clean == t.inside = <<>> /\ t.ready = <<>>
         Stream(pc, streaming) ==
           session' = [session EXCEPT ![s].pc = pc, ![s].need = 0, ![s].at_start = TRUE, ![s].sent = 0,
                                      ![s].outputs = 0, ![s].streaming = streaming]
     IN  /\ in_use' = [in_use EXCEPT ![e] = TRUE]
         /\ \/ /\ clean
               /\ transform' = [transform EXCEPT ![e] = Begun(@)] /\ Stream("run", TRUE)
               /\ UNCHANGED <<broken, errors>>
            \/ (* the types are refused *)
               /\ MayFail \/ ((broken[e] \/ ~clean) /\ UNCHANGED errors)
               /\ broken' = [broken EXCEPT ![e] = TRUE]
               /\ transform' = [transform EXCEPT ![e].events = <<>>] /\ Stream("drop_soft", FALSE)
            \/ (* a type cannot be made, or the stream does not start *)
               /\ MayFail /\ UNCHANGED broken
               /\ \/ clean /\ transform' = [transform EXCEPT ![e] = Begun(@)] /\ Stream("drop_soft", TRUE)
                  \/ transform' = [transform EXCEPT ![e].events = <<>>] /\ Stream("drop_soft", FALSE)
  /\ UNCHANGED <<slot, activated, file, lates>>

(* A session that was given up on is still in the encoder. *)
FindsItBusy(s) ==
  /\ session[s].pc = "begin" /\ in_use[session[s].encoder]
  /\ session' = [session EXCEPT ![s].pc = "software"]
  /\ UNCHANGED <<slot, activated, in_use, broken, transform, file, errors, lates>>

(* What becomes of a stream with an error in it: a trial, or one without a  *)
(* file, goes to the software encoder; a recording is stopped by its error, *)
(* and what is inside is asked for all the same; one that fails at that has *)
(* a problem.                                                               *)
AfterError(k) == IF k.trial THEN "drop_soft" ELSE IF k.pc = "run" THEN "stopped" ELSE "drop_failed"
StreamFailed(s) == session' = [session EXCEPT ![s].pc = AfterError(session[s])]

(* A call that fails without a notice; nothing more comes out, or into the  *)
(* file that was not made.                                                  *)
CallFails(s) ==
  /\ session[s].pc \in {"run", "drain", "drain_failed"} /\ MayFail
  /\ \/ /\ session[s].trial \/ (session[s].sent = 0 /\ session[s].pc = "run")
        /\ session' = [session EXCEPT ![s].pc = "drop_soft"]
     \/ ~session[s].trial /\ session' = [session EXCEPT ![s].pc = "drop_failed"]
  /\ UNCHANGED <<slot, activated, in_use, broken, transform, file, lates>>

AfterDrain(k) ==
  IF k.pc = "drain_failed" THEN "drop_failed" ELSE IF k.trial /\ k.outputs = 0 THEN "drop_soft" ELSE "drop"

(* A round of pump: one event.  A notice without an output behind it came late. *)
Pump(s) ==
  LET e == session[s].encoder
      t == transform[e]
      event == Head(t.events)
      rest == [t EXCEPT !.events = Tail(@)]
  IN  /\ session[s].pc \in {"run", "drain", "drain_failed"} /\ t.events # <<>>
      /\ \/ /\ event = "need"
            /\ session' = [session EXCEPT ![s].need = @ + 1]
            /\ transform' = [transform EXCEPT ![e] = rest]
            /\ UNCHANGED <<file, broken>>
         \/ /\ event = "have" /\ t.ready # <<>>
            /\ transform' = [transform EXCEPT ![e] = [rest EXCEPT !.ready = Tail(@)]]
            /\ session' = [session EXCEPT ![s].outputs = @ + 1]
            /\ file' = IF session[s].trial THEN file ELSE [file EXCEPT ![s] = Append(@, Head(t.ready))]
            /\ UNCHANGED broken
         \/ /\ event = "have" /\ t.ready = <<>>
            /\ transform' = [transform EXCEPT ![e] = rest]
            /\ UNCHANGED <<session, file, broken>>
         \/ /\ event = "drained"
            /\ transform' = [transform EXCEPT ![e] = rest]
            /\ session' = IF session[s].pc = "run" THEN session
                          ELSE [session EXCEPT ![s].pc = AfterDrain(session[s])]
            /\ UNCHANGED <<file, broken>>
         \/ /\ event = "error"
            /\ transform' = [transform EXCEPT ![e] = rest]
            /\ broken' = [broken EXCEPT ![e] = TRUE]
            /\ StreamFailed(s)
            /\ UNCHANGED file
  /\ UNCHANGED <<slot, activated, in_use, errors, lates>>

(* An encoder that was used before does not start with a key frame by itself. *)
Forces(s, t) == t.force \/ session[s].at_start

(* encode: once the events are handled and the encoder has asked, it takes a frame, or says that it had not asked. *)
Encode(s) ==
  LET e == session[s].encoder
      t == transform[e]
      force == Forces(s, t)
      n == session[s].sent + 1
  IN  /\ session[s].pc = "run" /\ t.events = <<>> /\ session[s].need > 0 /\ n <= Wanted(s)
      /\ IF t.room > 0
         THEN /\ transform' = [transform EXCEPT ![e].room = @ - 1, ![e].force = FALSE,
                                                ![e].inside = Append(@, [of |-> s, n |-> n, trial |-> session[s].trial,
                                                                         key |-> force])]
              /\ session' = [session EXCEPT ![s].need = @ - 1, ![s].sent = n, ![s].at_start = FALSE]
         ELSE /\ transform' = [transform EXCEPT ![e].force = force]
              /\ session' = [session EXCEPT ![s].need = 0, ![s].at_start = FALSE]
  /\ UNCHANGED <<slot, activated, in_use, broken, file, errors, lates>>

(* A recording ends when it is stopped or has failed, a trial when its frames are through. *)
Drain(s) ==
  LET e == session[s].encoder
  IN  /\ \/ /\ session[s].pc = "run" /\ transform[e].events = <<>>
            /\ session[s].sent = Wanted(s) \/ ~session[s].trial
            /\ session' = [session EXCEPT ![s].pc = "drain"]
         \/ session[s].pc = "stopped" /\ session' = [session EXCEPT ![s].pc = "drain_failed"]
      /\ transform' = [transform EXCEPT ![e].draining = TRUE]
  /\ UNCHANGED <<slot, activated, in_use, broken, file, errors, lates>>

(* What Drop leaves, the calls in `failed` not done: a stream that did not  *)
(* start is not flushed.                                                    *)
Flushed(t) ==
  [t EXCEPT !.draining = FALSE, !.room = 0, !.inside = <<>>, !.ready = <<>>, !.force = FALSE]

BackToIdle(t, failed) ==
  LET flushed == IF "flush" \in failed THEN t ELSE Flushed(t)
  IN  [flushed EXCEPT !.events = <<>>, !.used = TRUE, !.streaming = @ /\ "end" \in failed]

(* After the trial the real stream begins. *)
AfterDrop(k) ==
  CASE k.pc = "drop" -> IF k.trial THEN "begin" ELSE "done"
    [] k.pc = "drop_soft" -> "software"
    [] k.pc = "drop_failed" -> "done_with_a_problem"

(* Drop gives the encoder back, and breaks it when it does not get to idle. *)
Drop(s) ==
  LET e == session[s].encoder
  IN  /\ session[s].pc \in {"drop", "drop_soft", "drop_failed"}
      /\ \E failed \in SUBSET (IF session[s].streaming THEN {"flush", "end", "types"} ELSE {"types"}) :
           /\ \/ failed = {} /\ UNCHANGED <<broken, errors>>
              \/ /\ failed # {} /\ broken' = [broken EXCEPT ![e] = TRUE]
                 /\ MayFail \/ (broken[e] /\ UNCHANGED errors)
           /\ transform' = [transform EXCEPT ![e] = IF session[s].streaming THEN BackToIdle(@, failed)
                                                    ELSE [@ EXCEPT !.events = <<>>]]
      /\ in_use' = [in_use EXCEPT ![e] = FALSE]
      /\ session' = [session EXCEPT ![s].pc = AfterDrop(session[s]), ![s].trial = FALSE, ![s].streaming = FALSE]
  /\ UNCHANGED <<slot, activated, file, lates>>

-----------------------------------------------------------------------------
(* Windows' transform                                                       *)

Emit(e, event) == transform' = [transform EXCEPT ![e].events = Append(@, event)]

AsksForInput(e) ==
  LET t == transform[e]
  IN  /\ t.streaming /\ ~t.draining /\ t.room + Len(t.inside) < Room
      /\ transform' = [transform EXCEPT ![e].events = Append(@, "need"), ![e].room = @ + 1]
  /\ UNCHANGED <<slot, activated, in_use, broken, session, file, errors, lates>>

Compresses(e) ==
  LET t == transform[e]
  IN  /\ t.streaming /\ t.inside # <<>>
      /\ transform' = [transform EXCEPT ![e].events = Append(@, "have"), ![e].inside = Tail(@),
                                        ![e].ready = Append(@, Head(t.inside))]
  /\ UNCHANGED <<slot, activated, in_use, broken, session, file, errors, lates>>

(* Everything inside has been announced. *)
Drained(e) ==
  /\ transform[e].draining /\ transform[e].inside = <<>>
  /\ transform' = [transform EXCEPT ![e].events = Append(@, "drained"), ![e].draining = FALSE]
  /\ UNCHANGED <<slot, activated, in_use, broken, session, file, errors, lates>>

Breaks(e) ==
  /\ transform[e].streaming /\ errors < MaxErrors /\ errors' = errors + 1
  /\ Emit(e, "error")
  /\ UNCHANGED <<slot, activated, in_use, broken, session, file, lates>>

(* A notice from the stream before, when this one has begun already. *)
LateNotice(e) ==
  /\ in_use[e] /\ transform[e].used /\ lates < MaxLate /\ lates' = lates + 1
  /\ Emit(e, "need") \/ Emit(e, "have")
  /\ UNCHANGED <<slot, activated, in_use, broken, session, file, errors>>

EncoderNext ==
  \/ DeviceLost
  \/ \E s \in Sessions :
       \/ GoesSoft(s) \/ Acquire(s) \/ Begin(s) \/ FindsItBusy(s) \/ CallFails(s)
       \/ Pump(s) \/ Encode(s) \/ Drain(s) \/ Drop(s)
  \/ \E e \in 1 .. activated :
       AsksForInput(e) \/ Compresses(e) \/ Drained(e) \/ Breaks(e) \/ LateNotice(e)

-----------------------------------------------------------------------------
(* Every variable has its type. *)
EncoderTypeOK ==
  /\ slot \in Encoders \cup {NoEncoder} /\ activated \in 0 .. MaxEncoders
  /\ \A e \in Encoders : in_use[e] \in BOOLEAN /\ broken[e] \in BOOLEAN
  /\ \A s \in Sessions :
       session[s].pc \in {"start", "software", "begin", "run", "stopped", "drain", "drain_failed",
                          "drop", "drop_soft", "drop_failed", "done", "done_with_a_problem"}

(* A file has the frames of its own recording, from the first, which can be *)
(* decoded by itself, and in their order; of one that ended without a       *)
(* problem none is missing.  Nothing of a trial or of another session, from *)
(* which a notice can still come, gets into it.                             *)
FilesAreTheirOwn ==
  \A s \in Sessions :
    /\ \A i \in DOMAIN file[s] :
         file[s][i].of = s /\ ~file[s][i].trial /\ file[s][i].n = i /\ (i = 1 => file[s][i].key)
    /\ session[s].pc = "done" => Len(file[s]) = session[s].sent

(* An encoder is in one stream's hands at a time, and what the encoder asks *)
(* for is not forgotten: a stream that waits for a notice will get one.     *)
NoStreamStarves ==
  /\ \A s, r \in Sessions : session[s].streaming /\ session[r].streaming /\ s # r
                              => session[s].encoder # session[r].encoder
  /\ \A s \in Sessions :
       session[s].pc = "run" /\ session[s].need = 0 =>
         LET t == transform[session[s].encoder]
         IN  "need" \in Range(t.events) \/ t.room = 0
=============================================================================
