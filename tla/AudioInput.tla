----------------------------- MODULE AudioInput -----------------------------
(***************************************************************************)
(* An audio input of a recording (win/wasapi.rs, resample.rs): a device's  *)
(* packets, in its own format and rate, become stereo at the session's     *)
(* rate, each piece with the time it was captured at.  A loopback stream   *)
(* whose device goes away follows to the next one; a microphone does not.  *)
(*                                                                         *)
(* A frame of the resampler's history is the packet it came in and the     *)
(* time it was captured at; what the filter computes from it is left out.  *)
(***************************************************************************)
EXTENDS Integers, Sequences, FiniteSets

CONSTANTS
  Endpoints,      (* "loopback", the "default" or an "exact" microphone    *)
  Rates,          (* of the devices                                        *)
  SampleRate,     (* of the session                                        *)
  TicksPerSec, Break, Plausible, ReopenInterval, ReopenGiveUp,  (* in ticks *)
  ZeroCrossings, MaxPhases,
  PacketSizes, MaxPackets, MaxWaiting, MaxLosses, MaxNow  (* model bounds *)

InputAssumption ==
  /\ Rates \subseteq Nat \ {0} /\ TicksPerSec \in Nat /\ Break \in Nat /\ ReopenInterval \in Nat
  /\ PacketSizes \subseteq Nat

VARIABLES
  endpoint,   (* "loopback", "default" or "exact" microphone               *)
  device,     (* the rate of what it names, 0 when there is nothing        *)
  waiting,    (* the packets the device holds                              *)
  stream,     (* the open stream, or NoStream                              *)
  lost_since, next_retry,
  input_state,      (* "open", or how it ended: "refused", "lost"          *)
  delivered,  (* the last delivery                                         *)
  now, packets, losses

inputVars == <<endpoint, device, waiting, stream, lost_since, next_retry, input_state, delivered,
               now, packets, losses>>

NoStream == [open |-> FALSE]
NoTime == -1000
Nowhere == [at |-> 0, from |-> 0, spans |-> 0]

(* gcd: Euclid's algorithm. *)
Gcd[a \in Nat, b \in Nat] == IF b = 0 THEN a ELSE Gcd[b, a % b]

Rounded(a, b) == (2 * a + b) \div (2 * b)
Distance(a, b) == IF a > b THEN a - b ELSE b - a
AtMost(a, b) == IF a < b THEN a ELSE b

-----------------------------------------------------------------------------
(* Resampler                                                                *)

StepNum(rate) == rate \div Gcd[rate, SampleRate]
StepDen(rate) == SampleRate \div Gcd[rate, SampleRate]
Phases(rate) == AtMost(StepDen(rate), MaxPhases)
(* The reach grows when the rate goes down. *)
Reach(rate) ==
  IF rate <= SampleRate THEN ZeroCrossings
  ELSE (ZeroCrossings * rate + SampleRate - 1) \div SampleRate

Quiet == [at |-> NoTime, packet |-> 0]

Reset(rate) ==
  [history |-> [i \in 1 .. Reach(rate) - 1 |-> Quiet], base |-> 1 - Reach(rate),
   index |-> 0, fraction |-> 0, made |-> 0]

End(r) == r.base + Len(r.history)

OneFrame(r, num, den) ==
  LET fraction == r.fraction + (num % den)
      carried == IF fraction >= den THEN 1 ELSE 0
  IN  [r EXCEPT !.index = @ + (num \div den) + carried,
                !.fraction = fraction - carried * den,
                !.made = @ + 1]

(* The output frames that the input reaches; a frame of the input makes SampleRate / rate of them. *)
Produce(r, rate) ==
  LET num == StepNum(rate)
      den == StepDen(rate)
      last == End(r) - Reach(rate)
      made[n \in Nat] ==
        IF n = 0 THEN r
        ELSE LET q == made[n - 1] IN IF q.index < last THEN OneFrame(q, num, den) ELSE q
  IN  made[((Len(r.history) * SampleRate) \div rate) + 1]

Forget(r, rate) ==
  LET keep_from == r.index - Reach(rate) + 1
      gone == IF keep_from > r.base THEN AtMost(keep_from - r.base, Len(r.history)) ELSE 0
  IN  [r EXCEPT !.history = SubSeq(@, gone + 1, Len(@)), !.base = @ + gone]

Extended(r, frames) == [r EXCEPT !.history = @ \o frames]

-----------------------------------------------------------------------------
(* Converter                                                                *)

NewConverter(rate) ==
  [open |-> TRUE, rate |-> rate, service |-> FALSE, expected |-> NoTime, resampler |-> Reset(rate)]

Continued(s, at) ==
  IF s.expected # NoTime /\ Distance(at, s.expected) > Break THEN Reset(s.rate) ELSE s.resampler

(* The frames of a packet; a silent one has as many. *)
FramesOf(packet, at, rate) ==
  [k \in 1 .. packet.frames |->
    [at |-> at + (((k - 1) * TicksPerSec) \div rate), packet |-> packet.number]]

Duration(packet, rate) == (packet.frames * TicksPerSec) \div rate

(* The stream after the packet, and the piece it delivered. *)
Push(s, packet, at) ==
  LET before == Continued(s, at)
      with == Extended(before, FramesOf(packet, at, s.rate))
      made == Produce(with, s.rate)
      num == (before.index - End(before)) * StepDen(s.rate) + before.fraction
      first == with.history[before.index - before.base + 1]
  IN  [stream |-> [s EXCEPT !.expected = at + Duration(packet, s.rate), !.resampler = Forget(made, s.rate)],
       piece |->
         IF s.rate = SampleRate
         THEN [at |-> at, from |-> at, spans |-> 0]
         ELSE IF made.made = before.made THEN Nowhere
         ELSE [at |-> at + Rounded(num * TicksPerSec, StepDen(s.rate) * s.rate),
               from |-> first.at + Rounded(before.fraction * TicksPerSec, StepDen(s.rate) * s.rate),
               spans |-> packet.number - first.packet]]

-----------------------------------------------------------------------------
(* The device's format                                                      *)

Encoding(tag, bits) ==
  IF tag = "float" /\ bits = 32 THEN "f32"
  ELSE IF tag = "pcm" /\ bits \in {16, 24, 32} THEN "int" ELSE "unsupported"

SampleBytes(f) == f.bits \div 8

(* What the bytes of a wave format say, and whether they are believed.  An extensible one names its plain tag. *)
Accepted(f) ==
  /\ f.bytes >= 16
  /\ f.tag = "extensible" => f.bytes >= 40
  /\ Encoding(IF f.tag = "extensible" THEN f.sub ELSE f.tag, f.bits) # "unsupported"
  /\ f.channels # 0 /\ f.rate # 0
  /\ f.block_align >= f.channels * SampleBytes(f)

MaskOf(f) == IF f.tag = "extensible" THEN f.mask ELSE {}

(* In the order of their bits. *)
Speakers == <<"FL", "FR", "FC", "LFE", "BL", "BR", "FLC", "FRC", "BC", "SL", "SR">>

DefaultMask(channels) ==
  CASE channels = 4 -> {"FL", "FR", "BL", "BR"}
    [] channels = 6 -> {"FL", "FR", "FC", "LFE", "SL", "SR"}
    [] channels = 8 -> {"FL", "FR", "FC", "LFE", "BL", "BR", "SL", "SR"}
    [] OTHER -> {}

(* How much of a speaker goes left and right: 10 is all of it, 7 a side's, 5 half. *)
GainOf(speaker) ==
  CASE speaker = "FL" -> <<10, 0>>
    [] speaker = "FR" -> <<0, 10>>
    [] speaker = "FC" -> <<7, 7>>
    [] speaker = "LFE" -> <<0, 0>>
    [] speaker \in {"BL", "SL", "FLC"} -> <<7, 0>>
    [] speaker \in {"BR", "SR", "FRC"} -> <<0, 7>>
    [] OTHER -> <<5, 5>>

StereoGains(f) ==
  LET mask == IF MaskOf(f) # {} THEN MaskOf(f) ELSE DefaultMask(f.channels)
      named == SelectSeq(Speakers, LAMBDA s : s \in mask)
  IN  CASE f.channels = 1 -> << <<10, 10>> >>
        [] f.channels = 2 -> << <<10, 0>>, <<0, 10>> >>
        [] OTHER -> [i \in 1 .. f.channels |->
                      IF i <= Len(named) THEN GainOf(named[i])
                      ELSE IF i % 2 = 1 THEN <<7, 0>> ELSE <<0, 7>>]

(* The bytes of a frame that a packet's conversion reads. *)
BytesRead(f) ==
  UNION {((i - 1) * SampleBytes(f)) .. (i * SampleBytes(f) - 1) :
           i \in {j \in 1 .. f.channels : StereoGains(f)[j] # <<0, 0>>}}

FormatInputs ==
  [tag : {"pcm", "extensible"}, sub : {"pcm", "float", "adpcm"}, bits : {8, 16, 24, 32},
   bytes : {10, 18, 40}, channels : 0 .. 9, rate : {0, 48000}, block_align : {0, 2, 8, 16, 36},
   mask : {{}, {"FL", "FR", "LFE"}, {"FL", "FR", "BC", "SL", "SR"}}]

-----------------------------------------------------------------------------
(* WasapiInput                                                              *)

StartOfInput ==
  /\ endpoint \in Endpoints
  /\ device \in Rates \cup {0}
  /\ waiting = <<>> /\ lost_since = 0 /\ next_retry = 0 /\ delivered = Nowhere
  /\ now = 0 /\ packets = 0 /\ losses = 0
  /\ \/ device # 0 /\ stream = NewConverter(device) /\ input_state = "open"
     \/ stream = NoStream /\ input_state = "refused"

(* The device gets frames captured since the last packet, or, after a gap, since then; now and then without a stamp   *)
(* that is worth anything.                                                                                            *)
Captures ==
  /\ stream.open /\ packets < MaxPackets /\ Len(waiting) < MaxWaiting
  /\ \E frames \in PacketSizes, late \in {0, Break, Break + 1}, stamped \in BOOLEAN :
       LET packet == [frames |-> frames, number |-> packets + 1, stamped |-> stamped, at |-> now + late]
       IN  /\ waiting' = Append(waiting, packet)
           /\ now' = now + late + Duration(packet, stream.rate)
  /\ packets' = packets + 1
  /\ UNCHANGED <<endpoint, device, stream, lost_since, next_retry, input_state, delivered, losses>>

(* The stamp, when it is one; otherwise the packet ended now. *)
StampOf(packet, rate) ==
  IF packet.stamped /\ Distance(packet.at, now) < Plausible THEN packet.at
  ELSE now - Duration(packet, rate)

(* A microphone is never replaced by another. *)
StreamFailed ==
  /\ stream' = NoStream /\ waiting' = <<>>
  /\ IF endpoint = "loopback"
     THEN /\ lost_since' = now /\ next_retry' = now + ReopenInterval
          /\ UNCHANGED input_state
     ELSE input_state' = "lost" /\ UNCHANGED <<lost_since, next_retry>>

(* A round of the loop of `read`: what it delivered stays delivered when the buffer cannot be given back. *)
Read ==
  /\ stream.open /\ waiting # <<>>
  /\ LET pushed == Push(stream, Head(waiting), StampOf(Head(waiting), stream.rate))
     IN  /\ delivered' = pushed.piece
         /\ \/ /\ stream' = [pushed.stream EXCEPT !.service = TRUE]
               /\ waiting' = Tail(waiting)
               /\ UNCHANGED <<lost_since, next_retry, input_state>>
            \/ device # stream.rate /\ StreamFailed
  /\ UNCHANGED <<endpoint, device, now, packets, losses>>

(* Getting the service, the size of the next packet or its buffer fails. *)
ReadFails ==
  /\ stream.open /\ device # stream.rate
  /\ StreamFailed
  /\ delivered' = Nowhere
  /\ UNCHANGED <<endpoint, device, now, packets, losses>>

(* The device is unplugged, changes its format, or another one becomes the default. *)
DeviceChanges ==
  /\ losses < MaxLosses /\ losses' = losses + 1
  /\ device' \in (Rates \cup {0}) \ {device}
  /\ UNCHANGED <<endpoint, waiting, stream, lost_since, next_retry, input_state, delivered, now, packets>>

(* Opening can fail at any of its calls, with a device there as well. *)
TryReopen ==
  /\ input_state = "open" /\ ~stream.open
  /\ now >= next_retry
  /\ next_retry' = now + ReopenInterval
  /\ \/ device # 0 /\ stream' = NewConverter(device) /\ UNCHANGED input_state
     \/ UNCHANGED stream
        /\ input_state' = IF now - lost_since > ReopenGiveUp THEN "lost" ELSE input_state
  /\ delivered' = Nowhere
  /\ UNCHANGED <<endpoint, device, waiting, lost_since, now, packets, losses>>

TimePasses ==
  /\ ~stream.open /\ input_state = "open" /\ now < MaxNow
  /\ now' = now + ReopenInterval
  /\ UNCHANGED <<endpoint, device, waiting, stream, lost_since, next_retry, input_state, delivered, packets, losses>>

InputNext == Captures \/ Read \/ ReadFails \/ DeviceChanges \/ TryReopen \/ TimePasses

-----------------------------------------------------------------------------
(* Every variable has its type. *)
InputTypeOK ==
  /\ endpoint \in Endpoints
  /\ device \in Rates \cup {0}
  /\ input_state \in {"open", "refused", "lost"}
  /\ stream.open => stream.rate \in Rates /\ input_state = "open"
  /\ {lost_since, next_retry, packets, losses} \subseteq Nat /\ now \in Nat

(* Output frame n lies at input position n * in / out, however long the     *)
(* stretch is; the history holds all that the next frame reaches back to,   *)
(* and its phase is one of the table.                                       *)
StepIsExact ==
  stream.open =>
    LET r == stream.resampler
    IN  /\ r.index * StepDen(stream.rate) + r.fraction = r.made * StepNum(stream.rate)
        /\ r.base <= r.index - Reach(stream.rate) + 1
        /\ r.index + Reach(stream.rate) >= End(r)
        /\ (r.fraction * Phases(stream.rate)) \div StepDen(stream.rate) < Phases(stream.rate)

(* Of a format that is believed no sample lies outside its frame, and no    *)
(* named pair of speakers makes one side louder than the other.             *)
FormatsAreBelieved(f) ==
  Accepted(f) =>
    /\ BytesRead(f) \subseteq 0 .. f.block_align - 1
    /\ f.channels % 2 = 0 /\ MaskOf(f) = {} =>
         LET sum[i \in 0 .. f.channels] ==
               IF i = 0 THEN <<0, 0>>
               ELSE <<sum[i-1][1] + StereoGains(f)[i][1], sum[i-1][2] + StereoGains(f)[i][2]>>
         IN  sum[f.channels][1] = sum[f.channels][2]

(* A piece is delivered with the time its first frame was captured at, but  *)
(* for what the stamps between the two allow: a gap is never smeared over.  *)
PiecesKeepTheirTime ==
  Distance(delivered.at, delivered.from) <= delivered.spans * (Break + 1) + 1
=============================================================================
