----------------------------- MODULE ScreenGrab -----------------------------
(***************************************************************************)
(* The pictures of a recording (win/wgc.rs, win/source.rs): Windows puts   *)
(* frames of a display into a pool and calls back on a thread of its own,  *)
(* which keeps the newest in a slot; the video thread takes it from there  *)
(* when a frame is due, copies the region out of it and makes a sample, of *)
(* the same picture again when nothing is new.  The display may change its *)
(* size, or go, at any time; a frame says how large the display was, and   *)
(* lies in a texture as large as the pool was.                             *)
(***************************************************************************)
EXTENDS Integers, Sequences

CONSTANTS
  Sizes,        (* of the display, width and height                        *)
  Region,       (* x, y, width and height asked for                        *)
  PoolBuffers,  (* POOL_BUFFERS                                            *)
  Blank,        (* what a new texture or buffer shows                      *)
  MaxPictures, MaxFrames  (* model bounds *)

GrabAssumption ==
  /\ Sizes \subseteq Nat \X Nat /\ Region \in [x : Int, y : Int, width : Nat, height : Nat]
  /\ PoolBuffers \in Nat \ {0} /\ Blank \notin Nat

VARIABLES
  display,    (* its size and the picture on it, a number that goes up     *)
  closed,     (* the display is gone, and the item knows                   *)
  pool,       (* frames the callback has not taken                         *)
  pool_size,  (* of its textures                                           *)
  callback,   (* the frame the callback holds between the pool and the slot *)
  slot, arrived,
  grab,       (* where the video thread is                                 *)
  path,       (* "unbound", "gpu" or "cpu"                                 *)
  crop,
  latest,     (* the picture in the texture, or in the buffer              *)
  nv12,       (* and in the converted buffer of the software path          *)
  samples,    (* made of it                                                *)
  newest      (* a ghost: the last picture taken out of the slot with some *)
              (* of the region on it, and all of that in its texture       *)

grabVars == <<display, closed, pool, pool_size, callback, slot, arrived, grab, path, crop,
              latest, nv12, samples, newest>>

NoFrame == [picture |-> Blank]
Lower(a, b) == IF a < b THEN a ELSE b
Upper(a, b) == IF a > b THEN a ELSE b
EvenDown(n) == n - (n % 2)

(* region.rs: the part of the region on the display, of whole pairs of pixels; none when it is too small. *)
CropBox(size) ==
  LET x == Upper(0, Region.x)
      y == Upper(0, Region.y)
  IN  [x |-> x, y |-> y,
       width |-> EvenDown(Upper(0, Lower(Region.x + Region.width, size[1]) - x)),
       height |-> EvenDown(Upper(0, Lower(Region.y + Region.height, size[2]) - y))]

StartOfGrab ==
  /\ display \in [size : Sizes, picture : {1}]
  /\ closed = FALSE
  /\ pool = <<>> /\ pool_size = display.size /\ callback = NoFrame /\ slot = NoFrame /\ arrived = FALSE
  /\ grab = "opening" /\ path = "unbound" /\ crop = CropBox(display.size)
  /\ latest = Blank /\ nv12 = Blank /\ samples = <<>> /\ newest = Blank

-----------------------------------------------------------------------------
(* Windows                                                                  *)

Frame(shown, texture) == [size |-> shown.size, picture |-> shown.picture, texture |-> texture]

(* Only a change on the screen makes a frame, and a full pool drops it. *)
Shows ==
  /\ display.picture < MaxPictures /\ ~closed
  /\ \E size \in Sizes : display' = [size |-> size, picture |-> display.picture + 1]
  /\ pool' = IF grab \in {"opening", "ended"} \/ Len(pool) >= PoolBuffers THEN pool
             ELSE Append(pool, Frame(display', pool_size))
  /\ UNCHANGED <<closed, pool_size, callback, slot, arrived, grab, path, crop, latest, nv12, samples, newest>>

Goes ==
  /\ ~closed /\ closed' = TRUE
  /\ UNCHANGED <<display, pool, pool_size, callback, slot, arrived, grab, path, crop, latest, nv12, samples, newest>>

-----------------------------------------------------------------------------
(* The callback: every frame of the pool in turn, the newest stays.         *)

TakesFromPool ==
  /\ pool # <<>> /\ callback = NoFrame
  /\ callback' = Head(pool) /\ pool' = Tail(pool)
  /\ UNCHANGED <<display, closed, pool_size, slot, arrived, grab, path, crop, latest, nv12, samples, newest>>

PutsIntoSlot ==
  /\ callback # NoFrame
  /\ slot' = callback /\ callback' = NoFrame /\ arrived' = TRUE
  /\ UNCHANGED <<display, closed, pool, pool_size, grab, path, crop, latest, nv12, samples, newest>>

-----------------------------------------------------------------------------
(* The session thread opens the capture and the sink                        *)

(* The display's item, kept from the recording before while it is open; a region off the display is refused. *)
StartCapture ==
  /\ grab = "opening"
  /\ \/ /\ ~closed /\ CropBox(display.size).width > 0 /\ CropBox(display.size).height > 0
        /\ crop' = CropBox(display.size) /\ pool_size' = display.size
        /\ grab' = "sink" /\ pool' = <<Frame(display, display.size)>>
     \/ grab' = "ended" /\ UNCHANGED <<crop, pool_size, pool>>
  /\ UNCHANGED <<display, closed, callback, slot, arrived, path, latest, nv12, samples, newest>>

(* The graphics card when it will, else the software encoder, or nothing. *)
OpenSink ==
  /\ grab = "sink"
  /\ \/ path' \in {"gpu", "cpu"} /\ grab' = "first"
     \/ grab' = "ended" /\ UNCHANGED path
  /\ UNCHANGED <<display, closed, pool, pool_size, callback, slot, arrived, crop, latest, nv12, samples, newest>>

SourceBox(content) ==
  [left |-> crop.x, top |-> crop.y, right |-> Lower(crop.x + crop.width, content[1]),
   bottom |-> Lower(crop.y + crop.height, content[2])]

Copies(box) == box.right > box.left /\ box.bottom > box.top
Inside(box, texture) == box.right <= texture[1] /\ box.bottom <= texture[2]

(* A frame of another size has the pool made anew: what waits in it may go, *)
(* and the frames to come have the new size.                                *)
Recreates(frame) ==
  /\ pool_size' = frame.size
  /\ pool' = pool \/ (frame.size # pool_size /\ pool' = <<>>)

(* refresh_gpu and refresh_cpu: a display that shrank leaves less of the    *)
(* region, or nothing.  A copy from outside the texture, after one that has *)
(* grown, is undefined: it is made, or not.                                 *)
Refresh ==
  IF slot = NoFrame THEN UNCHANGED <<slot, pool, pool_size, latest, newest>>
  ELSE LET box == SourceBox(slot.size)
           sure == Copies(box) /\ Inside(box, slot.texture)
       IN  /\ slot' = NoFrame /\ Recreates(slot)
           /\ newest' = IF sure THEN slot.picture ELSE newest
           /\ \/ Copies(box) /\ latest' = slot.picture
              \/ ~sure /\ latest' = latest

(* The software path converts its first picture whatever comes after it. *)
ConvertsFirst == nv12' = IF path = "cpu" THEN latest' ELSE nv12

(* Once there is a picture, the first one is taken for the video's size and for its preview. *)
FirstFrame ==
  /\ grab = "first" /\ arrived
  /\ \/ Refresh /\ ConvertsFirst /\ grab' = "frames"
     \/ grab' = "ended" /\ UNCHANGED <<slot, pool, pool_size, latest, nv12, newest>>
  /\ UNCHANGED <<display, closed, callback, arrived, path, crop, samples>>

(* Canceled, the display lost, or five seconds without a picture. *)
NoFirstFrame ==
  /\ grab = "first"
  /\ grab' = "ended"
  /\ UNCHANGED <<display, closed, pool, pool_size, callback, slot, arrived, path, crop, latest, nv12, samples, newest>>

(* A frame that is due: the newest picture, or the one before again. *)
NextFrame ==
  /\ grab = "frames" /\ Len(samples) < MaxFrames
  /\ Refresh
  /\ nv12' = IF path = "cpu" /\ slot # NoFrame THEN latest' ELSE nv12
  /\ samples' = Append(samples, IF path = "cpu" THEN nv12' ELSE latest')
  /\ UNCHANGED <<display, closed, callback, arrived, grab, path, crop>>

(* Drop takes the callback away, closes the session and the frame that waits. *)
Ends ==
  /\ grab = "frames"
  /\ grab' = "ended" /\ slot' = NoFrame /\ pool' = <<>>
  /\ UNCHANGED <<display, closed, pool_size, callback, arrived, path, crop, latest, nv12, samples, newest>>

GrabNext ==
  \/ Shows \/ Goes \/ TakesFromPool \/ PutsIntoSlot
  \/ StartCapture \/ OpenSink \/ FirstFrame \/ NoFirstFrame \/ NextFrame \/ Ends

GrabSpec == StartOfGrab /\ [][GrabNext]_grabVars

-----------------------------------------------------------------------------
(* Every variable has its type. *)
GrabTypeOK ==
  /\ display.size \in Sizes /\ pool_size \in Sizes
  /\ grab \in {"opening", "sink", "first", "frames", "ended"} /\ path \in {"unbound", "gpu", "cpu"}
  /\ {closed, arrived} \subseteq BOOLEAN
  /\ Len(pool) <= PoolBuffers

(* A sample never shows an older picture than the one before it, nor one    *)
(* older than the last that was taken off the screen with some of the       *)
(* region on it, be the screen still or moving, its size the same or not,   *)
(* and the sample of the graphics card or converted by the processor.       *)
SamplesAreTheScreen ==
  /\ \A i \in DOMAIN samples, j \in DOMAIN samples :
       j < i /\ samples[j] # Blank => samples[i] # Blank /\ samples[j] <= samples[i]
  /\ samples # <<>> /\ newest # Blank =>
       samples[Len(samples)] # Blank /\ newest <= samples[Len(samples)]
=============================================================================
