--------------------------- MODULE WindowCapture ---------------------------
(* A picture of one window or of a screen: the choice of the window and of  *)
(* the method (shotik-mcp/window_capture.rs), the list, PrintWindow on a    *)
(* thread of its own and Windows.Graphics.Capture                           *)
(* (shotik-win/window_source.rs, capture/wgc.rs), the one device            *)
(* (capture/d3d.rs), and the screen with its second opinion (capture.rs,    *)
(* capture/gdi.rs, capture/dxgi.rs).  The windows belong to other programs: *)
(* they close, hang, shrink, and their handles are used again.  One         *)
(* dimension stands for both.                                               *)
EXTENDS Integers, FiniteSets

CONSTANTS
  Handles, Titles, Calls,
  Most,       (* MOST: the threads inside PrintWindow *)
  MaxChanges  (* a bound: what happens to the windows *)

Nothing == "nothing"

CaptureAssumption ==
  IsFiniteSet(Calls) /\ Most \in Nat /\ Titles # {} /\ Nothing \notin Calls \cup Handles

VARIABLES
  windows,     (* handle -> what is there: a title, a size, a frame inside it, its state *)
  secure,      (* the secure desktop has the input *)
  changes,
  at, call,    (* each call: where it is, and what it knows *)
  threads,     (* each call's thread in print_window *)
  counter,     (* STUCK_OR_RUNNING *)
  devices, device_lock

vars == <<windows, secure, changes, at, call, threads, counter, devices, device_lock>>
world == <<windows, secure, changes>>
deviceVars == <<devices, device_lock>>

There == [title : Titles, size : 2..3, inset : 0..1, state : {"shown", "minimized", "hung"}]
Gone == [state |-> "gone"]
Alive(h) == windows[h] # Gone

TypeOK ==
  /\ windows \in [Handles -> There \cup {Gone}]
  /\ at \in [Calls -> {"list", "print", "wait", "print_over", "graphics", "device", "capture", "screen", "blit",
                       "opinion", "done"}]
  /\ threads \in [Calls -> {"none", "check", "inside", "crop", "over"}]
  /\ counter \in 0..Cardinality(Calls) /\ devices \in Nat
  /\ device_lock \in Calls \cup {Nothing}

Fresh == [target |-> Nothing, size |-> 0, area |-> <<0, 0>>, printed |-> Nothing, result |-> Nothing,
          method |-> Nothing]

Init ==
  /\ windows \in [Handles -> {w \in There : w.state = "shown" /\ w.size = 3 /\ w.inset = 1}]
  /\ secure = FALSE /\ changes = 0
  /\ at = [c \in Calls |-> "list"] /\ call = [c \in Calls |-> Fresh]
  /\ threads = [c \in Calls |-> "none"] /\ counter = 0
  /\ devices = 0 /\ device_lock = Nothing

-----------------------------------------------------------------------------
(* The desktop. *)

(* One that hangs, answers again, is minimized or shrinks; and the next to  *)
(* have the handle.                                                         *)
Altered(w) == {[w EXCEPT !.state = st] : st \in {"shown", "hung", "minimized"}} \cup {[w EXCEPT !.size = 2]}
Another == [title |-> CHOOSE t \in Titles : TRUE, size |-> 3, inset |-> 0, state |-> "shown"]

WindowChanges ==
  /\ changes < MaxChanges /\ changes' = changes + 1
  /\ \/ /\ \E h \in Handles :
             \E w \in {Gone, Another} \cup (IF Alive(h) THEN Altered(windows[h]) ELSE {}) :
               windows' = [windows EXCEPT ![h] = w]
        /\ UNCHANGED secure
     \/ secure' = ~secure /\ UNCHANGED windows
  /\ UNCHANGED <<at, call, threads, counter, deviceVars>>

-----------------------------------------------------------------------------
(* A call: capture_window of window_capture.rs. *)

Ends(c, what) == at' = [at EXCEPT ![c] = "done"] /\ call' = [call EXCEPT ![c].result = what]

StillMatches(h, query) == query = Nothing \/ windows[h].title = query

(* `describe` leaves out what is too small; the rest is chosen by its id or *)
(* by its title, and an id that does not go with the title is refused.      *)
List(c) ==
  /\ at[c] = "list"
  /\ \E query \in Titles \cup {Nothing}, id \in Handles \cup {Nothing} :
       LET Fits(h) == Alive(h) /\ (id = Nothing => windows[h].title = query) /\ (id # Nothing => h = id)
       IN  /\ query # Nothing \/ id # Nothing
           /\ IF \E h \in Handles : Fits(h) /\ StillMatches(h, query)
              THEN \E h \in Handles :
                     /\ Fits(h) /\ StillMatches(h, query)
                     /\ IF windows[h].state = "minimized" THEN Ends(c, "error")
                        ELSE /\ at' = [at EXCEPT ![c] = "print"]
                             /\ call' = [call EXCEPT ![c].target = h]
              ELSE Ends(c, "error")
  /\ UNCHANGED <<world, threads, counter, deviceVars>>

(* A call for a screen instead. *)
AskForScreen(c) ==
  /\ at[c] = "list" /\ at' = [at EXCEPT ![c] = "screen"]
  /\ UNCHANGED <<world, call, threads, counter, deviceVars>>

(* print_window_with_timeout: the counter first, then the thread, which may *)
(* not start.                                                               *)
Raised == counter + 1

AskToPrint(c) ==
  /\ at[c] = "print"
  /\ \/ /\ counter < Most
        /\ counter' = Raised
        /\ threads' = [threads EXCEPT ![c] = "check"]
        /\ at' = [at EXCEPT ![c] = "wait"]
     \/ at' = [at EXCEPT ![c] = "print_over"] /\ UNCHANGED <<counter, threads>>
  /\ UNCHANGED <<world, call, deviceVars>>

-----------------------------------------------------------------------------
(* The thread: print_window.  It sends its result and lowers the counter,   *)
(* whether or not anyone waits for it still.                                *)

Answers(c, what, area) ==
  /\ threads' = [threads EXCEPT ![c] = "over"]
  /\ counter' = counter - 1
  /\ call' = [call EXCEPT ![c].printed = IF at[c] = "wait" THEN what ELSE @, ![c].area = area]
  /\ UNCHANGED <<world, at, deviceVars>>

(* check_capturable, and a canvas of the size the window has now. *)
Check(c) ==
  /\ threads[c] = "check"
  /\ LET h == call[c].target IN
       IF windows[h].state \in {"gone", "minimized"} THEN Answers(c, "error", <<0, 0>>)
       ELSE /\ threads' = [threads EXCEPT ![c] = "inside"]
            /\ call' = [call EXCEPT ![c].size = windows[h].size]
            /\ UNCHANGED <<world, at, counter, deviceVars>>

(* PrintWindow waits for the window's own thread. *)
Inside(c) ==
  /\ threads[c] = "inside"
  /\ LET h == call[c].target IN
       \/ /\ windows[h].state = "shown"
          /\ threads' = [threads EXCEPT ![c] = "crop"]
          /\ UNCHANGED <<world, at, call, counter, deviceVars>>
       \/ windows[h].state # "hung" /\ Answers(c, "error", <<0, 0>>)

(* crop_to_frame, of the frame the window has by then. *)
CropToFrame(size, w) ==
  LET frame == w.size - 2 * w.inset
      off == w.inset
  IN  IF frame >= 1 /\ off + frame <= size /\ frame < size THEN <<off, frame>> ELSE <<0, size>>

CropPrinted(c) ==
  /\ threads[c] = "crop"
  /\ LET h == call[c].target IN
       \E what \in {"picture", "flat"} :
         Answers(c, what, IF Alive(h) THEN CropToFrame(call[c].size, windows[h]) ELSE <<0, call[c].size>>)

(* The answer, or the end of the wait. *)
PrintOver(c) ==
  /\ at[c] = "wait" /\ (threads[c] = "over" \/ threads[c] = "inside")
  /\ at' = [at EXCEPT ![c] = "print_over"]
  /\ UNCHANGED <<world, call, threads, counter, deviceVars>>

-----------------------------------------------------------------------------
(* The fallback, and the choice between the two. *)

Judge(c) ==
  /\ at[c] = "print_over"
  /\ IF call[c].printed = "picture"
     THEN /\ at' = [at EXCEPT ![c] = "done"]
          /\ call' = [call EXCEPT ![c].result = "picture", ![c].method = "print"]
     ELSE at' = [at EXCEPT ![c] = "graphics"] /\ UNCHANGED call
  /\ UNCHANGED <<world, threads, counter, deviceVars>>

(* A valid primary frame stays, though it is of one colour. *)
KeepsThePrimary(c) == IF call[c].printed = "flat" THEN "flat" ELSE "error"

(* Windows.Graphics.Capture fails for a window that is gone or minimized,   *)
(* and may for any.                                                         *)
Graphics(c) ==
  /\ at[c] = "graphics"
  /\ LET h == call[c].target IN
       \/ Ends(c, KeepsThePrimary(c))
       \/ windows[h].state \notin {"gone", "minimized"} /\ at' = [at EXCEPT ![c] = "device"] /\ UNCHANGED call
  /\ UNCHANGED <<world, threads, counter, deviceVars>>

(* shared_device: found or made, under the lock of the list. *)
LockDevices(c) ==
  /\ at[c] = "device" /\ device_lock = Nothing
  /\ device_lock' = c
  /\ UNCHANGED <<world, at, call, threads, counter, devices>>

MadeOnce == IF devices = 0 THEN 1 ELSE devices

HaveDevice(c) ==
  /\ at[c] = "device" /\ device_lock = c
  /\ device_lock' = Nothing
  /\ \/ devices' = MadeOnce /\ at' = [at EXCEPT ![c] = "capture"] /\ UNCHANGED call
     \/ devices = 0 /\ UNCHANGED devices /\ Ends(c, KeepsThePrimary(c))
  /\ UNCHANGED <<world, threads, counter>>

(* A frame within the time, of the pool's size or less: one that shows      *)
(* something replaces a flat one.                                           *)
Capture(c) ==
  /\ at[c] = "capture"
  /\ LET h == call[c].target IN
       \/ Ends(c, KeepsThePrimary(c))
       \/ /\ windows[h].state \notin {"gone", "minimized"}
          /\ \E what \in {"picture", "flat"} :
               IF what = "picture" \/ call[c].printed \notin {"picture", "flat"}
               THEN /\ at' = [at EXCEPT ![c] = "done"]
                    /\ call' = [call EXCEPT ![c].result = what, ![c].method = "graphics"]
               ELSE Ends(c, KeepsThePrimary(c))
  /\ UNCHANGED <<world, threads, counter, deviceVars>>

-----------------------------------------------------------------------------
(* A screen: grab_with_method. *)

EnsureInputDesktop(c) ==
  /\ at[c] = "screen"
  /\ IF secure THEN Ends(c, "error") ELSE at' = [at EXCEPT ![c] = "blit"] /\ UNCHANGED call
  /\ UNCHANGED <<world, threads, counter, deviceVars>>

Blit(c) ==
  /\ at[c] = "blit"
  /\ \/ Ends(c, "picture")
     \/ Ends(c, "error")
     \/ Ends(c, "flat")
     \/ at' = [at EXCEPT ![c] = "opinion"] /\ UNCHANGED call
  /\ UNCHANGED <<world, threads, counter, deviceVars>>

(* A flat frame under an exclusive full screen: what the duplication sees,  *)
(* if it sees something of the same size.                                   *)
SecondOpinion(c) ==
  /\ at[c] = "opinion"
  /\ devices' = MadeOnce
  /\ Ends(c, "flat") \/ Ends(c, "picture")
  /\ UNCHANGED <<world, threads, counter, device_lock>>

Next ==
  \/ WindowChanges
  \/ \E c \in Calls :
       \/ List(c) \/ AskForScreen(c) \/ AskToPrint(c) \/ Check(c) \/ Inside(c) \/ CropPrinted(c) \/ PrintOver(c)
       \/ Judge(c) \/ Graphics(c) \/ LockDevices(c) \/ HaveDevice(c) \/ Capture(c)
       \/ EnsureInputDesktop(c) \/ Blit(c) \/ SecondOpinion(c)

Spec == Init /\ [][Next]_vars

-----------------------------------------------------------------------------
Within == {c \in Calls : threads[c] \in {"check", "inside", "crop"}}

(* However many calls time out on windows that hang, no more than MOST      *)
(* threads wait for them, and each gives its place back                     *)
(* (window_source.rs:224-250).                                              *)
StuckThreadsAreCounted == Cardinality(Within) <= Most /\ counter = Cardinality(Within)

(* What is cut out lies inside what was printed, though the window has      *)
(* another size by then.                                                    *)
CropStaysInside ==
  \A c \in Calls : threads[c] = "over" /\ call[c].printed \in {"picture", "flat"} =>
    call[c].area[1] + call[c].area[2] <= call[c].size /\ call[c].area[2] >= 1

(* No call has a device of its own, at whatever moment they ask: one that   *)
(* has captured is never released without a leak (capture/d3d.rs:3-10).     *)
OneDevice == devices <= 1

(* A picture that was there is not lost to the attempt at a better one.     *)
NothingIsLost ==
  \A c \in Calls : at[c] = "done" /\ call[c].printed \in {"picture", "flat"} => call[c].result # "error"
=============================================================================
