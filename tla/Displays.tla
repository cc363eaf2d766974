------------------------------ MODULE Displays ------------------------------
(* Monitors in physical pixels and in DIP.  dip_layout.rs places them as    *)
(* Chromium does, and displays.rs answers every question from a fresh look  *)
(* at the system; the small windows place them by a layout of their own     *)
(* (monitor_layout of runtime.rs).                                          *)
(*                                                                          *)
(* A scale is a number of halves.  Quotients are exact: what f32 rounds     *)
(* differently is left out.                                                 *)
EXTENDS Integers, Sequences, FiniteSets, SequencesExt

CONSTANTS
  Sizes,    (* what the monitors measure in pixels: <<width, height>>       *)
  Corners,  (* where monitors other than the primary lie: <<x, y>>          *)
  Scales,   (* in halves: 3 stands for 150 %                                *)
  Taskbar,  (* the pixels a taskbar takes at the bottom of each             *)
  Monitors, (* a bound: how many there are at most                          *)
  MaxChanges

DisplaysAssumption ==
  /\ Sizes \subseteq (Nat \ {0}) \X (Nat \ {0}) /\ Corners \subseteq Int \X Int /\ Scales \subseteq Nat \ {0}
  /\ Taskbar \in Nat /\ Monitors \in Nat /\ MaxChanges \in Nat

VARIABLES
  monitors, (* what the system reports now, as a sequence                   *)
  attempts, (* looks that found no monitor at the origin                    *)
  held,     (* the Snapshot of the last answer, whose displays somebody has *)
  changes

vars == <<monitors, attempts, held, changes>>

Least(S) == CHOOSE x \in S : \A y \in S : x <= y
Greatest(S) == CHOOSE x \in S : \A y \in S : x >= y
Distance(a) == IF a < 0 THEN -a ELSE a
Ceil(a, b) == -((-a) \div b)
Round(a, b) == IF a < 0 THEN -((-2 * a + b) \div (2 * b)) ELSE (2 * a + b) \div (2 * b)

Rect(x, y, w, h) == [x |-> x, y |-> y, w |-> w, h |-> h]
Right(r) == r.x + r.w
Bottom(r) == r.y + r.h
Overlap(a, b) == a.x < Right(b) /\ b.x < Right(a) /\ a.y < Bottom(b) /\ b.y < Bottom(a)
Holds(r, p) == p[1] \in r.x .. Right(r) - 1 /\ p[2] \in r.y .. Bottom(r) - 1
Moved(r, x, y) == [r EXCEPT !.x = x, !.y = y]

(* The first of those for which f is least. *)
FirstLeast(S, f(_)) == Least({i \in S : \A j \in S : f(i) <= f(j)})

-----------------------------------------------------------------------------
(* dip_layout.rs *)

ScaleToEnclosingRect(r, s) ==
  LET x == (2 * r.x) \div s
      y == (2 * r.y) \div s
  IN  Rect(x, y, IF r.w = 0 THEN 0 ELSE Ceil(2 * Right(r), s) - x,
                 IF r.h = 0 THEN 0 ELSE Ceil(2 * Bottom(r), s) - y)

(* Two rectangles next to each other meet in x: the left of one is the      *)
(* right of the other.                                                      *)
MeetInX(a, b) == Greatest({a.x, b.x}) = Least({Right(a), Right(b)})
MeetInY(a, b) == Greatest({a.y, b.y}) = Least({Bottom(a), Bottom(b)})

(* A corner is enough. *)
Touch(a, b) ==
  \/ MeetInX(a, b) /\ a.y <= Bottom(b) /\ b.y <= Bottom(a)
  \/ MeetInY(a, b) /\ a.x <= Right(b) /\ b.x <= Right(a)

Position(parent, current) ==
  CASE MeetInX(parent, current) /\ MeetInY(parent, current) ->
         IF Bottom(parent) = Greatest({parent.y, current.y}) THEN "bottom"
         ELSE IF parent.x = Greatest({parent.x, current.x}) THEN "left" ELSE "top"
    [] MeetInX(parent, current) /\ ~MeetInY(parent, current)
         /\ parent.y <= Bottom(current) /\ current.y <= Bottom(parent) ->
         IF parent.x = Greatest({parent.x, current.x}) THEN "left" ELSE "right"
    [] OTHER -> IF parent.y = Greatest({parent.y, current.y}) THEN "top" ELSE "bottom"

(* The offset along the shared edge, from its end where that is nearer to   *)
(* the truth, in the scale of the longer of the two.                        *)
Placement(parent, current) ==
  LET side == Position(parent.physical, current.physical)
      across == side \in {"top", "bottom"}
      length == IF across THEN parent.physical.w ELSE parent.physical.h
      begin == IF across THEN current.physical.x - parent.physical.x
                         ELSE current.physical.y - parent.physical.y
      end == begin + (IF across THEN current.physical.w ELSE current.physical.h)
      at(offset, from_end) == [position |-> side, offset |-> offset, from_end |-> from_end]
  IN  CASE length = end -> at(0, TRUE)
        [] length # end /\ begin \in 0 .. length -> at((2 * begin) \div parent.scale, FALSE)
        [] length # end /\ begin \notin 0 .. length /\ end \in 0 .. length ->
             at((2 * (length - end)) \div parent.scale, TRUE)
        [] OTHER -> at((2 * begin) \div current.scale, FALSE)

(* The work area moves with its monitor. *)
MoveKeepingInsets(d, x, y) ==
  [bounds |-> Moved(d.bounds, x, y),
   work |-> Moved(d.work, d.work.x + (x - d.bounds.x), d.work.y + (y - d.bounds.y))]

ApplyPlacement(p, parent, target) ==
  LET across == p.position \in {"top", "bottom"}
      length == IF across THEN parent.w ELSE parent.h
      size == target.bounds
      own == IF across THEN size.w ELSE size.h
      wanted == IF p.from_end THEN length - p.offset - own ELSE p.offset
      offset == Greatest({Least({wanted, length}), -own})
  IN  CASE p.position = "top" -> MoveKeepingInsets(target, parent.x + offset, parent.y - size.h)
        [] p.position = "bottom" -> MoveKeepingInsets(target, parent.x + offset, parent.y + parent.h)
        [] p.position = "left" -> MoveKeepingInsets(target, parent.x - size.w, parent.y + offset)
        [] p.position = "right" -> MoveKeepingInsets(target, parent.x + parent.w, parent.y + offset)

(* std::partition, which swaps from both ends: what touches the parent is   *)
(* taken, in the order that leaves.  `cut` is 0 until the ends have met.    *)
SwapOnce(touching, s) ==
  LET taken == {i \in s.first .. s.last - 1 : s.list[i] \in touching}
      f == Least(taken)
      kept == {i \in f + 1 .. s.last - 1 : s.list[i] \notin touching}
      l == Greatest(kept)
  IN  CASE s.cut # 0 -> s
        [] s.cut = 0 /\ taken = {} -> [s EXCEPT !.cut = s.last]
        [] s.cut = 0 /\ taken # {} /\ kept = {} -> [s EXCEPT !.cut = f]
        [] OTHER -> [s EXCEPT !.list[f] = s.list[l], !.list[l] = s.list[f], !.first = f + 1, !.last = l]

TakeTouching(ms, parent, remaining) ==
  LET touching == {i \in DOMAIN ms : Touch(ms[parent].physical, ms[i].physical)}
      all == [list |-> remaining, first |-> 1, last |-> Len(remaining) + 1, cut |-> 0]
      end == FoldLeft(LAMBDA s, k : SwapOnce(touching, s), all, [k \in 1 .. Len(remaining) + 1 |-> k])
  IN  [kept |-> SubSeq(end.list, 1, end.cut - 1), taken |-> SubSeq(end.list, end.cut, Len(remaining))]

(* One parent is taken from the stack, and its children put there. *)
AttachChildren(ms, t) ==
  LET parent == Last(t.stack)
      parts == TakeTouching(ms, parent, t.remaining)
      children == ToSet(parts.taken)
  IN  IF t.stack = <<>> THEN t
      ELSE [stack |-> Front(t.stack) \o parts.taken, remaining |-> parts.kept,
            parent_of |-> [i \in DOMAIN ms |-> IF i \in children THEN parent ELSE t.parent_of[i]],
            rects |-> [i \in DOMAIN ms |->
                        IF i \notin children THEN t.rects[i]
                        ELSE ApplyPlacement(Placement(ms[parent], ms[i]), t.rects[parent].bounds, t.rects[i])]]

(* The tree of parents, depth first: each monitor is a parent once at most. *)
Attach(ms, primary, scaled) ==
  FoldLeft(LAMBDA t, n : AttachChildren(ms, t),
           [stack |-> <<primary>>, remaining |-> SelectSeq([i \in DOMAIN ms |-> i], LAMBDA i : i # primary),
            parent_of |-> [i \in DOMAIN ms |-> 0], rects |-> scaled],
           [n \in DOMAIN ms |-> n])

(* What nothing reaches comes last. *)
MaxDepth == 100

TreeDepth(i, primary, parent_of) ==
  LET depth[j \in DOMAIN parent_of] ==
        IF j = primary THEN 0 ELSE IF parent_of[j] = 0 THEN MaxDepth ELSE depth[parent_of[j]] + 1
  IN  depth[i]

(* A slip: what lies left of the origin or above it is pushed to the right  *)
(* or down, too.                                                            *)
PushedOneWay(source, target) ==
  LET s == source.bounds
      t == target.bounds
      dx == Right(s) - t.x
      dy == Bottom(s) - t.y
  IN  IF ~Overlap(s, t) THEN target
      ELSE IF Distance(dx) <= Distance(dy) THEN MoveKeepingInsets(target, t.x + dx, t.y)
      ELSE MoveKeepingInsets(target, t.x, t.y + dy)

(* Away from the origin, along the axis that is shorter. *)
PushedOff(source, target) ==
  LET s == source.bounds
      t == target.bounds
      dx == IF t.x >= 0 THEN Right(s) - t.x ELSE -(Right(t) - s.x)
      dy == IF t.y >= 0 THEN Bottom(s) - t.y ELSE -(Bottom(t) - s.y)
  IN  IF ~Overlap(s, t) THEN target
      ELSE IF Distance(dx) <= Distance(dy) THEN MoveKeepingInsets(target, t.x + dx, t.y)
      ELSE MoveKeepingInsets(target, t.x, t.y + dy)

DeIntersect(primary, parent_of, rects) ==
  LET far(r) == r.x * r.x + r.y * r.y
      key(i) == <<TreeDepth(i, primary, parent_of), far(rects[i].bounds), i>>
      before(a, b) == \E k \in 1 .. 3 : a[k] < b[k] /\ \A j \in 1 .. k - 1 : a[j] = b[j]
      order == SetToSortSeq(DOMAIN rects, LAMBDA i, j : before(key(i), key(j)))
      pairs == [n \in 2 .. Len(order) |-> SubSeq(order, 1, n - 1)]
      off(rs, n) == [rs EXCEPT ![order[n]] = FoldLeft(LAMBDA t, s : PushedOff(rs[s], t), rs[order[n]], pairs[n])]
  IN  FoldLeft(off, rects, [n \in 1 .. Len(order) - 1 |-> n + 1])

(* Nothing when no monitor is at the origin. *)
Layout(ms) ==
  LET origin == {i \in DOMAIN ms : ms[i].physical.x = 0 /\ ms[i].physical.y = 0}
      primary == Least(origin)
      scaled == [i \in DOMAIN ms |-> [bounds |-> ScaleToEnclosingRect(ms[i].physical, ms[i].scale),
                                      work |-> ScaleToEnclosingRect(ms[i].work, ms[i].scale)]]
      tree == Attach(ms, primary, scaled)
  IN  IF origin = {} THEN <<>>
      ELSE IF \A i \in DOMAIN ms : tree.parent_of[i] = 0 THEN tree.rects
      ELSE DeIntersect(primary, tree.parent_of, tree.rects)

(* ScreenToDIPPoint, floored as its callers do, DIPToScreenPoint, and       *)
(* ScreenToDIPRect, with a size that encloses.                              *)
PhysToDip(p, m, dip) ==
  <<dip.x + (2 * (p[1] - m.physical.x)) \div m.scale, dip.y + (2 * (p[2] - m.physical.y)) \div m.scale>>
DipToPhys(p, m, dip) ==
  <<m.physical.x + ((p[1] - dip.x) * m.scale) \div 2, m.physical.y + ((p[2] - dip.y) * m.scale) \div 2>>
PhysRectToDip(r, m, dip) ==
  LET at == PhysToDip(<<r.x, r.y>>, m, dip)
      size == ScaleToEnclosingRect(r, m.scale)
  IN  Rect(at[1], at[2], size.w, size.h)

(* How far a range of pixels is from another: 0 when they share one. *)
Apart(low, length, l, n) == Greatest({low - (l + n - 1), l - (low + length - 1), 0})

SquaredDistance(r, other) ==
  LET dx == Apart(r.x, r.w, other.x, other.w)
      dy == Apart(r.y, r.h, other.y, other.h)
  IN  dx * dx + dy * dy

(* MonitorFromPoint: the first of the nearest. *)
NearestPhysical(ms, p) ==
  FirstLeast(DOMAIN ms, LAMBDA i : SquaredDistance(ms[i].physical, Rect(p[1], p[2], 1, 1)))

(* MonitorFromRect: the first of those it shares most with, else of the nearest. *)
NearestPhysicalRect(ms, r) ==
  LET width(i) == Least({Right(ms[i].physical), Right(r)}) - Greatest({ms[i].physical.x, r.x})
      height(i) == Least({Bottom(ms[i].physical), Bottom(r)}) - Greatest({ms[i].physical.y, r.y})
      sharing == {i \in DOMAIN ms : Overlap(ms[i].physical, r)}
  IN  IF sharing # {} THEN FirstLeast(sharing, LAMBDA i : -(width(i) * height(i)))
      ELSE FirstLeast(DOMAIN ms, LAMBDA i : SquaredDistance(ms[i].physical, r))

(* The monitor a DIP point is on, else the primary. *)
DipPointOwner(rects, p) ==
  LET on == {i \in DOMAIN rects : Holds(rects[i].bounds, p)}
      primary == {i \in DOMAIN rects : rects[i].bounds.x = 0 /\ rects[i].bounds.y = 0}
  IN  IF on # {} THEN Least(on) ELSE Greatest(primary)

NearestDip(ms, rects, p) ==
  LET owner == DipPointOwner(rects, p)
  IN  NearestPhysical(ms, DipToPhys(p, ms[owner], rects[owner].bounds))

-----------------------------------------------------------------------------
(* runtime.rs: the layout for the small windows, that knows edges only.     *)

RoundedSize(m) == [w |-> Round(2 * m.physical.w, m.scale), h |-> Round(2 * m.physical.h, m.scale)]

Beside(c, b) == c.y < Bottom(b) /\ b.y < Bottom(c)
AboveOrBelow(c, b) == c.x < Right(b) /\ b.x < Right(c)

Abuts(c, b) ==
  \/ (c.x = Right(b) \/ Right(c) = b.x) /\ Beside(c, b)
  \/ (c.y = Bottom(b) \/ Bottom(c) = b.y) /\ AboveOrBelow(c, b)

(* Where a child of `parent`, which lies at p, goes. *)
OriginAt(child, parent, p) ==
  LET c == child.physical
      b == parent.physical
      size == RoundedSize(child)
      dx == (2 * (c.x - b.x)) \div parent.scale
      dy == (2 * (c.y - b.y)) \div parent.scale
  IN  CASE c.x = Right(b) /\ Beside(c, b) -> Rect(p.x + p.w, p.y + dy, size.w, size.h)
        [] Right(c) = b.x /\ Beside(c, b) -> Rect(p.x - size.w, p.y + dy, size.w, size.h)
        [] c.y = Bottom(b) /\ AboveOrBelow(c, b) -> Rect(p.x + dx, p.y + p.h, size.w, size.h)
        [] OTHER -> Rect(p.x + dx, p.y - size.h, size.w, size.h)

(* One round: each child goes beside the first placed monitor it abuts. *)
PlaceRound(ms, placed) ==
  LET place(at, i) ==
        LET parents == {j \in DOMAIN at : Abuts(ms[i].physical, ms[j].physical)} IN
        IF i \in DOMAIN at \/ parents = {} THEN at
        ELSE LET j == Least(parents) IN
             [k \in DOMAIN at \cup {i} |-> IF k = i THEN OriginAt(ms[i], ms[j], at[j]) ELSE at[k]]
  IN  FoldLeft(place, placed, [i \in DOMAIN ms |-> i])

SmallWork(m, bounds) ==
  Rect(bounds.x + Round(2 * (m.work.x - m.physical.x), m.scale),
       bounds.y + Round(2 * (m.work.y - m.physical.y), m.scale),
       Round(2 * m.work.w, m.scale), Round(2 * m.work.h, m.scale))

(* monitor_layout, nothing when it fails: with no primary, or with a monitor *)
(* that no chain of shared edges leads to.  There are as many rounds as      *)
(* monitors but one.                                                         *)
SmallDisplays(ms) ==
  LET primary == {i \in DOMAIN ms : ms[i].physical.x = 0 /\ ms[i].physical.y = 0}
      first == Least(primary)
      size == RoundedSize(ms[first])
      placed == FoldLeft(LAMBDA at, n : PlaceRound(ms, at), [i \in {first} |-> Rect(0, 0, size.w, size.h)],
                         Tail([n \in DOMAIN ms |-> n]))
  IN  IF primary = {} \/ DOMAIN placed # DOMAIN ms THEN <<>>
      ELSE [i \in DOMAIN ms |-> [bounds |-> placed[i], work |-> SmallWork(ms[i], placed[i])]]

(* distance: p counts in halves of a pixel, and the far edge is inside. *)
EdgeDistance(p, r) ==
  LET off(at, low, high) == Greatest({2 * low - at, at - 2 * high, 0})
      dx == off(p[1], r.x, Right(r))
      dy == off(p[2], r.y, Bottom(r))
  IN  dx * dx + dy * dy

(* The monitor nearest a point in halves of a pixel: nearest_physical. *)
SmallNearest(ms, p) == FirstLeast(DOMAIN ms, LAMBDA i : EdgeDistance(p, ms[i].physical))

(* small_screen: for a point in DIP, and for the cursor. *)
SmallScreenAt(small, p) == FirstLeast(DOMAIN small, LAMBDA i : EdgeDistance(<<2 * p[1], 2 * p[2]>>, small[i].bounds))
SmallScreen(ms, cursor) == SmallNearest(ms, <<2 * cursor[1], 2 * cursor[2]>>)

(* A window's place in DIP, as the pixels it is given; and read back, from  *)
(* the monitor its middle is nearest to.                                    *)
DipToPhysical(r, m, dip) ==
  Rect(m.physical.x + Round((r.x - dip.x) * m.scale, 2), m.physical.y + Round((r.y - dip.y) * m.scale, 2),
       Round(r.w * m.scale, 2), Round(r.h * m.scale, 2))

SmallGeometry(r, ms, small) ==
  LET i == SmallNearest(ms, <<2 * r.x + r.w, 2 * r.y + r.h>>)
      m == ms[i]
      dip == small[i].bounds
  IN  [on |-> i,
       bounds |-> Rect(dip.x + Round(2 * (r.x - m.physical.x), m.scale),
                       dip.y + Round(2 * (r.y - m.physical.y), m.scale),
                       Round(2 * r.w, m.scale), Round(2 * r.h, m.scale))]

-----------------------------------------------------------------------------
(* displays.rs.  The user attaches, detaches and rearranges monitors; for a *)
(* moment the system reports none at the origin.                            *)

Monitor(corner, size, scale) ==
  [physical |-> Rect(corner[1], corner[2], size[1], size[2]),
   work |-> Rect(corner[1], corner[2], size[1], size[2] - Taskbar), scale |-> scale]

Arrangements ==
  LET others == {Monitor(c, z, s) : c \in Corners, z \in Sizes, s \in Scales}
      primaries == {Monitor(<<0, 0>>, z, s) : z \in Sizes, s \in Scales}
      apart(ms) == \A i, j \in DOMAIN ms : i # j => ~Overlap(ms[i].physical, ms[j].physical)
  IN  {ms \in {<<p>> : p \in primaries} \cup {<<p, m>> : p \in primaries, m \in others}
               \cup (IF Monitors < 3 THEN {} ELSE {<<p, m, n>> : p \in primaries, m \in others, n \in others}) :
         apart(ms)}

NoSnapshot == [entries |-> <<>>, rects |-> <<>>]

(* Every monitor has a scale the system knows, and a look is given up at    *)
(* the third.                                                               *)
TypeOK ==
  /\ attempts \in 0 .. 2 /\ changes \in 0 .. MaxChanges
  /\ \A i \in DOMAIN monitors : monitors[i].scale \in Scales

Init == monitors \in Arrangements /\ attempts = 0 /\ held = NoSnapshot /\ changes = 0

(* One look of snapshot(), which gives up after the third. *)
Look ==
  /\ LET rects == Layout(monitors) IN
     IF rects # <<>> THEN attempts' = 0 /\ held' = [entries |-> monitors, rects |-> rects]
     ELSE IF attempts < 2 THEN attempts' = attempts + 1 /\ UNCHANGED held
     ELSE attempts' = 0 /\ held' = NoSnapshot
  /\ UNCHANGED <<monitors, changes>>

MoveBy(x, y) ==
  [i \in DOMAIN monitors |->
    [monitors[i] EXCEPT !.physical = Moved(@, @.x - x, @.y - y), !.work = Moved(@, @.x - x, @.y - y)]]

Change == changes < MaxChanges /\ changes' = changes + 1 /\ UNCHANGED <<attempts, held>>

Detach == Change /\ Len(monitors) > 1 /\ monitors' = Front(monitors)

(* Another monitor becomes the primary, or for a moment none is. *)
Rearrange ==
  /\ Change
  /\ \/ \E i \in DOMAIN monitors : monitors' = MoveBy(monitors[i].physical.x, monitors[i].physical.y)
     \/ monitors' = MoveBy(1, 1)

Next == Look \/ Detach \/ Rearrange

Spec == Init /\ [][Next]_vars

-----------------------------------------------------------------------------
(* The monitor a display of an earlier answer describes, 0 when it is gone. *)
MonitorHandle(physical) ==
  LET center == <<physical.x + physical.w \div 2, physical.y + physical.h \div 2>>
      found == {i \in DOMAIN monitors : Holds(monitors[i].physical, center) /\ monitors[i].physical = physical}
  IN  IF found = {} THEN 0 ELSE Least(found)

Attached(ms) == Len(ms) = 1 \/ \A i \in DOMAIN ms : \E j \in DOMAIN ms \ {i} : Touch(ms[i].physical, ms[j].physical)

Fresh == held.entries = monitors /\ Attached(monitors)

Inside(a, b) == a.x >= b.x /\ a.y >= b.y /\ Right(a) <= Right(b) /\ Bottom(a) <= Bottom(b)

(* An answer places every monitor.  Those that hang together lie apart in   *)
(* DIP, whatever their scales, and what the taskbar leaves of each stays on *)
(* it wherever it was pushed.                                               *)
PlacedApart ==
  /\ Len(held.entries) = Len(held.rects)
  /\ Fresh => \A i, j \in DOMAIN held.rects :
                /\ i # j => ~Overlap(held.rects[i].bounds, held.rects[j].bounds)
                /\ Inside(held.rects[i].work, held.rects[i].bounds)

(* A pixel's place in DIP leads back to the monitor that shows it: the one  *)
(* under the cursor is the one that is captured (displays.rs: cursor and    *)
(* nearest).  A rectangle over two pixels of a monitor belongs to it, and   *)
(* its place in DIP begins where its first pixel's does.                    *)
PixelsFindTheirMonitor ==
  Fresh =>
    \A i \in DOMAIN monitors :
      LET r == monitors[i].physical
          dip == held.rects[i].bounds
      IN  \A x \in r.x .. Right(r) - 1, y \in r.y .. Bottom(r) - 1 :
            LET at == PhysToDip(<<x, y>>, monitors[i], dip)
                two == Rect(x, y - 1, 1, 2)
            IN  /\ NearestDip(monitors, held.rects, at) = i
                /\ y > r.y =>
                     /\ NearestPhysicalRect(monitors, two) = i
                     /\ Holds(PhysRectToDip(two, monitors[i], dip), PhysToDip(<<x, y - 1>>, monitors[i], dip))

(* A display held across a change is captured as it was or refused.         *)
HeldIsThereOrGone ==
  \A e \in ToSet(held.entries) :
    LET h == MonitorHandle(e.physical) IN
    IF h = 0 THEN \A m \in ToSet(monitors) : m.physical # e.physical ELSE monitors[h].physical = e.physical

(* The layout of the small windows has every monitor exactly when all can   *)
(* be reached from the primary over shared edges; unscaled it is the layout *)
(* of everything else.                                                      *)
SmallLayoutIsComplete ==
  Fresh =>
    LET small == SmallDisplays(monitors)
        Closed(S) == \A i \in S, j \in DOMAIN monitors :
                       Abuts(monitors[i].physical, monitors[j].physical) => j \in S
        primary == {i \in DOMAIN monitors : monitors[i].physical.x = 0 /\ monitors[i].physical.y = 0}
    IN  /\ small # <<>> <=> \A S \in SUBSET DOMAIN monitors :
                             Closed(S) /\ S \cap primary # {} => S = DOMAIN monitors
        /\ (\A i \in DOMAIN monitors : monitors[i].scale = 2) => small \in {<<>>, held.rects}

(* A small window is read back where it was put while its middle stays      *)
(* within the monitor.  A small window opens on the monitor the cursor or   *)
(* the selection is on; a point on the far edge of an earlier monitor is    *)
(* that one's, and so is one that monitors share which mixed scales let     *)
(* overlap here, where nothing pushes them apart.                           *)
WindowsStayPut ==
  LET small == SmallDisplays(monitors)
      within(p, r) == p[1] > 2 * r.x /\ p[1] < 2 * Right(r) /\ p[2] > 2 * r.y /\ p[2] < 2 * Bottom(r)
  IN  small # <<>> =>
        \A i \in DOMAIN monitors :
          LET dip == small[i].bounds
              r == monitors[i].physical
          IN  /\ \A x \in -3 .. 3, w \in 1 .. 3 :
                   LET window == Rect(dip.x + x, dip.y - x, w, w + 1)
                       put == DipToPhysical(window, monitors[i], dip)
                   IN  within(<<2 * put.x + put.w, 2 * put.y + put.h>>, r)
                         => SmallGeometry(put, monitors, small) = [on |-> i, bounds |-> window]
              /\ \A x \in r.x .. Right(r) - 1, y \in r.y .. Bottom(r) - 1 :
                   within(<<2 * x, 2 * y>>, r) => SmallScreen(monitors, <<x, y>>) = i
              /\ (\A j \in DOMAIN small \ {i} : ~Overlap(dip, small[j].bounds)) =>
                   \A x \in dip.x .. Right(dip) - 1, y \in dip.y .. Bottom(dip) - 1 :
                     within(<<2 * x, 2 * y>>, dip) => SmallScreenAt(small, <<x, y>>) = i
=============================================================================
