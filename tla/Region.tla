------------------------------- MODULE Region -------------------------------
(* The region an overlay selects, and what is placed around it on the       *)
(* screen (shotik-ui/src/overlay/state.rs), as numbers.  The overlay is     *)
(* drawn in CSS pixels and captures the picture's own; one of its pixels is *)
(* k half pixels of the picture.  The machine below drags the region along  *)
(* one axis, the other does the same; the operators before it place bars,   *)
(* labels and the magnifier, and choose windows and words.                  *)
EXTENDS Integers, Sequences, FiniteSets, SequencesExt

CONSTANTS
  Zooms,     (* half pixels of the picture in one pixel of the overlay     *)
  Across,    (* the axis the region is dragged along, in the overlay's     *)
  MaxCreep,  (* half pixels over the edge; a model bound, see GrabHandle    *)
  Screens    (* sizes of the overlay that bars are placed on               *)

(* The smallest screens have room for the bar that is widest and, on either *)
(* side of the pointer, for the magnifier.                                  *)
RegionAssumption ==
  /\ Zooms \subseteq Nat \ {0} /\ Across \in Nat /\ MaxCreep \in Nat
  /\ Screens \subseteq Nat \X Nat /\ \A v \in Screens : v[1] >= 736 /\ v[2] >= 448

VARIABLES
  zoom, region, pulled,  (* sel and drag, along the axis                    *)
  placed                 (* what the operators are checked on, chosen first *)

axisVars == <<zoom, region, pulled>>

Lesser(a, b) == IF a < b THEN a ELSE b
Greater(a, b) == IF a > b THEN a ELSE b

(* A slip: the lower bound wins. *)
ClampLow(v, low, high) == Greater(low, Lesser(high, v))

(* When the range is inverted the upper bound wins. *)
Clamp(v, low, high) == Lesser(high, Greater(low, v))

(* js_round of half pixels: halves go up. *)
JsRound(halves) == (halves + 1) \div 2

Rect(x, y, w, h) == [x |-> x, y |-> y, w |-> w, h |-> h]
Span(a, b) == [x |-> Lesser(a, b), w |-> IF a < b THEN b - a ELSE a - b]
Within(r, x, y) == x >= r.x /\ x <= r.x + r.w /\ y >= r.y /\ y <= r.y + r.h

-----------------------------------------------------------------------------
(* The region along one axis *)

Picture == Across * zoom
ToImg(c) == Clamp(c * zoom, 0, Picture)

NoRegion == [w |-> -1]
NotPulled == [kind |-> "none"]

(* round_sel, in whole pixels. *)
RoundSel(s) == [x |-> JsRound(s.x), w |-> Greater(JsRound(s.w), 1)]

Pull(kind, a, b) == [kind |-> kind, from |-> a, base |-> b]

BeginCreate(c) ==
  /\ region' = [x |-> ToImg(c), w |-> 0]
  /\ pulled' = Pull("create", ToImg(c), c)

(* Handle::fraction, in halves of the region, and what stays where it is;   *)
(* a handle in the middle leaves the axis alone.  The region is rounded     *)
(* when it is taken hold of, so its other edge creeps by a pixel at a time; *)
(* `base` is where that edge was.                                           *)
Ends == {0, 1, 2}
Anchor(end, r) == IF end = 0 THEN r.x + r.w ELSE r.x

HandleNear(end, c) ==
  LET off == 2 * c * zoom - (2 * region.x + region.w * end) IN off <= 14 * zoom /\ -off <= 14 * zoom

GrabHandle(end, c) ==
  LET r == [x |-> 2 * RoundSel(region).x, w |-> 2 * RoundSel(region).w]
  IN  /\ HandleNear(end, c) /\ region.x + region.w <= Picture + MaxCreep
      /\ pulled' = IF end = 1 THEN Pull("keep", r, 0) ELSE Pull("resize", Anchor(end, r), Anchor(end, region))
      /\ UNCHANGED region

Inside(c) == ToImg(c) >= region.x /\ ToImg(c) <= region.x + region.w

(* Whether the pointer is on a handle or inside is for both axes to say. *)
PointerDown(c) ==
  /\ pulled = NotPulled
  /\ IF region = NoRegion THEN BeginCreate(c)
     ELSE \/ \E end \in Ends : GrabHandle(end, c)
          \/ Inside(c) /\ pulled' = Pull("move", ToImg(c) - region.x, 0) /\ UNCHANGED region
          \/ BeginCreate(c)
  /\ UNCHANGED zoom

(* The pointer can leave the window while it drags. *)
PointerMove(c) ==
  /\ region' = CASE pulled.kind \in {"create", "resize"} -> Span(pulled.from, ToImg(c))
                 [] pulled.kind = "move" ->
                      [region EXCEPT !.x = Clamp(ToImg(c) - pulled.from, 0, Picture - region.w)]
                 [] pulled.kind = "keep" -> pulled.from
                 [] OTHER -> region
  /\ UNCHANGED <<zoom, pulled>>

Whole == [x |-> 0, w |-> Picture]

(* hover_rect, which is more than eight pixels wide. *)
Hovered == {h \in [x : 0 .. Across, w : 9 .. Across] : h.x + h.w <= Across}

(* A click takes the window under the pointer or everything; a region that  *)
(* is too small along either axis is none.                                  *)
PointerUp(c) ==
  /\ pulled # NotPulled
  /\ pulled' = NotPulled
  /\ IF pulled.kind # "create" THEN UNCHANGED region
     ELSE \/ /\ c - pulled.base \in -3 .. 3
             /\ region' \in {Whole} \cup {[x |-> h.x * zoom, w |-> h.w * zoom] : h \in Hovered}
          \/ region.w >= 6 /\ UNCHANGED region
          \/ region' = NoRegion
  /\ UNCHANGED zoom

Nudge(step) ==
  /\ pulled = NotPulled /\ region # NoRegion
  /\ region' = [region EXCEPT !.x = Clamp(@ + step * zoom, 0, Picture - region.w)]
  /\ UNCHANGED <<zoom, pulled>>

(* Escape during a drag.  A new region goes, unless F was pressed on the way. *)
LetGo ==
  /\ pulled # NotPulled
  /\ pulled' = NotPulled
  /\ region' \in IF pulled.kind = "create" THEN {region, NoRegion} ELSE {region}
  /\ UNCHANGED zoom

(* F, at any time; a drag under way goes on. *)
TakeAll == region' = Whole /\ UNCHANGED <<zoom, pulled>>

-----------------------------------------------------------------------------
(* Handles, windows and words under the pointer *)

HandleOrder == << <<0, 0>>, <<1, 0>>, <<2, 0>>, <<2, 1>>, <<2, 2>>, <<1, 2>>, <<0, 2>>, <<0, 1>> >>

AtHandle(h, rc, x, y) ==
  /\ 2 * x - (2 * rc.x + rc.w * h[1]) \in -14 .. 14
  /\ 2 * y - (2 * rc.y + rc.h * h[2]) \in -14 .. 14

(* handle_at: the first within seven pixels, or 0. *)
HandleAt(rc, x, y) == SelectInSeq(HandleOrder, LAMBDA h : AtHandle(h, rc, x, y))

(* update_hover: the part on the screen of the first window at the pointer. *)
HoverRect(windows, view, x, y) ==
  LET at == SelectInSeq(windows, LAMBDA w : Within(w, x, y))
      hit == windows[at]
      x1 == Greater(hit.x, 0)
      y1 == Greater(hit.y, 0)
      shown == Rect(x1, y1, Lesser(view[1], hit.x + hit.w) - x1, Lesser(view[2], hit.y + hit.h) - y1)
  IN  IF x < 0 \/ at = 0 THEN <<>> ELSE IF shown.w > 8 /\ shown.h > 8 THEN <<shown>> ELSE <<>>

(* hole, for a window under the pointer. *)
Hole(h, k) == Rect(JsRound(h.x * k), JsRound(h.y * k), JsRound(h.w * k), JsRound(h.h * k))

(* word_at: the last, which is on top. *)
WordAt(words, x, y) == SelectLastInSeq(words, LAMBDA w : Within(w, x, y))

TextDown(words, chosen, shift, x, y) ==
  LET at == WordAt(words, x, y) IN IF shift THEN chosen ELSE IF at = 0 THEN {} ELSE {at}

(* A slip: words that were in the band stay. *)
TextMoveKeeps(words, base, chosen, a, b) ==
  LET across == Span(a[1], b[1])
      down == Span(a[2], b[2])
  IN  base \cup chosen \cup
        {i \in DOMAIN words : /\ words[i].x < across.x + across.w /\ words[i].x + words[i].w > across.x
                              /\ words[i].y < down.x + down.w /\ words[i].y + words[i].h > down.x}

(* text_move: what was chosen when the band began, and what it touches now. *)
TextMove(words, base, chosen, a, b) ==
  LET across == Span(a[1], b[1])
      down == Span(a[2], b[2])
  IN  base \cup
        {i \in DOMAIN words : /\ words[i].x < across.x + across.w /\ words[i].x + words[i].w > across.x
                              /\ words[i].y < down.x + down.w /\ words[i].y + words[i].h > down.x}

(* selected_text, as lines of words. *)
TextOf(words, chosen) ==
  LET taken == IF chosen = {} THEN DOMAIN words ELSE chosen
      lines == SetToSortSeq({words[i].line : i \in taken}, <)
      Before(i, j) == words[i].x < words[j].x \/ (words[i].x = words[j].x /\ i < j)
  IN  [l \in DOMAIN lines |-> SetToSortSeq({i \in taken : words[i].line = lines[l]}, Before)]

-----------------------------------------------------------------------------
(* What is placed around the region rc on a screen of the size view *)

TOOLBAR_W == 720
TOOLBAR_H == 46
OPTIONS_W == 372
OPTIONS_H == 44
TEXT_TOOLBAR_W == 167
TEXT_TOOLBAR_H == 46

Centred(rc, view, width) == Clamp(rc.x + rc.w \div 2 - width \div 2, 8, view[1] - width - 8)

(* position_toolbar: below the region, above it, or in its lower edge. *)
ToolbarAt(rc, view) ==
  LET below == rc.y + rc.h + 10
      above == rc.y - TOOLBAR_H - 10
      y == IF below + TOOLBAR_H <= view[2] - 8 THEN below ELSE above
      lower == Lesser(view[2] - TOOLBAR_H - 8, rc.y + rc.h - TOOLBAR_H - 10 - 8)
  IN  [x |-> Centred(rc, view, TOOLBAR_W), y |-> IF y < 8 THEN Greater(8, lower) ELSE y]

OptionsAt(toolbar, view) ==
  LET below == toolbar.y + TOOLBAR_H + 8
  IN  [x |-> Clamp(toolbar.x, 8, view[1] - OPTIONS_W - 8),
       y |-> IF below + OPTIONS_H <= view[2] - 8 THEN below ELSE toolbar.y - OPTIONS_H - 8]

TextToolbarAt(rc, view) ==
  LET below == rc.y + rc.h + 10
  IN  [x |-> Centred(rc, view, TEXT_TOOLBAR_W),
       y |-> IF below + TEXT_TOOLBAR_H <= view[2] - 8 THEN below ELSE Greater(8, rc.y - TEXT_TOOLBAR_H - 10)]

(* position_translate_card: to the right, or to the left. *)
CardAt(rc, view, width, height) ==
  LET right == rc.x + rc.w + 12
      wanted == IF right + width > view[1] THEN rc.x - width - 12 ELSE right
  IN  [x |-> Clamp(wanted, 8, view[1] - width - 8), y |-> Clamp(rc.y, 8, view[2] - height - 8)]

(* dims: the size of the region, above its corner or in it. *)
DimsAt(rc, view) ==
  [x |-> Clamp(rc.x, 8, view[1] - 90), y |-> IF rc.y - 30 < 6 THEN rc.y + 8 ELSE rc.y - 30]

FlashAt(rc, view) ==
  [x |-> Clamp(rc.x + rc.w \div 2, 80, view[1] - 80), y |-> Greater(20, rc.y - 40)]

MAGNIFIER_W == 159
MAGNIFIER_H == 192

(* magnifier: its pixel of the picture, and its panel beside the pointer. *)
Magnifier(x, y, view, k) ==
  [ix |-> Clamp(JsRound(x * k), 0, (view[1] * k) \div 2 - 1), iy |-> Clamp(JsRound(y * k), 0, (view[2] * k) \div 2 - 1),
   x |-> IF x + 26 + 175 > view[1] THEN x - 26 - MAGNIFIER_W ELSE x + 26,
   y |-> IF y + 26 + 205 > view[2] THEN y - 26 - MAGNIFIER_H ELSE y + 26]

-----------------------------------------------------------------------------
(* The chosen: corners at and near the edges of a screen, windows that      *)
(* reach over them, words that touch and overlap.                           *)

Near(length) == {0, 20, 59, length \div 2, length - 58, length - 17, length}
Spans(length) == {Span(a, b) : a \in Near(length), b \in Near(length)}
Rects(view) == {Rect(a.x, b.x, a.w, b.w) : a \in {s \in Spans(view[1]) : s.w > 0}, b \in {s \in Spans(view[2]) : s.w > 0}}
Bars == UNION {[kind : {"bars"}, view : {v}, rc : Rects(v)] : v \in Screens}
Lenses == UNION {[kind : {"lens"}, view : {v}, k : Zooms, x : Near(v[1]) \cup (v[1] - 210 .. v[1] - 190), y : Near(v[2])]
                 : v \in Screens}

SmallView == <<40, 30>>
Windows == {Rect(x, y, 24, 20) : x \in {-18, -10, 0, 33}, y \in {-15, 0, 25}}
Hovers == [kind : {"hover"}, windows : {<<a, b>> : a \in Windows, b \in Windows}, x : {-100, 0, 9, 25, 39},
           y : {0, 5, 15, 29}, k : Zooms]

Word(x, y, w, line) == [x |-> x, y |-> y, w |-> w, h |-> 2, line |-> line]
Pages == {<<Word(0, 0, 2, 0), Word(2, 0, 2, 0), Word(1, 3, 3, 1)>>,
          <<Word(3, 0, 2, 0), Word(0, 0, 4, 0), Word(0, 1, 5, 1)>>}
Points == {<<0, 0>>, <<1, 1>>, <<2, 2>>, <<3, 0>>, <<3, 2>>, <<5, 4>>}
Bands == [kind : {"band"}, words : Pages, before : SUBSET {1, 3}, shift : BOOLEAN, a : Points, b : Points, c : Points]

Tries == [kind : {"handle"}, rc : {Rect(20, 20, w, h) : w \in {2, 14, 30, 60}, h \in {3, 15, 31, 60}},
          x : 8 .. 92, y : {13, 20, 27, 35, 50, 80}]

AxisInit(z) == zoom = z /\ region = NoRegion /\ pulled = NotPulled /\ placed = [kind |-> "none"]

Coarsest == CHOOSE z \in Zooms : \A y \in Zooms : z <= y

Init ==
  \/ \E z \in Zooms : AxisInit(z)
  \/ /\ zoom = Coarsest /\ region = NoRegion /\ pulled = NotPulled
     /\ placed \in Bars \cup Lenses \cup Hovers \cup Bands \cup Tries

Next ==
  /\ placed.kind = "none" /\ UNCHANGED placed
  /\ \/ \E c \in -1 .. Across + 1 : PointerDown(c) \/ PointerMove(c) \/ PointerUp(c)
     \/ \E step \in {-10, -1, 1, 10} : Nudge(step)
     \/ LetGo \/ TakeAll

Is(kind) == placed.kind = kind

(* Wherever the pointer goes, a new region is in the picture; where the     *)
(* overlay's pixels are whole ones of the picture, no sequence of drags     *)
(* leads further than a pixel out of it (a region pulled to nothing at its  *)
(* edge has one when it is taken hold of again); and taking hold of a       *)
(* handle moves the other edge by a pixel and a half at most.               *)
RegionIsInThePicture ==
  region # NoRegion =>
    /\ pulled.kind = "create" =>
         /\ region.x >= 0 /\ region.x + region.w <= Picture
         /\ region.w >= 6 => 2 * RoundSel(region).x < Picture
    /\ zoom % 2 = 0 => region.w >= 0 /\ region.x >= -2 /\ region.x + region.w <= Picture + 2
    /\ pulled.kind = "resize" => pulled.from - pulled.base \in -2 .. 3

(* While there is room beside the region a bar is on the screen and beside  *)
(* it, and the bar with a tool's options is on the screen and off the bar   *)
(* it belongs to.                                                           *)
BarsAreInReach ==
  Is("bars") =>
    LET rc == placed.rc
        view == placed.view
        bar == ToolbarAt(rc, view)
        options == OptionsAt(bar, view)
        text == TextToolbarAt(rc, view)
        On(p, w, h) == p.x >= 8 /\ p.x + w <= view[1] - 8 /\ p.y >= 8 /\ p.y + h <= view[2] - 8
    IN  /\ On(bar, TOOLBAR_W, TOOLBAR_H) /\ On(options, OPTIONS_W, OPTIONS_H) /\ On(text, TEXT_TOOLBAR_W, TEXT_TOOLBAR_H)
        /\ bar.y + TOOLBAR_H <= options.y \/ options.y + OPTIONS_H <= bar.y
        /\ rc.y >= TOOLBAR_H + 18 \/ rc.y + rc.h + TOOLBAR_H + 18 <= view[2] =>
             bar.y >= rc.y + rc.h \/ bar.y + TOOLBAR_H <= rc.y

(* The label and a message are on the screen, and the card is too, however  *)
(* high its text made it, as long as the screen is higher.                  *)
LabelsAreInReach ==
  Is("bars") =>
    LET rc == placed.rc
        view == placed.view
    IN  /\ DimsAt(rc, view).x \in 8 .. view[1] - 90 /\ DimsAt(rc, view).y \in 6 .. view[2] + 8
        /\ FlashAt(rc, view).x \in 80 .. view[1] - 80 /\ FlashAt(rc, view).y \in 20 .. view[2]
        /\ \A height \in {60, view[2] - 16} :
             LET card == CardAt(rc, view, 340, height)
             IN  /\ card.x >= 8 /\ card.x + 340 <= view[1] - 8 /\ card.y >= 8 /\ card.y + height <= view[2] - 8
                 /\ rc.x >= 360 \/ rc.x + rc.w + 360 <= view[1] =>
                      card.x >= rc.x + rc.w \/ card.x + 340 <= rc.x

(* The magnifier shows a pixel the picture has, is on the screen, and never *)
(* under the pointer.                                                       *)
LensIsBesideThePointer ==
  Is("lens") =>
    LET m == Magnifier(placed.x, placed.y, placed.view, placed.k)
    IN  /\ m.ix * 2 < placed.view[1] * placed.k /\ m.iy * 2 < placed.view[2] * placed.k /\ m.ix >= 0 /\ m.iy >= 0
        /\ m.x >= 0 /\ m.x + MAGNIFIER_W <= placed.view[1] /\ m.y >= 0 /\ m.y + MAGNIFIER_H <= placed.view[2]
        /\ placed.x \notin m.x .. m.x + MAGNIFIER_W /\ placed.y \notin m.y .. m.y + MAGNIFIER_H

(* What is lit up under the pointer is what a click selects, to the pixel.  *)
HoleIsWhatAClickTakes ==
  Is("hover") =>
    LET h == HoverRect(placed.windows, SmallView, placed.x, placed.y)
    IN  h # <<>> =>
          LET hole == Hole(h[1], placed.k)
              along == RoundSel([x |-> h[1].x * placed.k, w |-> h[1].w * placed.k])
              down == RoundSel([x |-> h[1].y * placed.k, w |-> h[1].h * placed.k])
          IN  /\ hole = Rect(along.x, down.x, along.w, down.w)
              /\ Within(h[1], placed.x, placed.y)
              /\ h[1].x >= 0 /\ h[1].y >= 0 /\ h[1].x + h[1].w <= 40 /\ h[1].y + h[1].h <= 30

(* A band that is drawn out and back chooses what it covers at the end, and *)
(* the text has every chosen word once, in the order of reading.            *)
BandFollowsThePointer ==
  Is("band") =>
    LET base == TextDown(placed.words, placed.before, placed.shift, placed.a[1], placed.a[2])
        mid == TextMove(placed.words, base, base, placed.a, placed.b)
        end == TextMove(placed.words, base, mid, placed.a, placed.c)
        text == TextOf(placed.words, end)
        flat == FlattenSeq(text)
    IN  /\ end = TextMove(placed.words, base, base, placed.a, placed.c)
        /\ base \subseteq end
        /\ Range(flat) = (IF end = {} THEN DOMAIN placed.words ELSE end) /\ Len(flat) = Cardinality(Range(flat))
        /\ \A i, j \in DOMAIN flat : i < j =>
             LET v == placed.words[flat[i]]
                 w == placed.words[flat[j]]
             IN  v.line < w.line \/ (v.line = w.line /\ v.x <= w.x)

(* Where the region is large enough no handle hides another, and the one    *)
(* that is found is within reach.                                           *)
HandlesAreFound ==
  Is("handle") =>
    LET rc == placed.rc
        at == HandleAt(rc, placed.x, placed.y)
    IN  /\ at = 0 <=> \A n \in 1 .. 8 : ~AtHandle(HandleOrder[n], rc, placed.x, placed.y)
        /\ at # 0 /\ rc.w > 28 /\ rc.h > 28 =>
             \A n \in 1 .. 8 : AtHandle(HandleOrder[n], rc, placed.x, placed.y) => n = at
=============================================================================
