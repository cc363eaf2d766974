---------------------------- MODULE SelectedText ----------------------------
(* What a gesture's text is made from, as operators: the region around the  *)
(* gesture (shotik-app/src/selection.rs), the highlight a program has       *)
(* painted behind the selected text (shotik-core/src/highlight.rs), the     *)
(* choice of the language read (ocr_select.rs), the service that translates *)
(* (translate.rs) and the region that is captured again (actions.rs).       *)
(* A place is <<x, y>>, a colour <<red, green, blue>>.                      *)
EXTENDS Integers, Sequences, FiniteSetsExt

CONSTANTS
  Reach,    (* R: how far from the sample the highlight may be              *)
  Palette,  (* the colours of the small screens                             *)
  Width, Height

VARIABLE subject  (* what the operators are checked on: chosen at the start *)

Larger(a, b) == IF a > b THEN a ELSE b
Smaller(a, b) == IF a < b THEN a ELSE b
Off(a) == IF a < 0 THEN -a ELSE a
Cells == (0..Width - 1) \X (0..Height - 1)

-----------------------------------------------------------------------------
(* find_highlight_rect *)

Saturation(c) ==
  Larger(Larger(c[1], c[2]), c[3]) - Smaller(Smaller(c[1], c[2]), c[3])

(* The eight values of a channel that count as one colour. *)
Bucket(c) == <<c[1] \div 8, c[2] \div 8, c[3] \div 8>>

(* In the order they are looked at. *)
Before(p, q) == p[2] < q[2] \/ (p[2] = q[2] /\ p[1] <= q[1])

Around(sample) ==
  {p \in Cells : Off(p[1] - sample[1]) <= Reach /\ Off(p[2] - sample[2]) <= Reach}

Coloured(screen, sample) == {p \in Around(sample) : Saturation(screen[p]) >= 22}

(* The most frequent colour; of two as frequent the one met first. *)
Painted(screen, sample) ==
  LET near == Coloured(screen, sample)
      Same(p) == {q \in near : Bucket(screen[q]) = Bucket(screen[p])}
  IN  Same(CHOOSE p \in near :
             \A q \in near : \/ Cardinality(Same(p)) > Cardinality(Same(q))
                             \/ /\ Cardinality(Same(p)) = Cardinality(Same(q))
                                /\ \E f \in Same(p) : \A g \in Same(q) : Before(f, g))

Total(screen, cells, channel) ==
  FoldSet(LAMBDA p, sum : sum + screen[p][channel], 0, cells)

(* Within 40 of the average, over the three channels. *)
Matching(screen, sample) ==
  LET best == Painted(screen, sample)
      n == Cardinality(best)
      average == <<Total(screen, best, 1), Total(screen, best, 2), Total(screen, best, 3)>>  (* times n *)
  IN  {p \in Cells :
         Off(screen[p][1] * n - average[1]) + Off(screen[p][2] * n - average[2])
           + Off(screen[p][3] * n - average[3]) <= 40 * n}

Ring(p, sample) == Larger(Off(p[1] - sample[1]), Off(p[2] - sample[2]))

(* The sample itself, or the first in the smallest square around it. *)
Seed(matching, sample) ==
  LET near == matching \cap Around(sample)
  IN  CHOOSE p \in near :
        \A q \in near : \/ Ring(p, sample) < Ring(q, sample)
                        \/ Ring(p, sample) = Ring(q, sample) /\ Before(p, q)

Beside(p) ==
  << <<p[1] - 1, p[2]>>, <<p[1] + 1, p[2]>>, <<p[1], p[2] - 1>>, <<p[1], p[2] + 1>> >>

SeenWith(s, next) == s.seen \cup Range(next)

(* The stack is emptied: each matching cell goes on it once. *)
Flooded(matching, seed) ==
  LET Fill[n \in 0..Cardinality(Cells)] ==
        IF n = 0 THEN [stack |-> <<seed>>, seen |-> {seed}, visits |-> 0, box |-> {}]
        ELSE LET s == Fill[n - 1]
             IN  IF s.stack = <<>> THEN s
                 ELSE LET p == s.stack[Len(s.stack)]
                          next == SelectSeq(Beside(p), LAMBDA q : q \in matching /\ q \notin s.seen)
                      IN  [stack |-> SubSeq(s.stack, 1, Len(s.stack) - 1) \o next, seen |-> SeenWith(s, next),
                           visits |-> s.visits + 1, box |-> s.box \cup {p}]
  IN  Fill[Cardinality(Cells)]

NoRect == [x |-> 0, y |-> 0, width |-> 0, height |-> 0]

BoxOf(cells) ==
  LET xs == {p[1] : p \in cells}
      ys == {p[2] : p \in cells}
      left == CHOOSE x \in xs : \A o \in xs : x <= o
      top == CHOOSE y \in ys : \A o \in ys : y <= o
  IN  [x |-> left, y |-> top, width |-> (CHOOSE x \in xs : \A o \in xs : x >= o) - left + 1,
       height |-> (CHOOSE y \in ys : \A o \in ys : y >= o) - top + 1]

(* No highlight: no colour, none of it near, or too little or too much. *)
FindHighlightRect(screen, sample) ==
  IF Coloured(screen, sample) = {} THEN NoRect
  ELSE LET matching == Matching(screen, sample)
       IN  IF matching \cap Around(sample) = {} THEN NoRect
           ELSE LET s == Flooded(matching, Seed(matching, sample))
                IN  IF \/ s.visits * 1000 < 4 * Cardinality(Cells)
                       \/ s.visits * 100 > 80 * Cardinality(Cells)
                    THEN NoRect ELSE BoxOf(s.box)

-----------------------------------------------------------------------------
(* recognize_for_selection: a reading is how many Cyrillic and Latin        *)
(* letters, words of letters and digits, and other characters it has; one   *)
(* that failed has none.                                                    *)

Reading == [cyr : 0..2, lat : 0..2, mix : 0..1, other : 0..1]
IsEmpty(reading) == reading.cyr + reading.lat + reading.mix + reading.other = 0

RecognizeForSelection(ru, en) ==
  IF ru.cyr > 0 /\ ru.cyr >= ru.lat
  THEN IF ~IsEmpty(en) /\ en.lat >= ru.cyr /\ en.mix = 0 THEN en ELSE ru
  ELSE IF IsEmpty(en) THEN ru ELSE en

-----------------------------------------------------------------------------
(* translate: `deepl` and `free` are what the services would answer.        *)

Answers == {"text", "nothing", "refused", "garbled"}
Failure(answer) == answer \in {"refused", "garbled"}

(* free_translate and parse_response. *)
AskFree(ask, asked) ==
  [asked |-> asked, provider |-> IF Failure(ask.free) THEN "error" ELSE "free"]

(* deepl_translate, and the free service when it fails. *)
AskDeepl(ask) ==
  IF Failure(ask.deepl) THEN AskFree(ask, <<"deepl", "free">>)
  ELSE [asked |-> <<"deepl">>, provider |-> "deepl"]

Translate(ask) ==
  CASE ask.blank -> [asked |-> <<>>, provider |-> "none"]
    [] ~ask.blank /\ ask.stub -> [asked |-> <<>>, provider |-> "stub"]
    [] ~ask.blank /\ ~ask.stub /\ ask.chosen = "deepl" /\ ask.key -> AskDeepl(ask)
    [] OTHER -> AskFree(ask, <<"free">>)

-----------------------------------------------------------------------------
(* on_gesture and ocr_selection_region, on a display at the origin: what is *)
(* cut out around a drag, and where in it the highlight is looked for.      *)

(* `region`: what is left of the display begins at its edge. *)
Region(x, y, width, height) == [x |-> Larger(x, 0), y |-> Larger(y, 0), width |-> width, height |-> height]

DragRegion(a, b) ==
  Region(Smaller(a[1], b[1]) - 30, Smaller(a[2], b[2]) - 22, Off(a[1] - b[1]) + 60, Off(a[2] - b[2]) + 44)

DoubleClickRegion(a) == Region(a[1] - 160, a[2] - 24, 320, 48)

SampleIn(g, r) ==
  IF g.double THEN <<g.a[1] - r.x, g.a[2] - r.y>>
  ELSE <<(g.a[1] + g.b[1]) \div 2 - r.x, (g.a[2] + g.b[2]) \div 2 - r.y>>

GestureRegion(g) == IF g.double THEN DoubleClickRegion(g.a) ELSE DragRegion(g.a, g.b)

(* crop_with_padding: 3 pixels around, and no more than there is. *)
Padded(h, size) ==
  LET x == Larger(h.x - 3, 0)
      y == Larger(h.y - 3, 0)
  IN  [x |-> x, y |-> y, width |-> Smaller(h.width + 6, size[1] - x),
       height |-> Smaller(h.height + 6, size[2] - y)]

-----------------------------------------------------------------------------
(* repeat_last_region: what is remembered may not fit the monitor. *)

LastRegionOn(r, size) ==
  [x |-> Smaller(r.x, size[1] - 1), y |-> Smaller(r.y, size[2] - 1),
   width |-> Smaller(r.width, size[1] - r.x), height |-> Smaller(r.height, size[2] - r.y)]

-----------------------------------------------------------------------------
Screens ==
  [kind : {"screen"}, screen : [Cells -> Palette], sample : {<<0, 0>>, <<Width - 1, 0>>, <<1, Height>>}]
ReadingPairs == [kind : {"readings"}, ru : Reading, en : Reading]
Asks == [kind : {"ask"}, blank : BOOLEAN, stub : BOOLEAN, chosen : {"free", "deepl"}, key : BOOLEAN,
         deepl : Answers, free : Answers]
GesturePlaces == {0, 10, 40, 200, 399} \X {0, 10, 30, 299}
GestureKinds == [kind : {"gesture"}, double : BOOLEAN, a : GesturePlaces, b : GesturePlaces]
Repeats == [kind : {"repeat"}, r : [x : 0..4, y : 0..2, width : 1..4, height : 1..2], size : {3, 4} \X {2, 3}]

Init == subject \in Screens \cup ReadingPairs \cup Asks \cup GestureKinds \cup Repeats

Is(kind) == subject.kind = kind

(* What has one colour's neighbour, again and again, until nothing is new. *)
Component(matching, seed) ==
  LET Grown[n \in 0..Cardinality(Cells)] ==
        IF n = 0 THEN {seed}
        ELSE LET s == Grown[n - 1] IN s \cup {p \in matching : \E k \in 1..4 : Beside(p)[k] \in s}
  IN  Grown[Cardinality(Cells)]

(* The highlight is the whole patch of one colour that is nearest to the    *)
(* gesture and nothing beside it, and there is none if the patch covers too *)
(* much of the screen: each cell is counted once.                           *)
HighlightIsThePatch ==
  Is("screen") =>
    LET found == FindHighlightRect(subject.screen, subject.sample)
        matching == Matching(subject.screen, subject.sample)
        near == matching \cap Around(subject.sample)
        patch == Component(matching, Seed(matching, subject.sample))
    IN  IF Coloured(subject.screen, subject.sample) = {} THEN found = NoRect
        ELSE IF near = {} \/ 100 * Cardinality(patch) > 80 * Cardinality(Cells) THEN found = NoRect
        ELSE found = BoxOf(patch) /\ patch \cap near # {}

(* A reading that failed does not cost the other: text that one language    *)
(* has read is never lost, and what is given is one of the two as a whole.  *)
OneReadingIsEnough ==
  Is("readings") =>
    LET text == RecognizeForSelection(subject.ru, subject.en)
    IN  text \in {subject.ru, subject.en} /\ (IsEmpty(text) => IsEmpty(subject.ru) /\ IsEmpty(subject.en))

(* Text is sent to the free service only if it was chosen, or the other has *)
(* no key or has failed; blank text is sent to none; and there is an error  *)
(* only when the last service asked has failed.                             *)
TextGoesWhereItMay ==
  Is("ask") =>
    LET t == Translate(subject)
        sent == Range(t.asked)
    IN  /\ subject.blank => sent = {}
        /\ "free" \in sent => \/ subject.chosen = "free" \/ ~subject.key
                              \/ "deepl" \in sent /\ Failure(subject.deepl)
        /\ "deepl" \in sent => subject.chosen = "deepl" /\ subject.key
        /\ t.provider = "error" => Failure(subject.free) /\ "free" \in sent
        /\ t.provider \in {"free", "deepl"} => t.asked[Len(t.asked)] = t.provider

(* The highlight is looked for between the ends of the gesture, and in the  *)
(* region that is cut out around it, at the edges of the display too; the   *)
(* region has both ends.                                                    *)
GestureIsInItsRegion ==
  Is("gesture") =>
    LET r == GestureRegion(subject)
        s == SampleIn(subject, r)
        b == IF subject.double THEN subject.a ELSE subject.b
        padded == Padded([x |-> s[1], y |-> s[2], width |-> 1, height |-> 1], <<r.width, r.height>>)
    IN  /\ s[1] \in 0..r.width - 1 /\ s[2] \in 0..r.height - 1
        /\ r.x + s[1] \in Smaller(subject.a[1], b[1])..Larger(subject.a[1], b[1])
        /\ r.y + s[2] \in Smaller(subject.a[2], b[2])..Larger(subject.a[2], b[2])
        /\ \A p \in {subject.a, b} : p[1] \in r.x..r.x + r.width /\ p[2] \in r.y..r.y + r.height
        /\ padded.x <= s[1] /\ s[1] < padded.x + padded.width /\ padded.x + padded.width <= r.width

(* What is captured again is inside the screen there is now; all of what is *)
(* remembered when it fits, and nothing when none of it is there.           *)
RepeatFitsTheScreen ==
  Is("repeat") =>
    LET r == LastRegionOn(subject.r, subject.size)
        fits == subject.r.x + subject.r.width <= subject.size[1] /\ subject.r.y + subject.r.height <= subject.size[2]
        there == subject.r.x < subject.size[1] /\ subject.r.y < subject.size[2]
    IN  /\ fits => r = subject.r
        /\ IF there
           THEN r.width >= 1 /\ r.height >= 1 /\ r.x + r.width <= subject.size[1]
                /\ r.y + r.height <= subject.size[2]
           ELSE r.width < 1 \/ r.height < 1
=============================================================================
