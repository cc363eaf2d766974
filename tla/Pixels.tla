------------------------------- MODULE Pixels -------------------------------
(* The loops over pixels, as operators: the clipboard's DIB and back        *)
(* (shotik-win/src/clipboard.rs), the frame under the veil and the bands it *)
(* is made in (shotik-ui/src/overlay/pixels.rs), NV12 and back              *)
(* (shotik-recorder/src/convert.rs), crop and fit (shotik-core/src/frame.rs).*)
(* A pixel is <<blue, green, red, alpha>>; a mask is the set of its bits.   *)
EXTENDS Integers, Sequences, FiniteSets

CONSTANTS
  MaxImageBytes,  (* MAX_IMAGE_BYTES *)
  Bytes           (* the values a byte of a colour takes *)

PixelsAssumption == MaxImageBytes \in Nat /\ Bytes \subseteq 0 .. 255

VARIABLE input  (* what the operators are checked on: chosen at the start *)

Least(a, b) == IF a < b THEN a ELSE b
Most(a, b) == IF a > b THEN a ELSE b
Clamped(a, low, high) == Most(low, Least(a, high))
CeilDiv(a, b) == (a + b - 1) \div b
Rounded(a, b) == (2 * a + b) \div (2 * b)  (* of a quotient >= 0 *)
Abs(a) == IF a < 0 THEN -a ELSE a

-----------------------------------------------------------------------------
(* parse_dib: what a header says, against the bytes there are. *)

HeaderSizes == {40, 52, 56, 108, 124}
Damaged == [ok |-> FALSE]

DepthOk(d) == \/ d.bits \in {1, 4, 8, 24} /\ d.compression = "rgb"
              \/ d.bits \in {16, 32} /\ d.compression \in {"rgb", "bitfields"}

Stride(d) == CeilDiv(d.width * d.bits, 32) * 4
PixelBytes(d) == Stride(d) * Abs(d.height)
MasksAfterHeader(d) == IF d.compression = "bitfields" /\ d.header = 40 THEN 12 ELSE 0

Colors(d) == IF d.bits <= 8 /\ d.used = 0 THEN 2^d.bits ELSE d.used

MasksThere(d) == d.compression = "bitfields" => d.len >= (IF d.header >= 56 THEN 56 ELSE 52)

ParseDib(d) ==
  LET start == d.header + MasksAfterHeader(d)
      data == start + Colors(d) * 4
  IN  IF \/ d.len < 4 \/ d.header \notin HeaderSizes \/ d.len < d.header
         \/ d.width <= 0 \/ d.height = 0 \/ d.planes # 1
         \/ ~DepthOk(d)
         \/ d.width * Abs(d.height) * 4 > MaxImageBytes
         \/ ~MasksThere(d)
         \/ d.bits <= 8 /\ d.used > 2^d.bits
         \/ data > d.len \/ data + PixelBytes(d) > d.len
      THEN Damaged
      ELSE [ok |-> TRUE, width |-> d.width, height |-> Abs(d.height), top_down |-> d.height < 0,
            bits |-> d.bits, stride |-> Stride(d), data |-> data, palette |-> <<start, data>>]

(* Where frame_from_dib finds the row y: the last one first, unless the     *)
(* height was negative.                                                     *)
RowAt(l, y) == l.data + l.stride * (IF l.top_down THEN y ELSE l.height - 1 - y)

(* decode_indexed_row: the byte and the bits of the pixel x. *)
IndexOf(src, bits, x) ==
  CASE bits = 8 -> src[x + 1]
    [] bits = 4 -> (src[(x \div 2) + 1] \div (IF x % 2 = 0 THEN 16 ELSE 1)) % 16
    [] bits = 1 -> (src[(x \div 8) + 1] \div 2^(7 - (x % 8))) % 2

IndexedRow(src, bits, colors, width) ==
  IF \E x \in 0..width - 1 : IndexOf(src, bits, x) >= colors THEN Damaged
  ELSE [ok |-> TRUE, row |-> [x \in 1..width |-> IndexOf(src, bits, x - 1)]]

(* Masks::check, for a mask that is there, and `channel`. *)
OneRun(mask) == \A i, j \in mask : \A k \in i..j : k \in mask
MasksOk(red, green, blue, alpha) ==
  red \cup green \cup blue # {} /\ OneRun(red) /\ OneRun(green) /\ OneRun(blue) /\ OneRun(alpha)
Channel(value, mask) ==
  IF mask = {} THEN 0
  ELSE LET max == 2^Cardinality(mask) - 1 IN (value * 255 + max \div 2) \div max

(* fix_alpha: Windows' alpha is premultiplied, a frame's is not; what       *)
(* cannot be premultiplied is no alpha at all.                              *)
FixAlpha(px) ==
  LET garbage == \E i \in DOMAIN px : \E c \in 1..3 : px[i][c] > px[i][4]
      any == \E i \in DOMAIN px : px[i][4] # 0
      Unpremultiplied(c, a) == IF a \in {0, 255} THEN c ELSE Least((c * 255 + a \div 2) \div a, 255)
  IN  [i \in DOMAIN px |->
         IF garbage \/ ~any THEN [px[i] EXCEPT ![4] = 255]
         ELSE [c \in 1..4 |-> IF c = 4 THEN px[i][4] ELSE Unpremultiplied(px[i][c], px[i][4])]]

(* dib_from_frame, bottom row first, and frame_from_dib of what it makes; a *)
(* frame's pixels are a sequence, top row first.                            *)
Rows(px, w) == [y \in 0..(Len(px) \div w) - 1 |-> SubSeq(px, y * w + 1, (y + 1) * w)]
UpsideDown(px, w) ==
  [i \in DOMAIN px |-> LET h == Len(px) \div w
                           y == (i - 1) \div w
                       IN  Rows(px, w)[h - 1 - y][((i - 1) % w) + 1]]
DibFromFrame(px, w) == UpsideDown(px, w)

FrameFromDib(px, w) == FixAlpha(UpsideDown(px, w))

-----------------------------------------------------------------------------
(* pixels.rs: the veil. *)

VeilAlpha == 115
FrameAlpha == 256 - VeilAlpha
VeilRgb == <<6, 8, 13>>

Veiled(value, channel) == ((value * FrameAlpha + VeilRgb[channel] * VeilAlpha + 128) \div 256) % 256

(* The same in the 16-bit lanes of AVX2: the products and sums wrap there. *)
VeiledLane(value, channel) ==
  ((((value * FrameAlpha) % 2^16) + VeilRgb[channel] * VeilAlpha + 128) % 2^16) \div 2^8

(* avx2::convert: the pixels where a step of eight begins; it stores 32     *)
(* bytes of each output, and keeps 24.                                      *)
AvxSteps(pixels) == IF pixels < 12 THEN {} ELSE {d \in 0..pixels : d % 8 = 0 /\ d + 8 <= pixels - 4}
AvxDone(pixels) == 8 * Cardinality(AvxSteps(pixels))
StoreEnd(done) == done * 3 + 32

(* The bands of bgra_to_rgb_and_veil_parallel: first pixel and number. *)
Bands(pixels, threads) ==
  IF threads <= 1 \/ pixels = 0 THEN <<<<0, pixels>>>>
  ELSE LET band == CeilDiv(pixels, threads)
       IN  [i \in 1..CeilDiv(pixels, band) |-> <<(i - 1) * band, Least(band, pixels - (i - 1) * band)>>]

(* MagnifierPainter, at a side and a scale in halves: the source pixel of   *)
(* an output coordinate, and where a grid line or the marker is.            *)
CellOf(side, p) == Least((p * 13) \div side, 12) - 6
CellEdge(side, i) == Rounded(i * side, 13)
LineWidth(scale) == Most(1, Rounded(scale, 2))
OnLine(side, scale, p) ==
  \E i \in 1..12 : CellEdge(side, i) <= p /\ p < CellEdge(side, i) + LineWidth(scale)
Thick(scale) == CeilDiv(Most(1, scale), 2)
InMarker(side, scale, x, y) ==
  LET start == CellEdge(side, 6)
      end == CellEdge(side, 7)
      t == Thick(scale)
      In(p) == p + t >= start /\ p < end + t
      Hole(p) == p >= start + t /\ p + t < end
  IN  In(x) /\ In(y) /\ ~(Hole(x) /\ Hole(y))

-----------------------------------------------------------------------------
(* convert.rs: BT.709 limited range, of one colour, and back. *)

Shifted(a, n) == a \div 2^n  (* >>, of a negative number too *)

Luma(r, g, b) == (Shifted(11966 * r + 40254 * g + 4064 * b + 32768, 16) + 16)
ChromaU(r, g, b) == Shifted(-6596 * r - 22189 * g + 28784 * b + 32768, 16) + 128
ChromaV(r, g, b) == Shifted(28784 * r - 26145 * g - 2639 * b + 32768, 16) + 128
Average(a, b, c, d) == Shifted(a + b + c + d + 2, 2)

Coefficients(matrix, full) ==
  CASE matrix = "709" /\ ~full -> <<1192, 1836, 218, 546, 2163, 16>>
    [] matrix = "709" /\ full -> <<1024, 1613, 192, 479, 1900, 0>>
    [] matrix = "601" /\ ~full -> <<1192, 1634, 401, 832, 2066, 16>>
    [] matrix = "601" /\ full -> <<1024, 1436, 352, 731, 1815, 0>>

(* nv12_to_bgrx, of one pixel. *)
Bgrx(y, u, v, matrix, full) ==
  LET k == Coefficients(matrix, full)
      term == (y - k[6]) * k[1] + 512
      Byte(a) == Clamped(Shifted(a, 10), 0, 255)
  IN  <<Byte(term + k[5] * (u - 128)), Byte(term - k[3] * (u - 128) - k[4] * (v - 128)),
        Byte(term + k[2] * (v - 128)), 255>>

-----------------------------------------------------------------------------
(* frame.rs: crop and fit_within. *)

Crop(f, r) ==
  LET x == Most(r.x, 0)
      y == Most(r.y, 0)
      right == Clamped(r.x + r.width, 0, f.width)
      bottom == Clamped(r.y + r.height, 0, f.height)
  IN  IF x >= right \/ y >= bottom THEN Damaged
      ELSE [ok |-> TRUE, x |-> x, y |-> y, width |-> right - x, height |-> bottom - y]

FitWithin(f, max) ==
  LET long == Most(f.width, f.height)
  IN  IF long <= max THEN f
      ELSE [width |-> Most(1, Rounded(f.width * max, long)), height |-> Most(1, Rounded(f.height * max, long))]

-----------------------------------------------------------------------------
(* What the loops promise, for each of these inputs. *)

(* Complete and truncated images, of every depth and header. *)
Dibs == [kind : {"dib"}, header : {12, 40, 56}, width : {-1, 1, 9}, height : {-2, 0, 2}, planes : {1},
         bits : {1, 2, 4, 8, 16, 24, 32}, compression : {"rgb", "bitfields", "rle"}, used : {0, 2, 3},
         len : {3, 40, 48, 52, 55, 56, 60, 64, 68, 76, 124, 1072}]

Pictures == [kind : {"picture"}, width : {1, 2},
             px : UNION {[1..n -> {<<0, 0, 0, 0>>, <<9, 0, 200, 255>>, <<0, 64, 0, 128>>, <<200, 0, 0, 128>>}] :
                           n \in {2, 4}}]

IndexRows == UNION {[kind : {"row"}, bits : {b}, colors : {1, 2, 16}, row : [1..3 -> 0..Least(2^b - 1, 2)]] :
                      b \in {1, 4, 8}}

Colours == [kind : {"colour"}, r : Bytes, g : Bytes, b : Bytes]
Buffers == [kind : {"buffer"}, pixels : 0..40, threads : 0..5]
Lenses == [kind : {"lens"}, side : 13..40, scale : 2..6]
MaskSets == [kind : {"mask"}, red : SUBSET (0..4), green : {{}, {5}, {5, 7}}]
Crops == [kind : {"crop"}, width : 1..4, height : 1..4, x : -2..5, y : -2..5, w : 0..6, h : 0..6]

Init == input \in Dibs \cup Pictures \cup IndexRows \cup Colours \cup Buffers \cup Lenses \cup MaskSets \cup Crops

Is(kind) == input.kind = kind

(* A DIB that is accepted is all there: every row the decoder reads, of     *)
(* which the last pixel too, is behind the table and before the end, and    *)
(* the table's colours are no fewer than what a complete one has.           *)
DibStaysInBounds ==
  Is("dib") =>
    LET l == ParseDib(input)
    IN  l.ok => /\ \A y \in 0..l.height - 1 :
                     /\ RowAt(l, y) >= l.palette[2] /\ RowAt(l, y) + l.stride <= input.len
                     /\ l.width * l.bits <= 8 * l.stride
                /\ l.palette[1] >= input.header /\ l.palette[2] <= input.len
                /\ (l.palette[2] - l.palette[1]) \div 4 >= input.used

(* The rows of an image are read once each. *)
DibRowsOnce ==
  Is("dib") => LET l == ParseDib(input)
               IN  l.ok => \A y, z \in 0..l.height - 1 : y # z => Abs(RowAt(l, y) - RowAt(l, z)) >= l.stride

(* An opaque frame that is put on the clipboard comes back as it was; one   *)
(* without any alpha comes back opaque, in its colours.                     *)
PictureComesBack ==
  Is("picture") =>
    LET back == FrameFromDib(DibFromFrame(input.px, input.width), input.width)
        alphas == {input.px[i][4] : i \in DOMAIN input.px}
    IN  /\ alphas = {255} => back = input.px
        /\ alphas = {0} => back = [i \in DOMAIN input.px |-> [input.px[i] EXCEPT ![4] = 255]]
        /\ \A i \in DOMAIN back : \A c \in 1..4 : back[i][c] \in 0..255

(* A row's indexes packed as Windows packs them, the first in the highest   *)
(* bits.                                                                    *)
Packed(row, bits) ==
  LET each == 8 \div bits
      At(i) == IF i \in DOMAIN row THEN row[i] ELSE 0
      Weight(k) == 2^(bits * (each - k))
  IN  [b \in 1..CeilDiv(Len(row), each) |->
         LET Sum[k \in 0..each] == IF k = 0 THEN 0 ELSE Sum[k - 1] + At((b - 1) * each + k) * Weight(k)
         IN  Sum[each]]

(* A row is read as it was packed, or is damaged where a pixel has no       *)
(* colour.                                                                  *)
RowIsUnpacked ==
  Is("row") =>
    LET read == IndexedRow(Packed(input.row, input.bits), input.bits, input.colors, 3)
    IN  IF \A i \in 1..3 : input.row[i] < input.colors THEN read.ok /\ read.row = input.row ELSE ~read.ok

(* A channel whose mask is accepted is black and full where its bits are,   *)
(* and of two values the higher is brighter: no hole in a mask folds them.  *)
MaskedColoursKeepTheirOrder ==
  Is("mask") /\ MasksOk(input.red, input.green, {}, {}) /\ input.red # {} =>
    LET max == 2^Cardinality(input.red) - 1
    IN  /\ Channel(0, input.red) = 0 /\ Channel(max, input.red) = 255
        /\ \A v, w \in 0..max : v < w => Channel(v, input.red) < Channel(w, input.red)

(* Neither the vector unit's 16 bits nor the cast to a byte loses a part of *)
(* a colour, and black and white keep their luma.                           *)
ColoursFit ==
  Is("colour") =>
    LET y == Luma(input.r, input.g, input.b)
        u == ChromaU(input.r, input.g, input.b)
        v == ChromaV(input.r, input.g, input.b)
    IN  /\ \A c \in 1..3 : VeiledLane(input.r, c) = Veiled(input.r, c)
        /\ Average(input.r, input.r, input.r, input.r) = input.r
        /\ Average(input.r, input.g, input.b, input.r) \in 0..255
        /\ y \in 16..235 /\ u \in 16..240 /\ v \in 16..240
        /\ LET p == Bgrx(y, u, v, "709", FALSE)
           IN  Abs(p[1] - input.b) <= 3 /\ Abs(p[2] - input.g) <= 3 /\ Abs(p[3] - input.r) <= 3

(* The vector unit stores inside its outputs, what it leaves is done by the *)
(* scalar loop, and the bands are all the pixels, each once.                *)
BuffersAreFilled ==
  Is("buffer") =>
    LET bands == Bands(input.pixels, input.threads)
    IN  /\ \A d \in AvxSteps(input.pixels) : StoreEnd(d) <= input.pixels * 3
        /\ AvxDone(input.pixels) <= input.pixels
        /\ \A p \in 0..input.pixels - 1 :
             Cardinality({i \in DOMAIN bands : bands[i][1] <= p /\ p < bands[i][1] + bands[i][2]}) = 1

(* The magnifier shows 13 pixels, the one under the cursor in the middle,   *)
(* and where a cell is wide enough the grid and the marker leave some of it *)
(* visible.                                                                 *)
LensIsCentred ==
  Is("lens") =>
    /\ \A p \in 0..input.side - 1 : CellOf(input.side, p) \in -6..6
    /\ CellOf(input.side, input.side \div 2) = 0
    /\ CellEdge(input.side, 7) - CellEdge(input.side, 6) > 2 * Thick(input.scale) =>
         \E x \in 0..input.side - 1 : CellOf(input.side, x) = 0 /\ ~InMarker(input.side, input.scale, x, x)
    /\ input.side \div 13 > LineWidth(input.scale) =>
         \A i \in -6..6 : \E x \in 0..input.side - 1 :
           CellOf(input.side, x) = i /\ ~OnLine(input.side, input.scale, x)

(* A part of a frame is inside the frame and inside what was asked for, and *)
(* nothing of that which the frame has is missing; a picture made to fit    *)
(* has its long side there, and never none at all.                          *)
CropIsTheCommonPart ==
  Is("crop") =>
    LET c == Crop([width |-> input.width, height |-> input.height],
                  [x |-> input.x, y |-> input.y, width |-> input.w, height |-> input.h])
        wanted == {p \in (0..input.width - 1) \X (0..input.height - 1) :
                     p[1] >= input.x /\ p[1] < input.x + input.w /\ p[2] >= input.y /\ p[2] < input.y + input.h}
        f == FitWithin([width |-> input.width, height |-> input.height], 3)
    IN  /\ wanted = {} => ~c.ok
        /\ wanted # {} => c.ok /\ wanted = {p \in (0..9) \X (0..9) : p[1] >= c.x /\ p[1] < c.x + c.width
                                                                /\ p[2] >= c.y /\ p[2] < c.y + c.height}
        /\ f.width \in 1..3 /\ f.height \in 1..3
=============================================================================
