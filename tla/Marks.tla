------------------------------- MODULE Marks --------------------------------
(***************************************************************************)
(* The marks of the overlay's editor (shotik-ui/overlay/state.rs), and the *)
(* tiles the window shows them with (layer.rs, view.rs).                   *)
(*                                                                         *)
(* The state keeps a list of marks, a list of undone ones and the mark     *)
(* under the pointer.  The window does not compare lists: it is told what  *)
(* happened, and repaints the tiles that can have changed.  A tile keeps   *)
(* `base`, the frame with the marks of the list, and `display`, that with  *)
(* the live mark.  Slint holds two copies of it: a bright one, and one     *)
(* under the veil that is only made when the hole does not cover it.       *)
(*                                                                         *)
(* Tiles stand in one row.  A mark is told apart by its kind, the tiles    *)
(* its points are in and, for a badge, its number.  A stroke of one point  *)
(* and a shape whose corners are within three pixels have one point.       *)
(***************************************************************************)
EXTENDS Integers, Sequences, FiniteSets, SequencesExt, FiniteSetsExt

CONSTANTS
  Columns,    (* tiles in the row                                          *)
  Presses,    (* the tiles the button is pressed in                        *)
  Holes,      (* the sets of tiles a selection can wholly contain          *)
  MaxMarks,   (* a bound for the model: marks in both lists                *)
  MaxPoints   (* a bound for the model: points of a stroke                 *)

MarksAssumption ==
  /\ Columns \in Nat \ {0} /\ MaxMarks \in Nat /\ MaxPoints \in Nat \ {0}
  /\ Presses \subseteq 1..Columns
  /\ Holes # {} /\ Holes \subseteq SUBSET (1..Columns)

VARIABLES
  annotations,  (* the list                                                *)
  redo_stack,
  counter_n,    (* the number of the next badge                            *)
  temp,         (* the mark under the pointer, or NoMark                   *)
  drawing,      (* whether it is being drawn                               *)
  typing,       (* the text editor: where it is, and whether it has text   *)
  hole,         (* tiles wholly inside the selection                       *)
  grid,         (* TileGrid: base, display, live and changed               *)
  bright, dim,  (* the two copies Slint holds                              *)
  stale_dims    (* tiles whose copy under the veil is out of date          *)

listVars == <<annotations, redo_stack, counter_n>>
screenVars == <<grid, bright, dim, stale_dims>>
vars == <<temp, drawing, typing, hole, listVars, screenVars>>

Tiles == 1..Columns
Kinds == {"stroke", "shape", "text", "counter"}
NoMark == [kind |-> "none", at |-> <<>>, n |-> 0]
NoEditor == [at |-> 0, typed |-> FALSE]
NoTile == <<<<"none", {}>>>>
Old == <<<<"old", {}>>>>  (* a picture that is out of date *)

-----------------------------------------------------------------------------
(* What a mark paints.  The pen's curve runs through the middles between    *)
(* its points: its piece at a point depends on that point's neighbours, and *)
(* the last one is a straight end.                                          *)

Reach(points) ==
  {i \in Tiles : \E j, k \in DOMAIN points : points[j] <= i /\ i <= points[k]}

Around(points, k) ==
  SubSeq(points, k - 1, IF k < Len(points) THEN k + 1 ELSE k)

Pieces(m, i) ==
  CASE m.kind = "stroke" ->
         {<<k, IF k = Len(m.at) THEN 1 ELSE 0>> :
            k \in {k \in 2..Len(m.at) : i \in Reach(Around(m.at, k))}}
    [] m.kind = "shape" ->
         {<<m.at[1], Last(m.at)>> : k \in {i} \cap Reach(m.at)}
    [] OTHER -> {<<m.at[1], m.n>> : k \in {i} \cap Reach(m.at)}

Touches(m, i) == Pieces(m, i) # {}

(* Painter::draw on a tile. *)
Paint(picture, m, i) ==
  IF Touches(m, i) THEN Append(picture, <<m.kind, Pieces(m, i)>>) ELSE picture

(* What tile i shows when the first n marks are drawn, one over another.    *)
Drawn(marks, i) ==
  LET after[n \in 0..Len(marks)] == IF n = 0 THEN <<>> ELSE Paint(after[n - 1], marks[n], i)
  IN  after

(* The picture a list of marks makes of tile i, as bake makes the image that *)
(* leaves: the frame is empty.                                              *)
Burn(marks, i) == Drawn(marks, i)[Len(marks)]

-----------------------------------------------------------------------------
(* TileGrid. *)

EmptyGrid == [base |-> [i \in Tiles |-> NoTile], display |-> [i \in Tiles |-> NoTile],
              live |-> {}, changed |-> {}]

Exists(g, i) == g.base[i] # NoTile

BaseOf(g, i) == IF Exists(g, i) THEN g.base[i] ELSE <<>>

Over(area, new, old) == [i \in Tiles |-> IF i \in area THEN new[i] ELSE old[i]]

(* Tiles in `area` show the live mark over their base; some are made for it. *)
PaintLive(g, m, area) ==
  [g EXCEPT !.base = Over(area, [i \in Tiles |-> BaseOf(g, i)], @),
            !.display = Over(area, [i \in Tiles |-> Paint(BaseOf(g, i), m, i)], @),
            !.changed = @ \cup area]

(* A slip: only the last two points are looked at. *)
LiveExtendedShort(g, m, from) ==
  LET area == Reach(SubSeq(m.at, Max({1, from}), Len(m.at)))
  IN  [PaintLive(g, m, area) EXCEPT !.live = g.live \cup area]

(* A stroke got points from index `from` on: the tail of its curve moved. *)
LiveExtended(g, m, from) ==
  LET area == Reach(SubSeq(m.at, Max({1, from - 1}), Len(m.at)))
  IN  [PaintLive(g, m, area) EXCEPT !.live = g.live \cup area]

LiveChanged(g, m) ==
  LET now == {i \in Reach(m.at) : Touches(m, i)}
      gone == {i \in g.live \ now : Exists(g, i)}
      painted == PaintLive(g, m, now)
  IN  [painted EXCEPT !.display = Over(gone, painted.base, @),
                      !.changed = @ \cup gone, !.live = now]

LiveCommitted(g) == [g EXCEPT !.base = Over(g.live, g.display, @), !.live = {}]

LiveDropped(g) ==
  [g EXCEPT !.display = Over(g.live, g.base, @), !.changed = @ \cup g.live, !.live = {}]

Added(g, m) ==
  LET area == {i \in Reach(m.at) : Touches(m, i)}
      base == Over(area, [i \in Tiles |-> Paint(BaseOf(g, i), m, i)], g.base)
  IN  [g EXCEPT !.base = base, !.display = Over(area, base, @), !.changed = @ \cup area]

Rebuild(g, area, marks) ==
  LET old == {i \in area : Exists(g, i)}
      base == Over(old, [i \in Tiles |-> Burn(marks, i)], g.base)
  IN  [g EXCEPT !.base = base, !.display = Over(old, base, @), !.changed = @ \cup old]

(* apply_layer: after a change of the list the live mark is painted again. *)
UnderLive(g, live) == IF live = NoMark THEN g ELSE LiveChanged(g, live)

-----------------------------------------------------------------------------
(* OverlayWindow: what is shown. *)

(* publish_tiles and refresh_dim_tiles, after g became the grid and h the hole. *)
Show(g, h) ==
  LET stale == stale_dims \cup g.changed IN
  /\ grid' = [g EXCEPT !.changed = {}]
  /\ bright' = Over(g.changed, g.display, bright)
  /\ dim' = [i \in Tiles |-> IF i \notin stale THEN dim[i] ELSE IF i \in h THEN Old ELSE g.display[i]]
  /\ stale_dims' = stale \cap h

Init ==
  /\ annotations = <<>> /\ redo_stack = <<>> /\ counter_n = 1
  /\ temp = NoMark /\ drawing = FALSE /\ typing = NoEditor
  /\ hole \in Holes
  /\ grid = EmptyGrid /\ stale_dims = {}
  /\ bright = [i \in Tiles |-> NoTile] /\ dim = [i \in Tiles |-> NoTile]

Room == Len(annotations) + Len(redo_stack) < MaxMarks

PushAnno(m, g) ==
  /\ Room
  /\ annotations' = Append(annotations, m)
  /\ redo_stack' = <<>>
  /\ Show(g, hole)

(* commit_text: blank text makes no mark. *)
CommitText ==
  /\ typing' = NoEditor
  /\ IF typing.typed
       THEN LET m == [kind |-> "text", at |-> <<typing.at>>, n |-> 0]
            IN  PushAnno(m, UnderLive(Added(grid, m), temp))
       ELSE UNCHANGED <<annotations, redo_stack, screenVars>>
  /\ UNCHANGED counter_n

-----------------------------------------------------------------------------
(* Pointer and keyboard, in a window with a selection. *)

(* A press while the editor is open only commits the text; so does taking   *)
(* another tool, which the press that follows is told apart by.             *)
PressCommits ==
  /\ typing # NoEditor
  /\ CommitText
  /\ UNCHANGED <<temp, drawing, hole>>

PressText(i) ==
  /\ typing = NoEditor /\ ~drawing
  /\ typing' = [at |-> i, typed |-> FALSE]
  /\ UNCHANGED <<temp, drawing, hole, listVars, screenVars>>

PressCounter(i) ==
  /\ typing = NoEditor /\ ~drawing
  /\ LET m == [kind |-> "counter", at |-> <<i>>, n |-> counter_n]
     IN  PushAnno(m, UnderLive(Added(grid, m), temp))
  /\ counter_n' = counter_n + 1
  /\ UNCHANGED <<temp, drawing, typing, hole>>

PressDraws(tool, i) ==
  /\ typing = NoEditor /\ ~drawing
  /\ drawing' = TRUE
  /\ temp' = [kind |-> tool, at |-> <<i>>, n |-> 0]
  /\ Show(LiveChanged(grid, temp'), hole)
  /\ UNCHANGED <<typing, hole, listVars>>

(* draw_move.  A stroke takes a point two pixels away from its last one. *)
DrawMove(i) ==
  /\ drawing /\ temp # NoMark
  /\ CASE temp.kind = "stroke" ->
            /\ Len(temp.at) < MaxPoints
            /\ temp' = [temp EXCEPT !.at = Append(@, i)]
            /\ Show(LiveExtended(grid, temp', Len(temp.at)), hole)
       [] OTHER ->
            /\ \E far \in BOOLEAN :
                 /\ far \/ i = temp.at[1]
                 /\ temp' = [temp EXCEPT !.at = IF far THEN <<@[1], i>> ELSE <<@[1]>>]
            /\ Show(LiveChanged(grid, temp'), hole)
  /\ UNCHANGED <<drawing, typing, hole, listVars>>

Release ==
  /\ drawing
  /\ drawing' = FALSE /\ temp' = NoMark
  /\ IF temp = NoMark THEN UNCHANGED <<annotations, redo_stack, screenVars>>
     ELSE IF Len(temp.at) > 1 THEN PushAnno(temp, LiveCommitted(grid))
     ELSE Show(LiveDropped(grid), hole) /\ UNCHANGED <<annotations, redo_stack>>
  /\ UNCHANGED <<typing, hole, counter_n>>

(* Escape during a drag; without one it cancels the session. *)
Escape ==
  /\ typing = NoEditor /\ drawing
  /\ drawing' = FALSE /\ temp' = NoMark
  /\ IF temp = NoMark THEN UNCHANGED screenVars ELSE Show(LiveDropped(grid), hole)
  /\ UNCHANGED <<typing, hole, listVars>>

(* A slip: the number of an undone badge is not free again. *)
UndoKeepsNumber ==
  /\ annotations # <<>>
  /\ annotations' = Front(annotations)
  /\ redo_stack' = Append(redo_stack, Last(annotations))
  /\ counter_n' = counter_n
  /\ Show(UnderLive(Rebuild(grid, Reach(Last(annotations).at), annotations'), temp), hole)
  /\ UNCHANGED <<temp, drawing, typing, hole>>

(* By key, with the editor closed, or by the button at any time. *)
Undo ==
  /\ annotations # <<>>
  /\ annotations' = Front(annotations)
  /\ redo_stack' = Append(redo_stack, Last(annotations))
  /\ counter_n' = IF Last(annotations).kind = "counter" THEN Max({counter_n - 1, 1}) ELSE counter_n
  /\ Show(UnderLive(Rebuild(grid, Reach(Last(annotations).at), annotations'), temp), hole)
  /\ UNCHANGED <<temp, drawing, typing, hole>>

Redo ==
  /\ redo_stack # <<>>
  /\ LET m == Last(redo_stack) IN
       /\ annotations' = Append(annotations, m)
       /\ redo_stack' = Front(redo_stack)
       /\ counter_n' = IF m.kind = "counter" THEN m.n + 1 ELSE counter_n
       /\ Show(UnderLive(Added(grid, m), temp), hole)
  /\ UNCHANGED <<temp, drawing, typing, hole>>

EditorInput(typed) ==
  /\ typing # NoEditor
  /\ typing' = [typing EXCEPT !.typed = typed]
  /\ UNCHANGED <<temp, drawing, hole, listVars, screenVars>>

EditorCancel ==
  /\ typing # NoEditor
  /\ typing' = NoEditor
  /\ UNCHANGED <<temp, drawing, hole, listVars, screenVars>>

(* The selection moves, grows or shrinks, and the window is drawn again. *)
MoveSelection(h) ==
  /\ h # hole
  /\ hole' = h
  /\ Show(grid, h)
  /\ UNCHANGED <<temp, drawing, typing, listVars>>

Next ==
  \/ PressCommits \/ Release \/ Escape \/ Undo \/ Redo \/ EditorCancel
  \/ \E i \in Presses : PressText(i) \/ PressCounter(i)
  \/ \E tool \in {"stroke", "shape"}, i \in Presses : PressDraws(tool, i)
  \/ \E i \in Tiles : DrawMove(i)
  \/ \E typed \in BOOLEAN : EditorInput(typed)
  \/ \E h \in Holes : MoveSelection(h)

Spec == Init /\ [][Next]_vars

-----------------------------------------------------------------------------
(* Properties *)

(* Every variable has its type, and what changed was handed to Slint. *)
TypeOK ==
  /\ \A m \in Range(annotations \o redo_stack) :
       m.kind \in Kinds /\ m.at \in Seq(Tiles) /\ m.n \in 0..MaxMarks
  /\ counter_n \in 1..MaxMarks + 1
  /\ temp = NoMark \/ temp.at \in Seq(Tiles)
  /\ drawing = (temp # NoMark)
  /\ typing.at \in 0..Columns /\ hole \subseteq Tiles
  /\ grid.live \subseteq Tiles /\ grid.changed = {}

(* Though a tile is only repainted when an operation can have changed it,   *)
(* and undo, redo and typed text come in the middle of a stroke, the window *)
(* shows what painting the whole list and then the live mark would show:    *)
(* with no stroke under way, that is the image that leaves the overlay.     *)
(* What is outside the hole is seen under the veil, with the same marks.    *)
WindowShowsTheList ==
  \A i \in Tiles :
    LET whole == Paint(Burn(annotations, i), temp, i)
    IN  /\ IF Exists(grid, i) THEN bright[i] = whole ELSE whole = <<>> /\ bright[i] = NoTile
        /\ i \notin hole => dim[i] = bright[i]

(* Badges count: in the order of the list they are 1, 2, 3 and so on, and   *)
(* the next one goes on, however they were undone, redone and added.        *)
BadgesCount ==
  LET Badges(k) == {j \in 1..k : annotations[j].kind = "counter"}
  IN  /\ \A k \in Badges(Len(annotations)) : annotations[k].n = Cardinality(Badges(k))
      /\ counter_n = Cardinality(Badges(Len(annotations))) + 1

=============================================================================
