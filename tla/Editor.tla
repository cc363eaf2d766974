------------------------------- MODULE Editor -------------------------------
(***************************************************************************)
(* The editor of one overlay window (shotik-ui/overlay/state.rs): what is  *)
(* selected, what the pointer drags, Live Text, and the card with a        *)
(* translation.                                                            *)
(*                                                                         *)
(* Everything runs on the UI thread.  Recognition and translation answer   *)
(* later, in any order, to whatever the editor has become; each answer     *)
(* carries the generation it was asked with.  The marks that are drawn are *)
(* module Marks; here drawing is a drag like the others.  The message that *)
(* goes away by itself, which decides nothing, is left out.                *)
(***************************************************************************)
EXTENDS Integers, FiniteSets

CONSTANTS
  Purposes,  (* what overlays are opened for: capture, text, record        *)
  Boxes,     (* selections large enough to keep                            *)
  Texts,     (* what can be picked among the recognized words              *)
  MaxAsks    (* a bound for the model: recognitions, and translations      *)

EditorAssumption ==
  /\ Purposes \subseteq {"capture", "text", "record"}
  /\ "none" \notin Boxes
  /\ MaxAsks \in Nat

VARIABLES
  purpose, mode, sel, drag, tool, editor, toolbar,
  held,                  (* the button of the pointer is down              *)
  text_mode, textbar,
  words,                 (* the selection the words were recognized in     *)
  ocr_generation, recognizing,
  card, translate_generation, translating,
  closing                (* a session-ending action went out               *)

selVars == <<mode, sel, drag, tool, editor, toolbar>>
ocrVars == <<words, ocr_generation, recognizing>>
cardVars == <<card, translate_generation, translating>>
textVars == <<text_mode, textbar, ocrVars, cardVars>>
vars == <<purpose, held, selVars, textVars, closing>>

None == "none"
Thin == "thin"
Selections == Boxes \cup {Thin}
NoCard == [gen |-> 0, asked |-> None, shown |-> None]
Drags == {None, "create", "move", "resize", "draw"}
Tools == {"move", "draw", "text"}

Init ==
  /\ purpose \in Purposes
  /\ mode = "idle" /\ sel = None /\ drag = None /\ tool = "move" /\ editor = FALSE
  /\ toolbar = FALSE /\ held = FALSE
  /\ text_mode = FALSE /\ textbar = FALSE
  /\ words = None /\ ocr_generation = 0 /\ recognizing = {}
  /\ card = NoCard /\ translate_generation = 0 /\ translating = {}
  /\ closing = FALSE

Open == ~closing

-----------------------------------------------------------------------------
(* What several handlers do. *)

(* position_toolbar *)
BarFor(m) == m = "selected" /\ ~text_mode

EnterTextMode(rect) ==
  /\ ocr_generation < MaxAsks
  /\ text_mode' = TRUE /\ toolbar' = FALSE
  /\ ocr_generation' = ocr_generation + 1
  /\ recognizing' = recognizing \cup {[gen |-> ocr_generation', of |-> rect]}
  /\ UNCHANGED <<textbar, words, cardVars>>

(* A slip: the bar of Live Text stays. *)
ExitTextModeWithBar ==
  /\ text_mode' = FALSE
  /\ card' = NoCard /\ words' = None
  /\ toolbar' = (mode = "selected")
  /\ UNCHANGED <<textbar, ocr_generation, recognizing, translate_generation, translating>>

ExitTextMode ==
  /\ text_mode' = FALSE /\ textbar' = FALSE
  /\ card' = NoCard /\ words' = None
  /\ toolbar' = (mode = "selected")
  /\ UNCHANGED <<ocr_generation, recognizing, translate_generation, translating>>

(* do_action and finish_record: the text under the editor is committed. *)
Finish ==
  /\ closing' = TRUE
  /\ editor' = FALSE

-----------------------------------------------------------------------------
(* The pointer, outside Live Text. *)

BeginCreate ==
  /\ drag' = "create" /\ sel' = Thin /\ mode' = "selecting" /\ toolbar' = FALSE
  /\ UNCHANGED <<tool, editor>>

PressSelected ==
  CASE tool = "move" ->
         \/ \E d \in {"move", "resize"} :
              /\ drag' = d /\ toolbar' = FALSE /\ UNCHANGED <<mode, sel, tool, editor>>
         \/ BeginCreate
    [] tool = "draw" -> drag' = "draw" /\ UNCHANGED <<mode, sel, tool, editor, toolbar>>
    [] OTHER -> editor' = TRUE /\ UNCHANGED <<mode, sel, drag, tool, toolbar>>

PointerDown ==
  /\ Open /\ ~held /\ ~text_mode
  /\ held' = TRUE
  /\ IF editor THEN editor' = FALSE /\ UNCHANGED <<mode, sel, drag, tool, toolbar>>
     ELSE CASE mode = "idle" -> BeginCreate
            [] mode = "selecting" -> UNCHANGED selVars
            [] OTHER -> PressSelected
  /\ UNCHANGED <<purpose, textVars, closing>>

(* The selection follows the drag, whether the button is still down or not. *)
PointerMove ==
  /\ Open /\ ~text_mode
  /\ drag \in {"create", "move", "resize"}
  /\ sel' \in IF drag = "move" /\ sel # Thin THEN Boxes ELSE Selections
  /\ UNCHANGED <<purpose, held, mode, drag, tool, editor, toolbar, textVars, closing>>

(* The end of a create: a click takes a whole window or screen, a thin box  *)
(* takes everything back.                                                   *)
Created(near) ==
  IF ~near /\ sel = Thin
    THEN /\ sel' = None /\ mode' = "idle"
         /\ UNCHANGED <<toolbar, textVars, closing>>
    ELSE /\ sel' \in IF near THEN Boxes ELSE {sel}
         /\ mode' = "selected"
         /\ CASE purpose = "record" ->
                   closing' = TRUE /\ UNCHANGED <<toolbar, textVars>>
              [] purpose = "text" -> EnterTextMode(sel') /\ UNCHANGED closing
              [] OTHER -> toolbar' = TRUE /\ UNCHANGED <<textVars, closing>>

PointerUp ==
  /\ Open /\ held /\ ~text_mode
  /\ held' = FALSE /\ drag' = None
  /\ CASE drag = "create" -> \E near \in BOOLEAN : Created(near)
       [] drag \in {"move", "resize"} ->
            toolbar' = BarFor(mode) /\ UNCHANGED <<mode, sel, textVars, closing>>
       [] OTHER -> UNCHANGED <<mode, sel, toolbar, textVars, closing>>
  /\ UNCHANGED <<purpose, tool, editor>>

(* A double click in the selection. *)
DoubleClick ==
  /\ Open /\ mode = "selected" /\ ~editor
  /\ Finish
  /\ UNCHANGED <<purpose, held, mode, sel, drag, tool, toolbar, textVars>>

-----------------------------------------------------------------------------
(* The pointer in Live Text: it picks words and closes the card. *)

TextDown ==
  /\ Open /\ ~held /\ text_mode
  /\ held' = TRUE
  /\ card' = NoCard
  /\ UNCHANGED <<purpose, selVars, text_mode, textbar, ocrVars, translate_generation,
                 translating, closing>>

(* text_up: a drag from before Live Text is not ended. *)
TextUp ==
  /\ Open /\ held /\ text_mode
  /\ held' = FALSE
  /\ textbar' = TRUE
  /\ UNCHANGED <<purpose, selVars, text_mode, ocrVars, cardVars, closing>>

-----------------------------------------------------------------------------
(* Keys and buttons. *)

KeyEscape ==
  /\ Open /\ ~editor
  /\ CASE text_mode /\ card # NoCard ->
            card' = NoCard /\ UNCHANGED <<selVars, text_mode, textbar, ocrVars,
                                          translate_generation, translating, closing>>
       [] text_mode /\ card = NoCard ->
            ExitTextMode /\ UNCHANGED <<mode, sel, drag, tool, editor, closing>>
       [] ~text_mode /\ drag # None ->
            /\ drag' = None
            /\ sel' = IF mode = "selecting" THEN None ELSE sel
            /\ mode' = IF mode = "selecting" THEN "idle" ELSE mode
            /\ UNCHANGED <<tool, editor, toolbar, textVars, closing>>
       [] OTHER -> closing' = TRUE /\ UNCHANGED <<selVars, textVars>>
  /\ UNCHANGED <<purpose, held>>

(* F: the whole screen, in any mode and in the middle of a drag. *)
KeyFull ==
  /\ Open /\ ~editor /\ ~text_mode
  /\ sel' \in Boxes /\ mode' = "selected" /\ toolbar' = TRUE
  /\ UNCHANGED <<purpose, held, drag, tool, editor, textVars, closing>>

KeyNudge ==
  /\ Open /\ ~editor /\ ~text_mode /\ mode = "selected"
  /\ sel' \in IF sel = Thin THEN {Thin} ELSE Boxes
  /\ toolbar' = TRUE
  /\ UNCHANGED <<purpose, held, mode, drag, tool, editor, textVars, closing>>

(* By key or by the toolbar. *)
SetTool(t) ==
  /\ Open /\ (toolbar \/ (mode = "selected" /\ ~text_mode /\ ~editor))
  /\ tool' = t /\ editor' = FALSE /\ toolbar' = BarFor(mode)
  /\ UNCHANGED <<purpose, held, mode, sel, drag, textVars, closing>>

Act ==
  /\ Open /\ sel # None /\ mode = "selected" /\ ~text_mode
  /\ Finish
  /\ UNCHANGED <<purpose, held, mode, sel, drag, tool, toolbar, textVars>>

CancelButton ==
  /\ Open /\ closing' = TRUE
  /\ UNCHANGED <<purpose, held, selVars, textVars>>

(* C with nothing selected takes the colour under the pointer. *)
PickColor ==
  /\ Open /\ mode = "idle" /\ ~text_mode /\ ~editor
  /\ closing' = TRUE
  /\ UNCHANGED <<purpose, held, selVars, textVars>>

LiveText ==
  /\ Open /\ ~text_mode /\ mode = "selected" /\ sel # None
  /\ EnterTextMode(sel)
  /\ UNCHANGED <<purpose, held, mode, sel, drag, tool, editor, closing>>

TextBack ==
  /\ Open /\ text_mode
  /\ ExitTextMode
  /\ UNCHANGED <<purpose, held, mode, sel, drag, tool, editor, closing>>

(* Copied to the clipboard the text stays; by Enter it ends the session. *)
TextCopy ==
  /\ Open /\ text_mode /\ words # None
  /\ closing' = TRUE
  /\ UNCHANGED <<purpose, held, selVars, textVars>>

TranslateSelection(text) ==
  /\ Open /\ text_mode /\ words # None /\ translate_generation < MaxAsks
  /\ translate_generation' = translate_generation + 1
  /\ card' = [gen |-> translate_generation', asked |-> text, shown |-> None]
  /\ translating' = translating \cup {[gen |-> translate_generation', text |-> text]}
  /\ UNCHANGED <<purpose, held, selVars, text_mode, textbar, ocrVars, closing>>

TranslateClose ==
  /\ Open /\ card # NoCard
  /\ card' = NoCard
  /\ UNCHANGED <<purpose, held, selVars, text_mode, textbar, ocrVars, translate_generation,
                 translating, closing>>

-----------------------------------------------------------------------------
(* Answers. *)

(* A slip: an answer is taken in Live Text, whichever recognition it is of. *)
OcrDoneAny(r) ==
  /\ Open
  /\ recognizing' = recognizing \ {r}
  /\ IF text_mode
       THEN words' \in {r.of, None} /\ textbar' = TRUE
       ELSE UNCHANGED <<words, textbar>>
  /\ UNCHANGED <<purpose, held, selVars, text_mode, ocr_generation, cardVars, closing>>

(* The words, or none: recognition failed or there is no text. *)
OcrDone(r) ==
  /\ Open
  /\ recognizing' = recognizing \ {r}
  /\ IF text_mode /\ r.gen = ocr_generation
       THEN words' \in {r.of, None} /\ textbar' = TRUE
       ELSE UNCHANGED <<words, textbar>>
  /\ UNCHANGED <<purpose, held, selVars, text_mode, ocr_generation, cardVars, closing>>

(* A slip: that it failed is not told. *)
TranslateDoneIfWell(r) ==
  /\ Open
  /\ translating' = translating \ {r}
  /\ card' \in {card, IF r.gen = translate_generation /\ card # NoCard
                      THEN [card EXCEPT !.shown = r.text] ELSE card}
  /\ UNCHANGED <<purpose, held, selVars, text_mode, textbar, ocrVars, translate_generation, closing>>

(* A translation, or that it failed. *)
TranslateDone(r) ==
  /\ Open
  /\ translating' = translating \ {r}
  /\ card' = IF r.gen = translate_generation /\ card # NoCard
               THEN [card EXCEPT !.shown = r.text] ELSE card
  /\ UNCHANGED <<purpose, held, selVars, text_mode, textbar, ocrVars, translate_generation,
                 closing>>

Answers ==
  \/ \E r \in recognizing : OcrDone(r)
  \/ \E r \in translating : TranslateDone(r)

Next ==
  \/ PointerDown \/ PointerMove \/ PointerUp \/ DoubleClick \/ TextDown \/ TextUp
  \/ KeyEscape \/ KeyFull \/ KeyNudge \/ CancelButton \/ PickColor
  \/ \E t \in Tools : SetTool(t)
  \/ Act \/ LiveText \/ TextBack \/ TextCopy \/ TranslateClose
  \/ \E text \in Texts : TranslateSelection(text)
  \/ Answers

Spec == Init /\ [][Next]_vars

(* Recognition and translation answer, if only that they failed. *)
FairSpec == Spec /\ WF_vars(Answers)

-----------------------------------------------------------------------------
(* Properties *)

(* Every variable has its type; nothing is selected exactly while idle, and *)
(* one of the two toolbars is shown at most.                                *)
TypeOK ==
  /\ mode \in {"idle", "selecting", "selected"} /\ sel \in Selections \cup {None}
  /\ (mode = "idle") = (sel = None)
  /\ drag \in Drags /\ tool \in Tools
  /\ ~(toolbar /\ textbar)
  /\ words \in Selections \cup {None}

(* What Live Text shows belongs to what is on the screen: the words to the  *)
(* selection, and the translation to the text it was asked for, however     *)
(* late the answers of earlier requests come.                               *)
AnswersFit ==
  /\ words # None => text_mode /\ words = sel
  /\ card # NoCard => text_mode /\ card.shown \in {None, card.asked}

(* A card does not say for ever that it is translating. *)
LoadingEnds == (card # NoCard /\ card.shown = None) ~> (card = NoCard \/ card.shown # None \/ ~Open)
=============================================================================
