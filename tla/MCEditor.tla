------------------------------ MODULE MCEditor ------------------------------
(* One overlay window's editor, and what it stands on: the arithmetic of    *)
(* its pixels and the places of the monitors.  The parts share no variable, *)
(* so one of them moves at a time: `part` says which.                       *)
EXTENDS Integers

CONSTANTS
  Columns, Presses, Holes, MaxMarks, MaxPoints,  (* of Marks                *)
  Purposes, Boxes, Texts, MaxAsks,               (* of Editor               *)
  MaxImageBytes, Bytes,                          (* of Pixels               *)
  Sizes, Corners, Scales, Taskbar, Monitors, MaxChanges,  (* of Displays    *)
  Zooms, Across, MaxCreep, Screens               (* of Region               *)

VARIABLES
  part,
  annotations, redo_stack, counter_n, temp, drawing, typing, hole,
  grid, bright, dim, stale_dims,
  purpose, mode, sel, drag, tool, editor, toolbar, held, text_mode, textbar, words,
  ocr_generation, recognizing, card, translate_generation, translating, closing,
  input,
  monitors, attempts, shown, changes,
  zoom, region, pulled, placed

M == INSTANCE Marks
E == INSTANCE Editor
P == INSTANCE Pixels
D == INSTANCE Displays WITH held <- shown
R == INSTANCE Region

ASSUME EditorAssumptions ==
  M!MarksAssumption /\ E!EditorAssumption /\ P!PixelsAssumption /\ D!DisplaysAssumption /\ R!RegionAssumption

MCHoles == {{1}, {2}}
MCScreens == {<<740, 480>>, <<1280, 720>>}
MCSizes == {<<4, 4>>}
MCCorners == {<<4, 0>>, <<4, 1>>, <<4, 4>>, <<-4, 0>>, <<-4, 1>>, <<0, -4>>, <<1, 4>>, <<8, 1>>, <<4, -3>>}

markVars == <<annotations, redo_stack, counter_n, temp, drawing, typing, hole, grid, bright,
              dim, stale_dims>>
editorVars == <<purpose, mode, sel, drag, tool, editor, toolbar, held, text_mode, textbar, words,
                ocr_generation, recognizing, card, translate_generation, translating, closing>>
displayVars == <<monitors, attempts, shown, changes>>
regionVars == <<zoom, region, pulled, placed>>
vars == <<part, markVars, editorVars, input, displayVars, regionVars>>

(* What does not move has one state. *)
Init ==
  /\ part \in {"marks", "editor", "pixels", "displays", "region"}
  /\ M!Init /\ (part = "marks" \/ hole = {1})
  /\ E!Init /\ (part = "editor" \/ purpose = "capture")
  /\ D!Init /\ (part = "displays" \/ monitors = <<D!Monitor(<<0, 0>>, <<4, 4>>, 2)>>)
  /\ IF part = "pixels" THEN P!Init ELSE input = [kind |-> "none"]
  /\ IF part = "region" THEN R!Init ELSE R!AxisInit(R!Coarsest)

OnlyMarks == UNCHANGED <<part, editorVars, input, displayVars, regionVars>>
OnlyEditor == UNCHANGED <<part, markVars, input, displayVars, regionVars>>
OnlyDisplays == UNCHANGED <<part, markVars, editorVars, input, regionVars>>
OnlyRegion == UNCHANGED <<part, markVars, editorVars, input, displayVars>>

Next ==
  \/ part = "marks" /\ M!Next /\ OnlyMarks
  \/ part = "editor" /\ E!Next /\ OnlyEditor
  \/ part = "displays" /\ D!Next /\ OnlyDisplays
  \/ part = "region" /\ R!Next /\ OnlyRegion

Spec == Init /\ [][Next]_vars /\ WF_vars(part = "editor" /\ E!Answers /\ OnlyEditor)

(* Every variable has its type; nothing is selected exactly while idle, one *)
(* toolbar is shown at most, and every changed tile was handed over.        *)
EditorTypeOK ==
  CASE part = "marks" -> M!TypeOK
    [] part = "editor" -> E!TypeOK
    [] part = "displays" -> D!TypeOK
    [] OTHER -> TRUE

(* What the window shows is what the lists hold, under the veil too. *)
WindowShowsTheList == part = "marks" => M!WindowShowsTheList

(* Badges count without a hole, however they were undone and redone. *)
BadgesCount == part = "marks" => M!BadgesCount

(* Late answers do not show: words and translations fit what is selected. *)
AnswersFit == part = "editor" => E!AnswersFit

(* A picture comes through its encodings as it was, a header that lies does *)
(* not lead out of it, and every pixel is drawn, converted and cropped once;*)
(* each place is on one monitor, in pixels as in DIP, and a display that    *)
(* was held across a change is the same one or gone; the region is in the   *)
(* picture, and what is placed around it in reach and beside it.            *)
PixelsHaveOnePlace ==
  CASE part = "pixels" ->
         /\ P!DibStaysInBounds /\ P!DibRowsOnce /\ P!PictureComesBack /\ P!RowIsUnpacked
         /\ P!ColoursFit /\ P!MaskedColoursKeepTheirOrder /\ P!BuffersAreFilled
         /\ P!LensIsCentred /\ P!CropIsTheCommonPart
    [] part = "displays" ->
         /\ D!PlacedApart /\ D!PixelsFindTheirMonitor /\ D!HeldIsThereOrGone
         /\ D!SmallLayoutIsComplete /\ D!WindowsStayPut
    [] part = "region" ->
         /\ R!RegionIsInThePicture /\ R!BarsAreInReach /\ R!LabelsAreInReach /\ R!LensIsBesideThePointer
         /\ R!HoleIsWhatAClickTakes /\ R!BandFollowsThePointer /\ R!HandlesAreFound
    [] OTHER -> TRUE

(* A card does not say for ever that it is translating. *)
LoadingEnds == E!LoadingEnds
=============================================================================
