\* Two tiles, two marks, strokes of three points; two recognitions and two
\* translations of two selections; pictures of a few pixels; up to three
\* monitors, and one change of them; a region of ten pixels, and what is
\* placed on two screens.
CONSTANTS
  Columns = 2
  Presses = {1}
  Holes <- MCHoles
  MaxMarks = 2
  MaxPoints = 3
  Purposes = {"capture", "text", "record"}
  Boxes = {"A", "B"}
  Texts = {"x", "y"}
  MaxAsks = 2
  MaxImageBytes = 1000
  Bytes = {0, 64, 127, 200, 255}
  Sizes <- MCSizes
  Corners <- MCCorners
  Scales = {2, 3}
  Taskbar = 1
  Monitors = 3
  MaxChanges = 1
  Zooms = {2, 3}
  Across = 10
  MaxCreep = 1
  Screens <- MCScreens
SPECIFICATION Spec
INVARIANTS
  EditorTypeOK
  WindowShowsTheList
  BadgesCount
  AnswersFit
  PixelsHaveOnePlace
PROPERTY LoadingEnds
CHECK_DEADLOCK FALSE
