\* Each part alone: two savers of two pictures and one end of the process; five of the user's events;
\* two callers of the hotkeys' thread; two presses, two gestures and two clicks; three translations;
\* three launches; two changes of the server's settings; three changes of all settings, two starts;
\* screens of six pixels.
CONSTANTS
  Missing = Missing
  Torn = Torn
  Nothing = Nothing
  None = None
  Nobody = Nobody
  Savers = {s1, s2}
  Recorders = {s2}
  Numbers = {1, 2, 3, 4}
  Files = {1, 2, 3}
  MaxItems = 2
  MaxSaves = 2
  MaxCrashes = 1
  Fields = {f1, f2}
  Keys = {k1, k2}
  Texts = {a, b}
  Entries = {e1}
  MaxEvents = 5
  Callers = {c1, c2}
  Actions = {x1, x2}
  Combos = {k1, k2}
  Requests <- MCRequests
  MaxMessages = 3
  Presses = {p1, p2}
  Gestures = {g1, g2}
  Clicks = {h1, h2}
  Translations = {p1, p2, h1}
  MaxQueue = 2
  IdleTicks = 3
  Processes = {q1, q2, q3}
  Ports = {t1, t2}
  MaxChanges = 2
  Wrong = Wrong
  MaxEdits = 3
  MaxStarts = 2
  Reach = 1
  Palette <- MCPalette
  Width = 3
  Height = 2
SPECIFICATION Spec
INVARIANTS
  ServicesTypeOK
  WindowComesToRest
  SelectionIsServed
  RequestsAreMet
PROPERTY HistoryIsOneList
CHECK_DEADLOCK FALSE
