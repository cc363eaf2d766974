\* Two hotkey fields; two of the user's events are enough.
CONSTANTS
  Fields = {f1, f2}
  Keys = {k1, k2}
  Texts = {a, b}
  Entries = {e1}
  None = None
  MaxEvents = 3
SPECIFICATION Spec
INVARIANT RecordingIsQuiet
CHECK_DEADLOCK FALSE
