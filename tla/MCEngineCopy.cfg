\* A region with the sound of the system; moving the file may fail twice.
CONSTANTS
  Jobs <- Screen
  QueueDepth = 1
  MixDelay = 1
  MinAudioOnly = 1
  MaxPos = 0
  Panics = {}
SPECIFICATION Spec
INVARIANTS
  OnlyCopyStays
CHECK_DEADLOCK FALSE
