\* A region with the sound of the system, a channel of one packet, two units of recording.
CONSTANTS
  Jobs <- Screen
  QueueDepth = 1
  MixDelay = 1
  MinAudioOnly = 1
  MaxPos = 2
  Panics = {}
SPECIFICATION Spec
INVARIANTS
  TypeOK
  WholeUnlessTold
  MixerWaits
  LeavesOnlyTheResult
CHECK_DEADLOCK FALSE
