\* Every kind of session, a stop within the first unit, any stream thread may panic: everyone comes to an end.
CONSTANTS
  Jobs <- Every
  QueueDepth = 1
  MixDelay = 1
  MinAudioOnly = 1
  MaxPos = 0
  Panics <- AnyThread
SPECIFICATION FairSpec
PROPERTIES
  StopEnds
  CancelEnds
CHECK_DEADLOCK FALSE
