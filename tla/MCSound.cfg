\* A clock of 3 ticks and 2 frames a second: holes, overlaps, drift and two pauses within two seconds.
CONSTANTS
  TicksPerSec = 3
  SampleRate = 2
  Gap = 2
  Deadband = 0
  SlipEvery = 2
  Rates = {1, 2, 3}
  MaxPacket = 2
  MaxPauses = 2
  MaxNow = 6
SPECIFICATION Spec
INVARIANTS
  TypeOK
  PositionIsTimeOnAir
  DueFramesAreReached
  SoundKeepsItsTime
CHECK_DEADLOCK FALSE
