\* Two sessions, every operation from one calling thread, with a countdown: safety and the port.
CONSTANTS
  Starters = {s1}
  Callers = {c1}
  Calls = {"stop", "cancel", "pause", "resume"}
  MaxStarts = 2
  StopTimeout = 1
  CancelTimeout = 1
  HasCountdown = TRUE
  SerialStarts = TRUE
SPECIFICATION Spec
INVARIANTS
  TypeOK
  QuietMeansDone
  DoneOnceAndIdle
PROPERTY ImplementsPort
CHECK_DEADLOCK FALSE
