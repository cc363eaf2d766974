\* One session, two threads that stop and cancel it at once: no request is lost, a stuck worker is written off.
CONSTANTS
  Starters = {s1}
  Callers = {c1, c2}
  Calls = {"stop", "cancel"}
  MaxStarts = 1
  StopTimeout = 2
  CancelTimeout = 1
  HasCountdown = FALSE
  SerialStarts = TRUE
SPECIFICATION FairSpec
INVARIANT RequestsArrive
PROPERTY StuckWorkerIsWrittenOff
CHECK_DEADLOCK FALSE
