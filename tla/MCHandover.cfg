\* Two starts, two overlays and two installations at once, two sessions of the recorder.
CONSTANTS
  Recorders = {t1, t2}
  Overlays = {o1, o2}
  Installers = {i1, i2}
  Nobody = nobody
  MaxStarts = 2
SPECIFICATION Spec
INVARIANTS
  TypeOK
  NothingIsCutOff
  CalledOffIsOver
SYMMETRY SameThreads
CHECK_DEADLOCK FALSE
