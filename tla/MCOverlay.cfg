\* A hotkey and an agent's request, two displays, two sessions.
CONSTANTS
  Callers = {hotkey}
  Agents = {agent}
  Cursor = cursorDisplay
  Others = {otherDisplay}
  MaxAsks = 2
SPECIFICATION FairSpec
INVARIANTS
  TypeOK
  OpenMeansSession
  DoneIsTheChoice
PROPERTIES
  NeverUnseen
  LimitCloses
CHECK_DEADLOCK FALSE
