SPECIFICATION Spec
CONSTANTS
  p1 = p1
  p2 = p2
  s1 = s1
  s2 = s2
  None = None
  Ports = {p1, p2}
  SETTINGS <- OneSetting
  MAX_UNIT = 3
  HintUnits <- NoHints
  HintSettings <- NoHints
  Buses <- OneBus
INVARIANT
  StoppedIsTrue
