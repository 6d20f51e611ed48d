SPECIFICATION OneSlowSpec
CONSTANTS
  p1 = p1
  p2 = p2
  s1 = s1
  s2 = s2
  None = None
  Ports = {p1, p2}
  SETTINGS <- CommonSettings
  MAX_UNIT = 3
  HintUnits <- UnitHints
  HintSettings <- SettingHints
  Buses <- TwoBuses
INVARIANTS
  FoundDeviceExists
  SilenceMeansNobody
  OthersExist
  QuietOnReturn
PROPERTY
  EveryScanEnds
