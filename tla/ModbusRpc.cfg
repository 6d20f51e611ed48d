SPECIFICATION FairSpec
CONSTANTS
  None = None
  MAX_UNIT = 2
  MAX_PROBE_UNITS = 3
  MAX_PROBE_COUNT = 1
  MAX_READ_COUNT = 2
  LAST_REGISTER = 1
  Values = {0, 1}
  Requests <- SomeRequests
  Buses <- Buses012
  MaxCalls = 2
INVARIANTS
  TypeOK
  WriteReportIsTrue
  ProbeIsTrue
PROPERTIES
  WritesOneUnit
  EveryCallReturns
