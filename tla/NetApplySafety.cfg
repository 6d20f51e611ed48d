SPECIFICATION Spec
CONSTANTS
  MaxCalls = 2
  MaxTime = 60
  AskedRollbacks <- Asked
  MIN_ROLLBACK = 6
  MAX_ROLLBACK = 60
  VERIFY_MARGIN = 2
  VERIFY_POLL = 1
  ROLLBACK_GRACE = 1
  TOOL_TIMEOUT = 2
  CHECK_TIMEOUT = 1
  STATUS_TIMEOUT = 1
  WAIT_RESERVE = 4
  MIN_WAIT = 2
  MAX_WAIT = 9
  NMCLI_GRACE = 2
  FireLag = 2
  LostReplies = FALSE
INVARIANTS
  NeverStranded
  CheckSeesTheChange
  NoEarlyVerdict
  KeptReportIsTrue
  RolledBackReportIsTrue
  ErrorsChangeNothing
PROPERTY
  ImplementsSafeChange
