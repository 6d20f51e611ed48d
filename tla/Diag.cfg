SPECIFICATION Spec
CONSTANTS
  None = None
  eth = eth
  wlan = wlan
  ssid1 = ssid1
  ssid2 = ssid2
  WIDTH = 3
  MAX_SCAN_PREFIX = 2
  MIN_GUESS_PREFIX = 1
  MAX_PORT = 2
  SCAN_BUDGET = 6
  MAX_DISCOVERY = 4
  MIN_STEP = 1
  TOOL_TIMEOUT = 1
  GRACE = 1
  Requests <- SomeRequests
  Interfaces = {eth, wlan}
  Ssids = {ssid1, ssid2}
  Servers = {"1.1.1.1", "::1"}
  LinkTables <- SomeLinks
  RouteTables <- SomeRoutes
  WifiTables <- SomeWifi
  Networks <- SomeNetworks
  Hosts <- SomeHosts
INVARIANTS
  TypeOK
  HostsAreReal
  ScanIsWhole
  StatusIsWhole
  EndsNearBudget
  ScansOwnNetwork
  StrongestOfEachName
