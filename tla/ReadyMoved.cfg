SPECIFICATION ReadyFairSpec
CONSTANTS
  Channels = {a, b}
  First = a
  MaxRuns = 2
  MaxUpdates = 1
PROPERTY
  ServedIsAnnounced
