SPECIFICATION FairSpec
CONSTANTS
  None = None
  Calls = {c1, c2}
  Methods = {"exec", "scan"}
  MaxSteps = 1
  Channels = {a, b}
  First = a
  MaxRuns = 2
  MaxUpdates = 1
INVARIANTS
  OneAtATime
  CancellationStands
  StepsAreSent
  MarkerIsTrue
PROPERTIES
  EveryRequestIsAnswered
  AnnouncesItself
