SPECIFICATION FairSpec
CONSTANTS
  LIMIT = 2
  PipeSize = 2
  MaxBytes = 5
INVARIANTS
  ExecInv
  KilledWithChildren
  OutputIsWhole
  SentIsCarried
PROPERTIES
  ExpiryEndsIt
  NeverBlocked
  TruncationIsTold
