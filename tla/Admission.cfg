SPECIFICATION FairSpec
CONSTANTS
  Requests = {a, b}
  MaxPauses = 4
INVARIANTS
  PausedMeansQuiet
PROPERTIES
  CancelledForAReason
  PromiseKept
  NobodyWaitsForever
CHECK_DEADLOCK FALSE
