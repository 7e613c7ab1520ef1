SPECIFICATION HostFairSpec
CONSTANTS
  Requests = {r1}
  Callers = {c1}
  Fetches = {f1}
  Budget = 2
  MaxInstalls = 3
  NoTable = NoTable
  MaxCommands = 3
INVARIANTS
  LoadedWhileUsed
  BeliefReachesRequests
PROPERTIES
  ExchangesKeepApart
  ExchangeReturns
CHECK_DEADLOCK FALSE
