SPECIFICATION Spec
CONSTANTS
  Requests = {r1}
  Callers = {}
  Fetches = {f1}
  Budget = 2
  MaxInstalls = 2
  NoTable = NoTable
INVARIANTS
  BorrowedStaysLoaded
CHECK_DEADLOCK FALSE
