SPECIFICATION Spec
CONSTANTS
  a = a
  body = body
  route = route
  bad = bad
  Requests = {r1}
  Codes = {a, body, route, bad}
  First = a
  Shape <- MCShape
  Routes <- MCRoutes
  Fault <- NoFault
  MayStop = TRUE
  MaxEdits = 1
  MaxKit = 1
  KitReverts = TRUE
  MaxTrouble = 3
INVARIANTS
  ConstructedFromPublished
CHECK_DEADLOCK FALSE
