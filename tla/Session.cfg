SPECIFICATION FairSpec
CONSTANTS
  a = a
  body = body
  route = route
  bad = bad
  Requests = {r1}
  Codes = {a, body, route, bad}
  First = a
  Shape <- MCShape
  Routes <- MCRoutes
  Fault <- StartFault
  MayStop = TRUE
  MaxEdits = 2
  MaxKit = 1
  KitReverts = FALSE
  MaxTrouble = 2
INVARIANTS
  OneHostAnswers
  PublishedIsServed
  LeasesExact
PROPERTIES
  SessionSettles
CHECK_DEADLOCK FALSE
