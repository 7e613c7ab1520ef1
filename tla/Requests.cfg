SPECIFICATION RequestSpec
CONSTANTS
  fetched = fetched
  Main = main
  Hook = hook
  None = none
  Subs <- Fetched
  MaxWrites = 1
  Cancellable = {main}
  Instances = {k1, k2}
  LiveKey = live
  Nothing = Nothing
  MaxRequested = 2
  MaxNames = 2
  Streams = {s1}
  Values = {a, b}
  NoValue = NoValue
INVARIANTS
  AnswersAreHonest
  EofMeansWhole
  CancelledMayAnswer
  NothingOutlives
  RefreshesAreNamed
  EndComesLast
PROPERTIES
  NobodyIsHeldUp
  StreamsLetGo
CHECK_DEADLOCK FALSE
