SPECIFICATION ServiceSpec
CONSTANTS
    Requests = {r1}
    Callbacks = {load, remote}
    Fetches = {f1}
    Calls = {c1, c2}
    None = None
    MaxTroubles = 2
INVARIANTS
    AnswerIsWhole
    NothingLeftRunning
    FetchedIsItsOwn
    OwnerIsLast
PROPERTIES
    NobodyIsStuck
    FetchesEnd
CHECK_DEADLOCK FALSE
