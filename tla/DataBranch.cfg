SPECIFICATION BranchFairSpec
CONSTANTS
    Depth = 3
    Promises = {p1, p2}
    Headers = {h1}
    Cookies = {c1}
INVARIANTS
    BranchIsWhole
    SentIsExact
PROPERTIES
    RequestEnds
CHECK_DEADLOCK FALSE
