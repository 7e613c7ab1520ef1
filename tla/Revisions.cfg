SPECIFICATION FairSpec
CONSTANTS
    Calls = {c1, c2}
    Keys = {k1, k2}
    First = k1
    MaxRevisions = 3
    None = None
INVARIANTS
    SharingIsUnseen
PROPERTIES
    PrepareReturns
CHECK_DEADLOCK FALSE
