SPECIFICATION FairSpec
CONSTANTS
    Files = {data, tool}
    Tool = tool
    MaxEdits = 2
    MaxFaults = 1
INVARIANTS
    NoInputForgotten
PROPERTIES
    AppIsOfItsInputs
    EditsReachTheApp
CHECK_DEADLOCK FALSE
