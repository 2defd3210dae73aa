SPECIFICATION Spec
CONSTANTS
    Sessions <- AllSessions
    Text <- SmallText
    Nums = {0, 1}
    Strs = {0, 1}
    MaxDepth = 4
    MaxSteps = 60
INVARIANTS HeapSound ResultsRight
 
CHECK_DEADLOCK FALSE
