SPECIFICATION Spec
CONSTANTS
    MaxSlots = 6
    MaxConst = 0
    Vars = {"y", "z"}
    Headers <- Callers
    Statements <- Calls
    Labels = {"l"}
    MaxStmts = 4
INVARIANTS KeepsValues
CHECK_DEADLOCK FALSE
