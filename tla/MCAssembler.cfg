SPECIFICATION Spec
CONSTANTS
    MaxSlots = 6
    MaxConst = 0
    Vars = {"x", "y", "z", "r", "a", "b", "c", "d", "e"}
    Headers <- AllHeaders
    Statements <- AllStatements
    Labels = {"l"}
    MaxStmts = 3
INVARIANTS OperandsRight OperandsLocal NeverRunsOff StraightKeepsValues
CHECK_DEADLOCK FALSE
