SPECIFICATION Spec
CONSTANTS
    Mode = "Line"
    Pos = {"m1", "m2", "f1", "f2"}
    Fn = {"main", "f"}
    Main = "main"
    FnOf <- FunctionOf
    Entry <- First
    LineInfo <- PackedLine
    EditorLine <- Line
    TailCalls = TRUE
    NoFn = NoFn
    NoPos = NoPos
    CFn = CFn
    CPos = CPos
    BreakKeys = {3}
    MaxStack = 3
    MaxDrift = 3
    AliveMax = 1
INVARIANTS DepthExact
