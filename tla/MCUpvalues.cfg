SPECIFICATION Spec
CONSTANTS
    Fn = {"main", "f", "g", "h"}
    Main = "main"
    Outer <- FileOuter
    Enclosing <- FileEnclosing
    Var = {"a", "c", "p"}
    Owner <- FileOwner
    Params = {}
    Fixed = {"p"}
    FixedSlot <- FileFixedSlot
    MaxSlots = 3
    MaxOperands = 4
INVARIANTS TypeOK ListsFinal EmittedRight

CHECK_DEADLOCK FALSE
