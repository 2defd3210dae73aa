SPECIFICATION Spec
CONSTANTS
    MaxSlots = 5
    Groups = {g1, g2, g3}
    MaxPc = 3
    MaxLen = 2
    Programs <- MixedPrograms
SYMMETRY Symmetry
INVARIANTS
    TypeOK
    ScanSound
    FixedSlotsKept
    FailsOnlyWhenFull
CHECK_DEADLOCK FALSE
