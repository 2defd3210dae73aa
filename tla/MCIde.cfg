SPECIFICATION Spec
CONSTANTS
    f1 = f1
    f2 = f2
    Files <- MCFiles
    HashOrder <- MCHashOrder
    Texts = {"locals", "globals", "broken"}
    Broken = {"broken"}
    Program <- MCProgram
    BuiltIns = {"print"}
    ProjectFiles = {"mine", "given"}
    Writable = {"mine"}
    Delivered <- MCDelivered
    Mains = {"go"}
    Disks <- MCDisks
    MaxMoves = 5
    MaxLost = 1
CHECK_DEADLOCK FALSE
INVARIANTS ResolvesLexically PointersExplained ChangesSeen
PROPERTIES CompilesWhatIsShown RunsWhatIsShown
