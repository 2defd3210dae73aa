CONSTANTS
    Langs = {"Ljas", "Lua"}
    Commented = {"Lua"}
    Unwritten <- Alike
    LjasPlan = 16
    LuaPlan = 10
    MaxPlan <- Bounds
    MaxSlips = 1
    Files <- SmallFiles
    MaxChars = 3
    MaxPieces = 4
SPECIFICATION Spec
INVARIANTS VerdictRight TreeIsDerivation StringsAndComments
PROPERTY ParseEnds
