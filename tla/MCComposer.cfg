SPECIFICATION Spec
CONSTANTS
    W = 10
    G = 4
    Byte = 4
    Str = {s1, s2}
    unescape <- SmallUnescape
    Num <- SmallNums
    Spans <- SmallSpans
    LineNrs = {0, 5}
    MaxC = 1
    MaxFn = 3
    MaxOps = 2
SYMMETRY StrSymmetry
INVARIANTS TypeOK ReadBack NumbersReadBack
