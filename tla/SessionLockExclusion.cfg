CONSTANTS
    p1 = p1
    p2 = p2
    p3 = p3
    Proc <- TwoProc
    Empty = Empty
    NoFile = NoFile
    MaxCrash = 0
SPECIFICATION Spec
INVARIANTS MutualExclusion
