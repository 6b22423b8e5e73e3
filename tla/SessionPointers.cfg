CONSTANTS
    p1 = p1
    p2 = p2
    i1 = i1
    i2 = i2
    k1 = k1
    k2 = k2
    v1 = v1
    Proc <- TwoProc
    Inputs <- MCInputs
    Keys <- TwoKeys
    Values <- MCValues
    Unset = Unset
    NoProc = NoProc
    MaxErrors = 1
    MaxCrashes = 1
SPECIFICATION Spec
INVARIANTS TypeOK NoDanglingInput ToldIfAlone
PROPERTY OnlyOwnEntry
