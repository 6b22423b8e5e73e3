CONSTANTS
    p1 = p1
    p2 = p2
    p3 = p3
    Proc <- ThreeProc
    Empty = Empty
    NoFile = NoFile
    MaxCrash = 2
SPECIFICATION FairSpec
INVARIANTS TypeOK ExclusiveUnlessRobbed
PROPERTY SomeoneGetsIn
