CONSTANTS
    p1 = p1
    p2 = p2
    s1 = s1
    r1 = r1
    t1 = t1
    Proc <- MCProc
    SetNames <- MCSets
    RoundNames <- MCRounds
    Tables <- MCTables
    Manifest = manifest
    NoDir = NoDir
    NoProc = NoProc
    MaxFaults = 2
SPECIFICATION Spec
SYMMETRY Symmetry
INVARIANTS TypeOK PublishedComplete
PROPERTIES AckedDurable ImplementsStore
