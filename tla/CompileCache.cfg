CONSTANTS
    p1 = p1
    p2 = p2
    n1 = n1
    u1 = u1
    u2 = u2
    s1 = s1
    s2 = s2
    h1 = h1
    d1 = d1
    NoProc = NoProc
    Install = Install
    NoFile = NoFile
    Torn = Torn
    Proc <- TwoProc
    Names <- MCNames
    Units <- TwoUnits
    Source <- OwnSource
    Hash <- MCHash
    Accepts <- MCAccepts
    Cache <- SharedCache
    InstallWritable = TRUE
    CacheGroup = 1
    MaxErrors = 1
    MaxCrashes = 1
SPECIFICATION Spec
INVARIANTS TypeOK AnswerIsVerdict OneBatchIfLocked
