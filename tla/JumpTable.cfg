CONSTANTS
    ByteBits = 2
    WordBytes = 4
    MaxTableSize = 6
    PositiveSize = 8
    MaxStride = 4
    Image <- MCImage
    Sites <- MCSites
SPECIFICATION Spec
INVARIANTS GuardExact TableCovers FlowPreserved
CHECK_DEADLOCK FALSE
