CONSTANTS
    Analyzers <- MCAnalyzers
    Priority <- MCPriority
    Type <- MCType
    Types <- MCTypes
    Enabled <- MCEnabled
    Addr <- MCAddr
    OneShots <- MCOneShots
    DISASSEMBLY <- MCDISASSEMBLY
    a1 = a1
    NoPriority = NoPriority
    MaxSeq = 4
SPECIFICATION FairSpec
INVARIANTS TypeOK OneTaskPerPending UniqueKeys RequestsJumpTheQueue
PROPERTIES Delivered DisassembledFirst ImplementsWorklist
CHECK_DEADLOCK FALSE
