CONSTANTS
    ByteBits = 2
    WordBytes = 4
    Subjects <- MCSubjects
SPECIFICATION Spec
INVARIANTS TypeOK MaskIsSound ConsumeIsSound
PROPERTIES ValuePreserved Finishes
CHECK_DEADLOCK FALSE
