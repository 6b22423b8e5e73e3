CONSTANTS
    ByteBits = 2
    WordBytes = 4
    Subjects <- AtMostMax
SPECIFICATION Spec
PROPERTY ValuePreserved
CHECK_DEADLOCK FALSE
