\* Four indices and a first length of one, so that the arrays grow twice.
SPECIFICATION FairSpec
CONSTANTS
    Keys = {1, 3, 5, 7}
    Vals = {v1, v2}
    InitLen = 1
INVARIANTS
    InBounds
PROPERTIES
    SearchEnds
    ImplementsMap
CHECK_DEADLOCK TRUE
