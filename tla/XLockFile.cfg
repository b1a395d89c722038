SPECIFICATION Spec
CONSTANTS
    Procs = {p1, p2, p3}
    MaxFiles = 2
INVARIANTS
    ExclusiveUnlessZeroed
    OneLockPerName
CHECK_DEADLOCK FALSE
