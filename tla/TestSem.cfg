\* Three processes contending for one unit. The program ends.
SPECIFICATION FairSpec
CONSTANTS
    Procs = {p1, p2, p3}
    SemCount = 1
    MaxCount = 4
INVARIANTS
    CheckCountExact
    DestroyedAfterUse
PROPERTIES
    RunEnds
CHECK_DEADLOCK FALSE
