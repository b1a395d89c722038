\* Three threads under weak fairness, initial count 0, at most 1 before an up.
SPECIFICATION FairSpec
CONSTANTS
    Procs = {p1, p2, p3}
    NoProc = NoProc
    SemCount = 0
    MaxCount = 1
INVARIANTS
    PSemNoLostWakeup
PROPERTIES
    UnitOrSleeperGoes
    ImplementsAbstractSem
