\* Four processes and an empty semaphore; the count may pass MaxCount while
\* ups are in flight.
SPECIFICATION FairSemSpec
CONSTANTS
    Procs = {p1, p2, p3, p4}
    SemCount = 0
    MaxCount = 1
INVARIANTS
    MutualExclusion
    NoLostWakeup
    SemNoLostWakeup
PROPERTIES
    DeadlockFree
    ImplementsAbstractLock
    UnitOrSleeperGoes
    UsesXLock
    ImplementsAbstractSem
