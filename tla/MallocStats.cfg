SPECIFICATION Spec
CONSTANTS
    Strings = {s1, s2}
    Addrs = {a1, a2}
    NULL = null
    MaxIter = 4
    HTABLE_SZ = 2
INVARIANTS
    StringTableExact
    TrackIsHeap
    NoWrap
    ReportExact
CHECK_DEADLOCK FALSE
