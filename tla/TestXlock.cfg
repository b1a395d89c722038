\* Two children with two turns each; test_inc absent or left over with 5.
SPECIFICATION TestSpec
CONSTANTS
    Procs = {p1, p2}
    MaxIter = 2
    Base = {5}
    Garbage = {0, 9}
    Absent = Absent
    Empty = Empty
INVARIANTS
    NoLostIncrement
PROPERTIES
    EverybodyFinishes
CHECK_DEADLOCK FALSE
