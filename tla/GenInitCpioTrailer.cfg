\* One bad line is enough: is the trailer withheld?
SPECIFICATION Spec
CONSTANTS
    NrThreads = 2
    NrLines = 2
    Kinds = {"entry", "bad"}
    Faults = {}
    EntryCalls = 2
    FileCalls = 3
    DataCall = 2
    TrailerCalls = 2
INVARIANTS
    TrailerOnlyIfAllWentWell
CHECK_DEADLOCK FALSE
