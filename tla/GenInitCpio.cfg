\* Two workers, every list of three lines of all kinds, every
\* fault. The program ends.
SPECIFICATION FairSpec
CONSTANTS
    NrThreads = 2
    NrLines = 3
    Kinds = {"skip", "notype", "unknown", "noargs", "bad", "entry", "file"}
    Faults = {"tmp", "stdout", "mkstemp", "create"}
    EntryCalls = 2
    FileCalls = 3
    DataCall = 2
    TrailerCalls = 2
INVARIANTS
    WrittenOnce
    LinksTogether
    WorkerOrder
    ArchiveComplete
PROPERTIES
    ProgramEnds
CHECK_DEADLOCK FALSE
