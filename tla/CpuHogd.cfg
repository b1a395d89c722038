\* One writer, two commands in a read, two hoggers at a time, one descriptor; the
\* machine lets the daemon use CPUs 2 and 3. A daemon that has ended is the end of the run.
SPECIFICATION FairSpec
CONSTANTS
    Messages <- MCMessages
    Online = {2, 3}
    MaxWriters = 1
    MaxPipe = 2
    MaxFds = 1
    Kids = {k1, k2}
INVARIANTS
    NoForgottenZombie
    AlarmInItsJam
    HoggersAsAsked
PROPERTIES
    EveryCommandEnds
CHECK_DEADLOCK FALSE
