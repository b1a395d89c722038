------------------------------- MODULE CpuHogd -------------------------------
(***************************************************************************)
(* The daemon of src/cpu_hogd.c and of its first version cpu_hogd_v0.c: it *)
(* reads commands from a FIFO, spins itself ("jam") or forks hoggers, one  *)
(* for each CPU of a mask ("hydra").  Writers are the environment: each    *)
(* opens the FIFO, may write one command and closes it.                    *)
(*                                                                         *)
(* A message is [word, args], the numbers that follow the command word.    *)
(* Commands end in a newline, as echo writes them.  The client of v0 sends *)
(* two numbers without a command word and without a newline: its word is   *)
(* "number", its args are both of them.                                    *)
(*                                                                         *)
(*   dpc: "create", "open", "opening", "read", "parse", "arm", "jam",      *)
(*   "hydra", "close", "quit", "dead"                                      *)
(***************************************************************************)
EXTENDS Integers, Sequences, Reaper

CONSTANTS
    Messages,       \* commands that writers send
    Online,         \* CPUs sched_setaffinity accepts
    MaxWriters,     \* bound: writers that have the FIFO open
    MaxPipe,        \* bound: commands in the FIFO; they fit one read
    MaxFds          \* descriptors the daemon may have open

ASSUME MessagesAssumption ==
    \A m \in Messages : /\ m.word \in {"jam", "hydra", "quit", "other", "number"}
                        /\ m.args \in Seq(Int)
                        /\ m.word = "number" => Len(m.args) = 2
ASSUME OnlineAssumption == Online \subseteq Nat
ASSUME BoundsAssumption == MaxWriters \in Nat /\ MaxPipe \in Nat /\ MaxFds \in Nat

VARIABLES
    v0,             \* the program is cpu_hogd_v0.c
    dpc, fifo, fds, arrived, writers, pipe,
    buf,            \* what the last read returned
    cmd, mask, secs, cpu,
    stop, alarm,    \* cpuhogd_stop_hog; an alarm is set
    untimed,        \* hoggers whose alarm(secs) set none
    home,           \* the CPU the daemon was last pinned to
    asked, before,  \* history: mask of the hydra command, home when it came
    started         \* history: <<bit, CPU>> of the hoggers forked for it so far

pipeVars == <<fifo, fds, arrived, writers, pipe>>
argVars == <<buf, cmd, mask, secs, cpu>>
aside == <<v0, home, asked, before, started>>
vars == <<v0, dpc, fifo, fds, arrived, writers, pipe, buf, cmd, mask, secs, cpu,
          stop, alarm, untimed, home, asked, before, started, alive, zombies, chld,
          reaping>>

Nothing == [word |-> "", args |-> <<>>]

AnyCpu == -1        \* not pinned
NoHogger == -2      \* the fork failed

Init ==
    /\ ReaperInit
    /\ v0 \in BOOLEAN
    /\ dpc = "create"
    /\ fifo \in BOOLEAN             \* left by an earlier run
    /\ fds = 0
    /\ arrived = FALSE
    /\ writers = 0
    /\ pipe = <<>>
    /\ buf = Nothing
    /\ cmd = "other"                \* not initialised: no command word
    /\ mask = 1 /\ secs = 60 /\ cpu = 0
    /\ stop = FALSE
    /\ alarm = FALSE
    /\ untimed = {}
    /\ home = AnyCpu
    /\ asked = 0 /\ before = AnyCpu /\ started = {}

-----------------------------------------------------------------------------
\* The daemon's own code runs when the SIGCHLD handler does not.
At(from, to) ==
    /\ dpc = from
    /\ ~reaping
    /\ dpc' = to
    /\ UNCHANGED reaperVars

\* Descriptors for reading: the daemon's and those the hoggers inherited.
Readers(n) == n > 0 \/ alive # {}

\* mknod fails with EEXIST or otherwise.
Create ==
    /\ \/ At("create", "open") /\ fifo' = TRUE
       \/ At("create", "dead") /\ UNCHANGED fifo
    /\ UNCHANGED <<fds, arrived, writers, pipe, argVars, stop, alarm, untimed, aside>>

\* open blocks until a writer has come since, or is there.
OpenStart ==
    /\ fds < MaxFds
    /\ At("open", "opening")
    /\ fds' = fds + 1
    /\ arrived' = (writers > 0)
    /\ UNCHANGED <<fifo, writers, pipe, argVars, stop, alarm, untimed, aside>>

OpenFails ==
    /\ fds = MaxFds
    /\ At("open", "dead")
    /\ UNCHANGED <<pipeVars, argVars, stop, alarm, untimed, aside>>

OpenDone ==
    /\ arrived
    /\ At("opening", "read")
    /\ UNCHANGED <<pipeVars, argVars, stop, alarm, untimed, aside>>

\* The first word of what was read.
FirstWord == IF Head(pipe).word = "number" THEN "other" ELSE Head(pipe).word

\* What the scan to the first blank leaves for sscanf.  It does not stop at the
\* end of a line, so a command without a number takes those of a later one; nor
\* does sscanf, so a number of v0's client may stand in for a second one.
Blanks == {i \in 1..Len(pipe) : pipe[i].args # <<>>}

BehindBlank(i) ==
    LET own == IF pipe[i].word = "number" THEN Tail(pipe[i].args) ELSE pipe[i].args
        follows == i < Len(pipe) /\ pipe[i + 1].word = "number"
    IN  IF follows THEN own \o pipe[i + 1].args ELSE own

Numbers ==
    IF Blanks = {} THEN <<>>
    ELSE BehindBlank(CHOOSE i \in Blanks : \A j \in Blanks : i <= j)

\* All that is in the FIFO, or nothing when no writer is left.
Read ==
    /\ At("read", "parse")
    /\ \/ /\ pipe # <<>>
          /\ buf' = [word |-> FirstWord, args |-> Numbers]
          /\ pipe' = <<>>
       \/ pipe = <<>> /\ writers = 0 /\ buf' = Nothing /\ UNCHANGED pipe
    /\ UNCHANGED <<fifo, fds, arrived, writers, cmd, mask, secs, cpu,
                   stop, alarm, untimed, aside>>

ReadFails ==
    /\ At("read", "quit")
    /\ fds' = fds - 1
    /\ UNCHANGED <<fifo, arrived, writers, pipe, argVars, stop, alarm, untimed, aside>>

\* sscanf leaves the variable alone when there is nothing to read.
Scanned(i, old) == IF Len(buf.args) >= i THEN buf.args[i] ELSE old
Word == IF buf.word = "" THEN cmd ELSE buf.word

\* v0 exits where the later version goes to cpuhogd_quit.
Leave == IF v0 THEN "dead" ELSE "quit"

\* What was read is not looked at again.
Parsed == cmd' = Word /\ buf' = Nothing

Quit ==
    /\ Word = "quit"
    /\ At("parse", Leave)
    /\ Parsed
    /\ UNCHANGED <<pipeVars, mask, secs, cpu, stop, alarm, untimed, aside>>

\* Mutants of jam: the flag keeps its value; a jam of 0 seconds is let in.
BugStopNotReset ==
    /\ Word = "jam"
    /\ Parsed
    /\ secs' = Scanned(1, secs)
    /\ At("parse", IF secs' > 0 /\ secs' < 120 THEN "arm" ELSE "close")
    /\ UNCHANGED <<pipeVars, mask, cpu, stop, alarm, untimed, aside>>

BugZeroSeconds ==
    /\ Word = "jam"
    /\ Parsed
    /\ secs' = Scanned(1, secs)
    /\ stop' = FALSE
    /\ At("parse", IF secs' >= 0 /\ secs' < 120 THEN "arm" ELSE "close")
    /\ UNCHANGED <<pipeVars, mask, cpu, alarm, untimed, aside>>

Jam ==
    /\ Word = "jam"
    /\ Parsed
    /\ secs' = Scanned(1, secs)
    /\ stop' = FALSE
    /\ At("parse", IF secs' > 0 /\ secs' < 120 THEN "arm" ELSE "close")
    /\ UNCHANGED <<pipeVars, mask, cpu, alarm, untimed, aside>>

JamArm ==
    /\ At("arm", "jam")
    /\ alarm' = (secs > 0)
    /\ UNCHANGED <<pipeVars, argVars, stop, untimed, aside>>

AlarmFires ==
    /\ alarm
    /\ alarm' = FALSE
    /\ stop' = TRUE
    /\ UNCHANGED <<dpc, pipeVars, argVars, untimed, aside, reaperVars>>

JamEnd ==
    /\ stop
    /\ At("jam", "close")
    /\ UNCHANGED <<pipeVars, argVars, stop, alarm, untimed, aside>>

\* Too many seconds: next iteration, with the FIFO still open.
Hydra ==
    /\ Word = "hydra"
    /\ Parsed
    /\ mask' = Scanned(1, mask)
    /\ secs' = Scanned(2, secs)
    /\ IF mask' = -1 \/ secs' = -1
       THEN At("parse", Leave) /\ UNCHANGED <<cpu, aside>>
       ELSE IF secs' > 100
       THEN At("parse", "open") /\ UNCHANGED <<cpu, aside>>
       ELSE /\ At("parse", "hydra")
            /\ cpu' = 0
            /\ asked' = mask' /\ before' = home
            /\ started' = {}
            /\ UNCHANGED <<v0, home>>
    /\ UNCHANGED <<pipeVars, stop, alarm, untimed>>

Unknown ==
    /\ Word = "other"
    /\ At("parse", "close")
    /\ Parsed
    /\ UNCHANGED <<pipeVars, mask, secs, cpu, stop, alarm, untimed, aside>>

\* A negative mask never becomes 0.
MoreBits == mask < 16 /\ mask # 0 /\ cpu < 4

\* Mutant: pins to the CPU after the one the bit stands for.
BugNextCpu == home' = IF cpu' \in Online THEN cpu' ELSE home

\* CPU_SET(cpu - 1), with cpu already advanced.  When sched_setaffinity fails,
\* the daemon goes on with the CPU it has.
Pin == home' = IF cpu' - 1 \in Online THEN cpu' - 1 ELSE home

\* The hogger inherits the daemon's CPU.  It exits by alarm(secs), which sets
\* none for 0; a negative number is some hundred years.
StartHogger ==
    \E k \in Kids :
        /\ ForkChild(k)
        /\ untimed' = IF secs > 0 THEN untimed \ {k} ELSE untimed \cup {k}
        /\ started' = started \cup {<<cpu' - 1, home'>>}

ForkFails ==
    /\ started' = started \cup {<<cpu' - 1, NoHogger>>}
    /\ UNCHANGED <<untimed, reaperVars>>

HydraTurn ==
    /\ dpc = "hydra" /\ ~reaping
    /\ MoreBits
    /\ mask' = mask \div 2
    /\ cpu' = cpu + 1
    /\ \/ mask % 2 = 0 /\ UNCHANGED <<home, started, untimed, reaperVars>>
       \/ mask % 2 = 1 /\ Pin /\ (StartHogger \/ ForkFails)
    /\ UNCHANGED <<dpc, pipeVars, buf, cmd, secs, stop, alarm, v0, asked, before>>

HydraDone ==
    /\ ~MoreBits
    /\ At("hydra", "close")
    /\ asked' = 0 /\ before' = AnyCpu /\ started' = {}
    /\ UNCHANGED <<v0, home, pipeVars, argVars, stop, alarm, untimed>>

\* What nobody has open any more loses its contents.
Kept(n, w) == IF Readers(n) \/ w > 0 THEN pipe ELSE <<>>

Close ==
    /\ At("close", "open")
    /\ fds' = fds - 1
    /\ pipe' = Kept(fds - 1, writers)
    /\ UNCHANGED <<fifo, arrived, writers, argVars, stop, alarm, untimed, aside>>

Unlink ==
    /\ At("quit", "dead")
    /\ fifo' = FALSE
    /\ UNCHANGED <<fds, arrived, writers, pipe, argVars, stop, alarm, untimed, aside>>

\* sig_term_h exits wherever the daemon is.  Nothing of the process is left,
\* its FIFO is.
Term ==
    /\ dpc \notin {"create", "dead"}
    /\ dpc' = "dead"
    /\ fds' = 0 /\ arrived' = FALSE /\ writers' = 0 /\ pipe' = <<>>
    /\ buf' = Nothing /\ cmd' = "other" /\ mask' = 1 /\ secs' = 60 /\ cpu' = 0
    /\ stop' = FALSE /\ alarm' = FALSE /\ untimed' = {}
    /\ home' = AnyCpu /\ asked' = 0 /\ before' = AnyCpu /\ started' = {}
    /\ alive' = {} /\ zombies' = {} /\ chld' = FALSE /\ reaping' = FALSE
    /\ UNCHANGED <<v0, fifo>>

-----------------------------------------------------------------------------
Outside == UNCHANGED <<dpc, argVars, stop, alarm, untimed, aside>>

Hogger(k) ==
    /\ dpc # "dead"
    /\ k \notin untimed
    /\ ChildExits(k)
    /\ UNCHANGED pipeVars
    /\ Outside

Handler ==
    /\ dpc # "dead"
    /\ HandlerEnter \/ HandlerReturn \/ \E k \in Kids : HandlerReap(k)
    /\ UNCHANGED pipeVars
    /\ Outside

WriterOpen ==
    /\ dpc # "dead"
    /\ fifo /\ Readers(fds)
    /\ writers < MaxWriters
    /\ writers' = writers + 1
    /\ arrived' = TRUE
    /\ UNCHANGED <<fifo, fds, pipe, reaperVars>>
    /\ Outside

WriterWrite ==
    /\ dpc # "dead"
    /\ writers > 0 /\ Readers(fds)
    /\ Len(pipe) < MaxPipe
    /\ \E m \in Messages : m.word # "number" /\ pipe' = Append(pipe, m)
    /\ UNCHANGED <<fifo, fds, arrived, writers, reaperVars>>
    /\ Outside

\* The client half of cpu_hogd_v0.c sends two numbers and no command word.
ClientWrite ==
    /\ v0
    /\ dpc # "dead"
    /\ writers > 0 /\ Readers(fds)
    /\ Len(pipe) < MaxPipe
    /\ \E m \in Messages : m.word = "number" /\ pipe' = Append(pipe, m)
    /\ UNCHANGED <<fifo, fds, arrived, writers, reaperVars>>
    /\ Outside

WriterClose ==
    /\ dpc # "dead"
    /\ writers > 0
    /\ writers' = writers - 1
    /\ pipe' = Kept(fds, writers - 1)
    /\ UNCHANGED <<fifo, fds, arrived, reaperVars>>
    /\ Outside

Daemon ==
    \/ Create \/ OpenStart \/ OpenFails \/ OpenDone \/ Read
    \/ Quit \/ Jam \/ JamArm \/ JamEnd \/ Hydra \/ HydraTurn \/ HydraDone
    \/ Unknown \/ Close \/ Unlink

Writer == WriterOpen \/ WriterWrite \/ ClientWrite \/ WriterClose

Next ==
    \/ Daemon \/ Handler \/ AlarmFires \/ Writer \/ Term \/ ReadFails
    \/ \E k \in Kids : Hogger(k)

Spec == Init /\ [][Next]_vars

\* The daemon and its signal handler are scheduled, alarms go off.  Nothing is
\* asked of writers, who may come or not.
FairSpec ==
    /\ Spec
    /\ WF_vars(Daemon)
    /\ WF_vars(Handler)
    /\ WF_vars(AlarmFires)
    /\ \A k \in Kids : WF_vars(Hogger(k))

-----------------------------------------------------------------------------
TypeOK ==
    /\ ReaperTypeOK
    /\ v0 \in BOOLEAN
    /\ dpc \in {"create", "open", "opening", "read", "parse", "arm", "jam",
                "hydra", "close", "quit", "dead"}
    /\ fifo \in BOOLEAN
    /\ fds \in 0..MaxFds
    /\ arrived \in BOOLEAN
    /\ writers \in 0..MaxWriters
    /\ pipe \in Seq(Messages)
    /\ cpu \in 0..4
    /\ stop \in BOOLEAN /\ alarm \in BOOLEAN
    /\ untimed \subseteq Kids
    /\ home \in Online \cup {AnyCpu}

(***************************************************************************)
(* An alarm never outlives the jam that set it: one that did would cut a   *)
(* later jam short.                                                        *)
(***************************************************************************)
AlarmInItsJam == alarm => dpc \in {"jam", "dead"}

(***************************************************************************)
(* After any number of turns of the hydra loop, the bits of the mask       *)
(* looked at so far, and no others, had their fork, negative masks         *)
(* included.  The hogger of a bit sits on that CPU if the machine has it;  *)
(* if not, on the CPU of the last bit before it that the machine has, and  *)
(* if there was none, where the daemon was when the command came.          *)
(***************************************************************************)
Bit(m, c) == (m \div 2^c) % 2 = 1

Pinned(c) == {b \in 0..c : Bit(asked, b) /\ b \in Online}

SitsFor(c, where) ==
    IF Pinned(c) = {} THEN where = before
    ELSE where \in Pinned(c) /\ \A b \in Pinned(c) : b <= where

HoggersAsAsked ==
    dpc = "hydra" =>
        /\ {p[1] : p \in started} = {c \in 0..(cpu - 1) : Bit(asked, c)}
        /\ \A p \in started : p[2] = NoHogger \/ SitsFor(p[1], p[2])

(***************************************************************************)
(* Whatever the command, the daemon gets back to listening, or ends: a jam *)
(* stops by its alarm, the hydra loop by its counters.  Nothing is said    *)
(* once there is a hogger without an alarm, which may keep the daemon from *)
(* its CPU for ever.                                                       *)
(***************************************************************************)
EveryCommandEnds ==
    (dpc = "parse") ~> (dpc \in {"open", "opening", "dead"} \/ untimed # {})

=============================================================================
