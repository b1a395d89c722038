------------------------------ MODULE FsSlammer ------------------------------
(***************************************************************************)
(* src/fs_slammer.c: main starts detached threads that write, re-read and  *)
(* overwrite a file each (slam_junk) or read the raw disk (raw_reader),    *)
(* sleeps or pauses, cancels them all and leaves with pthread_exit.        *)
(*                                                                         *)
(* Cancellation is deferred: it acts at the system calls that are          *)
(* cancellation points (open, read, write, fsync, close), before or after  *)
(* their effect, and in pthread_testcancel, and runs the handlers the      *)
(* thread has pushed, as pthread_exit does.  Descriptors are numbers of    *)
(* one table all threads share.  Byte counts are in pages.                 *)
(***************************************************************************)
EXTENDS Integers, FiniteSets, FiniteSetsExt

CONSTANTS
    Slammers,   \* threads of slam_junk; a thread stands for its file too
    Readers,    \* threads of raw_reader
    MaxPages,   \* max_pages
    MaxRounds,  \* bound: rounds of slam_junk's outer loop
    NFd         \* descriptors the process may have open

Threads == Slammers \cup Readers
None == "none"

ASSUME ThreadsAssumption ==
    /\ IsFiniteSet(Threads) /\ None \notin Threads
    /\ Slammers \cap Readers = {}
ASSUME BoundsAssumption == MaxPages \in Nat /\ MaxRounds \in Nat /\ NFd \in Nat

VARIABLES
    timed,      \* slam_time >= 0: main sleeps; otherwise it pauses
    main,       \* where main is
    pc,         \* [Threads -> where the thread is]
    pending,    \* threads with a cancellation request
    fdt,        \* descriptor table: number -> thread that opened it, or None
    fd,         \* [Threads -> fd]
    fdRand,     \* [Slammers -> fd_rand]
    files,      \* slammers whose file exists
    pages,      \* [Slammers -> pages]: pages of this round still to write
    wrote,      \* [Slammers -> bytes_wrote]
    round,      \* [Slammers -> rounds begun]
    total,      \* total_bytes_written
    reg,        \* [Slammers -> total_bytes_written as last loaded]
    twice       \* a descriptor was closed again by raw_reader_cleanup

vars == <<timed, main, pc, pending, fdt, fd, fdRand, files, pages, wrote, round,
          total, reg, twice>>
dataVars == <<timed, pages, wrote, round, total, reg>>

Bad == -1
Numbers == 1 .. NFd
Unused == {n \in Numbers : fdt[n] = None}
Lowest == {n \in Unused : \A m \in Unused : n <= m}

Over == main \in {"returned", "killed", "exited"}

\* The threads that exist: created, neither ended nor gone with the process.
Alive(t) == pc[t] \notin {"new", "gone"} /\ main \notin {"returned", "killed"}

Init ==
    /\ timed \in BOOLEAN
    /\ main = "create"
    /\ pc = [t \in Threads |-> "new"]
    /\ pending = {}
    /\ fdt = [n \in Numbers |-> None]
    /\ fd = [t \in Threads |-> Bad]
    /\ fdRand = [t \in Slammers |-> Bad]
    /\ files = {}
    /\ pages = [t \in Slammers |-> 0]
    /\ wrote = [t \in Slammers |-> 0]
    /\ round = [t \in Slammers |-> 0]
    /\ total = 0
    /\ reg = [t \in Slammers |-> 0]
    /\ twice = FALSE

GoTo(t, place) == pc' = [pc EXCEPT ![t] = place]

\* close(n): nothing happens on a number that is not open.
Closed(table, n) == IF n \in Numbers THEN [table EXCEPT ![n] = None] ELSE table

\* open gives t the lowest unused number; without one it fails.
Open(t, n) == fdt' = [fdt EXCEPT ![n] = t]

\* The descriptor table after the open or close that thread t is in.
CallDone(t) ==
    CASE pc[t] \in {"open", "openzero", "reopen", "rawopen"} ->
            {[fdt EXCEPT ![n] = t] : n \in Lowest}
      [] pc[t] \in {"drain", "rawclose"} \/ (pc[t] = "page" /\ pages[t] = 0) ->
            {Closed(fdt, fd[t])}
      [] pc[t] = "closezero" -> {Closed(fdt, fdRand[t])}
      [] OTHER -> {fdt}

-----------------------------------------------------------------------------
(***************************************************************************)
(* slam_junk.  A system call that is a cancellation point is entered only  *)
(* while no request is pending; Cancel takes the thread otherwise.         *)
(***************************************************************************)
At(t, place) == Alive(t) /\ pc[t] = place /\ t \notin pending

\* Mutant of slam_cleanup: the file stays.
BugKeepFile(t) == UNCHANGED files

SlamCleanup(t) == files' = files \ {t}

\* pthread_exit, or cancellation: slam_cleanup runs, and the thread's
\* variables are gone.
SlamGone(t) ==
    /\ SlamCleanup(t)
    /\ GoTo(t, "gone")
    /\ fd' = [fd EXCEPT ![t] = Bad]
    /\ fdRand' = [fdRand EXCEPT ![t] = Bad]

ResetWrote(t) == wrote' = [wrote EXCEPT ![t] = 0]

SlamOpen(t) ==
    /\ At(t, "open") /\ round[t] < MaxRounds
    /\ \/ \E n \in Lowest :
            /\ Open(t, n)
            /\ fd' = [fd EXCEPT ![t] = n]
            /\ files' = files \cup {t}
            /\ GoTo(t, "openzero")
            /\ UNCHANGED fdRand
       \/ SlamGone(t) /\ UNCHANGED fdt
    /\ round' = [round EXCEPT ![t] = @ + 1]
    /\ pages' = [pages EXCEPT ![t] = MaxPages]
    /\ ResetWrote(t)
    /\ UNCHANGED <<timed, main, pending, total, reg, twice>>

\* Mutant of the failed open of /dev/zero: fd is not closed.
BugKeepFd(t) == SlamGone(t) /\ UNCHANGED fdt

CloseFd(t) == fdt' = Closed(fdt, fd[t])

ZeroFails(t) == SlamGone(t) /\ CloseFd(t)

SlamOpenZero(t) ==
    /\ At(t, "openzero")
    /\ \/ \E n \in Lowest :
            /\ Open(t, n)
            /\ fdRand' = [fdRand EXCEPT ![t] = n]
            /\ GoTo(t, "page")
            /\ UNCHANGED <<files, fd>>
       \/ ZeroFails(t)
    /\ UNCHANGED <<main, pending, dataVars, twice>>

\* Mutant of the count of bytes: what was read is counted too.
BugCountRead(t) ==
    /\ At(t, "page") /\ pages[t] > 0
    /\ \/ /\ pages' = [pages EXCEPT ![t] = @ - 1]
          /\ wrote' = [wrote EXCEPT ![t] = @ + 2]
          /\ GoTo(t, "load")
          /\ UNCHANGED <<fdt, fd, fdRand, files>>
       \/ /\ fdt' = Closed(Closed(fdt, fdRand[t]), fd[t])
          /\ SlamGone(t)
          /\ UNCHANGED <<pages, wrote>>
    /\ UNCHANGED <<timed, main, pending, round, total, reg, twice>>

\* One page read from /dev/zero and written; a failure of either call closes
\* both descriptors and ends the thread.
SlamPage(t) ==
    /\ At(t, "page") /\ pages[t] > 0
    /\ \/ /\ pages' = [pages EXCEPT ![t] = @ - 1]
          /\ wrote' = [wrote EXCEPT ![t] = @ + 1]
          /\ GoTo(t, "load")
          /\ UNCHANGED <<fdt, fd, fdRand, files>>
       \/ /\ fdt' = Closed(Closed(fdt, fdRand[t]), fd[t])
          /\ SlamGone(t)
          /\ UNCHANGED <<pages, wrote>>
    /\ UNCHANGED <<timed, main, pending, round, total, reg, twice>>

\* total_bytes_written += bytes_wrote: a load and a store, no lock.
SlamLoad(t) ==
    /\ Alive(t) /\ pc[t] = "load"
    /\ reg' = [reg EXCEPT ![t] = total]
    /\ GoTo(t, "store")
    /\ UNCHANGED <<timed, main, pending, fdt, fd, fdRand, files, pages, wrote, round,
                   total, twice>>

SlamStore(t) ==
    /\ Alive(t) /\ pc[t] = "store"
    /\ total' = reg[t] + wrote[t]
    /\ reg' = [reg EXCEPT ![t] = 0]
    /\ GoTo(t, "page")
    /\ UNCHANGED <<timed, main, pending, fdt, fd, fdRand, files, pages, wrote, round,
                   twice>>

\* fsync, close(fd)
SlamSync(t) ==
    /\ At(t, "page") /\ pages[t] = 0
    /\ CloseFd(t)
    /\ GoTo(t, "closezero")
    /\ UNCHANGED <<main, pending, fd, fdRand, files, dataVars, twice>>

SlamCloseZero(t) ==
    /\ At(t, "closezero")
    /\ fdt' = Closed(fdt, fdRand[t])
    /\ GoTo(t, "reopen")
    /\ UNCHANGED <<main, pending, fd, fdRand, files, dataVars, twice>>

\* The second open is not checked.
SlamReopen(t) ==
    /\ At(t, "reopen")
    /\ \/ \E n \in Lowest : Open(t, n) /\ fd' = [fd EXCEPT ![t] = n]
       \/ fd' = [fd EXCEPT ![t] = Bad] /\ UNCHANGED fdt
    /\ GoTo(t, "drain")
    /\ UNCHANGED <<main, pending, fdRand, files, dataVars, twice>>

\* while (read(...)): ends at the end of the file.  On a descriptor that is
\* not open read answers -1 and the loop goes on for ever.
SlamDrain(t) ==
    /\ At(t, "drain")
    /\ fd[t] \in Numbers /\ fdt[fd[t]] # None
    /\ CloseFd(t)
    /\ GoTo(t, "open")
    /\ UNCHANGED <<main, pending, fd, fdRand, files, dataVars, twice>>

SlamSpin(t) ==
    /\ Alive(t) /\ pc[t] = "drain"
    /\ fd[t] \in Numbers => fdt[fd[t]] = None
    /\ UNCHANGED vars

SlamStep(t) ==
    \/ SlamOpen(t) \/ SlamOpenZero(t) \/ SlamPage(t) \/ SlamLoad(t) \/ SlamStore(t)
    \/ SlamSync(t) \/ SlamCloseZero(t) \/ SlamReopen(t) \/ SlamDrain(t)

\* Mutant: read on a closed descriptor is no cancellation point.
BugSpin(t) == pc[t] \notin {"load", "store"} /\ ~(pc[t] = "drain" /\ fd[t] = Bad)

CancelPoint(t) == pc[t] \notin {"load", "store"}

\* Cancellation: slam_cleanup removes the file and closes nothing.
SlamCancelled(t) ==
    /\ Alive(t) /\ t \in pending /\ CancelPoint(t)
    /\ fdt' \in {fdt} \cup CallDone(t)
    /\ SlamGone(t)
    /\ UNCHANGED <<main, pending, dataVars, twice>>

-----------------------------------------------------------------------------
(***************************************************************************)
(* raw_reader.                                                             *)
(***************************************************************************)
RawOpen(t) ==
    /\ At(t, "rawopen")
    /\ \/ \E n \in Lowest :
            /\ Open(t, n)
            /\ fd' = [fd EXCEPT ![t] = n]
            /\ GoTo(t, "raw")
       \/ GoTo(t, "gone") /\ UNCHANGED <<fdt, fd>>
    /\ UNCHANGED <<main, pending, fdRand, files, dataVars, twice>>

\* lseek, read and the count go round until a read fails.
RawRead(t) ==
    /\ At(t, "raw")
    /\ \/ GoTo(t, "rawclose")
       \/ UNCHANGED pc
    /\ UNCHANGED <<main, pending, fdt, fd, fdRand, files, dataVars, twice>>

\* Mutant of the end of raw_reader: pthread_cleanup_pop(1).
BugPopAndRun(t) == GoTo(t, "handler")

PopAndExit(t) == GoTo(t, "gone")

\* close(fd), pthread_cleanup_pop(0), pthread_exit
RawClose(t) ==
    /\ At(t, "rawclose")
    /\ CloseFd(t)
    /\ PopAndExit(t)
    /\ UNCHANGED <<main, pending, fd, fdRand, files, dataVars, twice>>

\* Cancelled in open, before the handler is pushed; or with the descriptor
\* open; or in close, which may have closed it already.
RawCancelled(t) ==
    /\ Alive(t) /\ t \in pending /\ pc[t] \in {"rawopen", "raw", "rawclose"}
    /\ fdt' \in {fdt} \cup CallDone(t)
    /\ twice' = (twice \/ (pc[t] = "rawclose" /\ fdt' # fdt))
    /\ GoTo(t, IF pc[t] = "rawopen" THEN "gone" ELSE "handler")
    /\ UNCHANGED <<main, pending, fd, fdRand, files, dataVars>>

\* raw_reader_cleanup: close(fd)
RawCleanup(t) ==
    /\ Alive(t) /\ pc[t] = "handler"
    /\ CloseFd(t)
    /\ GoTo(t, "gone")
    /\ UNCHANGED <<main, pending, fd, fdRand, files, dataVars, twice>>

RawStep(t) == RawOpen(t) \/ RawClose(t) \/ RawCleanup(t)

-----------------------------------------------------------------------------
(***************************************************************************)
(* main.  All slammers are created before the first reader; threads are    *)
(* created and cancelled in one, arbitrary, order.                         *)
(***************************************************************************)
Create(t) ==
    /\ main = "create" /\ pc[t] = "new"
    /\ LET new == {u \in Threads : pc[u] = "new"}
       IN  t = CHOOSE u \in new : u \in Readers => new \subseteq Readers
    /\ \/ GoTo(t, IF t \in Slammers THEN "open" ELSE "rawopen") /\ UNCHANGED main
       \/ main' = "returned" /\ UNCHANGED pc
    /\ UNCHANGED <<pending, fdt, fd, fdRand, files, dataVars, twice>>

\* SIGINT, SIGTERM or SIGQUIT before main has installed its handlers.
EarlySignal ==
    /\ main = "create"
    /\ main' = "killed"
    /\ UNCHANGED <<pc, pending, fdt, fd, fdRand, files, dataVars, twice>>

InstallHandlers ==
    /\ main = "create" /\ \A t \in Threads : pc[t] # "new"
    /\ main' = "wait"
    /\ UNCHANGED <<pc, pending, fdt, fd, fdRand, files, dataVars, twice>>

\* sleep(slam_time) ends, by itself or by a signal.
SleepEnds ==
    /\ timed /\ main = "wait"
    /\ main' = "cancel"
    /\ UNCHANGED <<pc, pending, fdt, fd, fdRand, files, dataVars, twice>>

\* pause ends by a signal that comes when main is in it, which need not happen:
\* one that comes before is handled, and lost.
PauseEnds ==
    /\ ~timed /\ main = "wait"
    /\ main' = "cancel"
    /\ UNCHANGED <<pc, pending, fdt, fd, fdRand, files, dataVars, twice>>

\* pthread_cancel on a detached thread that has ended is undefined: it finds
\* no thread, or reads memory that is gone and kills the process.
CancelThread(t) ==
    /\ main = "cancel" /\ pending # Threads
    /\ t = CHOOSE u \in Threads : u \notin pending
    /\ \/ pending' = pending \cup {t} /\ UNCHANGED main
       \/ pc[t] = "gone" /\ main' = "killed" /\ UNCHANGED pending
    /\ UNCHANGED <<pc, fdt, fd, fdRand, files, dataVars, twice>>

\* The totals are printed and main leaves; the process lasts as long as its
\* last thread.
MainExit ==
    /\ main = "cancel" /\ pending = Threads
    /\ main' = "exited"
    /\ UNCHANGED <<pc, pending, fdt, fd, fdRand, files, dataVars, twice>>

Main ==
    \/ InstallHandlers \/ SleepEnds \/ MainExit
    \/ \E t \in Threads : Create(t) \/ CancelThread(t)

Done ==
    /\ Over /\ \A t \in Threads : ~Alive(t)
    /\ UNCHANGED vars

Next ==
    \/ Main \/ EarlySignal \/ PauseEnds
    \/ \E t \in Slammers : SlamStep(t) \/ SlamSpin(t) \/ SlamCancelled(t)
    \/ \E t \in Readers : RawStep(t) \/ RawRead(t) \/ RawCancelled(t)
    \/ Done

\* Nothing is asked of PauseEnds and EarlySignal: they are somebody else's signals.
Fairness ==
    /\ WF_vars(Main)
    /\ \A t \in Slammers : WF_vars(SlamStep(t)) /\ WF_vars(SlamCancelled(t))
    /\ \A t \in Readers : WF_vars(RawStep(t)) /\ WF_vars(RawCancelled(t))

Spec == Init /\ [][Next]_vars /\ Fairness

-----------------------------------------------------------------------------
SlamPlaces == {"new", "open", "openzero", "page", "load", "store", "closezero",
               "reopen", "drain", "gone"}
RawPlaces == {"new", "rawopen", "raw", "rawclose", "handler", "gone"}

TypeOK ==
    /\ timed \in BOOLEAN
    /\ main \in {"create", "wait", "cancel", "exited", "returned", "killed"}
    /\ pc \in [Threads -> SlamPlaces \cup RawPlaces]
    /\ \A t \in Slammers : pc[t] \in SlamPlaces
    /\ \A t \in Readers : pc[t] \in RawPlaces
    /\ pending \subseteq Threads /\ files \subseteq Slammers
    /\ fdt \in [Numbers -> Threads \cup {None}]
    /\ fd \in [Threads -> Numbers \cup {Bad}]
    /\ fdRand \in [Slammers -> Numbers \cup {Bad}]
    /\ pages \in [Slammers -> Nat] /\ wrote \in [Slammers -> Nat]
    /\ round \in [Slammers -> Nat] /\ reg \in [Slammers -> Nat]
    /\ total \in Nat /\ twice \in BOOLEAN

(***************************************************************************)
(* A slam file exists only as long as its thread: every way out of         *)
(* slam_junk, error or cancellation at any point, removes it.  What stays  *)
(* behind is what main left running when it returned or was killed.        *)
(***************************************************************************)
NoStrayFile ==
    main \in {"create", "wait", "cancel", "exited"} => \A t \in files : Alive(t)

(***************************************************************************)
(* A descriptor a slammer uses is its own: the number it holds was opened  *)
(* by it and by nobody else since, so no page goes into another file.  The *)
(* one way to break it is a reader cancelled inside close, whose handler   *)
(* closes the number again after somebody else got it.                     *)
(***************************************************************************)
HoldsFd(t) == Alive(t) /\ pc[t] \in {"openzero", "page", "load", "store"}
HoldsZero(t) == Alive(t) /\ pc[t] \in {"page", "load", "store", "closezero"}

OwnDescriptors ==
    ~twice => \A t \in Slammers :
        /\ HoldsFd(t) => fdt[fd[t]] = t
        /\ HoldsZero(t) => fdt[fdRand[t]] = t
        /\ HoldsFd(t) /\ HoldsZero(t) => fd[t] # fdRand[t]

(***************************************************************************)
(* A thread that ends by itself leaves no descriptor open; only one that   *)
(* is cancelled can.                                                       *)
(***************************************************************************)
ErrorsCloseAll ==
    ~twice => \A n \in Numbers :
        fdt[n] # None /\ pc[fdt[n]] = "gone" => fdt[n] \in pending

(***************************************************************************)
(* total_bytes_written adds bytes_wrote, the sum so far, after every page: *)
(* p pages of a round add p * (p + 1) / 2.  That is more than was written  *)
(* once a round has two pages, which count as three, although main prints  *)
(* the figure as "Total bytes written" (line 264): the earlier pages are   *)
(* counted again.  What the missing lock does is another matter: updates   *)
(* of several threads that fall between a load and its store only lower    *)
(* the total below what the threads have added; none is counted twice.     *)
(***************************************************************************)
Triangle(k) == (k * (k + 1)) \div 2

Added(t) ==
    IF round[t] = 0 THEN 0
    ELSE (round[t] - 1) * Triangle(MaxPages) + Triangle(MaxPages - pages[t])

LostUpdatesOnlyLower == total <= MapThenSumSet(Added, Slammers)

(***************************************************************************)
(* A run with a time limit ends, and so does one whose main has come to    *)
(* cancelling or has ended: with every thread, the one that loops on a     *)
(* failed reopen included, as read(-1) is a cancellation point.  Without a *)
(* limit nothing need end before a signal comes to pause.                  *)
(***************************************************************************)
EverybodyEnds ==
    (timed \/ main = "cancel" \/ Over) ~> (Over /\ \A t \in Threads : ~Alive(t))
=============================================================================
