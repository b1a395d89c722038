# Specifications for sugarnspice

TLA+ specifications, model-checking configurations and proofs for the programs
of this repository. sugarnspice is a collection of about a hundred small C
programs that try out operating-system behaviour (scheduling, memory, futexes,
signals, pipes). Each is a program of its own; what some of them share are the
libraries `xlock.c`, `xsem.c` and `psem.c` and a few headers. The programs with
state that several processes, threads or signal handlers work on are the ones
worth modelling; they come first.

- [Inventory](#inventory)
- [Modules and the code](#modules-and-the-code)
- [Runs](#runs)
- [Fairness](#fairness)
- [Proofs](#proofs)
- [What the specifications found](#what-the-specifications-found)
- [What is abstracted](#what-is-abstracted)
- [Plan](#plan)

`PROJECT.json` lists all components, runs, mutants, the map from definitions to
source lines, the hazards and the theorems.

## Inventory

| component | state | operations | what is hard | correct means |
|---|---|---|---|---|
| `xlock.c` | one int in a shared file mapping | `xlock_create`, `xlock_open`, `xlock_lock`, `xlock_unlock`, `xlock_close`, `xlock_destroy` | compare-and-swap, then FUTEX_WAIT: the word changes in between; FUTEX_WAKE comes after the release, with `nr_wake` -1; creation is a probe, an open without O_EXCL, a truncate, a second open and a late zeroing; owners that are killed | exclusion; no process left asleep on a free lock; somebody always gets it; a name is one lock |
| `xsem.c` | a count in a second shared mapping, an xlock | `xsem_create`, `xsem_down`, `xsem_up`, `xsem_destroy` | the count is tested under the lock and slept on without it; the wake-up follows the unlock; partial failure of creation | a semaphore; no unit stays beside a sleeper |
| `psem.c` | count, pthread mutex, condition variable | `psem_create`, `psem_down`, `psem_up` | broadcast after unlock | the same semaphore |
| `test_xlock.c` | the integer in `test_inc`, children | `test2`, `do_inc_file`, `print_inc_file` | a read and a write of a shared file; unnoticed failing forks | no increment lost, everybody finishes |
| `test_sem.c` | `check_count` in shared memory, semaphore files, children | `sem_test_thread`, create/fork/wait/destroy in `main` | destroying a semaphore in use; unnoticed failing forks | exact count with one unit; nothing left behind |
| `gen_init_cpio.c` | list of lines, one temporary file and offset per worker, stdout under a spin lock, `i_no` | worker loop, handlers, `try_dump_to_stdout`, join/flush/trailer in `main` | dumps happen whenever the lock is free; padding by an offset that is reset; main leaves on an error while workers write through the pointers it replaces and frees | every entry once, names of one file together, aligned, trailer last |
| `cpu_hogd.c`, `cpu_hogd_v0.c` | FIFO, last command and arguments, alarm flag, hoggers | `quit`, `jam`, `hydra`, signal handlers, v0's client | SIGCHLD does not queue; an alarm and the loop waiting for it; stale arguments, and those of the next command; `sched_setaffinity` failing; several ways out | every command ends; hoggers on the CPUs asked for, as far as there are such; no zombie kept |
| `test_fork.c` | `nr_exited`, two generations of processes | `main`, `sigchld_handler`, `clone_fn` | handler and blocking `waitpid` compete for the same child | every child counted once, both processes end |
| `malloc_stats.c`, `malloc_stats_hcreate.c` | counters per allocation string, string per live address, list of strings of fixed size | `debug_alloc`, `debug_free`, `do_alloc`, `do_free`, `print_stats` | no bound check on the list; addresses handed out again; failed allocations share the key NULL; an unsigned difference | the report is what the caller did |
| `fs_slammer.c` | one file per thread, descriptors, an unlocked total | `slam_junk`, `raw_reader`, cleanup handlers, `main` | cancellation inside any system call; a handler that closes again; an unchecked second open; a signal just before `pause` | no file outlives its thread, nobody uses another's descriptor, everybody ends |
| `test_sparse_array.c` | two parallel sorted arrays | `sparse_array_set`, `sparse_array_get`, `binary_search` | insertion point at the ends; the second of two reallocs fails | a map |
| `test_mmap3.c` | futex words shared by threads | start gate, `thread_done` | FUTEX_WAIT outside a loop, unlocked increment | all threads start and main sees them end |
| `test_udp.c`, `test_socket.c`, `recv_nl_uevent.c` | sockets, sequence numbers, counters | send, receive, verify | loss, reordering, an alarm handler reading counters | what is verified is in order |
| `producer_test.c`, `wakeup_test.c` | queue, flags, condition variables | produce, consume, wake | waiting without a predicate, no test for full | nothing lost, nobody sleeps for ever |
| `test_clone.c`, `test_tasklock.c`, `test_fork_pthread.c`, `test_pthread_waitpid.c`, `test_syswait.c`, `test_waitpid.c`, `test_sigusr1.c` | children, counters | fork or clone, wait | counters shared with handlers and threads | all children waited for |
| `frw.c`, `test_int_update.c` | counters | reads and writes of blocks; unlocked updates | - | none promised |
| `test_bitarray.c`, `test_myhash.c`, `my_strstr.c`, `test_large_mult.c`, `test_bsearch.c`, `test_mysqrt.c`, `test_brackets.c` | data structures, no concurrency | pure functions | boundaries | agree with a reference definition |
| the rest | none of their own | print what a system call, the compiler or the C library does | - | - |

How they interact: `test_xlock` uses `xlock`; `test_sem` uses `xsem`, which uses
`xlock`; a build switch makes `test_sem` use `psem`. `cpu_hogd_v0` talks to
itself as a client over a FIFO; the other FIFO users are shells. `xbarrier.c`,
`test_fanotify.c` and `wakeup_test_fork.c` do not compile.

## Modules and the code

    AbstractLock <- XLock <- XSem -> AbstractSem <- PSem
                      ^        ^
                  TestXlock  TestSem          (X <- Y: Y extends or implements X)

    XLockFile (its locking is AbstractLock's, one step each)

    GenInitCpio   CpioFormat          AbstractMap <- SparseArray

    Reaper <- CpuHogd                 MallocStats   FsSlammer

`MC*` modules only add what TLC needs (the commands of `cpu_hogd`); `*Proofs`
modules hold the theorems. Operators named `Bug*` are mutants: each is what a
plausible mistake would make of the definition below it. They are used in no
specification; replacing a definition by its mutant must make TLC report the
property listed with it, which shows that the property depends on the code.

**XLock.** `lock` is `*x->lock_ptr`, `lpc[p]` the place of process `p` in
`xlock_lock`/`xlock_unlock`. A step is one access to shared state: `RawLockIt`
and `RawUnlockIt` are the compare-and-swaps, `FutexWait` and `FutexWake` the
system calls. The kernel compares and queues in one step. A call that fails its
swap in `xlock_unlock` spins for ever: there is no step for it.

**XLockFile** is the life of the file behind a lock: `CallCreate`, `Probe`, `Creat`,
`Truncate`, `OpenAndMap` and `Zero` are the calls of `xlock_create_open` one by one,
`Close` and `Destroy` the other two functions, `Kill` a process that dies anywhere.
Files are numbered, `name` is the one the name stands for: those who mapped an
unlinked file keep it. Locking is one step, as in `AbstractLock`, because XLock is
shown to implement that; the word of a killed owner stays 1. Touching a file that
another creator has not truncated yet is `Fault`. `zeroed` and `orphaned` are
history: the two situations in which the code gives no guarantee.

**XSem** extends `XLock`; `spc[p]` is the place in `xsem_down`/`xsem_up`. Only the
code inside `xlock_lock` and `xlock_unlock` is XLock's. The calls are xsem's own:
`xlock_lock(p)` and `xlock_unlock(p)` send the process into XLock's code from wherever
the code makes the call, whether it holds the lock or not, because xlock.c does not
look. That xsem calls them in the right order is therefore something to show
(`UsesXLock`); its mutant leaves out the `xlock_lock` at the end of the loop of `xsem_down`. `DownWait` is
FUTEX_WAIT with expected value 0, so a negative count never sleeps.
`xsem_create_open` has no return statement; at the Makefile's optimisation level
the pointer is still in the return register, and it is modelled as returned.

**AbstractLock, AbstractSem.** What callers may rely on: a set of owners of at
most one; a count that is taken from only when positive and in one step.

**PSem** is `psem.c` with the pthread mutex and condition variable as external
primitives; it implements the same `AbstractSem`.

**TestXlock** follows `test2`: `xlock_lock`, the four system calls of
`do_inc_file`, `xlock_unlock`. A child whose `read` returns nothing computes with
an uninitialised int (`Garbage`). `test1`, never called, is the mutant `BugNoLock`.

**TestSem** is the program as the Makefile builds it (xsem, processes):
creation of the two files with every partial failure, forks that may fail,
`check_count[0]++` as load and store, `wait`, `xsem_destroy`.

**GenInitCpio** is the concurrency of `gen_init_cpio.c`: who handles which line
(`Mine`), one temporary file per worker, `try_dump_to_stdout` as try-lock, write
and rewind, main's spawn, join, flush and trailer, and the error exits. A handler
is a number of stdio calls, each of which fetches `my_state->fp` again; what one call
writes is a *piece*, and only a piece is atomic. So main's exit on a failed `mkstemp`
or `pthread_create` meets the workers anywhere: it replaces worker 0's file by stdout
between two calls of a handler or under a dump that has its pointer already, writes
the trailer call by call without the lock, and frees `file_table` and `my_states`, after
which a worker that touches them goes on or crashes. A line is one of seven kinds.
**CpioFormat** is the arithmetic: offset, position and padding of every handler, for one
worker's file, while the archive grows under it. `pos` is what was written,
`offset` what the program counts; a `fwrite` of data that falls short moves the first and not
the second (`fileCut`, `archiveCut`).

**SparseArray** follows `binary_search` turn by turn inside `sparse_array_set`
and `sparse_array_get`. `icap` and `ocap` are the allocated lengths, which differ
once the second realloc fails. **AbstractMap** is a set of pairs.

**Reaper** is the SIGCHLD handler `while (waitpid(-1, NULL, WNOHANG) > 0)` with
the kernel's one pending signal. **CpuHogd** adds the daemon: a place for every
blocking point, the FIFO (open blocks until a writer comes; unread commands are
dropped when nobody has it open, hoggers inherit the descriptor), the variables
`cmd`, `mask`, `secs` that keep old values, the alarm. A read takes all that is in the
FIFO; the scan to the first blank goes over line ends, so that a command without
numbers gets those of the next (`Numbers`). `home` is the CPU the daemon is pinned to:
`Pin` moves it when `sched_setaffinity` accepts the CPU (`Online`) and leaves it otherwise,
and the hogger inherits it. `v0`, chosen at the start,
tells the first version from the later one. After SIGTERM nothing of the process
is left but its FIFO.

**MallocStats** is both allocation-statistics programs; `table`, chosen at the start,
tells them apart. `strings`, `stat` and `track` are their three tables, `p` is main's
array with the string of each call. `DoAlloc` and `DoFree` are the calls with all
the bookkeeping; malloc returns any address that is not live, or NULL. hsearch_r
answers 0, never less, so that the code's error branches are never taken, and a
full table would lose the counters (`HashEnter`). Any order of calls is allowed,
also `print_stats` anywhere (`Report` is a function of the state), of which main's
two loops are one.

**FsSlammer** has a place for every system call of `slam_junk` and `raw_reader`. One
descriptor table, `fdt`, serves all threads and remembers who opened a number.
A pending cancellation takes a thread in its next call, before or after the call's
effect (`CallDone`); `SlamGone` and `RawCleanup` are the cleanup handlers. The threads are
gone with the process when main returns early or a signal comes before its
handlers are installed; after `pthread_exit` in main they go on. `timed`, chosen at the
start, is `slam_time >= 0`: main sleeps, or waits in `pause` for a signal (`PauseEnds`).

## Runs

Passing runs:

| run | instance | distinct states | shows |
|---|---|---|---|
| `xsem` | 4 processes, fair, count 0 at first | 238,531 | exclusion, no lost wake-up, `DeadlockFree` and `AbstractLock` for the lock inside; while anybody sleeps every unit is spoken for; no unit stays beside a sleeper; locks and unlocks in turn (`UsesXLock`); implements `AbstractSem` |
| `xlock_file` | 3 processes, 2 files | 267,249 | exclusive and tracked by its word unless zeroed by a creator, killed owners included; one lock per name unless destroyed in use |
| `psem` | 3 threads, fair | 928 | the same for psem |
| `test_xlock` | 2 children, 2 turns, `test_inc` absent or left over | 4,678 | `NoLostIncrement`, `EverybodyFinishes` |
| `test_sem` | 3 processes, 1 unit, fair | 11,804 | `check_count` exact, destroyed after use, the run ends |
| `gen_init_cpio` | 2 workers, every list of 3 lines of all kinds, every fault, 2 or 3 calls a line, fair | 823,725 | archive complete up to what failed, each piece once and each line whole, lines together, order per worker, ends |
| `cpio_format` | lengths 1..4, sizes 0..4, data short by 1..4 bytes, 300 bytes | 32,374 | `Aligned` |
| `sparse_array` | 4 indices, 2 objects, first length 1, fair | 80,288 | in bounds, every call returns, a map |
| `cpu_hogd` | both versions, 1 writer, 2 commands in a read, 2 hoggers at a time, 1 descriptor, 5 commands, CPUs 2 and 3, fair | 1,451,514 | no zombie forgotten, no alarm outlives its jam, hoggers as asked, every command ends |
| `malloc_stats` | both programs, 2 strings, 2 addresses, 4 allocations, tables of 2 | 37,854 | string table exact and not overrun, tracked addresses are the live ones, no difference wraps, the report is the truth |
| `fs_slammer` | 2 slammers, 1 reader, 2 pages, 1 round, 3 descriptors, fair | 356,234 | `NoStrayFile`, `OwnDescriptors`, `ErrorsCloseAll`, `LostUpdatesOnlyLower`, `EverybodyEnds` |

Modules that are proved about have a type invariant as part of the proof, the
others as documentation of the state.

The run that must end in a violation is under
[What the specifications found](#what-the-specifications-found).

Why the bounds are enough. *Locks and semaphores*: a lost wake-up takes one
process that releases, one that sleeps and one that overtakes; the fourth lets
two sleepers and two active processes coexist. `MaxCount` only stops new ups; the count still goes above it
by those already called. *test_xlock*: two children
with two turns have first, middle and last turns overlapping. *gen_init_cpio*:
with three lines one of the two workers has two of its own, so that it can dump
between them, fail to dump between them and be overtaken by the other; with three calls
for a file one comes before its data and one after. A failed `mkstemp` of the second
worker meets worker 0 at every call of its lines. *cpio_format*: the
arithmetic depends on lengths modulo 4, also of what a short write leaves. *sparse_array*: four keys grow the arrays
from 1 to 2 to 4, and search reaches both ends and both sides of a middle.
*cpu_hogd*: a jam without a number and a hydra
without seconds take those of the next command in the read or of an earlier one: 0, the 60 of the start,
100, which hydra accepts, 101, which it does not, a negative number. Two hoggers can
exit on one signal; with one descriptor the first leak makes the next open fail. The mask is negative
and has a gap: CPU 1 is refused, so that its hogger sits where the daemon was at first or where
an earlier hydra has left it, and CPU 3 is not. A hydra that takes its mask from the next command is left to the proof. *xlock_file*: a creator that
passed the probe, one that zeroes and a third that has opened and locked in
between; the second file is what a destroy makes possible. *malloc_stats*: with two
addresses and four calls one is handed out again, and NULL comes twice; the
tables are as large as there are strings, so that one entry too many would
overrun them. *fs_slammer*: three descriptors for three threads that want five
let every open fail or succeed; two pages make the cumulative sum differ from the
count of pages; a slammer can get the number a reader
has closed. One round has every system call in it; what
a second would add, stale numbers in `fd` and the reset of `bytes_wrote`, is left to the proofs. For all invariants and refinements the theorems remove the bounds; for
liveness they remain.

Deadlock is checked except where programs end (`test_*`, `gen_init_cpio`,
`cpu_hogd`, whose daemon can quit; `xlock_file`, whose processes die or spin on a lock
of the dead) or a bound stops the model (`cpio_format`, `malloc_stats`).

## Fairness

- Every process or thread that can take a step inside a library call, a handler
  or a program's own loop is scheduled: weak fairness for each (`LockStep`,
  `SemStep`, `Thread`, `Worker`, ...). These are ordinary processes under the
  default scheduler.
- The lock: who holds it unlocks it; inside xsem and test_xlock that is the
  caller's own next step. Nobody has to call anything, and locks are not
  fair: a process may be overtaken for ever, and only `DeadlockFree` is claimed.
- `TestSem`: spurious wake-ups stop at some time, since the program installs no
  signal handler. Without it TLC shows a process that keeps waking and taking the
  unfair lock ahead of the one that brings the unit.
- `CpuHogd`: the daemon, its handler and alarms proceed; nothing is asked of
  writers. Hoggers may run under SCHED_FIFO on the daemon's CPU, so that the
  daemon is scheduled only because they end; `EveryCommandEnds` therefore claims
  nothing once there is a hogger without an alarm. `ReadFails` and SIGTERM are
  possible and never required.
- `FsSlammer`: main and every thread are scheduled, and a cancellation request that
  is pending at a cancellation point is acted on. `sleep` ends; `pause` need not, and
  no signal is ever required (`PauseEnds`, `EarlySignal`). A reader need never get a failed
  read, and the loop on a descriptor that is not open (`SlamSpin`) may go on for
  ever; only cancellation ends it.
- `SparseArray`: a call runs on; no next call is required.

## Proofs

All theorems are checked by TLAPS from the specifications that TLC runs; nothing
is assumed beyond the ASSUMEs of the modules, which TLC evaluates in every run.

| module | theorem | for |
|---|---|---|
| `LockProofs` | `LockTyping`, `LockMutualExclusion`, `LockWordTracksOwner`, `LockNoLostWakeup`, `LockImplementsAbstract` | any set of processes |
| | `SemTyping`, `SemUsesXLock`, `SemCountersAgree`, `SemImplementsAbstract`, `SemLosesNoWakeup` | any finite set of processes, any integer initial count |
| | `IncrementsNotLost` | any set of children, any number of turns, no `test_inc` before or one with an integer in it |
| | `CheckCountIsExact`, `SemDestroyedAfterUse` | any finite set of children; the first for one unit, the second for any count |
| `XLockFileProofs` | `FileInvariant`, `LockSurvivesItsFile`, `NameIsOneLock` | any set of processes, any number of files |
| `MallocStatsProofs` | `StatsInvariant`, `StringTable`, `Tracking`, `Difference`, `TrueReport` | any strings that fit the table, any addresses, any number of calls |
| `PSemProofs` | `PSemTyping`, `PSemLosesNoWakeup`, `PSemImplementsAbstract` | any set of threads, any integer initial count |
| `FsSlammerProofs` | `FsSlammerTyping`, `FsSlammerFiles`, `FsSlammerDescriptors`, `FsSlammerCloses`, `FsSlammerTotal` | any finite set of threads, any number of pages, rounds and descriptors |
| `GenInitCpioProofs` | `ArchiveInvariant`, `ArchiveTyped`, `LinesWrittenOnce`, `NamesStayTogether`, `LinesInOrder`, `CompleteAtEnd` | any number of workers, lines and stdio calls per line, any kinds of lines, any faults |
| | `ArchiveAligned` | names, targets and files of any length, writes short by any length |
| `CpuHogdProofs` | `DaemonTyped`, `ZombiesReaped`, `AlarmsEndWithTheirJam`, `HoggersPinnedAsAsked` | any commands with integer arguments, any number of them in one read, any set of CPUs, any number of hoggers, writers and descriptors, both versions |
| `SparseArrayProofs` | `IndicesSorted`, `AccessesInBounds`, `SparseArrayImplementsMap` | any set of integer keys, any objects, any first length |

*XLock.* Exclusion alone is not inductive: a second process could enter while the
word is 0 and somebody owns the lock. `LockInv` adds that the word is 1 exactly
while there is an owner. `OwnerStep` says what every step does to the set of
owners; the invariant and the refinement both follow from it. `NoLostWakeup` needs
`LockInv` for one case: a FUTEX_WAIT that really sleeps sees the word at 1.

*XSem.* `SemInv` is typing and `CountersAgree`, the agreement of the two
program counters: at each place of xsem the lock is held, or not, or in a call, as the code
has it there. Nothing but this keeps xsem from calling `xlock_lock` with the lock or
`xlock_unlock` without it; `SemStepIsLockStep` needs it to show that every step of xsem is a step of
xlock or leaves its variables alone. Hence `SemUsesXLock`, and every theorem about xlock
holds inside xsem. `SemLosesNoWakeup` counts: the processes on their way to the count or
to a FUTEX_WAKE are at least as many as the units, while anybody sleeps. It needs
finitely many processes for the cardinalities; the lemmas `OnTheWay...` say how
the set changes.

*test_xlock.* Every step of the program is a step of xlock or leaves it alone
(`TestStepIsLockStep`), so that `LockInv` holds inside it. `NoLostIncrement` speaks of the
file only; `IncInv` adds that do_inc_file runs inside the lock (`PlacesAgree`) and that
what a child has found out in one system call is still true at the next (`FileKnown`):
whether the file existed, and at the write that it is about to write the next
integer. An empty file exists only while its creator is on the way to the first write, which is
why no child ever computes with an uninitialised int. `AloneInFile` is where exclusion comes in.

*test_sem.* In the same way every step is one of xsem. `OneUnit` says where the one
unit is: in the count, or with exactly one process between its down and its up. Hence
what a process has loaded from `check_count` is still what it will replace (`Counted`),
and `check_count` is the number of processes past the increment. `Waiting` counts the
other way: each `wait` has reaped a child unless none was left, so that after one call per fork
tried, failed ones included, nobody is left in the semaphore that is then destroyed.

*XLockFile.* `IInv` adds to the two properties the types, that whoever is past its
open has a file (`HasFile`), and `SameFile`: while no name was destroyed in use, every
live process with a file has the one the name stands for. `OneLockPerName` alone
is not inductive, since the next `Creat` opens what the name stands for.

*MallocStats.* Two of the properties need counting. `IInv` says that nr_allocs and
nr_frees of a string are the numbers of its calls and of its freed calls, as long as
malloc has not failed, that live addresses differ, that the string table is as long as there are
counted strings (which is why a table of HTABLE_SZ entries cannot be overrun), and
that every tracked string has counters. `AllocStep` and `FreeStep` keep it; NULL, the one
key that several calls share, is the case in which only `NoWrap` survives.

*PSem.* `PSemNoLostWakeup` is inductive with the types: a thread goes to sleep only
when it sees no unit under the mutex, and the thread that gives one has its
broadcast still to come (`BroadcastToCome`). The refinement maps places to the phases
a caller sees (`OpOfPlaces`); calls, returns, `DownTake` and `UpIncrement` are steps,
the rest stutters.

*FsSlammer.* `OwnDescriptors` speaks of the descriptors a slammer writes through; to be
inductive it must cover readers and `drain` too, and say that a thread that is not
cancelled has no descriptors beside the ones it holds (`Own`, `NoOthers`): otherwise
a close could hit a number of somebody else. `OwnershipFrame` reduces each action to
what it does to its own thread. All of it is under `~twice`: a reader cancelled
inside `close` closes the number again in its handler, and nothing can be said after
that. `NoStrayFile` needs only the types. `LostUpdatesOnlyLower` compares the total with a sum over
all slammers. `TotalInv` compares it, and every copy of it that a slammer has loaded
and not yet stored, with the sum of what they have stored (`Counted`: a page in front of its store is not
yet part of it); a lost update then needs no case of its own. `PageInv` ties `pages` and `bytes_wrote`
together. That a sum grows when one term grows and no other shrinks (`SumsGrow`) is
an induction over the set of slammers; the induction theorems of the library
take an operator as a parameter, so it is written with a least counterexample (`LeastNumber`).

*GenInitCpio.* `ArchiveInv` has nine parts. `WrittenOnce` could be broken by a worker that
writes a piece again which is already in the archive, or dumps what it has dumped; `Placed`
therefore says that every piece in a file or in the archive is one its handler has written, under the line's
inode and before the next one, and `InOrder` that pieces of one writer are sorted and that what
is in a *fresh* file comes after everything of its worker in the archive. A file is not fresh between its dump and its rewind,
nor once main has put stdout in its place, except for a dump that has begun: that is where
main's early exit comes in. `Handling` says where a worker in a handler is and that no two
lines share an inode. `TogetherInv` says for files and archive alike that the pieces of a line
stand together, with the handler's own line at the end of its file (`MidLine`); only the lines
of `Torn` are excepted, and only in the archive. `WholeLines` says that a line is
complete once its handler has returned. For `ArchiveComplete`, `Kept` says that no line gets lost on the way without a
failed dump, `Stops` why a worker is done (end of the list or a line without type), and `Loops` that main's loops have
joined and emptied the workers they have passed. As far as files and archive are concerned, a step
moves nothing (`Still`), enters a handler, stores a piece in a file, prints one to
stdout, dumps a file, rewinds it or writes a piece of the trailer (`StepClass`); each part of the invariant is
shown for these seven, not for every action.

*CpuHogd.* `NoForgottenZombie` is inductive by itself for the steps of Reaper, and every step of the daemon is one
(`StepsReap`). An alarm that outlives its jam would need a jam that ends before it: `AlarmInv` adds that
the flag is down as long as the alarm is set. For the hoggers `MaskInv` says that what the
loop shifts is `asked \div 2^cpu`, for negative numbers too, so that its lowest bit is the bit of
this CPU; and that the daemon sits on the largest bit looked at so far that `sched_setaffinity` accepts, or
where it was before (`SitsFor`), which a fork hands on to the hogger. That the numbers read are ints for any
number of commands in one read is `ReadsNumbers`. `DaemonTyped` needs that the FIFO is open wherever it is closed or read.

*CpioFormat.* `pos` and `offset` are kept apart; `OffsetIsPosition` is that they agree as long as no
write to the file fell short, and again after a rewind. `FormatInv` adds to it
that header and payload positions are multiples of four until then, and the archive's length until
something cut has been dumped, so that adding an aligned archive length keeps them so. Its lemmas are about `Padded` and what
the pushes advance (`Advances`).

*SparseArray.* `SparseInv` is typing, order, room (lengths and capacities) and what
is known at each place of the search: all indices before `low` are smaller and
all from `high` on larger than the key (`LoopInv`); behind the loop `mid` is the
key's place or next to the gap it belongs in (`EndInv`); the value returned is
the place or the complement of the gap (`UseInv`). The refinement proof shows
that inserting, replacing and failing map to the steps of `AbstractMap`.

Only model-checked: the liveness properties (`DeadlockFree`, `UnitOrSleeperGoes`,
`EverybodyFinishes`, `RunEnds`, `ProgramEnds`, `SearchEnds`, `EveryCommandEnds`, `EverybodyEnds`),
because fairness and ENABLED are beyond the installed provers. Every invariant and every
refinement that a run checks is also proved.

## What the specifications found

- `gen_init_cpio_trailer`: "Generate the trailer if all went well"
  (`gen_init_cpio.c:865`). `pthread_join` stores the worker's result in `tret` while
  `ret` is tested, and the worker returns nothing: after a bad line the trailer is
  written and the exit status is 0.

Other observations, modelled as the code behaves: FUTEX_WAKE with -1 wakes one process on Linux, not all (the
lock does not depend on it); a failing `xlock_create` leaves the semaphore's first
file behind; a missing argument list makes `gen_init_cpio` call a handler with NULL;
an empty read makes `cpu_hogd` repeat its last command; a hydra of more than 100
seconds leaves the FIFO open (`cpu_hogd.c:123`, against the comment in line 154), one descriptor
each time; hydra with 0 seconds starts
hoggers that never end; the first version of `cpu_hogd` exits on `quit` before it
gets to its "remove pipe before quiting" (`cpu_hogd_v0.c:179`, action `Quit` with
`Leave`); v0's client sends no command word, so that the daemon
ignores it; a second `xlock_create` between another's probe and its zeroing frees a
lock that is taken (`zeroed`); a lock whose owner was killed stays taken for ever;
a failing `sched_setaffinity` leaves the hogger on the CPU of an earlier one; a command without numbers
takes those of the next one in the same read; a cancelled
slammer keeps its descriptors open, a reader cancelled inside `close` closes its number twice; a signal just before `pause`
is lost; `fs_slammer.c:123` adds the sum of the round so far, not the page, so that two pages are printed as three
under "Total bytes written" (line 264): `LostUpdatesOnlyLower` bounds what is added, not what is written; a `fwrite` of file data that falls short is dumped all the same, without padding, and everything behind
it in the archive is misaligned (`cpio_format` claims nothing there); a failed `mkstemp` or `pthread_create` makes main write
the trailer into the middle of what worker 0 prints (`Torn`); a failed reopen in `slam_junk` loops until it is
cancelled.

## What is abstracted

- Memory is sequentially consistent; the shared words are accessed by `__sync`
  operations, system calls or under a lock.
- FUTEX_WAKE wakes any non-empty set of sleepers: what Linux does with -1, what
  the author expected, and everything between.
- `gen_init_cpio`: stdout is a pipe: `ftell` and `rewind` on it do nothing (on a regular file
  worker 0 would, after main's early exit, rewind the archive itself). A dump is one `fwrite`, which is atomic and
  succeeds or fails; the trailer's padding to 512 bytes is not modelled; a header has 110 bytes (no field needs more than eight digits); all
  workers call `strlen` on all lines, also on lines already freed by their owner,
  but the length is used by the owner only. Option parsing, `${VAR}` expansion and
  the header's digits are left out.
  Memory freed by main's early exit still holds its contents or the worker that reads it crashes.
- `cpu_hogd`: commands are records; they end in newlines, and all that is in the FIFO fits the buffer; numbers of
  two v0 clients that would run together are kept apart; `cmd`
  before the first command is uninitialised and taken as no command word.
  Which CPUs `sched_setaffinity` accepts does not change. The scheduling class is left out.
- `malloc_stats`: the mallocs of the tables' own records do not fail; glibc rounds the
  size of the hash table up to a prime, HTABLE_SZ is the smaller bound; the
  program is built with NDEBUG, so that the assert of `debug_free` is empty. The order of the tree is
  irrelevant, `ad_compare` is equality of addresses.
- `fs_slammer`: byte counts are pages, reads and writes are whole; random file names
  differ; `total_bytes_read`, argument parsing and the messages are left out. The slammers
  are created and cancelled in one arbitrary order.
- `test_xlock`: a `test_inc` from an earlier run holds an integer (not an empty file, on which the first child
  would compute with an uninitialised int); writes in `do_inc_file` do not fail; `xlock_open` in the
  children does not return NULL (`test_xlock.c:71`).
- `xlock` files: permissions and a first `open` that returns descriptor 0 are left out.
- `sparse_array`: sizes do not overflow; allocation in `sparse_array_create` succeeds.

Not modelled at all, for good: programs that only print durations, sizes or the
result of one system call; device and privilege programs; files that do not
compile. `PROJECT.json` gives the reason for each group.

## Plan

1. Threads and futexes: `test_mmap3.c`, `producer_test.c`, `wakeup_test.c`,
   `test_int_update.c`.
2. Children: `test_clone.c` (clone without SIGCHLD, then `waitpid` without
   `__WCLONE`), `test_tasklock.c`, `test_fork_pthread.c`, `test_fork.c` on `Reaper`.
3. Sockets and pipes: `test_udp.c` with loss and reordering, `test_socket.c`,
   `recv_nl_uevent.c`, `pipe_reader.c`/`pipe_writer.c`.
4. Algorithms against reference definitions: `test_bitarray.c` (the shift compares
   with the width of a word where the comment speaks of the array, lines 85 and 86),
   `test_myhash.c`, `my_strstr.c`, `test_large_mult.c`, `test_bsearch.c`.
5. Proofs about these as they are added; all safety properties of the present
   modules are proved.
