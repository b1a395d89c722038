------------------------------ MODULE TestXlock ------------------------------
(***************************************************************************)
(* The program src/test_xlock.c: a parent forks children that each         *)
(* increment an integer in the file test_inc MaxIter times under the xlock *)
(* of the file this_lock, waits for them and prints the integer.           *)
(*                                                                         *)
(* The lock is module XLock.  do_inc_file is four system calls (stat,      *)
(* open, read, write); each is a step, so that an unprotected call could   *)
(* interleave with another.                                                *)
(*                                                                         *)
(*   cpc[p]: "unborn", "loop" (head of test2's loop), "stat", "open",      *)
(*   "read", "write", "exit", "reaped", "nofork" (fork failed)             *)
(***************************************************************************)
EXTENDS XLock, Integers

CONSTANTS
    MaxIter,    \* MAX_ITER
    Base,       \* the integers test_inc may hold from earlier runs
    Garbage,    \* values an uninitialised int may have
    Absent,     \* test_inc does not exist
    Empty       \* test_inc exists with no bytes in it

ASSUME MaxIterAssumption == MaxIter \in Nat \ {0}
ASSUME FileAssumption ==
    /\ Base \subseteq Int /\ Garbage \subseteq Int
    /\ Absent \notin Int /\ Empty \notin Int /\ Absent # Empty

VARIABLES
    file,       \* test_inc: Absent, Empty or the integer in it
    cpc,        \* [Procs -> place in main / test2 / do_inc_file]
    iter,       \* [Procs -> iterations begun]
    doInit,     \* [Procs -> do_init]
    fint,       \* [Procs -> *fint]
    waits,     \* calls of wait() that have returned to the parent
    printed,    \* what print_inc_file prints, Absent before that
    start,      \* history: test_inc before this run, 0 if absent
    writes      \* history: increments written

incVars == <<file, cpc, iter, doInit, fint, waits, printed, start, writes>>
testVars == <<lock, lpc, file, cpc, iter, doInit, fint, waits, printed, start, writes>>

TestInit ==
    /\ LockInit
    /\ file \in Base \cup {Absent}
    /\ start = IF file = Absent THEN 0 ELSE file
    /\ cpc = [p \in Procs |-> "unborn"]
    /\ iter = [p \in Procs |-> 0]
    /\ doInit = [p \in Procs |-> FALSE]
    /\ fint = [p \in Procs |-> 0]
    /\ waits = 0
    /\ printed = Absent
    /\ writes = 0

-----------------------------------------------------------------------------
Moves(p, from, to) == cpc[p] = from /\ cpc' = [cpc EXCEPT ![p] = to]

\* main's first loop; a failed fork is not noticed.
Fork(p) ==
    /\ Moves(p, "unborn", "loop") \/ Moves(p, "unborn", "nofork")
    /\ UNCHANGED <<lockVars, file, iter, doInit, fint, waits, printed, start, writes>>

\* Mutant of test2's loop: no lock, as in test1.
BugNoLock(p) ==
    /\ iter[p] < MaxIter
    /\ Moves(p, "loop", "stat")
    /\ iter' = [iter EXCEPT ![p] = @ + 1]
    /\ GoTo(p, "in")
    /\ UNCHANGED <<lock, file, doInit, fint, waits, printed, start, writes>>

\* test2: one turn of its loop, starting with xlock_lock.
LoopLock(p) ==
    /\ iter[p] < MaxIter
    /\ Moves(p, "loop", "stat")
    /\ iter' = [iter EXCEPT ![p] = @ + 1]
    /\ CallLock(p)
    /\ UNCHANGED <<file, doInit, fint, waits, printed, start, writes>>

LoopExit(p) ==
    /\ iter[p] = MaxIter
    /\ lpc[p] = "out"
    /\ Moves(p, "loop", "exit")
    /\ UNCHANGED <<lockVars, file, iter, doInit, fint, waits, printed, start, writes>>

\* do_inc_file, entered once xlock_lock has returned.
IncStat(p) ==
    /\ lpc[p] = "in"
    /\ Moves(p, "stat", "open")
    /\ doInit' = [doInit EXCEPT ![p] = (file = Absent)]
    /\ UNCHANGED <<lockVars, file, iter, fint, waits, printed, start, writes>>

\* open with O_CREAT.  When it fails, do_inc_file returns and test2 unlocks.
IncOpen(p) ==
    /\ \/ /\ Moves(p, "open", "read")
          /\ file' = IF file = Absent THEN Empty ELSE file
          /\ UNCHANGED lockVars
       \/ /\ Moves(p, "open", "loop")
          /\ CallUnlock(p)
          /\ UNCHANGED file
    /\ UNCHANGED <<iter, doInit, fint, waits, printed, start, writes>>

\* read, the reset by do_init and the addition.  An empty file leaves the
\* stack's *fint as it was.
IncRead(p) ==
    /\ Moves(p, "read", "write")
    /\ \E v \in (IF file = Empty THEN Garbage ELSE {file}) :
          fint' = [fint EXCEPT ![p] = (IF doInit[p] THEN 0 ELSE v) + 1]
    /\ UNCHANGED <<lockVars, file, iter, doInit, waits, printed, start, writes>>

\* lseek, write, close; then test2 calls xlock_unlock.
IncWrite(p) ==
    /\ Moves(p, "write", "loop")
    /\ file' = fint[p]
    /\ writes' = writes + 1
    /\ CallUnlock(p)
    /\ UNCHANGED <<iter, doInit, fint, waits, printed, start>>

\* main's second loop: wait() reaps a child that has exited, or fails when
\* there is none left; it is called once for every fork tried.
Forked == {p \in Procs : cpc[p] \notin {"unborn", "nofork", "reaped"}}

Wait ==
    /\ \A p \in Procs : cpc[p] # "unborn"
    /\ waits < Cardinality(Procs)
    /\ waits' = waits + 1
    /\ \/ \E p \in Procs : Moves(p, "exit", "reaped")
       \/ Forked = {} /\ UNCHANGED cpc
    /\ UNCHANGED <<lockVars, file, iter, doInit, fint, printed, start, writes>>

\* print_inc_file; it returns silently when the file does not exist.
PrintIncFile ==
    /\ waits = Cardinality(Procs)
    /\ printed = Absent
    /\ file # Absent
    /\ \E v \in (IF file = Empty THEN Garbage ELSE {file}) : printed' = v
    /\ UNCHANGED <<lockVars, file, cpc, iter, doInit, fint, waits, start, writes>>

-----------------------------------------------------------------------------
Child(p) ==
    \/ LoopLock(p) \/ LoopExit(p)
    \/ IncStat(p) \/ IncOpen(p) \/ IncRead(p) \/ IncWrite(p)
    \/ LockStep(p) /\ UNCHANGED incVars

Parent == Wait \/ PrintIncFile \/ \E p \in Procs : Fork(p)

TestNext ==
    \/ Parent
    \/ \E p \in Procs : Child(p) \/ (SpuriousWakeup(p) /\ UNCHANGED incVars)

\* Parent and children are ordinary processes: each is scheduled.
TestSpec ==
    /\ TestInit /\ [][TestNext]_testVars
    /\ WF_testVars(Parent) /\ \A p \in Procs : WF_testVars(Child(p))

-----------------------------------------------------------------------------
TestTypeOK ==
    /\ LockTypeOK
    /\ file \in Int \cup {Absent, Empty}
    /\ cpc \in [Procs -> {"unborn", "nofork", "loop", "stat", "open", "read",
                          "write", "exit", "reaped"}]
    /\ iter \in [Procs -> 0..MaxIter]
    /\ doInit \in [Procs -> BOOLEAN]
    /\ fint \in [Procs -> Int]
    /\ waits \in 0..Cardinality(Procs)
    /\ printed \in Int \cup {Absent}
    /\ start \in Int
    /\ writes \in Nat

(***************************************************************************)
(* No increment is lost: the integer in test_inc is always the one from    *)
(* before the run plus the increments written, although each is a read and *)
(* a write of a file that all children share.                              *)
(***************************************************************************)
NoLostIncrement == file \in Int => file = start + writes

(***************************************************************************)
(* Every child finishes its MaxIter turns and the parent has waited for    *)
(* all: the lock lets everybody through.                                   *)
(***************************************************************************)
EverybodyFinishes == <>[](waits = Cardinality(Procs) /\ Forked = {})
=============================================================================
