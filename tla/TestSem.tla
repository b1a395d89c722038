------------------------------- MODULE TestSem -------------------------------
(***************************************************************************)
(* The program src/test_sem.c with its xsem (module XSem): main creates    *)
(* the semaphore in two files, allocates, forks nr_threads processes that  *)
(* each run sem_test_thread (down, increment the shared check_count, up),  *)
(* waits for them, destroys the semaphore and prints check_count.          *)
(*                                                                         *)
(*   tpc[p]: "unborn", "enter" (before SEM_DOWN), "load" and "store" (the  *)
(*   two halves of check_count[0]++), "leave" (before SEM_UP), "last"      *)
(*   (inside SEM_UP), "exit", "reaped", "nofork" (fork failed)             *)
(***************************************************************************)
EXTENDS XSem

VARIABLES
    main,       \* place of the parent
    files,      \* the files of the semaphore that exist
    tpc,        \* [Procs -> place in sem_test_thread]
    check,      \* check_count[0], a shared mapping
    reg,        \* [Procs -> the value loaded by check_count[0]++]
    waited      \* calls of wait() that have returned

progVars == <<main, files, tpc, check, reg, waited>>
vars == <<lock, lpc, count, spc, main, files, tpc, check, reg, waited>>

Files == {"sem", "sem.lock"}

Init ==
    /\ SemInit
    /\ main = "create"
    /\ files \in SUBSET Files
    /\ tpc = [p \in Procs |-> "unborn"]
    /\ check = 0
    /\ reg = [p \in Procs |-> 0]
    /\ waited = 0

-----------------------------------------------------------------------------
(***************************************************************************)
(* xsem_create: refuses a name whose file exists, creates it, and lets     *)
(* xlock_create do the same for name.lock.  A failure on the way (the lock *)
(* file exists, open or mmap fails) leaves what was created so far.        *)
(***************************************************************************)
MainCreate ==
    /\ main = "create"
    /\ \/ /\ files = {}
          /\ files' = Files
          /\ main' = "alloc"
       \/ /\ files' \in IF "sem" \in files THEN {files}
                        ELSE {files, files \cup {"sem"}, Files}
          /\ main' = "failed"
    /\ UNCHANGED <<lockVars, semVars, tpc, check, reg, waited>>

\* The three allocations of main: only the failure of the first one destroys
\* the semaphore.
MainAlloc ==
    /\ main = "alloc"
    /\ \/ main' = "fork" /\ UNCHANGED files
       \/ main' = "failed" /\ files' \in {{}, files}
    /\ UNCHANGED <<lockVars, semVars, tpc, check, reg, waited>>

From(p, from, to) == tpc[p] = from /\ tpc' = [tpc EXCEPT ![p] = to]

\* A failed fork is not noticed.
MainFork(p) ==
    /\ main = "fork"
    /\ From(p, "unborn", "enter") \/ From(p, "unborn", "nofork")
    /\ UNCHANGED <<lockVars, semVars, main, files, check, reg, waited>>

Children == {p \in Procs : tpc[p] \notin {"unborn", "nofork", "reaped"}}

\* Mutant of main's wait loop: wait that does not block.
BugNoBlock ==
    /\ main = "fork"
    /\ \A p \in Procs : tpc[p] # "unborn"
    /\ waited < Cardinality(Procs)
    /\ waited' = waited + 1
    /\ \/ \E p \in Procs : From(p, "exit", "reaped")
       \/ UNCHANGED tpc
    /\ UNCHANGED <<lockVars, semVars, main, files, check, reg>>

\* wait(NULL) reaps one child that has exited, or fails when there is none.
MainWait ==
    /\ main = "fork"
    /\ \A p \in Procs : tpc[p] # "unborn"
    /\ waited < Cardinality(Procs)
    /\ waited' = waited + 1
    /\ \/ \E p \in Procs : From(p, "exit", "reaped")
       \/ Children = {} /\ UNCHANGED tpc
    /\ UNCHANGED <<lockVars, semVars, main, files, check, reg>>

\* xsem_destroy unlinks both files; main prints check_count and returns.
MainDestroy ==
    /\ main = "fork"
    /\ waited = Cardinality(Procs)
    /\ files' = {}
    /\ main' = "done"
    /\ UNCHANGED <<lockVars, semVars, tpc, check, reg, waited>>

-----------------------------------------------------------------------------
ThreadDown(p) ==
    /\ From(p, "enter", "load")
    /\ CallDown(p)
    /\ UNCHANGED <<main, files, check, reg, waited>>

\* SEM_DOWN has returned: check_count[0]++ is a load, then a store.
ThreadLoad(p) ==
    /\ spc[p] = "idle"
    /\ From(p, "load", "store")
    /\ reg' = [reg EXCEPT ![p] = check]
    /\ UNCHANGED <<lockVars, semVars, main, files, check, waited>>

\* Mutant: check_count mapped MAP_PRIVATE, the store stays in the child.
BugPrivateMapping(p) ==
    /\ From(p, "store", "leave")
    /\ UNCHANGED <<lockVars, semVars, main, files, check, reg, waited>>

ThreadStore(p) ==
    /\ From(p, "store", "leave")
    /\ check' = reg[p] + 1
    /\ UNCHANGED <<lockVars, semVars, main, files, reg, waited>>

ThreadUp(p) ==
    /\ From(p, "leave", "last")
    /\ CallUp(p)
    /\ UNCHANGED <<main, files, check, reg, waited>>

ThreadExit(p) ==
    /\ spc[p] = "idle"
    /\ From(p, "last", "exit")
    /\ UNCHANGED <<lockVars, semVars, main, files, check, reg, waited>>

Thread(p) ==
    \/ ThreadDown(p) \/ ThreadLoad(p) \/ ThreadStore(p) \/ ThreadUp(p)
    \/ ThreadExit(p)
    \/ SemStep(p) /\ UNCHANGED progVars

Main ==
    \/ MainCreate \/ MainAlloc \/ MainWait \/ MainDestroy
    \/ \E p \in Procs : MainFork(p)

Spurious == \E p \in Procs : SemSpurious(p) /\ UNCHANGED progVars

Next == Main \/ Spurious \/ \E p \in Procs : Thread(p)

Spec == Init /\ [][Next]_vars

(***************************************************************************)
(* Parent and children are ordinary processes: each is scheduled.  The     *)
(* program installs no signal handler, so spurious wake-ups, if any, stop; *)
(* without that, a process that keeps waking to find no unit can keep      *)
(* taking the unfair sem_lock ahead of the processes that bring one.       *)
(***************************************************************************)
FairSpec ==
    /\ Spec
    /\ WF_vars(Main)
    /\ \A p \in Procs : WF_vars(Thread(p))
    /\ <>[][~Spurious]_vars

-----------------------------------------------------------------------------
TypeOK ==
    /\ SemTypeOK
    /\ main \in {"create", "alloc", "fork", "done", "failed"}
    /\ files \subseteq Files
    /\ tpc \in [Procs -> {"unborn", "nofork", "enter", "load", "store", "leave",
                          "last", "exit", "reaped"}]
    /\ check \in Nat
    /\ reg \in [Procs -> Nat]
    /\ waited \in 0..Cardinality(Procs)

(***************************************************************************)
(* The purpose of the program: with a semaphore of one unit, the           *)
(* unprotected-looking check_count[0]++ loses no increment, and the number *)
(* printed is the number of processes that ran.                            *)
(***************************************************************************)
CheckCountExact ==
    (main = "done" /\ SemCount = 1) =>
        check = Cardinality({p \in Procs : tpc[p] = "reaped"})

(***************************************************************************)
(* SEM_DESTROY runs after the last use of the semaphore, also when some    *)
(* forks failed; a completed run leaves no file behind, so the next run    *)
(* can create the semaphore again.                                         *)
(***************************************************************************)
DestroyedAfterUse ==
    main = "done" => /\ \A p \in Procs : spc[p] = "idle" /\ lpc[p] = "out"
                     /\ Children = {}
                     /\ files = {}

(***************************************************************************)
(* Once main starts forking, it gets to the end: every process passes the  *)
(* semaphore (at least one unit is needed).                                *)
(***************************************************************************)
RunEnds == (main = "fork") ~> (main = "done")
=============================================================================
