--------------------------------- MODULE PSem ---------------------------------
(***************************************************************************)
(* The semaphore of src/psem.c: a count under a pthread mutex, with a      *)
(* condition variable for the threads that find it used up.  psem_up       *)
(* broadcasts after it has released the mutex.  The mutex and the          *)
(* condition variable are the pthread library's: mutex is its owner, and a *)
(* thread in pthread_cond_wait is at "d_asleep".                           *)
(*                                                                         *)
(*   "idle"      outside psem_down and psem_up                             *)
(*   "d_lock"    waiting for the mutex in psem_down or on the way out of   *)
(*               pthread_cond_wait                                         *)
(*   "d_test"    holds the mutex, about to look at the count               *)
(*   "d_unlock"  has taken a unit, holds the mutex                         *)
(*   "d_asleep"  in pthread_cond_wait, mutex released                      *)
(*   "u_lock"    waiting for the mutex in psem_up                          *)
(*   "u_inc"     holds the mutex, about to increment                       *)
(*   "u_unlock"  has incremented, holds the mutex                          *)
(*   "u_bcast"   mutex released, about to broadcast                        *)
(***************************************************************************)
EXTENDS Integers

CONSTANTS
    Procs,
    SemCount,   \* the count given to psem_create
    MaxCount,   \* bound: no new psem_up is called at this count
    NoProc      \* nobody owns the mutex

ASSUME SemCountAssumption == SemCount \in Int /\ MaxCount \in Int
ASSUME NoProcAssumption == NoProc \notin Procs

VARIABLES
    count,      \* x->count
    mutex,      \* owner of x->sem_mutex
    ppc         \* [Procs -> place in psem_down / psem_up]

psemVars == <<count, mutex, ppc>>

PSemPlaces == {"idle", "d_lock", "d_test", "d_unlock", "d_asleep",
               "u_lock", "u_inc", "u_unlock", "u_bcast"}

Init ==     \* psem_create
    /\ count = SemCount
    /\ mutex = NoProc
    /\ ppc = [p \in Procs |-> "idle"]

-----------------------------------------------------------------------------
From(p, from, to) == ppc[p] = from /\ ppc' = [ppc EXCEPT ![p] = to]

MutexLock(p) == mutex = NoProc /\ mutex' = p
MutexUnlock(p) == mutex = p /\ mutex' = NoProc

CallDown(p) == From(p, "idle", "d_lock") /\ UNCHANGED <<count, mutex>>

DownLock(p) == From(p, "d_lock", "d_test") /\ MutexLock(p) /\ UNCHANGED count

\* Mutant of psem_down: off by one in the test.
BugOffByOne(p) ==
    /\ count >= 0
    /\ From(p, "d_test", "d_unlock")
    /\ count' = count - 1
    /\ UNCHANGED mutex

DownTake(p) ==
    /\ count > 0
    /\ From(p, "d_test", "d_unlock")
    /\ count' = count - 1
    /\ UNCHANGED mutex

\* pthread_cond_wait: releases the mutex and queues the thread in one step.
DownWait(p) ==
    /\ count <= 0
    /\ From(p, "d_test", "d_asleep")
    /\ MutexUnlock(p)
    /\ UNCHANGED count

\* pthread_cond_wait may return without a broadcast.
CondSpurious(p) == From(p, "d_asleep", "d_lock") /\ UNCHANGED <<count, mutex>>

DownUnlock(p) == From(p, "d_unlock", "idle") /\ MutexUnlock(p) /\ UNCHANGED count

CallUp(p) ==
    /\ count < MaxCount
    /\ From(p, "idle", "u_lock")
    /\ UNCHANGED <<count, mutex>>

UpLock(p) == From(p, "u_lock", "u_inc") /\ MutexLock(p) /\ UNCHANGED count

UpIncrement(p) ==
    /\ From(p, "u_inc", "u_unlock")
    /\ count' = count + 1
    /\ UNCHANGED mutex

UpUnlock(p) == From(p, "u_unlock", "u_bcast") /\ MutexUnlock(p) /\ UNCHANGED count

CondAsleep == {p \in Procs : ppc[p] = "d_asleep"}

\* Mutant of psem_up: broadcasts only for the first unit.
BugBroadcastFirstOnly(p) ==
    /\ ppc[p] = "u_bcast"
    /\ ppc' = [q \in Procs |->
                 IF q = p THEN "idle"
                 ELSE IF q \in CondAsleep /\ count = 1 THEN "d_lock" ELSE ppc[q]]
    /\ UNCHANGED <<count, mutex>>

UpBroadcast(p) ==
    /\ ppc[p] = "u_bcast"
    /\ ppc' = [q \in Procs |-> IF q = p THEN "idle"
                               ELSE IF q \in CondAsleep THEN "d_lock" ELSE ppc[q]]
    /\ UNCHANGED <<count, mutex>>

-----------------------------------------------------------------------------
PSemStep(p) ==
    \/ DownLock(p) \/ DownTake(p) \/ DownWait(p) \/ DownUnlock(p)
    \/ UpLock(p) \/ UpIncrement(p) \/ UpUnlock(p) \/ UpBroadcast(p)

Next ==
    \E p \in Procs : CallDown(p) \/ CallUp(p) \/ PSemStep(p) \/ CondSpurious(p)

Spec == Init /\ [][Next]_psemVars

\* A thread inside psem_down or psem_up that can take a step is scheduled.
FairSpec == Spec /\ \A p \in Procs : WF_psemVars(PSemStep(p))

-----------------------------------------------------------------------------
TypeOK ==
    /\ count \in Int
    /\ SemCount >= 0 => count >= 0
    /\ mutex \in Procs \cup {NoProc}
    /\ ppc \in [Procs -> PSemPlaces]

(***************************************************************************)
(* psem_up may broadcast after releasing the mutex: whenever a unit is     *)
(* there and threads sleep in pthread_cond_wait, some psem_up has still to *)
(* broadcast, so the unit is not overlooked.                               *)
(***************************************************************************)
PSemNoLostWakeup ==
    (count > 0 /\ CondAsleep # {}) =>
        \E p \in Procs : ppc[p] \in {"u_unlock", "u_bcast"}

(***************************************************************************)
(* A unit and a sleeping thread never stay together.                       *)
(***************************************************************************)
UnitOrSleeperGoes ==
    (count > 0 /\ CondAsleep # {}) ~> (count <= 0 \/ CondAsleep = {})

(***************************************************************************)
(* psem implements the same abstract semaphore as xsem; taking effect is   *)
(* the change of the count under the mutex.                                *)
(***************************************************************************)
OpOf(place) ==
    CASE place = "idle" -> "idle"
      [] place = "d_unlock" -> "took"
      [] place \in {"u_lock", "u_inc"} -> "up"
      [] place \in {"u_unlock", "u_bcast"} -> "gave"
      [] OTHER -> "down"

AbsSem == INSTANCE AbstractSem WITH op <- [p \in Procs |-> OpOf(ppc[p])]

ImplementsAbstractSem == AbsSem!Spec
=============================================================================
