-------------------------------- MODULE XLock --------------------------------
(***************************************************************************)
(* The futex lock of src/xlock.c: one int in a shared file mapping, taken  *)
(* and released by compare-and-swap, with FUTEX_WAIT / FUTEX_WAKE for the  *)
(* processes that find it taken.                                           *)
(*                                                                         *)
(* One step is one access to shared state: a compare-and-swap or a system  *)
(* call.  lpc[p] is where process p stands in the lock's code:             *)
(*                                                                         *)
(*   "out"      outside xlock_lock / xlock_unlock, lock not held           *)
(*   "cas"      about to run raw_lock_it                                   *)
(*   "wait"     raw_lock_it failed, about to call FUTEX_WAIT               *)
(*   "asleep"   queued by the kernel on the lock word                      *)
(*   "in"       xlock_lock has returned                                    *)
(*   "release"  about to run raw_unlock_it                                 *)
(*   "wake"     raw_unlock_it succeeded, about to call FUTEX_WAKE          *)
(***************************************************************************)
EXTENDS Naturals, FiniteSets

CONSTANT Procs

VARIABLES
    lock,       \* *x->lock_ptr
    lpc         \* [Procs -> place in the lock's code]

lockVars == <<lock, lpc>>

Places == {"out", "cas", "wait", "asleep", "in", "release", "wake"}

Free == 0
Taken == 1

Asleep == {p \in Procs : lpc[p] = "asleep"}

(***************************************************************************)
(* xlock_create sets the word to 0; nobody has called xlock_lock yet.      *)
(***************************************************************************)
LockInit ==
    /\ lock = Free
    /\ lpc = [p \in Procs |-> "out"]

-----------------------------------------------------------------------------
GoTo(p, place) == lpc' = [lpc EXCEPT ![p] = place]

\* The call of xlock_lock, up to its first compare-and-swap.
CallLock(p) ==
    /\ lpc[p] = "out"
    /\ GoTo(p, "cas")
    /\ UNCHANGED lock

\* Mutant of raw_lock_it: no comparison.
BugNoCompare(p) ==
    /\ lpc[p] = "cas"
    /\ lock' = Taken
    /\ GoTo(p, "in")

\* raw_lock_it: __sync_bool_compare_and_swap(lock_ptr, 0, 1).
RawLockIt(p) ==
    /\ lpc[p] = "cas"
    /\ \/ /\ lock = Free
          /\ lock' = Taken
          /\ GoTo(p, "in")
       \/ /\ lock # Free
          /\ GoTo(p, "wait")
          /\ UNCHANGED lock

\* Mutant of the FUTEX_WAIT call: sleep whatever the word is by now.
BugSleepAnyway(p) ==
    /\ lpc[p] = "wait"
    /\ GoTo(p, "asleep")
    /\ UNCHANGED lock

\* FUTEX_WAIT with expected value 1: the kernel compares and queues in one
\* step; a word that is no longer 1 makes the call return at once (EAGAIN).
FutexWait(p) ==
    /\ lpc[p] = "wait"
    /\ GoTo(p, IF lock = Taken THEN "asleep" ELSE "cas")
    /\ UNCHANGED lock

\* FUTEX_WAIT may also return without a FUTEX_WAKE (EINTR); the do-while of
\* xlock_lock looks at the word again.
SpuriousWakeup(p) ==
    /\ lpc[p] = "asleep"
    /\ GoTo(p, "cas")
    /\ UNCHANGED lock

\* The call of xlock_unlock by the process that holds the lock.
CallUnlock(p) ==
    /\ lpc[p] = "in"
    /\ GoTo(p, "release")
    /\ UNCHANGED lock

\* raw_unlock_it: __sync_bool_compare_and_swap(lock_ptr, 1, 0).  On failure
\* the do-while of xlock_unlock tries again for ever: no step is taken.
RawUnlockIt(p) ==
    /\ lpc[p] = "release"
    /\ lock = Taken
    /\ lock' = Free
    /\ GoTo(p, "wake")

\* FUTEX_WAKE with nr_wake = -1.  The author wants every sleeper woken; Linux
\* compares the count of woken processes with the signed limit after each one
\* and stops at the first.  Any non-empty set of sleepers covers both.
Woken(sleepers) == (SUBSET sleepers) \ {{}}

FutexWake(p) ==
    /\ lpc[p] = "wake"
    /\ \/ /\ Asleep = {}
          /\ GoTo(p, "out")
       \/ \E W \in Woken(Asleep) :
             lpc' = [q \in Procs |-> IF q = p THEN "out"
                                     ELSE IF q \in W THEN "cas" ELSE lpc[q]]
    /\ UNCHANGED lock

-----------------------------------------------------------------------------
(***************************************************************************)
(* LockStep(p): the steps p takes once it is inside xlock_lock or          *)
(* xlock_unlock.  Whoever uses the lock adds the calls.                    *)
(***************************************************************************)
LockStep(p) ==
    RawLockIt(p) \/ FutexWait(p) \/ RawUnlockIt(p) \/ FutexWake(p)

LockNext ==
    \E p \in Procs :
        CallLock(p) \/ CallUnlock(p) \/ LockStep(p) \/ SpuriousWakeup(p)

LockSpec == LockInit /\ [][LockNext]_lockVars

-----------------------------------------------------------------------------
LockTypeOK ==
    /\ lock \in {Free, Taken}
    /\ lpc \in [Procs -> Places]

Owner == {p \in Procs : lpc[p] \in {"in", "release"}}

(***************************************************************************)
(* At most one process is between the return of xlock_lock and the         *)
(* compare-and-swap of its xlock_unlock, however calls, failed swaps,      *)
(* EAGAIN returns and wake-ups interleave.                                 *)
(***************************************************************************)
MutualExclusion == \A p, q \in Owner : p = q

(***************************************************************************)
(* The word is 1 exactly while somebody owns the lock: xlock_unlock never  *)
(* spins on a word already 0, and a word left at 1 always has somebody who *)
(* will clear it.                                                          *)
(***************************************************************************)
WordTracksOwner == (lock = Taken) <=> (Owner # {})

(***************************************************************************)
(* Nobody sleeps on a free lock unless a process is on its way to wake a   *)
(* sleeper or to take the lock (and so to wake one when it unlocks): the   *)
(* window between raw_unlock_it and FUTEX_WAKE, and the one between a      *)
(* failed raw_lock_it and FUTEX_WAIT, lose no wake-up.                     *)
(***************************************************************************)
NoLostWakeup ==
    (lock = Free /\ Asleep # {}) => \E p \in Procs : lpc[p] \in {"cas", "wake"}

(***************************************************************************)
(* The lock is deadlock free: once some process has called xlock_lock,     *)
(* some process gets the lock.  (A given process may be overtaken for      *)
(* ever: a woken process competes with newcomers.)                         *)
(***************************************************************************)
Trying == {p \in Procs : lpc[p] \in {"cas", "wait", "asleep"}}

DeadlockFree == (Trying # {}) ~> (Owner # {})

(***************************************************************************)
(* xlock implements the abstract lock: a successful raw_lock_it is its     *)
(* Acquire, a successful raw_unlock_it its Release, everything else is     *)
(* invisible to callers.                                                   *)
(***************************************************************************)
Abstract == INSTANCE AbstractLock WITH owner <- Owner

ImplementsAbstractLock == Abstract!Spec
=============================================================================
